-------------------------------- MODULE Api --------------------------------
(***************************************************************************)
(* The HTTP adapter (ledger-api/src/lib.rs).  A handler is the sequence of  *)
(* its stages: checks that only look at the request, statements on a pooled  *)
(* connection, admission permits, the validator call, the write transaction. *)
(* Requests run concurrently, so every stage that awaits, or that touches a  *)
(* semaphore, is a step; checks between two of them run at once.             *)
(* The edge timeout drops a handler wherever it awaits: its permits are      *)
(* dropped with it, while the statement it had sent still runs.              *)
(***************************************************************************)
EXTENDS Integers, Sequences, FiniteSets, FiniteSetsExt

CONSTANTS Slots,          \* the requests in flight or answered: bounds the run
          Requests,       \* what a client may send: [op, key, digest, faults]
          Connections,    \* the size of the store's pool
          MaxExpensive,   \* max_concurrent_expensive
          MaxValidations, \* max_concurrent_validations
          None

VARIABLES st,       \* the handler of each request
          durable,  \* the committed idempotency rows: scope -> digest and author
          commits   \* the requests whose own transaction committed

vars == <<st, durable, commits>>

-----------------------------------------------------------------------------
(* Stages *)

\* A condition on the request alone; a request with this fault is refused.
Check(fault, code) == [do |-> "check", of |-> fault, code |-> code]
Invalid(fault)     == Check(fault, "INVALID_REQUEST")
TooLarge(fault)    == Check(fault, "RESOURCE_LIMIT")
NotFound(fault)    == Check(fault, "NOT_FOUND")

\* A statement on a connection of its own, and the code of the empty answer.
Query(fault, code) == [do |-> "query", of |-> fault, code |-> code]

\* The replay lookup, and what a replayed result still needs before it is answered.
Replay(then)       == [do |-> "replay", then |-> then]

\* Reads under a permit: a reconstruction, a preview.
Work               == [do |-> "work"]
\* begin_with_limits: a replay lookup and a reconstruction in one read-only transaction.
Begin(then)        == [do |-> "begin", then |-> then]
Local              == [do |-> "local"]
Permits(n)         == [do |-> "permits", n |-> n]
Release            == [do |-> "release"]
Slot               == [do |-> "slot"]
Call               == [do |-> "call"]
Transact(then)     == [do |-> "transact", then |-> then]

-----------------------------------------------------------------------------
(* What every handler starts with *)

\* RequestContext is extracted first: the bearer credential, then the authenticator.
RequestContext ==
  << Check("bearer", "UNAUTHENTICATED"),
     Check("token", "UNAUTHENTICATED"),
     Check("key_source", "DEPENDENCY_UNAVAILABLE") >>

\* ValidJson is extracted last, before the handler's own first line.
ValidJson ==
  << TooLarge("body_size"), Invalid("content_type"), Invalid("document") >>

require(capability) == Check(capability, "FORBIDDEN")

idempotency_key == Invalid("idempotency_key")

\* A malformed, missing or foreign graph is NOT_FOUND alike.
authorized_graph == << NotFound("graph_id"), Query("graph", "NOT_FOUND") >>

Mutation(capability) ==
  RequestContext \o ValidJson \o <<require(capability), idempotency_key>>
  \o authorized_graph

Read == RequestContext \o <<require("read")>> \o authorized_graph

check_branch == Invalid("ref_name")
check_reason == Invalid("reason")
query_name   == << Invalid("name"), check_branch >>
query_limit  == Invalid("limit")

\* merge_permits: MERGE_PERMITS slots, but never more than the deployment has.
MERGE_PERMITS == 3
merge_permits == Max({1, Min({MERGE_PERMITS, MaxExpensive})})

-----------------------------------------------------------------------------
(* Bodies: the checks in the order the code makes them *)

canonical_prepare ==
  << check_branch, TooLarge("operations"), Invalid("no_operation"),
     TooLarge("metadata"), Invalid("activity"), Invalid("message"),
     Invalid("source_system"), Invalid("evidence"), TooLarge("quad_size"),
     Invalid("operation_kind"), Invalid("quad"), Invalid("patch"),
     Invalid("event_time") >>

canonical_accept == << check_branch, check_reason, Invalid("half_a_validation") >>

canonical_reject == << check_branch, check_reason >>

canonical_validate == << Invalid("hints"), TooLarge("hints_size") >>

canonical_branch_create == << check_branch, Invalid("source_name") >>

canonical_branch_lifecycle == << check_branch, check_reason >>

merge_spec == << check_branch, Invalid("same_branch"), Invalid("strategy") >>

canonical_merge_propose ==
  merge_spec \o << Invalid("preview_token"), Invalid("message"), Invalid("evidence") >>

canonical_merge_apply ==
  << Invalid("proposal_id"), Invalid("preview_token"),
     Invalid("half_a_validation"), check_reason >>

-----------------------------------------------------------------------------
(* Handlers *)

prepare == Mutation("propose") \o canonical_prepare \o <<Permits(1), Transact(<<>>)>>

accept ==
  Mutation("review") \o <<Invalid("candidate_id")>> \o canonical_accept
  \o <<Transact(<<>>)>>

reject ==
  Mutation("review") \o <<Invalid("candidate_id")>> \o canonical_reject
  \o <<Transact(<<>>)>>

\* A replayed validation is answered with its stored context.
load_context == <<Query("context", "VALIDATION_NOT_FOUND")>>

\* The expensive permit covers the reconstruction; the validation slot is held from the
\* call to the end, when no connection is.
validate ==
  Mutation("validate") \o <<Invalid("candidate_id")>> \o canonical_validate
  \o << Replay(load_context), Check("no_validator", "VALIDATOR_UNAVAILABLE"),
        Permits(1), Begin(<<Release>> \o load_context), Release, Slot,
        TooLarge("shipped_state"), Call, Transact(load_context) >>

merge_preview ==
  RequestContext \o ValidJson \o <<require("read")>> \o authorized_graph \o merge_spec
  \o <<Permits(merge_permits), Work>>

merge_propose ==
  Mutation("propose") \o canonical_merge_propose
  \o << Replay(<<>>), Permits(merge_permits), Replay(<<>>), Work, Transact(<<>>) >>

merge_apply == Mutation("review") \o canonical_merge_apply \o <<Transact(<<>>)>>

\* A protected branch also needs the admin capability.
create_branch ==
  RequestContext \o ValidJson
  \o << require("propose"), require("admin_if_protected"), idempotency_key >>
  \o authorized_graph \o canonical_branch_create \o <<Transact(<<>>)>>

change_branch ==
  Mutation("admin") \o canonical_branch_lifecycle \o <<Transact(<<>>)>>

read_validation ==
  Read \o << Check("candidate_id", "VALIDATION_NOT_FOUND"),
             Check("validation_id", "VALIDATION_NOT_FOUND"),
             Query("validation", "VALIDATION_NOT_FOUND"),
             Check("other_candidate", "VALIDATION_NOT_FOUND") >>

read_ref == Read \o query_name \o <<Query("ref", "NOT_FOUND")>>

list_branches == Read \o <<query_limit, Query("branches", "NOT_FOUND")>>

branch_status == Read \o query_name \o <<Query("branch", "BRANCH_NOT_FOUND")>>

branch_history ==
  Read \o query_name \o <<query_limit, Query("branch", "BRANCH_NOT_FOUND")>>

branch_log ==
  Read \o query_name
  \o << query_limit, Query("branch", "BRANCH_NOT_FOUND"), Query("log", "NOT_FOUND") >>

\* A read reconstructs no more than it may export.
read_state ==
  Read \o << NotFound("commit_id"), Query("member", "NOT_FOUND"), Permits(1), Work,
             TooLarge("export") >>

ready == <<Query("ready", "DEPENDENCY_UNAVAILABLE")>>

unknown_route == <<NotFound("route")>>

\* The read-only router over the file store: no connection, the same permits.
fs_head  == <<Local>>
fs_state == <<NotFound("commit_id"), Permits(1), Local, TooLarge("export")>>

router ==
  [ prepare |-> prepare, accept |-> accept, reject |-> reject,
    validate |-> validate, read_validation |-> read_validation,
    read_ref |-> read_ref, read_state |-> read_state,
    create_branch |-> create_branch, delete_branch |-> change_branch,
    restore_branch |-> change_branch, list_branches |-> list_branches,
    branch_status |-> branch_status, branch_history |-> branch_history,
    branch_log |-> branch_log, merge_preview |-> merge_preview,
    merge_propose |-> merge_propose, merge_apply |-> merge_apply,
    ready |-> ready, unknown |-> unknown_route,
    fs_head |-> fs_head, fs_state |-> fs_state ]

-----------------------------------------------------------------------------
(* Error envelopes *)

\* from_ledger.  Whatever could disclose a foreign graph, a commit's membership or the
\* storage is NOT_FOUND or INTERNAL.
from_ledger(error) ==
  CASE error = "HeadChanged"            -> "HEAD_CHANGED"
    [] error = "BranchNotFound"         -> "BRANCH_NOT_FOUND"
    [] error = "BranchExists"           -> "BRANCH_EXISTS"
    [] error = "BranchDeleted"          -> "BRANCH_DELETED"
    [] error = "BranchPointUnreachable" -> "BRANCH_POINT_UNREACHABLE"
    [] error = "BranchPolicyViolation"  -> "BRANCH_POLICY_VIOLATION"
    [] error = "BranchStateConflict"    -> "BRANCH_STATE_CONFLICT"
    [] error = "MergeStale"             -> "MERGE_STALE"
    [] error = "MergeConflict"          -> "MERGE_CONFLICT"
    [] error = "MergeNothingToDo"       -> "MERGE_NOTHING_TO_DO"
    [] error = "InvalidMergeBase"       -> "INVALID_MERGE_BASE"
    [] error = "IdempotencyConflict"    -> "IDEMPOTENCY_CONFLICT"
    [] error = "LineageMismatch"        -> "LINEAGE_MISMATCH"
    [] error = "BaseMismatch"           -> "BASE_MISMATCH"
    [] error = "NoEffectiveChange"      -> "NO_EFFECTIVE_CHANGE"
    [] error = "GraphNotActive"         -> "GRAPH_NOT_ACTIVE"
    [] error = "ValidationRequired"     -> "VALIDATION_REQUIRED"
    [] error = "ValidationRejected"     -> "VALIDATION_REJECTED"
    [] error = "ValidationStale"        -> "VALIDATION_STALE"
    [] error = "ValidationNotFound"     -> "VALIDATION_NOT_FOUND"
    [] error = "ValidatorUnavailable"   -> "VALIDATOR_UNAVAILABLE"
    [] error = "ValidatorError"         -> "VALIDATOR_ERROR"
    [] error = "ResourceLimit"          -> "RESOURCE_LIMIT"
    [] error = "DependencyTimeout"      -> "DEPENDENCY_TIMEOUT"
    [] error \in {"DependencyUnavailable", "SchemaIncompatible", "RuntimeIdentity"}
                                        -> "DEPENDENCY_UNAVAILABLE"
    [] error \in {"UnknownGraph", "NotFound", "MissingTarget"} -> "NOT_FOUND"
    [] error \in {"InvalidIdentifier", "InvalidTimestamp", "InvalidCommit",
                  "InvalidValidation"}  -> "INVALID_REQUEST"
    [] OTHER                            -> "INTERNAL"

\* The errors with which the store's write operations refuse a request they looked at.
StoreErrors ==
  { "HeadChanged", "BranchNotFound", "BranchExists", "BranchDeleted",
    "BranchPointUnreachable", "BranchPolicyViolation", "BranchStateConflict",
    "MergeStale", "MergeConflict", "MergeNothingToDo", "InvalidMergeBase",
    "LineageMismatch", "BaseMismatch", "NoEffectiveChange", "GraphNotActive",
    "ValidationRequired", "ValidationRejected", "ValidationStale",
    "ValidationNotFound", "ResourceLimit", "NotFound", "InvalidCommit", "Storage" }

\* Both are 503 RESOURCE_LIMIT; their messages tell a refused admission from a dropped
\* handler.
Busy      == "RESOURCE_LIMIT: too many concurrent operations"
TimeLimit == "RESOURCE_LIMIT: time limit"

-----------------------------------------------------------------------------
(* The state of a handler *)

Scope(q) == <<q.op, q.key>>

Idle ==
  [ status |-> "idle", q |-> None, rest |-> <<>>, conn |-> "none",
    held |-> 0, under |-> 0, slot |-> FALSE, result |-> None, code |-> None, knew |-> FALSE ]

Init ==
  /\ st = [r \in Slots |-> Idle]
  /\ durable = [s \in {Scope(q) : q \in Requests} |-> None]
  /\ commits = {}

\* The handler returns: its guards are dropped with it.
Reply(s, code) ==
  [s EXCEPT !.status = "answered", !.code = code, !.rest = <<>>,
            !.held = 0, !.slot = FALSE]

\* The next stage that awaits, or before it the first check that fails; 0 if neither is left.
FirstStop(s, rest) ==
  LET stops == {i \in 1 .. Len(rest) : rest[i].do # "check" \/ rest[i].of \in s.q.faults}
  IN  IF stops = {} THEN 0 ELSE Min(stops)

\* The checks up to the next stage that awaits; the first that fails answers.
Advance(s, rest) ==
  LET n == FirstStop(s, rest)
  IN  IF n = 0 THEN Reply(s, "OK")
      ELSE IF rest[n].do = "check" THEN Reply(s, rest[n].code)
      ELSE [s EXCEPT !.rest = SubSeq(rest, n, Len(rest))]

Serving(r) == st[r].status = "serving"
At(r, stage) == Serving(r) /\ Head(st[r].rest).do = stage
Disconnected(s) == [s EXCEPT !.conn = "none"]

Stored(r) == durable[Scope(st[r].q)]
SameDigest(r) == Stored(r).digest = st[r].q.digest

FreeConnections == Connections - Cardinality({r \in Slots : st[r].conn # "none"})
FreePermits     == MaxExpensive - MapThenSumSet(LAMBDA r : st[r].held, Slots)
FreeSlots       == MaxValidations - Cardinality({r \in Slots : st[r].slot})

-----------------------------------------------------------------------------
(* Steps of a handler *)

\* A request arrives and is checked up to its first await.
Arrive(r) ==
  /\ st[r].status = "idle"
  /\ \E q \in Requests :
       LET row == durable[Scope(q)]
       IN  st' = [st EXCEPT ![r] =
                    Advance([Idle EXCEPT !.status = "serving", !.q = q,
                               !.knew = row # None /\ row.digest = q.digest],
                            router[q.op])]
  /\ UNCHANGED <<durable, commits>>

\* try_acquire and try_acquire_many: never a wait.
TakePermits(r) ==
  /\ At(r, "permits")
  /\ LET n == Head(st[r].rest).n
     IN  st' = [st EXCEPT ![r] =
                  IF FreePermits >= n
                  THEN Advance([@ EXCEPT !.held = n], Tail(@.rest))
                  ELSE Reply(@, Busy)]
  /\ UNCHANGED <<durable, commits>>

ReleasePermits(r) ==
  /\ At(r, "release")
  /\ st' = [st EXCEPT ![r] = Advance([@ EXCEPT !.held = 0], Tail(@.rest))]
  /\ UNCHANGED <<durable, commits>>

TakeSlot(r) ==
  /\ At(r, "slot")
  /\ st' = [st EXCEPT ![r] =
              IF FreeSlots > 0 THEN Advance([@ EXCEPT !.slot = TRUE], Tail(@.rest))
              ELSE Reply(@, Busy)]
  /\ UNCHANGED <<durable, commits>>

\* The validator answers in time with something that can be recorded, or does not.
ValidatorAnswers(r) ==
  /\ At(r, "call")
  /\ \E outcome \in {"ok", "ValidatorUnavailable", "ValidatorError"} :
       st' = [st EXCEPT ![r] = IF outcome = "ok" THEN Advance(@, Tail(@.rest))
                               ELSE Reply(@, from_ledger(outcome))]
  /\ UNCHANGED <<durable, commits>>

ReadLocal(r) ==
  /\ At(r, "local")
  /\ st' = [st EXCEPT ![r] = Advance(@, Tail(@.rest))]
  /\ UNCHANGED <<durable, commits>>

NeedsConnection(r) ==
  /\ Serving(r)
  /\ Head(st[r].rest).do \in {"query", "replay", "begin", "work", "transact"}
  /\ st[r].conn = "none"

\* A statement is sent; a transaction first waits for the advisory lock of its scope.
Connect(r) ==
  /\ NeedsConnection(r)
  /\ FreeConnections > 0
  /\ st' = [st EXCEPT ![r] =
              [@ EXCEPT !.conn = IF Head(st[r].rest).do = "transact" THEN "waiting" ELSE "reading",
                        !.under = st[r].held]]
  /\ UNCHANGED <<durable, commits>>

PoolTimedOut(r) ==
  /\ NeedsConnection(r)
  /\ FreeConnections = 0
  /\ st' = [st EXCEPT ![r] = Reply(@, from_ledger("DependencyUnavailable"))]
  /\ UNCHANGED <<durable, commits>>

\* A stored row answers a request of the same digest and refuses any other.
FromRow(s, r, then) ==
  IF SameDigest(r) THEN Advance([s EXCEPT !.result = Stored(r).by], then)
  ELSE Reply(s, from_ledger("IdempotencyConflict"))

ReadEnds(r) ==
  /\ Serving(r)
  /\ st[r].conn = "reading"
  /\ LET g == Head(st[r].rest)
         s == Disconnected(st[r])
         refused == s.q.faults \cap StoreErrors
     IN  \/ /\ g.do = "query" /\ g.of \in s.q.faults
            /\ st' = [st EXCEPT ![r] = Reply(s, g.code)]
         \/ /\ g.do \in {"replay", "begin"} /\ Stored(r) # None
            /\ st' = [st EXCEPT ![r] = FromRow(s, r, g.then)]
         \/ /\ g.do = "work" \/ (g.do = "begin" /\ Stored(r) = None)
            /\ \E error \in refused : st' = [st EXCEPT ![r] = Reply(s, from_ledger(error))]
         \/ /\ CASE g.do = "query"  -> g.of \notin s.q.faults
                 [] g.do = "replay" -> Stored(r) = None
                 [] g.do = "begin"  -> Stored(r) = None /\ refused = {}
                 [] g.do = "work"   -> refused = {}
            /\ st' = [st EXCEPT ![r] = Advance(s, Tail(s.rest))]
  /\ UNCHANGED <<durable, commits>>

\* begin_scoped: the transactions of one scope run one after another.
LockIsFree(r) ==
  \A x \in Slots \ {r} :
     st[x].conn \in {"working", "committing"} => Scope(st[x].q) # Scope(st[r].q)

LockGranted(r) ==
  /\ Serving(r)
  /\ st[r].conn = "waiting"
  /\ LockIsFree(r)
  /\ st' = [st EXCEPT ![r].conn = "working"]
  /\ UNCHANGED <<durable, commits>>

\* The stored row decides; else the operation refuses, or everything is written and COMMIT
\* is sent.
BodyEnds(r) ==
  /\ Serving(r)
  /\ st[r].conn = "working"
  /\ LET s == Disconnected(st[r])
         refused == s.q.faults \cap StoreErrors
     IN  IF Stored(r) # None
         THEN st' = [st EXCEPT ![r] = FromRow(s, r, Head(s.rest).then)]
         ELSE IF refused # {}
         THEN \E error \in refused :
                st' = [st EXCEPT ![r] = Reply(s, from_ledger(error))]
         ELSE st' = [st EXCEPT ![r].conn = "committing"]
  /\ UNCHANGED <<durable, commits>>

Record(r) ==
  /\ durable' = [durable EXCEPT ![Scope(st[r].q)] = [digest |-> st[r].q.digest, by |-> r]]
  /\ commits' = commits \cup {r}

\* COMMIT is answered.  A dropped handler's commit takes effect all the same.
CommitEnds(r) ==
  /\ st[r].conn = "committing"
  /\ Record(r)
  /\ st' = [st EXCEPT ![r] =
              IF Serving(r) THEN Advance([Disconnected(@) EXCEPT !.result = r], Tail(@.rest))
              ELSE Disconnected(@)]

-----------------------------------------------------------------------------
(* Faults *)

LateTimeout(r) ==
  /\ Serving(r)
  /\ st[r].conn # "none"
  /\ \/ UNCHANGED <<durable, commits>>
     \/ st[r].conn = "committing" /\ Record(r)
  /\ st' = [st EXCEPT ![r] = Reply(Disconnected(@), from_ledger("DependencyTimeout"))]

\* statement_timeout, lock_timeout or a deadlock: the transaction is rolled back.
StatementTimesOut(r) ==
  /\ Serving(r)
  /\ st[r].conn \in {"reading", "waiting", "working"}
  /\ st' = [st EXCEPT ![r] = Reply(Disconnected(@), from_ledger("DependencyTimeout"))]
  /\ UNCHANGED <<durable, commits>>

\* The connection breaks; whether a COMMIT in flight took effect is not known.
ConnectionLost(r) ==
  /\ Serving(r)
  /\ st[r].conn # "none"
  /\ \/ UNCHANGED <<durable, commits>>
     \/ st[r].conn = "committing" /\ Record(r)
  /\ st' = [st EXCEPT ![r] = Reply(Disconnected(@), from_ledger("DependencyUnavailable"))]

\* correlation_and_timeout: the handler is dropped where it awaits.  Its statement runs on.
EdgeTimeout(r) ==
  /\ Serving(r)
  /\ st' = [st EXCEPT ![r] = Reply(@, TimeLimit)]
  /\ UNCHANGED <<durable, commits>>

\* The statement of a dropped handler ends, by itself or by the session's limits; nobody
\* sends the next one and its transaction is rolled back.
OrphanEnds(r) ==
  /\ ~Serving(r)
  /\ st[r].conn \in {"reading", "waiting", "working"}
  /\ st' = [st EXCEPT ![r] = Disconnected(@)]
  /\ UNCHANGED <<durable, commits>>

Step(r) ==
  \/ TakePermits(r) \/ ReleasePermits(r) \/ TakeSlot(r) \/ ValidatorAnswers(r)
  \/ ReadLocal(r) \/ Connect(r) \/ PoolTimedOut(r) \/ ReadEnds(r)
  \/ LockGranted(r) \/ BodyEnds(r)

Next ==
  \E r \in Slots :
     \/ Arrive(r) \/ Step(r) \/ CommitEnds(r) \/ OrphanEnds(r)
     \/ StatementTimesOut(r) \/ ConnectionLost(r) \/ EdgeTimeout(r)

\* The edge timer fires, and the session limits end every statement: both are armed for
\* each request whatever the others do.
Fairness ==
  \A r \in Slots :
     /\ WF_vars(EdgeTimeout(r))
     /\ WF_vars(CommitEnds(r))
     /\ WF_vars(OrphanEnds(r))

Spec == Init /\ [][Next]_vars /\ Fairness

-----------------------------------------------------------------------------
(* Properties *)

\* At most one transaction of a scope ever commits, whatever was retried after a timeout, a
\* lost connection or a dropped handler whose COMMIT was still in flight; and every success
\* answered for the scope names that one result (begin_scoped, stored_result).
OneResultPerScope ==
  /\ \A r, x \in commits : Scope(st[r].q) = Scope(st[x].q) => r = x
  /\ \A r \in Slots :
       st[r].result # None => /\ Stored(r) # None
                              /\ Stored(r).by = st[r].result
                              /\ SameDigest(r)

\* A refusal is final: a request answered with anything but success, the edge's time limit
\* or an unavailable database has changed nothing, and no statement of it will
\* ("was rolled back", "nothing was recorded" in from_ledger's messages).
RefusedDidNothing ==
  \A r \in Slots :
     st[r].code \notin {None, "OK", TimeLimit, "DEPENDENCY_UNAVAILABLE"}
       => r \notin commits /\ st[r].conn = "none"

\* A validate or merge propose whose result was stored when it arrived is never refused for
\* want of a permit, a slot or a validator (the replay lookups before admission).
ReplayNeedsNoAdmission ==
  \A r \in Slots :
     st[r].knew /\ st[r].q.op \in {"validate", "merge_propose"}
       => st[r].code \notin {Busy, "VALIDATOR_UNAVAILABLE", "VALIDATOR_ERROR"}

\* While the validator is being called the handler keeps no connection and no expensive
\* permit, only its validation slot (validate).
CallHoldsOnlyItsSlot ==
  \A r \in Slots :
     At(r, "call") => st[r].conn = "none" /\ st[r].held = 0 /\ st[r].slot

\* What can only be found out with the state in hand.
LateFaults == StoreErrors \cup {"shipped_state", "export", "context"}

\* Whoever holds a permit, a slot or the lock of a scope is an authenticated caller with the
\* capability, of a graph of its own, with a well-formed body (canonical_prepare: "before
\* any lock, slot or reconstruction").
ChecksBeforeAdmission ==
  \A r \in Slots :
     st[r].held > 0 \/ st[r].slot \/ st[r].conn \in {"waiting", "working", "committing"}
       => st[r].q.faults \subseteq LateFaults

\* Every request is answered and everything it held is given back, the connection of a
\* dropped handler included (correlation_and_timeout, the session limits).
AllIsGivenBack ==
  \A r \in Slots :
     Serving(r) ~> /\ st[r].status = "answered"
                   /\ st[r].conn = "none" /\ st[r].held = 0 /\ ~st[r].slot
=============================================================================

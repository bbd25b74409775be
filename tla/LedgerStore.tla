------------------------------ MODULE LedgerStore ------------------------------
(***************************************************************************)
(* The PostgreSQL ledger as the workflow repository sees it: the tables of *)
(* one graph, the transactions in flight over them, and the helpers every  *)
(* operation shares (crates/ledger-store/src/postgres_workflow.rs).        *)
(*                                                                         *)
(* A transaction is a client call of one repository method.  It runs at    *)
(* READ COMMITTED: each step below is one statement that locks or reads,   *)
(* and sees what is committed when it runs.  The writes of a transaction   *)
(* become visible together, so they are one step, the commit.  Locks are   *)
(* held to the end.  A refused check (an early return), a database error,  *)
(* a cancelled call, a lost connection and a crash all roll back: that is  *)
(* the one action Rollback, always possible, and the only one left to a    *)
(* transaction whose next check fails.                                     *)
(*                                                                         *)
(* Data are abstracted to what the properties tell apart.  A commit is its *)
(* publication number; every commit of a graph created active is published *)
(* by prepare or by merge propose, together with its proposal, so the      *)
(* proposals table also is the commit index and its parents.  An actor is  *)
(* the set of its accountable parties, principal and delegator.  A request *)
(* is its own digest.  Branch names are numbered in byte order.            *)
(*                                                                         *)
(* Unique indexes and triggers of the schema are not guards here: that the *)
(* code never runs into them is something to be shown (Ledger.tla).        *)
(***************************************************************************)
EXTENDS Integers, Sequences, FiniteSets

CONSTANTS
    Tx,           \* transaction slots: how many client calls are in flight
    Branch,       \* branch names, numbered in byte order; 0 is no branch
    Main,         \* the number of the name `main'
    Actor,        \* authenticated actors, each the set of its parties
    Operations,   \* the operations the clients of this instance call
    Key,          \* the idempotency keys they use for each of them
    Misdirected,  \* whether they also name another branch or head than a
                  \* proposal's when deciding it (refused, whatever happens)
    Policy,       \* the branch policies the clients ask for
    Service,      \* validation service identities
    Trusted,      \* the services this deployment trusts (at most one)
    Environment   \* semantic environments a validation may have run in

ASSUME StoreAssumption ==
    /\ IsFiniteSet(Tx)
    /\ Branch \subseteq Nat \ {0}
    /\ Main \in Branch
    /\ Misdirected \in BOOLEAN
    /\ Trusted \subseteq Service
    /\ Policy \subseteq [requireValidation : BOOLEAN,
                         requireDistinctReviewer : BOOLEAN]

VARIABLES
    graphStatus,   \* graphs.status
    lastCommit,    \* how many commits are published
    proposals,     \* proposals with their commit_parents and merge_proposals row
    refs,          \* refs: head and version of each branch (version 0: no row)
    refEvents,     \* ref_events
    branches,      \* branches (status "none": no row)
    branchEvents,  \* branch_events
    decisions,     \* decisions with decision_validations
    outbox,        \* projection_outbox
    validations,   \* validation_records with their contexts
    idempotency,   \* idempotency
    pc,            \* the next statement of each transaction
    req,           \* the request it serves
    cur,           \* the ref it read or locked
    src,           \* the source ref it read or locked
    held           \* the locks it holds

tables == <<lastCommit, proposals, refs, refEvents, branches, branchEvents,
            decisions, outbox, validations, idempotency>>
locals == <<pc, req, cur, src, held>>
vars   == <<graphStatus, tables, locals>>

NoCommit  == 0
NoName    == 0
NoRef     == [head |-> NoCommit, version |-> 0]
NoRequest == [op |-> "none"]
NoPolicy  == [requireValidation |-> FALSE, requireDistinctReviewer |-> FALSE]
NoBranch  == [status |-> "none", lifecycle |-> 0, source |-> NoName,
              point |-> NoCommit, policy |-> NoPolicy]

Commit == 1 .. lastCommit

KeyOf(op) == IF op \in Operations THEN Key[op] ELSE {}

(* The commits reachable from c, c included. *)
Parents(c) == UNION {{p.parents[i] : i \in DOMAIN p.parents} :
                        p \in {q \in proposals : q.candidate = c}}

Ancestors[c \in 0 .. lastCommit] ==
    IF c = NoCommit THEN {}
    ELSE {c} \cup UNION {Ancestors[p] : p \in Parents(c)}

-----------------------------------------------------------------------------
(* Locks.  Advisory: "idempotency" on a scope, "status" on the graph,       *)
(* "decision" on a proposal.  Row: "ref" and "branch".                      *)

Lock(kind, id, mode) == [kind |-> kind, id |-> id, mode |-> mode]

IsFree(t, l) ==
    \A u \in Tx \ {t} : \A m \in held[u] :
        (m.kind = l.kind /\ m.id = l.id) => (m.mode = "share" /\ l.mode = "share")

Acquire(t, l) == /\ IsFree(t, l)
                 /\ held' = [held EXCEPT ![t] = @ \cup {l}]

(* SELECT ... FOR UPDATE / FOR SHARE locks the row only if there is one. *)
LockRef(t, b, mode) == IF refs[b].version = 0 THEN UNCHANGED held
                       ELSE Acquire(t, Lock("ref", b, mode))

(* Mutant: a shared branch lock is not taken at all (a plain SELECT). *)
LockBranchUpdateOnly(t, b, mode) ==
    IF branches[b].status = "none" \/ mode = "share" THEN UNCHANGED held
    ELSE Acquire(t, Lock("branch", b, mode))

LockBranch(t, b, mode) == IF branches[b].status = "none" THEN UNCHANGED held
                          ELSE Acquire(t, Lock("branch", b, mode))

(* Mutant: the decision lock is taken in shared mode. *)
LockProposalDecisionShared(t, c) == Acquire(t, Lock("decision", c, "share"))

LockProposalDecision(t, c) == Acquire(t, Lock("decision", c, "exclusive"))

-----------------------------------------------------------------------------
(* Beginning and ending a transaction. *)

Step(t, from, to) == /\ pc[t] = from
                     /\ pc' = [pc EXCEPT ![t] = to]

Scope(r) == <<r.op, r.actor, r.key>>

StoredResult(r) == {i \in idempotency : Scope(i.req) = Scope(r)}

(* Mutant: the scope is looked up without its advisory lock. *)
BeginScopedUnlocked(t, r, from, to) ==
    LET statusLock == Lock("status", NoName, "share")
    IN  /\ Step(t, from, to)
        /\ StoredResult(r) = {}
        /\ graphStatus = "active"
        /\ held' = [held EXCEPT ![t] = {statusLock}]
        /\ req' = [req EXCEPT ![t] = r]
        /\ UNCHANGED <<graphStatus, tables, cur, src>>

(* begin_scoped, stored_result and graph_must_be_active: the scope's lock,  *)
(* then no completed result under it (a completed one is replayed, or is a  *)
(* conflict: either way nothing changes), then an active graph whose status *)
(* cannot change before this transaction ends.                             *)
BeginScoped(t, r, from, to) ==
    LET scopeLock  == Lock("idempotency", Scope(r), "exclusive")
        statusLock == Lock("status", NoName, "share")
    IN  /\ Step(t, from, to)
        /\ IsFree(t, scopeLock)
        /\ StoredResult(r) = {}
        /\ IsFree(t, statusLock)
        /\ graphStatus = "active"
        /\ held' = [held EXCEPT ![t] = {scopeLock, statusLock}]
        /\ req' = [req EXCEPT ![t] = r]
        /\ UNCHANGED <<graphStatus, tables, cur, src>>

EndTx(t) == /\ pc' = [pc EXCEPT ![t] = "idle"]
            /\ req' = [req EXCEPT ![t] = NoRequest]
            /\ cur' = [cur EXCEPT ![t] = NoRef]
            /\ src' = [src EXCEPT ![t] = NoRef]
            /\ held' = [held EXCEPT ![t] = {}]

CommitTx(t, from) == pc[t] = from /\ EndTx(t) /\ UNCHANGED graphStatus

Rollback(t) == /\ pc[t] # "idle"
               /\ EndTx(t)
               /\ UNCHANGED <<graphStatus, tables>>

(* A retry of a completed request waits for its scope and is answered from  *)
(* the stored result; the same key with another request is a conflict.      *)
Replay(t) == /\ pc[t] = "idle"
             /\ \E i \in idempotency :
                  IsFree(t, Lock("idempotency", Scope(i.req), "exclusive"))
             /\ UNCHANGED vars

(* The row record_result inserts: the request, and the commit, ref version  *)
(* and lifecycle version that identify what it did (0 where it has none).   *)
RecordResult(r, commit, version, lifecycle) ==
    idempotency' = idempotency \cup
        {[req |-> r, commit |-> commit, version |-> version, lifecycle |-> lifecycle]}

-----------------------------------------------------------------------------
(* Decisions. *)

Undecided(c) == \A d \in decisions : d.candidate # c

(* A citation names a record and the environment the reviewer accepts under.*)
Citation == {{}} \cup {{[validation |-> v, environment |-> e]} :
                          v \in validations, e \in Environment}

(* cited_validation: a record of this very candidate. *)
CitesCandidate(cites, c) == \A x \in cites : x.validation.candidate = c

(* Mutant: the verdict is not looked at. *)
CiteAnyVerdict(cites, c) ==
    /\ CitesCandidate(cites, c)
    /\ \A x \in cites : /\ x.validation.service \in Trusted
                        /\ x.validation.environment = x.environment

(* cite_validation: by a trusted service, conforming, in that environment. *)
CiteValidation(cites, c) ==
    /\ CitesCandidate(cites, c)
    /\ \A x \in cites : /\ x.validation.service \in Trusted
                        /\ x.validation.conforms
                        /\ x.validation.environment = x.environment

RequireDistinctParties(b, p, actor) ==
    branches[b].policy.requireDistinctReviewer => p.actor \cap actor = {}

Decision(p, decision, version, r) ==
    [candidate |-> p.candidate, branch |-> p.branch, decision |-> decision,
     version |-> version, actor |-> r.actor,
     validations |-> {x.validation : x \in r.cites}]

-----------------------------------------------------------------------------
(* Mutant: the status changes under transactions that checked it. *)
SetGraphStatusUnlocked ==
    /\ "set_status" \in Operations
    /\ graphStatus' \in {"active", "archived"} \ {graphStatus}
    /\ UNCHANGED <<tables, locals>>

(* The owner changes the graph's status (migration 0009 takes the exclusive *)
(* counterpart of the lock that graph_must_be_active shares).               *)
SetGraphStatus ==
    /\ "set_status" \in Operations
    /\ \A t \in Tx : Lock("status", NoName, "share") \notin held[t]
    /\ graphStatus' \in {"active", "archived"} \ {graphStatus}
    /\ UNCHANGED <<tables, locals>>

Init ==
    /\ graphStatus = "active"
    /\ lastCommit = 0
    /\ proposals = {}
    /\ refs = [b \in Branch |-> NoRef]
    /\ refEvents = {}
    /\ branches = [b \in Branch |-> NoBranch]
    /\ branchEvents = {}
    /\ decisions = {}
    /\ outbox = {}
    /\ validations = {}
    /\ idempotency = {}
    /\ pc = [t \in Tx |-> "idle"]
    /\ req = [t \in Tx |-> NoRequest]
    /\ cur = [t \in Tx |-> NoRef]
    /\ src = [t \in Tx |-> NoRef]
    /\ held = [t \in Tx |-> {}]
=============================================================================

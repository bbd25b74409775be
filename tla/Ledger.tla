---------------------------------- MODULE Ledger ----------------------------------
(***************************************************************************)
(* The ledger: every repository operation over one graph, interleaved, and *)
(* what must hold of the tables whatever the interleaving.  The properties *)
(* are the audit of crates/ledger-store/src/verify.rs, the claims its      *)
(* comments make about the locks, and the hard invariants of               *)
(* docs/product-specs/cognitive-ledger.md.                                 *)
(***************************************************************************)
EXTENDS Workflow, Validation, Branches, Merge

Next == \/ \E t \in Tx : \/ WorkflowStep(t)
                         \/ ValidationStep(t)
                         \/ BranchStep(t)
                         \/ MergeStep(t)
                         \/ Replay(t)
                         \/ Rollback(t)
        \/ SetGraphStatus

Spec == Init /\ [][Next]_vars

-----------------------------------------------------------------------------
(* Types. *)

Ref == [head : {NoCommit} \cup Commit, version : Nat]

ProposalRow ==
    [candidate : Commit, branch : Branch, expected : {NoCommit} \cup Commit,
     parents : Seq(Commit), actor : Actor, source : {NoName} \cup Branch,
     parties : SUBSET UNION Actor]

RefEvent ==
    [branch : Branch, old : {NoCommit} \cup Commit, new : Commit,
     version : Nat \ {0}, operation : {"genesis", "advance", "merge"}]

BranchRow ==
    [status : {"none", "active", "deleted"}, lifecycle : Nat,
     source : {NoName} \cup Branch, point : {NoCommit} \cup Commit,
     policy : Policy \cup {NoPolicy}]

BranchEvent ==
    [branch : Branch, lifecycle : Nat \ {0}, status : {"active", "deleted"},
     head : {NoCommit} \cup Commit, version : Nat]

ValidationRow ==
    [candidate : Commit, service : Service, conforms : BOOLEAN,
     environment : Environment]

DecisionRow ==
    [candidate : Commit, branch : Branch,
     decision : {"accepted", "rejected", "superseded"}, version : Nat,
     actor : Actor, validations : SUBSET ValidationRow]

OutboxRow == [branch : Branch, commit : Commit, version : Nat \ {0}]

KeyedRequest ==
    PrepareRequest \cup AcceptRequest \cup RejectRequest \cup ValidateRequest
    \cup CreateRequest \cup LifecycleRequest \cup ProposeRequest \cup ApplyRequest

IdempotencyRow ==
    [req : KeyedRequest, commit : {NoCommit} \cup Commit, version : Nat, lifecycle : Nat]

PreparePc   == {"prepare_branch", "prepare_read", "prepare_commit"}
AcceptPc    == {"accept_ref", "accept_branch", "accept_decide", "accept_commit"}
RejectPc    == {"reject_decide", "reject_commit"}
SupersedePc == {"supersede_decide", "supersede_commit"}
ValidatePc  == {"validate_call", "validate_record"}
CreatePc    == {"create_begin", "create_ref", "create_branch", "create_commit"}
LifecyclePc == {"lifecycle_branch", "lifecycle_read", "lifecycle_commit"}
ProposePc   == {"propose_source", "propose_begin", "propose_branch",
                "propose_recheck", "propose_commit"}
ApplyPc     == {"apply_ref_1", "apply_ref_2", "apply_branch_1", "apply_branch_2",
                "apply_decide", "apply_commit"}

TablesOK ==
    /\ graphStatus \in {"active", "archived"}
    /\ lastCommit \in Nat
    /\ proposals \subseteq ProposalRow
    /\ refs \in [Branch -> Ref]
    /\ refEvents \subseteq RefEvent
    /\ branches \in [Branch -> BranchRow]
    /\ branchEvents \subseteq BranchEvent
    /\ decisions \subseteq DecisionRow
    /\ outbox \subseteq OutboxRow
    /\ validations \subseteq ValidationRow
    /\ idempotency \subseteq IdempotencyRow

(* What a transaction serves, by where it is. *)
ServesItsRequest(t) ==
    \/ pc[t] = "idle" /\ req[t] = NoRequest /\ held[t] = {}
    \/ pc[t] \in PreparePc /\ req[t] \in PrepareRequest
    \/ pc[t] \in AcceptPc /\ req[t] \in AcceptRequest
    \/ pc[t] \in RejectPc /\ req[t] \in RejectRequest
    \/ pc[t] \in SupersedePc /\ req[t] \in SupersedeRequest
    \/ pc[t] \in ValidatePc /\ req[t] \in ValidateRequest
    \/ pc[t] \in CreatePc /\ req[t] \in CreateRequest
    \/ pc[t] \in LifecyclePc /\ req[t] \in LifecycleRequest
    \/ pc[t] \in ProposePc /\ req[t] \in ProposeRequest
    \/ pc[t] \in ApplyPc /\ req[t] \in ApplyRequest

LocalsOK ==
    /\ DOMAIN pc = Tx /\ DOMAIN req = Tx /\ DOMAIN held = Tx
    /\ cur \in [Tx -> Ref]
    /\ src \in [Tx -> Ref]
    /\ \A t \in Tx : ServesItsRequest(t)

(* Every table and every transaction holds values of its type; in           *)
(* particular a statement only ever runs for a request of its operation.    *)
TypeOK == TablesOK /\ LocalsOK

-----------------------------------------------------------------------------
(* History. *)

EventsOf(b) == {e \in refEvents : e.branch = b}

(* A ref is exactly the fold of its events (verify.rs: "ref version equals  *)
(* its event count", "ref head is the latest event's new head", the events  *)
(* chain): versions 1..version once each, each event leaving the head its   *)
(* predecessor installed, the last one installing the present head.  Two    *)
(* racing acceptances, a racing genesis or a racing branch create would     *)
(* break it by losing or repeating a version.                               *)
RefHistory ==
    \A b \in Branch :
        /\ \A v \in 1 .. refs[b].version : \E e \in EventsOf(b) : e.version = v
        /\ \A e, f \in EventsOf(b) :
             /\ e.version <= refs[b].version
             /\ e.version = f.version => e = f
             /\ f.version = e.version + 1 => f.old = e.new
        /\ \A e \in EventsOf(b) :
             /\ e.version = refs[b].version => e.new = refs[b].head
             /\ e.version = 1 <=> e.old = NoCommit

(* History is never rewritten: an event other than a ref's first moves it   *)
(* to a commit whose first parent is the head it leaves, so every head ever *)
(* installed stays an ancestor of the present one (verify.rs "every advance *)
(* is a fast-forward").                                                     *)
FastForwardOnly ==
    \A b \in Branch : \A e \in EventsOf(b) :
        /\ e.old # NoCommit => \E p \in proposals : /\ p.candidate = e.new
                                                    /\ p.parents # <<>>
                                                    /\ p.parents[1] = e.old
        /\ e.new \in Ancestors[refs[b].head]

(* Every movement is explained, and every acceptance happened (verify.rs):  *)
(* an event has exactly one accepted decision on its commit and one outbox  *)
(* row, except a created branch's first, which has neither; and nothing is  *)
(* accepted or queued for projection without its event.                     *)
MovementsAreDecided ==
    LET Decided(e) == {d \in decisions : /\ d.decision = "accepted"
                                         /\ d.branch = e.branch
                                         /\ d.version = e.version
                                         /\ d.candidate = e.new}
        Queued(e) == {o \in outbox : /\ o.branch = e.branch
                                     /\ o.version = e.version
                                     /\ o.commit = e.new}
        Created(e) == e.version = 1 /\ branches[e.branch].source # NoName
    IN  /\ \A e \in refEvents :
             IF Created(e) THEN Decided(e) = {} /\ Queued(e) = {}
             ELSE Cardinality(Decided(e)) = 1 /\ Cardinality(Queued(e)) = 1
        /\ \A d \in decisions : (d.decision = "accepted") =
             \E e \in refEvents : d \in Decided(e)
        /\ \A o \in outbox : \E e \in refEvents : o \in Queued(e)

-----------------------------------------------------------------------------
(* Decisions. *)

(* A candidate has at most one terminal decision, however accept, reject,   *)
(* supersede and merge apply race for it (lock_proposal_decision: "two      *)
(* deciders serialize and the second sees the first's decision").           *)
OneDecisionPerCandidate ==
    \A d, e \in decisions : d.candidate = e.candidate => d = e

(* A proposal marked superseded was and stays dead: its expected head is    *)
(* not the head of its branch, although mark_superseded reads that head     *)
(* without a lock.                                                          *)
SupersededStaysStale ==
    \A d \in decisions : d.decision = "superseded" =>
        \A p \in proposals : p.candidate = d.candidate =>
            p.expected # refs[p.branch].head

(* A request takes effect exactly once, whatever is retried or raced: one   *)
(* result row per idempotency scope, and as many rows in each table as      *)
(* there are results for the operations that insert there.                  *)
ExactlyOnce ==
    LET Done(ops) == Cardinality({i \in idempotency : i.req.op \in ops})
    IN  /\ \A i, j \in idempotency : Scope(i.req) = Scope(j.req) => i = j
        /\ Cardinality(proposals) = Done({"prepare", "merge_propose"})
        /\ Cardinality({d \in decisions : d.decision = "accepted"})
             = Done({"accept", "merge_apply"})
        /\ Cardinality({d \in decisions : d.decision = "rejected"}) = Done({"reject"})
        /\ Cardinality({e \in branchEvents : branches[e.branch].source # NoName})
             = Done({"branch_create", "branch_delete", "branch_restore"})

-----------------------------------------------------------------------------
(* Branches. *)

LifecycleEventsOf(b) == {e \in branchEvents : e.branch = b}

(* A tombstone holds its branch still: the lifecycle events are numbered    *)
(* 1..lifecycle, the last one has the branch's status, each names a place   *)
(* the ref really was in, and a deletion names the place where the ref      *)
(* still is while the branch is deleted and where its restoration resumes   *)
(* (verify.rs lifecycle checks), although delete never locks the ref.       *)
TombstoneHolds ==
    \A b \in Branch :
        /\ \A n \in 1 .. branches[b].lifecycle :
             \E e \in LifecycleEventsOf(b) : e.lifecycle = n
        /\ \A e, f \in LifecycleEventsOf(b) :
             /\ e.lifecycle <= branches[b].lifecycle
             /\ e.lifecycle = f.lifecycle => e = f
             /\ (e.status = "deleted" /\ f.lifecycle = e.lifecycle + 1)
                  => f.status = "active" /\ f.head = e.head /\ f.version = e.version
        /\ \A e \in LifecycleEventsOf(b) :
             /\ \E m \in refEvents : m.branch = b /\ m.version = e.version /\ m.new = e.head
             /\ e.lifecycle = branches[b].lifecycle => e.status = branches[b].status
        /\ branches[b].status = "deleted" =>
             \A e \in LifecycleEventsOf(b) : e.lifecycle = branches[b].lifecycle =>
                 refs[b] = [head |-> e.head, version |-> e.version]

(* A created branch starts in its source's history, although the point was  *)
(* checked against a head read before the transaction ("a commit reachable  *)
(* from the head read here stays reachable from any later head").           *)
BranchPointInSource ==
    \A b \in Branch : branches[b].source # NoName =>
        /\ branches[b].point \in Ancestors[refs[branches[b].source].head]
        /\ \E e \in EventsOf(b) : e.version = 1 /\ e.new = branches[b].point

(* Nothing happens on a deleted branch: its ref does not move and nothing   *)
(* is proposed onto it (prepare, accept and the merges hold the branch row  *)
(* FOR SHARE, delete FOR UPDATE).                                           *)
DeletedBranchIsInert ==
    [][\A b \in Branch : branches[b].status = "deleted" =>
          /\ refs'[b] = refs[b]
          /\ \A p \in proposals' \ proposals : p.branch # b]_vars

-----------------------------------------------------------------------------
(* Policies. *)

(* On a branch that requires a distinct reviewer, whoever accepted a        *)
(* movement proposed none of the commits it made reachable: not the         *)
(* candidate, and for a merge nothing of what the source brought in ("a     *)
(* merge never launders self-reviewed work into a four-eyes target").       *)
FourEyes ==
    \A d \in decisions :
        (d.decision = "accepted" /\ branches[d.branch].policy.requireDistinctReviewer) =>
            \A e \in EventsOf(d.branch) : e.version = d.version =>
                \A p \in proposals :
                    p.candidate \in Ancestors[e.new] \ Ancestors[e.old] =>
                        p.actor \cap d.actor = {}

(* A branch that requires validation only advances to candidates with a     *)
(* cited validation, and every citation of an acceptance is a recorded,     *)
(* conforming verdict of a trusted service on that very candidate.          *)
ValidatedWhereRequired ==
    \A d \in decisions : d.decision = "accepted" =>
        /\ branches[d.branch].policy.requireValidation => d.validations # {}
        /\ \A v \in d.validations : /\ v \in validations
                                    /\ v.candidate = d.candidate
                                    /\ v.conforms
                                    /\ v.service \in Trusted

-----------------------------------------------------------------------------
(* Merges and the graph's status. *)

(* A merge is installed only while it is exact: in the very step that moves *)
(* the target, the target leaves the previewed target head and the source   *)
(* still is at the previewed source head, active ("two opposite merges      *)
(* serialize and the second sees a moved source").                          *)
MergeIsCurrent ==
    [][\A e \in refEvents' \ refEvents : e.operation = "merge" =>
          \E p \in proposals :
            /\ p.candidate = e.new
            /\ p.parents = <<refs[e.branch].head, refs[p.source].head>>
            /\ branches[p.source].status = "active"]_vars

(* Nothing is written to a graph that is not active, by any transaction     *)
(* that began while it was (the status lock of migration 0009).             *)
ArchivedGraphIsFrozen == [][graphStatus # "active" => UNCHANGED tables]_vars

-----------------------------------------------------------------------------
(* Locks. *)

(* The locks are enough: when a transaction reaches its commit, what it     *)
(* checked still holds, so the unique indexes and triggers behind it never  *)
(* fire: its result is not recorded yet, the candidate it decides is still  *)
(* undecided, the ref it locked or read under the branch lock is unchanged, *)
(* and the branch it writes onto is active.                                 *)
LocksSuffice ==
    \A t \in Tx :
        /\ pc[t] \in {"prepare_commit", "accept_commit", "reject_commit",
                      "validate_record", "create_commit", "lifecycle_commit",
                      "propose_commit", "apply_commit"}
             => StoredResult(req[t]) = {} /\ graphStatus = "active"
        /\ pc[t] \in {"accept_commit", "reject_commit", "supersede_commit",
                      "apply_commit"} => Undecided(req[t].candidate)
        /\ pc[t] = "accept_commit" /\ cur[t].version # 0 =>
             /\ refs[req[t].branch] = cur[t]
             /\ branches[req[t].branch].status = "active"
        /\ pc[t] = "lifecycle_commit" =>
             /\ refs[req[t].name] = cur[t]
             /\ branches[req[t].name].status = StatusBefore(req[t])
        /\ pc[t] = "apply_commit" =>
             \E p \in MergeRow(req[t].candidate) :
               /\ refs[p.branch] = cur[t] /\ refs[p.source] = src[t]
               /\ branches[p.branch].status = "active"
               /\ branches[p.source].status = "active"

(* The lock the next statement of t waits for while t holds others. *)
Wanted(t) ==
    LET r == req[t]
        RowLock(kind, n) ==
            {Lock(kind, InNameOrder(p, n),
                  IF kind = "ref" /\ InNameOrder(p, n) = p.branch
                  THEN "exclusive" ELSE "share") : p \in MergeRow(r.candidate)}
    IN  CASE pc[t] \in {"prepare_branch", "accept_branch"} ->
                 {Lock("branch", r.branch, "share")}
          [] pc[t] = "propose_branch"   -> {Lock("branch", r.target, "share")}
          [] pc[t] = "create_branch"    -> {Lock("branch", r.source, "share")}
          [] pc[t] = "lifecycle_branch" -> {Lock("branch", r.name, "exclusive")}
          [] pc[t] = "accept_ref"       -> {Lock("ref", r.branch, "exclusive")}
          [] pc[t] = "create_ref"       -> {Lock("ref", r.source, "share")}
          [] pc[t] \in {"accept_decide", "reject_decide", "supersede_decide",
                        "apply_decide"} ->
                 {Lock("decision", r.candidate, "exclusive")}
          [] pc[t] = "apply_ref_1"      -> RowLock("ref", 1)
          [] pc[t] = "apply_ref_2"      -> RowLock("ref", 2)
          [] pc[t] = "apply_branch_1"   -> RowLock("branch", 1)
          [] pc[t] = "apply_branch_2"   -> RowLock("branch", 2)
          [] OTHER -> {}

WaitsFor(t, u) ==
    \E l \in Wanted(t), m \in held[u] :
        /\ l.kind = m.kind /\ l.id = m.id
        /\ l.mode = "exclusive" \/ m.mode = "exclusive"

(* No set of transactions waits in a circle ("every multi-ref lock precedes *)
(* every branch lock, so no wait cycle with accept, branch create or        *)
(* delete/restore").                                                        *)
NoWaitCycle ==
    \A S \in (SUBSET Tx) \ {{}} : \E t \in S : \A u \in S \ {t} : ~WaitsFor(t, u)

-----------------------------------------------------------------------------
(* What the runs check together. *)

(* The transactions serialize: each takes effect exactly once, finds at its *)
(* commit what it checked before, and never waits in a circle for the       *)
(* others (begin_scoped, and the order of the lock statements in            *)
(* ledger-store).                                                           *)
TransactionsSerialize == ExactlyOnce /\ LocksSuffice /\ NoWaitCycle

(* Every ref is where decisions put it: it only moves forward, each         *)
(* movement has its one acceptance and its one queue entry, and what was    *)
(* superseded can never be accepted after all.                              *)
HistoryIsDecided == FastForwardOnly /\ MovementsAreDecided /\ SupersededStaysStale

(* Branches stay where their lifecycle says: a tombstone holds its ref, and *)
(* a created branch starts inside its source's history.                     *)
BranchesHold == TombstoneHolds /\ BranchPointInSource
=============================================================================

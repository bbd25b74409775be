-------------------------------- MODULE Branches --------------------------------
(***************************************************************************)
(* Named branches: create, delete (a tombstone) and restore                *)
(* (crates/ledger-store/src/postgres_branches.rs).                         *)
(***************************************************************************)
EXTENDS LedgerStore

(* from = NoCommit asks for the source's head. *)
CreateRequest ==
    [op : {"branch_create"}, actor : Actor, key : KeyOf("branch_create"),
     name : Branch \ {Main}, source : Branch, from : {NoCommit} \cup Commit,
     policy : Policy]

LifecycleRequest ==
    UNION {[op : {op}, actor : Actor, key : KeyOf(op), name : Branch \ {Main}] :
             op \in {"branch_delete", "branch_restore"}}

-----------------------------------------------------------------------------
(* create_branch. *)

(* A named branch point is checked before the transaction, without locks,   *)
(* against the source ref as it is now (reachable_from_source).             *)
CreateReadSource(t) ==
    \E r \in CreateRequest :
        /\ Step(t, "idle", "create_begin")
        /\ r.from # NoCommit => StoredResult(r) = {}
        /\ req' = [req EXCEPT ![t] = r]
        /\ src' = [src EXCEPT ![t] =
                     IF r.from # NoCommit /\ graphStatus = "active"
                     THEN refs[r.source] ELSE NoRef]
        /\ UNCHANGED <<graphStatus, tables, cur, held>>

CreateBegin(t) == BeginScoped(t, req[t], "create_begin", "create_ref")

CreateLockRef(t) ==
    LET s == req[t].source
    IN  /\ Step(t, "create_ref", "create_branch")
        /\ refs[s].version # 0
        /\ LockRef(t, s, "share")
        /\ cur' = [cur EXCEPT ![t] = refs[s]]
        /\ UNCHANGED <<graphStatus, tables, req, src>>

(* Exactly one chained event per version after `from', up to `to'. *)
MovedByAuditedFastForwards(b, headThen, from, to) ==
    LET E == {e \in refEvents : e.branch = b /\ e.version > from /\ e.version <= to}
    IN  /\ to >= from
        /\ Cardinality(E) = to - from
        /\ \A e \in E :
             LET prev == {p \in E : p.version = e.version - 1}
             IN  IF prev = {} THEN e.old = headThen
                 ELSE \A p \in prev : e.old = p.new

(* The point is the locked head, or was reachable from the head read before *)
(* the transaction, which has since moved only by audited steps.            *)
PointIsReachable(r, then, now) ==
    \/ r.from \in {NoCommit, now.head}
    \/ /\ then.version # 0
       /\ r.from \in Ancestors[then.head]
       /\ \/ then.version = now.version
          \/ MovedByAuditedFastForwards(r.source, then.head, then.version, now.version)

CreateLockBranch(t) ==
    LET r == req[t]
    IN  /\ Step(t, "create_branch", "create_commit")
        /\ LockBranch(t, r.source, "share")
        /\ branches[r.source].status = "active"
        /\ PointIsReachable(r, src[t], cur[t])
        /\ UNCHANGED <<graphStatus, tables, req, cur, src>>

(* What a creation writes.  The new ref has an event but no decision. *)
CreateWrites(r, read) ==
    LET b == r.name
        point == IF r.from = NoCommit THEN read.head ELSE r.from
    IN  /\ refs' = [refs EXCEPT ![b] = [head |-> point, version |-> 1]]
        /\ refEvents' = refEvents \cup
             {[branch |-> b, old |-> NoCommit, new |-> point, version |-> 1,
               operation |-> "genesis"]}
        /\ branches' = [branches EXCEPT ![b] =
             [status |-> "active", lifecycle |-> 1, source |-> r.source,
              point |-> point, policy |-> r.policy]]
        /\ branchEvents' = branchEvents \cup
             {[branch |-> b, lifecycle |-> 1, status |-> "active",
               head |-> point, version |-> 1]}
        /\ RecordResult(r, point, 1, 1)
        /\ UNCHANGED <<lastCommit, proposals, decisions, outbox, validations>>

(* The ref is inserted ON CONFLICT DO NOTHING: an existing name, deleted or *)
(* not, is refused.                                                         *)
CreateCommit(t) ==
    /\ CommitTx(t, "create_commit")
    /\ refs[req[t].name].version = 0
    /\ CreateWrites(req[t], cur[t])

-----------------------------------------------------------------------------
(* change_branch_status: delete_branch and restore_branch. *)

StatusBefore(r) == IF r.op = "branch_delete" THEN "active" ELSE "deleted"
StatusAfter(r)  == IF r.op = "branch_delete" THEN "deleted" ELSE "active"

LifecycleBegin(t) ==
    \E r \in LifecycleRequest : BeginScoped(t, r, "idle", "lifecycle_branch")

(* Mutant: the branch is locked FOR SHARE. *)
LifecycleLockBranchShared(t) ==
    LET r == req[t]
    IN  /\ Step(t, "lifecycle_branch", "lifecycle_read")
        /\ LockBranch(t, r.name, "share")
        /\ branches[r.name].status = StatusBefore(r)
        /\ UNCHANGED <<graphStatus, tables, req, cur, src>>

LifecycleLockBranch(t) ==
    LET r == req[t]
    IN  /\ Step(t, "lifecycle_branch", "lifecycle_read")
        /\ LockBranch(t, r.name, "exclusive")
        /\ branches[r.name].status = StatusBefore(r)
        /\ UNCHANGED <<graphStatus, tables, req, cur, src>>

(* The ref is read without a lock of its own. *)
LifecycleReadRef(t) ==
    /\ Step(t, "lifecycle_read", "lifecycle_commit")
    /\ cur' = [cur EXCEPT ![t] = refs[req[t].name]]
    /\ UNCHANGED <<graphStatus, tables, req, src, held>>

LifecycleCommit(t) ==
    LET r == req[t]
        b == r.name
        n == branches[b].lifecycle + 1
    IN  /\ CommitTx(t, "lifecycle_commit")
        /\ branches' = [branches EXCEPT ![b] =
             [@ EXCEPT !.status = StatusAfter(r), !.lifecycle = n]]
        /\ branchEvents' = branchEvents \cup
             {[branch |-> b, lifecycle |-> n, status |-> StatusAfter(r),
               head |-> cur[t].head, version |-> cur[t].version]}
        /\ RecordResult(r, cur[t].head, cur[t].version, n)
        /\ UNCHANGED <<lastCommit, proposals, refs, refEvents, decisions,
                       outbox, validations>>

BranchStep(t) ==
    \/ CreateReadSource(t) \/ CreateBegin(t) \/ CreateLockRef(t)
    \/ CreateLockBranch(t) \/ CreateCommit(t)
    \/ LifecycleBegin(t) \/ LifecycleLockBranch(t)
    \/ LifecycleReadRef(t) \/ LifecycleCommit(t)
=============================================================================

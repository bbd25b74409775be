-------------------------------- MODULE Workflow --------------------------------
(***************************************************************************)
(* prepare, accept, reject and mark_superseded                             *)
(* (crates/ledger-store/src/postgres_workflow.rs).                         *)
(***************************************************************************)
EXTENDS LedgerStore

PrepareRequest ==
    [op : {"prepare"}, actor : Actor, key : KeyOf("prepare"),
     branch : Branch, expected : {NoCommit} \cup Commit]

AcceptRequest ==
    {r \in [op : {"accept"}, actor : Actor, key : KeyOf("accept"),
            branch : Branch, expected : {NoCommit} \cup Commit, candidate : Commit,
            cites : Citation] :
        Misdirected \/ \E p \in proposals : /\ p.candidate = r.candidate
                                            /\ p.branch = r.branch
                                            /\ p.expected = r.expected}

RejectRequest ==
    {r \in [op : {"reject"}, actor : Actor, key : KeyOf("reject"),
            branch : Branch, candidate : Commit, cites : Citation] :
        Misdirected \/ \E p \in proposals : /\ p.candidate = r.candidate
                                            /\ p.branch = r.branch}

SupersedeRequest ==
    [op : {"supersede"} \cap Operations, actor : Actor, candidate : Commit,
     cites : {{}}]

-----------------------------------------------------------------------------
(* prepare.  The delta may turn out to be empty, not to apply, or to exceed *)
(* the limits: the transaction rolls back.                                  *)

PrepareBegin(t) ==
    \E r \in PrepareRequest : BeginScoped(t, r, "idle", "prepare_branch")

(* Mutant: the branch is locked but its status is not looked at. *)
PrepareLockBranchAnyStatus(t) ==
    LET b == req[t].branch
    IN  /\ Step(t, "prepare_branch", "prepare_read")
        /\ LockBranch(t, b, "share")
        /\ branches[b].status # "none" \/ b = Main
        /\ UNCHANGED <<graphStatus, tables, req, cur, src>>

(* The branch is held active until commit; only `main' may be absent. *)
PrepareLockBranch(t) ==
    LET b == req[t].branch
    IN  /\ Step(t, "prepare_branch", "prepare_read")
        /\ LockBranch(t, b, "share")
        /\ \/ branches[b].status = "active"
           \/ branches[b].status = "none" /\ b = Main
        /\ UNCHANGED <<graphStatus, tables, req, cur, src>>

(* The head is read without a lock: it may move before the commit. *)
PrepareReadHead(t) ==
    /\ Step(t, "prepare_read", "prepare_commit")
    /\ refs[req[t].branch].head = req[t].expected
    /\ cur' = [cur EXCEPT ![t] = refs[req[t].branch]]
    /\ UNCHANGED <<graphStatus, tables, req, src, held>>

PrepareCommit(t) ==
    LET r == req[t]
        c == lastCommit + 1
    IN  /\ CommitTx(t, "prepare_commit")
        /\ lastCommit' = c
        /\ proposals' = proposals \cup
             {[candidate |-> c, branch |-> r.branch, expected |-> r.expected,
               parents |-> IF r.expected = NoCommit THEN <<>> ELSE <<r.expected>>,
               actor |-> r.actor, source |-> NoName, parties |-> {}]}
        /\ RecordResult(r, c, 0, 0)
        /\ UNCHANGED <<refs, refEvents, branches, branchEvents, decisions,
                       outbox, validations>>

-----------------------------------------------------------------------------
(* accept. *)

AcceptBegin(t) ==
    \E r \in AcceptRequest : BeginScoped(t, r, "idle", "accept_ref")

AcceptLockRef(t) ==
    LET b == req[t].branch
    IN  /\ Step(t, "accept_ref", "accept_branch")
        /\ LockRef(t, b, "exclusive")
        /\ cur' = [cur EXCEPT ![t] = refs[b]]
        /\ UNCHANGED <<graphStatus, tables, req, src>>

AcceptLockBranch(t) ==
    LET r == req[t]
        b == r.branch
    IN  /\ Step(t, "accept_branch", "accept_decide")
        /\ LockBranch(t, b, "share")
        /\ \/ branches[b].status = "active"
           \/ branches[b].status = "none" /\ b = Main /\ cur[t].version = 0
        /\ branches[b].policy.requireValidation => r.cites # {}
        /\ cur[t].head = r.expected
        /\ UNCHANGED <<graphStatus, tables, req, cur, src>>

(* bound_undecided_proposal, the distinct reviewer, the citation and the    *)
(* candidate's lineage.                                                     *)
AcceptDecide(t) ==
    LET r == req[t]
    IN  /\ Step(t, "accept_decide", "accept_commit")
        /\ LockProposalDecision(t, r.candidate)
        /\ Undecided(r.candidate)
        /\ \E p \in proposals :
             /\ p.candidate = r.candidate
             /\ p.branch = r.branch
             /\ p.expected = r.expected
             /\ RequireDistinctParties(r.branch, p, r.actor)
             /\ IF cur[t].version = 0 THEN p.parents = <<>>
                ELSE Len(p.parents) = 1 /\ p.parents[1] = r.expected
        /\ CiteValidation(r.cites, r.candidate)
        /\ UNCHANGED <<graphStatus, tables, req, cur, src>>

(* What an acceptance that read `read' writes: the ref's new row, its event *)
(* and, for a genesis, the branch with its first lifecycle event; the       *)
(* decision, the outbox row and the result.                                 *)
AcceptWrites(r, read, outboxVersion) ==
    LET b == r.branch
        v == read.version + 1
        genesis == read.version = 0
    IN  /\ refs' = [refs EXCEPT ![b] = [head |-> r.candidate, version |-> @.version + 1]]
        /\ refEvents' = refEvents \cup
             {[branch |-> b, old |-> read.head, new |-> r.candidate, version |-> v,
               operation |-> IF genesis THEN "genesis" ELSE "advance"]}
        /\ IF genesis
           THEN /\ branches' = [branches EXCEPT ![b] =
                      [NoBranch EXCEPT !.status = "active", !.lifecycle = 1]]
                /\ branchEvents' = branchEvents \cup
                     {[branch |-> b, lifecycle |-> 1, status |-> "active",
                       head |-> r.candidate, version |-> 1]}
           ELSE UNCHANGED <<branches, branchEvents>>
        /\ \E p \in proposals :
             /\ p.candidate = r.candidate
             /\ decisions' = decisions \cup {Decision(p, "accepted", v, r)}
        /\ outbox' = outbox \cup
             {[branch |-> b, commit |-> r.candidate, version |-> outboxVersion]}
        /\ RecordResult(r, r.candidate, v, 0)
        /\ UNCHANGED <<lastCommit, proposals, validations>>

(* Mutant: a genesis overwrites a ref inserted since it looked (ON CONFLICT *)
(* DO UPDATE).                                                              *)
AcceptCommitOverwrites(t) ==
    /\ CommitTx(t, "accept_commit")
    /\ AcceptWrites(req[t], cur[t], cur[t].version + 1)

(* Mutant: the outbox row carries the version the ref had before. *)
AcceptCommitQueuesOldVersion(t) ==
    /\ CommitTx(t, "accept_commit")
    /\ refs[req[t].branch].head = cur[t].head
    /\ AcceptWrites(req[t], cur[t], cur[t].version)

(* The ref is inserted ON CONFLICT DO NOTHING, or updated WHERE head is the *)
(* one read; either way the call fails unless the head still is that one.   *)
AcceptCommit(t) ==
    /\ CommitTx(t, "accept_commit")
    /\ refs[req[t].branch].head = cur[t].head
    /\ AcceptWrites(req[t], cur[t], cur[t].version + 1)

-----------------------------------------------------------------------------
(* reject: neither the ref nor the branch matters, only the proposal. *)

RejectBegin(t) ==
    \E r \in RejectRequest : BeginScoped(t, r, "idle", "reject_decide")

RejectDecide(t) ==
    LET r == req[t]
    IN  /\ Step(t, "reject_decide", "reject_commit")
        /\ \E p \in proposals : p.candidate = r.candidate /\ p.branch = r.branch
        /\ LockProposalDecision(t, r.candidate)
        /\ Undecided(r.candidate)
        /\ CitesCandidate(r.cites, r.candidate)
        /\ UNCHANGED <<graphStatus, tables, req, cur, src>>

RejectCommit(t) ==
    LET r == req[t]
    IN  /\ CommitTx(t, "reject_commit")
        /\ \E p \in proposals :
             /\ p.candidate = r.candidate
             /\ decisions' = decisions \cup {Decision(p, "rejected", 0, r)}
        /\ RecordResult(r, r.candidate, 0, 0)
        /\ UNCHANGED <<lastCommit, proposals, refs, refEvents, branches,
                       branchEvents, outbox, validations>>

-----------------------------------------------------------------------------
(* mark_superseded: an operator call without an idempotency key.  The head  *)
(* is read without a lock.                                                  *)

SupersedeBegin(t) ==
    /\ Step(t, "idle", "supersede_decide")
    /\ IsFree(t, Lock("status", NoName, "share"))
    /\ graphStatus = "active"
    /\ \E r \in SupersedeRequest : req' = [req EXCEPT ![t] = r]
    /\ held' = [held EXCEPT ![t] = {Lock("status", NoName, "share")}]
    /\ UNCHANGED <<graphStatus, tables, cur, src>>

SupersedeDecide(t) ==
    LET c == req[t].candidate
    IN  /\ Step(t, "supersede_decide", "supersede_commit")
        /\ LockProposalDecision(t, c)
        /\ Undecided(c)
        /\ \E p \in proposals :
             /\ p.candidate = c
             /\ p.expected # refs[p.branch].head
             /\ cur' = [cur EXCEPT ![t] = refs[p.branch]]
        /\ UNCHANGED <<graphStatus, tables, req, src>>

SupersedeCommit(t) ==
    LET r == req[t]
    IN  /\ CommitTx(t, "supersede_commit")
        /\ \E p \in proposals :
             /\ p.candidate = r.candidate
             /\ decisions' = decisions \cup {Decision(p, "superseded", 0, r)}
        /\ UNCHANGED <<lastCommit, proposals, refs, refEvents, branches,
                       branchEvents, outbox, validations, idempotency>>

WorkflowStep(t) ==
    \/ PrepareBegin(t) \/ PrepareLockBranch(t) \/ PrepareReadHead(t) \/ PrepareCommit(t)
    \/ AcceptBegin(t) \/ AcceptLockRef(t) \/ AcceptLockBranch(t)
    \/ AcceptDecide(t) \/ AcceptCommit(t)
    \/ RejectBegin(t) \/ RejectDecide(t) \/ RejectCommit(t)
    \/ SupersedeBegin(t) \/ SupersedeDecide(t) \/ SupersedeCommit(t)
=============================================================================

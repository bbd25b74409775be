---------------------------------- MODULE Merge ----------------------------------
(***************************************************************************)
(* Merge propose and merge apply                                           *)
(* (crates/ledger-store/src/postgres_merge.rs).                            *)
(*                                                                         *)
(* A preview token identifies the two heads it was computed from (the base *)
(* and the merged state follow from them), so a request carries the heads. *)
(***************************************************************************)
EXTENDS LedgerStore

ProposeRequest ==
    {r \in [op : {"merge_propose"}, actor : Actor, key : KeyOf("merge_propose"),
            target : Branch, source : Branch, targetHead : Commit, sourceHead : Commit] :
        r.target # r.source}

ApplyRequest ==
    [op : {"merge_apply"}, actor : Actor, key : KeyOf("merge_apply"),
     candidate : Commit, cites : Citation]

-----------------------------------------------------------------------------
(* merge_propose. *)

(* merge_preview_reported reads the two branches one after the other,       *)
(* without locks or a transaction.                                          *)
ProposeReadTarget(t) ==
    \E r \in ProposeRequest :
        /\ Step(t, "idle", "propose_source")
        /\ StoredResult(r) = {}
        /\ branches[r.target].status = "active"
        /\ refs[r.target].head = r.targetHead
        /\ req' = [req EXCEPT ![t] = r]
        /\ cur' = [cur EXCEPT ![t] = refs[r.target]]
        /\ UNCHANGED <<graphStatus, tables, src, held>>

(* Neither equal nor contained nor unrelated: a fast-forward or a divergent *)
(* merge.  A conflict or a merge that creates nothing is refused here.      *)
HasCandidate(target, source) ==
    /\ source \notin Ancestors[target]
    /\ Ancestors[source] \cap Ancestors[target] # {}

ProposeReadSource(t) ==
    LET r == req[t]
    IN  /\ Step(t, "propose_source", "propose_begin")
        /\ branches[r.source].status = "active"
        /\ refs[r.source].head = r.sourceHead
        /\ HasCandidate(r.targetHead, r.sourceHead)
        /\ src' = [src EXCEPT ![t] = refs[r.source]]
        /\ UNCHANGED <<graphStatus, tables, req, cur, held>>

ProposeBegin(t) == BeginScoped(t, req[t], "propose_begin", "propose_branch")

ProposeLockBranch(t) ==
    LET r == req[t]
    IN  /\ Step(t, "propose_branch", "propose_recheck")
        /\ LockBranch(t, r.target, "share")
        /\ branches[r.target].status = "active"
        /\ UNCHANGED <<graphStatus, tables, req, cur, src>>

(* Both branches are read again, without locking the source or either ref. *)
ProposeRecheck(t) ==
    LET r == req[t]
    IN  /\ Step(t, "propose_recheck", "propose_commit")
        /\ refs[r.target].head = cur[t].head
        /\ refs[r.source].head = src[t].head
        /\ branches[r.source].status = "active"
        /\ UNCHANGED <<graphStatus, tables, req, cur, src, held>>

(* source_parties_on: who proposed what the source has and the target lacks.*)
SourceParties(target, source) ==
    UNION {p.actor : p \in {q \in proposals :
                q.candidate \in Ancestors[source] \ Ancestors[target]}}

ProposeCommit(t) ==
    LET r == req[t]
        c == lastCommit + 1
    IN  /\ CommitTx(t, "propose_commit")
        /\ lastCommit' = c
        /\ proposals' = proposals \cup
             {[candidate |-> c, branch |-> r.target, expected |-> cur[t].head,
               parents |-> <<cur[t].head, src[t].head>>, actor |-> r.actor,
               source |-> r.source,
               parties |-> SourceParties(cur[t].head, src[t].head)]}
        /\ RecordResult(r, c, 0, 0)
        /\ UNCHANGED <<refs, refEvents, branches, branchEvents, decisions,
                       outbox, validations>>

-----------------------------------------------------------------------------
(* merge_apply. *)

(* load_merge_row: the merge proposal the request names. *)
MergeRow(c) == {p \in proposals : p.candidate = c /\ p.source # NoName}

ApplyBegin(t) ==
    \E r \in ApplyRequest : /\ MergeRow(r.candidate) # {}
                            /\ BeginScoped(t, r, "idle", "apply_ref_1")

(* Mutant: the target is always locked first. *)
TargetFirst(p, n) == IF n = 1 THEN p.branch ELSE p.source

(* The n-th of the two branches in name order. *)
InNameOrder(p, n) ==
    IF (n = 1) = (p.branch < p.source) THEN p.branch ELSE p.source

(* Refs first, in name order: the target FOR UPDATE, the source FOR SHARE. *)
ApplyLockRef(t, n, from, to) ==
    /\ Step(t, from, to)
    /\ \E p \in MergeRow(req[t].candidate) :
         LET b == InNameOrder(p, n)
         IN  IF b = p.branch
             THEN /\ LockRef(t, b, "exclusive")
                  /\ cur' = [cur EXCEPT ![t] = refs[b]]
                  /\ UNCHANGED src
             ELSE /\ LockRef(t, b, "share")
                  /\ src' = [src EXCEPT ![t] = refs[b]]
                  /\ UNCHANGED cur
    /\ UNCHANGED <<graphStatus, tables, req>>

ApplyLockBranch(t, n, from, to) ==
    /\ Step(t, from, to)
    /\ \E p \in MergeRow(req[t].candidate) : LockBranch(t, InNameOrder(p, n), "share")
    /\ UNCHANGED <<graphStatus, tables, req, cur, src>>

(* What merge_apply requires of the merge proposal p. *)
ApplyTargetIsCurrent(t, p) ==
    /\ cur[t].head = p.parents[1]
    /\ p.expected = p.parents[1]
    /\ branches[p.branch].status = "active"
    /\ branches[p.branch].policy.requireValidation => req[t].cites # {}

(* Mutant: the source's head and status are not looked at. *)
ApplySourceIsKnown(t, p) == src[t].version # 0

ApplySourceIsCurrent(t, p) ==
    /\ src[t].head = p.parents[2]
    /\ branches[p.source].status = "active"

(* Mutant: only the merge's proposer is kept from reviewing it. *)
ApplyProposerIsDistinct(t, p) == RequireDistinctParties(p.branch, p, req[t].actor)

ApplyReviewerIsDistinct(t, p) ==
    /\ RequireDistinctParties(p.branch, p, req[t].actor)
    /\ branches[p.branch].policy.requireDistinctReviewer
           => req[t].actor \cap p.parties = {}

(* Both heads are the proposed ones, both branches active, the candidate    *)
(* undecided, the reviewer distinct from the proposer and from everyone     *)
(* whose work the source brings in, and the citation good.                  *)
ApplyDecide(t) ==
    LET r == req[t]
    IN  /\ Step(t, "apply_decide", "apply_commit")
        /\ LockProposalDecision(t, r.candidate)
        /\ Undecided(r.candidate)
        /\ \E p \in MergeRow(r.candidate) :
             /\ ApplyTargetIsCurrent(t, p)
             /\ ApplySourceIsCurrent(t, p)
             /\ ApplyReviewerIsDistinct(t, p)
        /\ CiteValidation(r.cites, r.candidate)
        /\ UNCHANGED <<graphStatus, tables, req, cur, src>>

(* Mutant: the merge moves the ref but queues no projection of it. *)
ApplyCommitUnqueued(t) ==
    LET r == req[t]
        v == cur[t].version + 1
    IN  /\ CommitTx(t, "apply_commit")
        /\ \E p \in MergeRow(r.candidate) :
             /\ refs[p.branch].head = cur[t].head
             /\ refs' = [refs EXCEPT ![p.branch] =
                           [head |-> r.candidate, version |-> @.version + 1]]
             /\ refEvents' = refEvents \cup
                  {[branch |-> p.branch, old |-> cur[t].head, new |-> r.candidate,
                    version |-> v, operation |-> "merge"]}
             /\ decisions' = decisions \cup {Decision(p, "accepted", v, r)}
        /\ RecordResult(r, r.candidate, v, 0)
        /\ UNCHANGED <<lastCommit, proposals, branches, branchEvents, outbox, validations>>

ApplyCommit(t) ==
    LET r == req[t]
        v == cur[t].version + 1
    IN  /\ CommitTx(t, "apply_commit")
        /\ \E p \in MergeRow(r.candidate) :
             /\ refs[p.branch].head = cur[t].head
             /\ refs' = [refs EXCEPT ![p.branch] =
                           [head |-> r.candidate, version |-> @.version + 1]]
             /\ refEvents' = refEvents \cup
                  {[branch |-> p.branch, old |-> cur[t].head, new |-> r.candidate,
                    version |-> v, operation |-> "merge"]}
             /\ decisions' = decisions \cup {Decision(p, "accepted", v, r)}
             /\ outbox' = outbox \cup
                  {[branch |-> p.branch, commit |-> r.candidate, version |-> v]}
        /\ RecordResult(r, r.candidate, v, 0)
        /\ UNCHANGED <<lastCommit, proposals, branches, branchEvents, validations>>

MergeStep(t) ==
    \/ ProposeReadTarget(t) \/ ProposeReadSource(t) \/ ProposeBegin(t)
    \/ ProposeLockBranch(t) \/ ProposeRecheck(t) \/ ProposeCommit(t)
    \/ ApplyBegin(t)
    \/ ApplyLockRef(t, 1, "apply_ref_1", "apply_ref_2")
    \/ ApplyLockRef(t, 2, "apply_ref_2", "apply_branch_1")
    \/ ApplyLockBranch(t, 1, "apply_branch_1", "apply_branch_2")
    \/ ApplyLockBranch(t, 2, "apply_branch_2", "apply_decide")
    \/ ApplyDecide(t) \/ ApplyCommit(t)
=============================================================================

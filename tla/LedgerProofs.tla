------------------------------ MODULE LedgerProofs ------------------------------
(***************************************************************************)
(* The ledger's types, its commit graph and its locks are safe, for any    *)
(* number of transactions, branches, actors and keys.                      *)
(*                                                                         *)
(* TypeOK is not inductive: what a transaction writes at its commit it     *)
(* read some steps before, so the first invariant also says what it read   *)
(* (ReadsArePlausible).                                                    *)
(*                                                                         *)
(* For history and decisions the argument is the one the comments of the   *)
(* code make.  The locks held by two transactions are compatible           *)
(* (Compatible); a transaction past its locking statement still holds the  *)
(* lock, and what it read under the lock still is so (HoldsRef,            *)
(* HoldsDecision); hence a ref moves exactly from where its history ends,  *)
(* and a candidate is decided once.                                        *)
(*                                                                         *)
(* The locks are enough: what a transaction checked before it locked, or   *)
(* under a lock, is still so when it commits.  LInv adds the other locks   *)
(* (the graph's status, the scope, the branch rows, the source of a        *)
(* merge), what was checked under them, and what makes a check on a row    *)
(* mean something: a branch has a row exactly when it has a ref, and       *)
(* `main' is never deleted and has no policy.                              *)
(***************************************************************************)
EXTENDS Ledger, TLAPS

(* Zenon proves the leaves that name no prover. *)
USE Zenon

(* A ref has a head exactly when it has moved. *)
IsRefPair(x) == x.version = 0 <=> x.head = NoCommit

(* What the transactions read is a pair some ref may have; a branch create  *)
(* locked a ref that exists, and a merge propose read the heads it names.   *)
ReadsArePlausible ==
    /\ \A b \in Branch : IsRefPair(refs[b])
    /\ \A t \in Tx : IsRefPair(cur[t]) /\ IsRefPair(src[t])
    /\ \A t \in Tx :
         /\ pc[t] \in {"create_branch", "create_commit"} => cur[t].version # 0
         /\ pc[t] \in ProposePc => cur[t].head = req[t].targetHead
         /\ pc[t] \in ProposePc \ {"propose_source"} => src[t].head = req[t].sourceHead

TypeInv == TypeOK /\ ReadsArePlausible

-----------------------------------------------------------------------------
(* The tables only grow, and with them what a request may name. *)

Grow == /\ lastCommit \in Nat /\ lastCommit' \in Nat
        /\ lastCommit <= lastCommit'
        /\ proposals \subseteq proposals'
        /\ validations \subseteq validations'

(* A commit, once published, stays one. *)
LEMMA CommitGrows == Grow => Commit \subseteq Commit'
  BY SMT DEF Grow, Commit

(* A validation that could be cited can still be cited. *)
LEMMA CitationGrows == Grow => Citation \subseteq Citation'
  BY SMT DEF Grow, Citation

(* A commit step keeps every table it is checked to keep, and publishes at  *)
(* most one commit.                                                         *)
LEMMA TablesGrow ==
  ASSUME TypeInv, lastCommit' = lastCommit \/ lastCommit' = lastCommit + 1,
         proposals \subseteq proposals', validations \subseteq validations'
  PROVE  Grow
<1>1. lastCommit \in Nat BY DEF TypeInv, TypeOK, TablesOK
<1> QED BY SMT, <1>1 DEF Grow

(* The next commit's number is a commit once it is published. *)
LEMMA NextCommit == TypeInv /\ lastCommit' = lastCommit + 1 => lastCommit + 1 \in Commit'
<1>1. TypeInv => lastCommit \in Nat BY DEF TypeInv, TypeOK, TablesOK
<1> QED BY SMT, <1>1 DEF Commit

(* A request that could be made can still be made. *)
LEMMA RequestsGrow ==
  ASSUME Grow
  PROVE  /\ PrepareRequest \subseteq PrepareRequest'
         /\ AcceptRequest \subseteq AcceptRequest'
         /\ RejectRequest \subseteq RejectRequest'
         /\ SupersedeRequest \subseteq SupersedeRequest'
         /\ ValidateRequest \subseteq ValidateRequest'
         /\ CreateRequest \subseteq CreateRequest'
         /\ LifecycleRequest \subseteq LifecycleRequest'
         /\ ProposeRequest \subseteq ProposeRequest'
         /\ ApplyRequest \subseteq ApplyRequest'
<1>1. Commit \subseteq Commit' BY CommitGrows
<1>2. Citation \subseteq Citation' BY CitationGrows
<1>3. proposals \subseteq proposals' BY DEF Grow
<1>4. PrepareRequest \subseteq PrepareRequest' BY <1>1 DEF PrepareRequest
<1>5. AcceptRequest \subseteq AcceptRequest' BY <1>1, <1>2, <1>3 DEF AcceptRequest
<1>6. RejectRequest \subseteq RejectRequest' BY <1>1, <1>2, <1>3 DEF RejectRequest
<1>7. SupersedeRequest \subseteq SupersedeRequest' BY <1>1 DEF SupersedeRequest
<1>8. ValidateRequest \subseteq ValidateRequest' BY <1>1 DEF ValidateRequest
<1>9. CreateRequest \subseteq CreateRequest' BY <1>1 DEF CreateRequest
<1>10. LifecycleRequest \subseteq LifecycleRequest' BY DEF LifecycleRequest
<1>11. ProposeRequest \subseteq ProposeRequest' BY <1>1 DEF ProposeRequest
<1>12. ApplyRequest \subseteq ApplyRequest' BY <1>1, <1>2 DEF ApplyRequest
<1> QED BY <1>4, <1>5, <1>6, <1>7, <1>8, <1>9, <1>10, <1>11, <1>12

(* A row that was well typed stays well typed. *)
LEMMA RowsGrow ==
  ASSUME Grow
  PROVE  /\ Ref \subseteq Ref'
         /\ ProposalRow \subseteq ProposalRow'
         /\ RefEvent \subseteq RefEvent'
         /\ BranchRow \subseteq BranchRow'
         /\ BranchEvent \subseteq BranchEvent'
         /\ ValidationRow \subseteq ValidationRow'
         /\ DecisionRow \subseteq DecisionRow'
         /\ OutboxRow \subseteq OutboxRow'
         /\ IdempotencyRow \subseteq IdempotencyRow'
<1>1. Commit \subseteq Commit' BY CommitGrows
<1>2. Ref \subseteq Ref' BY <1>1 DEF Ref
<1>3. ProposalRow \subseteq ProposalRow' BY SMT, <1>1 DEF ProposalRow
<1>4. RefEvent \subseteq RefEvent' BY <1>1 DEF RefEvent
<1>5. BranchRow \subseteq BranchRow' BY <1>1 DEF BranchRow
<1>6. BranchEvent \subseteq BranchEvent' BY <1>1 DEF BranchEvent
<1>7. ValidationRow \subseteq ValidationRow' BY <1>1 DEF ValidationRow
<1>8. DecisionRow \subseteq DecisionRow' BY <1>1, <1>7 DEF DecisionRow
<1>9. OutboxRow \subseteq OutboxRow' BY <1>1 DEF OutboxRow
<1>10. KeyedRequest \subseteq KeyedRequest' BY RequestsGrow DEF KeyedRequest
<1>11. IdempotencyRow \subseteq IdempotencyRow' BY <1>1, <1>10 DEF IdempotencyRow
<1> QED BY <1>2, <1>3, <1>4, <1>5, <1>6, <1>7, <1>8, <1>9, <1>11

-----------------------------------------------------------------------------
(* A step changes the local state of one transaction. *)

OnlyAt(t) ==
    /\ DOMAIN pc' = Tx /\ DOMAIN req' = Tx /\ DOMAIN held' = Tx
    /\ cur' = [u \in Tx |-> cur'[u]] /\ src' = [u \in Tx |-> src'[u]]
    /\ \A u \in Tx \ {t} : /\ pc'[u] = pc[u] /\ req'[u] = req[u]
                            /\ held'[u] = held[u]
                            /\ cur'[u] = cur[u] /\ src'[u] = src[u]

(* What one transaction read. *)
ReadsOf(t) ==
    /\ IsRefPair(cur[t]) /\ IsRefPair(src[t])
    /\ pc[t] \in {"create_branch", "create_commit"} => cur[t].version # 0
    /\ pc[t] \in ProposePc => cur[t].head = req[t].targetHead
    /\ pc[t] \in ProposePc \ {"propose_source"} => src[t].head = req[t].sourceHead

(* A transaction that does not move is not disturbed by what the others     *)
(* write, because the tables only grow.                                     *)
LEMMA OthersServe ==
  ASSUME Grow, NEW u \in Tx, ServesItsRequest(u),
         pc'[u] = pc[u], req'[u] = req[u], held'[u] = held[u]
  PROVE  ServesItsRequest(u)'
  BY RequestsGrow DEF ServesItsRequest

(* The locals stay well typed when the moving transaction's do. *)
LEMMA LocalsKept ==
  ASSUME TypeInv, Grow, NEW t \in Tx, OnlyAt(t),
         cur'[t] \in Ref', src'[t] \in Ref', ServesItsRequest(t)', ReadsOf(t)',
         \A b \in Branch : IsRefPair(refs'[b])
  PROVE  LocalsOK' /\ ReadsArePlausible'
<1>1. \A u \in Tx : ServesItsRequest(u)'
  BY OthersServe DEF TypeInv, TypeOK, LocalsOK, OnlyAt
<1>2. cur' \in [Tx -> Ref'] /\ src' \in [Tx -> Ref']
  BY RowsGrow DEF TypeInv, TypeOK, LocalsOK, OnlyAt
<1>3. \A u \in Tx : ReadsOf(u)'
  BY SMT DEF TypeInv, ReadsArePlausible, ReadsOf, OnlyAt, IsRefPair
<1>4. LocalsOK' BY <1>1, <1>2 DEF LocalsOK, OnlyAt
<1>5. ReadsArePlausible' BY <1>3 DEF ReadsArePlausible, ReadsOf, IsRefPair
<1> QED BY <1>4, <1>5

(* Ending a transaction leaves its locals well typed. *)
LEMMA EndTxKeepsLocals ==
  ASSUME TypeInv, Grow, NEW t \in Tx, EndTx(t),
         \A b \in Branch : IsRefPair(refs'[b])
  PROVE  LocalsOK' /\ ReadsArePlausible'
<1>1. OnlyAt(t) BY DEF TypeInv, TypeOK, LocalsOK, EndTx, OnlyAt
<1>2. /\ pc'[t] = "idle" /\ req'[t] = NoRequest /\ held'[t] = {}
      /\ cur'[t] = NoRef /\ src'[t] = NoRef
  BY DEF TypeInv, TypeOK, LocalsOK, EndTx
<1>3. ServesItsRequest(t)' BY <1>2 DEF ServesItsRequest
<1>4. ReadsOf(t)' BY SMT, <1>2 DEF ReadsOf, IsRefPair, NoRef, ProposePc
<1>5. NoRef \in Ref' BY DEF NoRef, Ref, NoCommit
<1> QED BY <1>1, <1>2, <1>3, <1>4, <1>5, LocalsKept

(* A step that writes no table. *)
LEMMA ReadStepTyped ==
  ASSUME TypeInv, NEW t \in Tx, OnlyAt(t), UNCHANGED <<graphStatus, tables>>,
         cur'[t] \in {cur[t]} \cup {refs[b] : b \in Branch},
         src'[t] \in {src[t], NoRef} \cup {refs[b] : b \in Branch},
         ServesItsRequest(t)',
         pc'[t] \in {"create_branch", "create_commit"} => cur'[t].version # 0,
         pc'[t] \in ProposePc => cur'[t].head = req'[t].targetHead,
         pc'[t] \in ProposePc \ {"propose_source"} => src'[t].head = req'[t].sourceHead
  PROVE  TypeInv'
<1>1. Grow BY SMT DEF Grow, tables, TypeInv, TypeOK, TablesOK
<1>2. TablesOK'
  BY <1>1, RowsGrow DEF tables, TypeInv, TypeOK, TablesOK
<1>3. \A b \in Branch : IsRefPair(refs'[b])
  BY DEF tables, TypeInv, ReadsArePlausible, IsRefPair
<1>4. Ref' = Ref BY DEF Ref, Commit, tables
<1>5. NoRef \in Ref /\ IsRefPair(NoRef) BY DEF NoRef, Ref, NoCommit, IsRefPair
<1>6. cur'[t] \in Ref /\ src'[t] \in Ref
  BY <1>5 DEF TypeInv, TypeOK, TablesOK, LocalsOK
<1>7. IsRefPair(cur'[t]) /\ IsRefPair(src'[t])
  BY <1>5 DEF TypeInv, ReadsArePlausible
<1>8. ReadsOf(t)' BY <1>7 DEF ReadsOf, IsRefPair
<1> QED BY <1>1, <1>2, <1>3, <1>4, <1>6, <1>8, LocalsKept DEF TypeInv, TypeOK

(* A transaction in the middle of an operation serves its request. *)
LEMMA RequestAt ==
  ASSUME TypeInv, NEW t \in Tx
  PROVE  /\ pc[t] \in PreparePc   => req[t] \in PrepareRequest
         /\ pc[t] \in AcceptPc    => req[t] \in AcceptRequest
         /\ pc[t] \in RejectPc    => req[t] \in RejectRequest
         /\ pc[t] \in SupersedePc => req[t] \in SupersedeRequest
         /\ pc[t] \in ValidatePc  => req[t] \in ValidateRequest
         /\ pc[t] \in CreatePc    => req[t] \in CreateRequest
         /\ pc[t] \in LifecyclePc => req[t] \in LifecycleRequest
         /\ pc[t] \in ProposePc   => req[t] \in ProposeRequest
         /\ pc[t] \in ApplyPc     => req[t] \in ApplyRequest
<1>1. ServesItsRequest(t) BY DEF TypeInv, TypeOK, LocalsOK
<1> QED
  BY <1>1 DEF ServesItsRequest, PreparePc, AcceptPc, RejectPc, SupersedePc,
     ValidatePc, CreatePc, LifecyclePc, ProposePc, ApplyPc

(* A step that writes nothing keeps every table. *)
LEMMA UnchangedGrows == TypeInv /\ UNCHANGED tables => Grow
  BY SMT DEF Grow, tables, TypeInv, TypeOK, TablesOK

(* begin_scoped changes the locals of its transaction only. *)
LEMMA BeginScopedLocals ==
  ASSUME TypeInv, NEW t \in Tx, NEW r, NEW from, NEW to, BeginScoped(t, r, from, to)
  PROVE  /\ OnlyAt(t) /\ UNCHANGED <<graphStatus, tables>>
         /\ pc[t] = from /\ pc'[t] = to /\ req'[t] = r
         /\ cur'[t] = cur[t] /\ src'[t] = src[t]
  BY DEF TypeInv, TypeOK, LocalsOK, BeginScoped, Step, OnlyAt

(* So does a statement in the middle of a transaction. *)
LEMMA AcquireLocals ==
  ASSUME TypeInv, NEW t \in Tx, NEW l, Acquire(t, l) \/ UNCHANGED held
  PROVE  DOMAIN held' = Tx /\ \A u \in Tx \ {t} : held'[u] = held[u]
  BY DEF TypeInv, TypeOK, LocalsOK, Acquire

(* Whatever a statement locks, the others' locks are as they were. *)
LEMMA LockLocals ==
  ASSUME TypeInv, NEW t \in Tx, NEW b, NEW mode,
         \/ LockRef(t, b, mode) \/ LockBranch(t, b, mode)
         \/ LockProposalDecision(t, b) \/ UNCHANGED held
  PROVE  DOMAIN held' = Tx /\ \A u \in Tx \ {t} : held'[u] = held[u]
  BY AcquireLocals DEF LockRef, LockBranch, LockProposalDecision

(* A transaction that goes on with the same operation serves its request. *)
GoesOn(from, to) ==
    \E S \in {PreparePc, AcceptPc, RejectPc, SupersedePc, ValidatePc, CreatePc,
              LifecyclePc, ProposePc, ApplyPc} : from \in S /\ to \in S

(* A transaction that goes on still serves the request it began with. *)
LEMMA GoesOnServes ==
  ASSUME TypeInv, UNCHANGED tables, NEW t \in Tx, GoesOn(pc[t], pc'[t]), req'[t] = req[t]
  PROVE  ServesItsRequest(t)'
  BY RequestAt, UnchangedGrows, RequestsGrow DEF GoesOn, ServesItsRequest

(* A statement in the middle of a transaction that locks or reads. *)
LEMMA MiddleStepTyped ==
  ASSUME TypeInv, NEW t \in Tx, NEW from, NEW to, Step(t, from, to), GoesOn(from, to),
         UNCHANGED <<graphStatus, tables, req>>,
         DOMAIN held' = Tx /\ \A u \in Tx \ {t} : held'[u] = held[u],
         UNCHANGED cur \/ \E b \in Branch : cur' = [cur EXCEPT ![t] = refs[b]],
         UNCHANGED src \/ \E b \in Branch : src' = [src EXCEPT ![t] = refs[b]],
         to \in {"create_branch", "create_commit"} => cur'[t].version # 0,
         to \in ProposePc => cur'[t].head = req[t].targetHead,
         to \in ProposePc \ {"propose_source"} => src'[t].head = req[t].sourceHead
  PROVE  TypeInv'
<1>1. OnlyAt(t) BY DEF Step, OnlyAt, TypeInv, TypeOK, LocalsOK
<1>2. pc[t] = from /\ pc'[t] = to /\ req'[t] = req[t]
  BY DEF Step, TypeInv, TypeOK, LocalsOK
<1>3. ServesItsRequest(t)' BY <1>2, GoesOnServes
<1>4. cur'[t] \in {cur[t]} \cup {refs[b] : b \in Branch}
  BY DEF TypeInv, TypeOK, LocalsOK
<1>5. src'[t] \in {src[t]} \cup {refs[b] : b \in Branch}
  BY DEF TypeInv, TypeOK, LocalsOK
<1> QED BY <1>1, <1>2, <1>3, <1>4, <1>5, ReadStepTyped

(* A keyed operation begins with a request of its kind. *)
LEMMA BeginTyped ==
  ASSUME TypeInv, NEW t \in Tx, NEW r, NEW to, BeginScoped(t, r, "idle", to),
         \/ to \in PreparePc /\ r \in PrepareRequest
         \/ to \in AcceptPc /\ r \in AcceptRequest
         \/ to \in RejectPc /\ r \in RejectRequest
         \/ to \in LifecyclePc /\ r \in LifecycleRequest
         \/ to \in ApplyPc /\ r \in ApplyRequest
  PROVE  TypeInv'
<1>1. ServesItsRequest(t)'
  BY SMT, BeginScopedLocals, UnchangedGrows, RequestsGrow DEF ServesItsRequest
<1>2. to \notin {"create_branch", "create_commit"} /\ to \notin ProposePc
  BY DEF PreparePc, AcceptPc, RejectPc, LifecyclePc, ApplyPc, ProposePc
<1> QED BY SMT, <1>1, <1>2, BeginScopedLocals, ReadStepTyped

(* A prepared operation (validate, create, merge propose) enters its        *)
(* transaction after it read what it needs.                                 *)
LEMMA EnterTyped ==
  ASSUME TypeInv, NEW t \in Tx, NEW from, NEW to, BeginScoped(t, req[t], from, to),
         GoesOn(from, to), to \notin {"create_branch", "create_commit"},
         to \in ProposePc => from \in ProposePc \ {"propose_source"}
  PROVE  TypeInv'
<1>1. ServesItsRequest(t)' BY BeginScopedLocals, GoesOnServes
<1>2. to \in ProposePc => /\ cur'[t].head = req'[t].targetHead
                          /\ src'[t].head = req'[t].sourceHead
  BY SMT, BeginScopedLocals DEF TypeInv, ReadsArePlausible
<1> QED BY SMT, <1>1, <1>2, BeginScopedLocals, ReadStepTyped

-----------------------------------------------------------------------------
(* The steps of each operation that read or lock. *)

(* prepare, accept, reject and mark_superseded up to their commits. *)
LEMMA WorkflowReadsTyped ==
  ASSUME TypeInv, NEW t \in Tx,
         \/ PrepareBegin(t) \/ PrepareLockBranch(t) \/ PrepareReadHead(t)
         \/ AcceptBegin(t) \/ AcceptLockRef(t) \/ AcceptLockBranch(t) \/ AcceptDecide(t)
         \/ RejectBegin(t) \/ RejectDecide(t) \/ SupersedeBegin(t) \/ SupersedeDecide(t)
  PROVE  TypeInv'
<1>1. CASE PrepareBegin(t) BY <1>1, BeginTyped DEF PrepareBegin, PreparePc
<1>2. CASE PrepareLockBranch(t)
  <2>1. GoesOn("prepare_branch", "prepare_read") BY DEF GoesOn, PreparePc
  <2> QED BY <1>2, <2>1, LockLocals, MiddleStepTyped DEF PrepareLockBranch, ProposePc
<1>3. CASE PrepareReadHead(t)
  <2>1. GoesOn("prepare_read", "prepare_commit") BY DEF GoesOn, PreparePc
  <2>2. req[t].branch \in Branch
    BY <1>3, RequestAt DEF PrepareReadHead, Step, PreparePc, PrepareRequest
  <2> QED BY <1>3, <2>1, <2>2, LockLocals, MiddleStepTyped DEF PrepareReadHead, ProposePc
<1>4. CASE AcceptBegin(t) BY <1>4, BeginTyped DEF AcceptBegin, AcceptPc
<1>5. CASE AcceptLockRef(t)
  <2>1. GoesOn("accept_ref", "accept_branch") BY DEF GoesOn, AcceptPc
  <2>2. req[t].branch \in Branch
    BY <1>5, RequestAt DEF AcceptLockRef, Step, AcceptPc, AcceptRequest
  <2> QED BY <1>5, <2>1, <2>2, LockLocals, MiddleStepTyped DEF AcceptLockRef, ProposePc
<1>6. CASE AcceptLockBranch(t)
  <2>1. GoesOn("accept_branch", "accept_decide") BY DEF GoesOn, AcceptPc
  <2> QED BY <1>6, <2>1, LockLocals, MiddleStepTyped DEF AcceptLockBranch, ProposePc
<1>7. CASE AcceptDecide(t)
  <2>1. GoesOn("accept_decide", "accept_commit") BY DEF GoesOn, AcceptPc
  <2> QED BY <1>7, <2>1, LockLocals, MiddleStepTyped DEF AcceptDecide, ProposePc
<1>8. CASE RejectBegin(t) BY <1>8, BeginTyped DEF RejectBegin, RejectPc
<1>9. CASE RejectDecide(t)
  <2>1. GoesOn("reject_decide", "reject_commit") BY DEF GoesOn, RejectPc
  <2> QED BY <1>9, <2>1, LockLocals, MiddleStepTyped DEF RejectDecide, ProposePc
<1>10. CASE SupersedeBegin(t)
  <2>1. OnlyAt(t) /\ UNCHANGED <<graphStatus, tables>>
    BY <1>10 DEF SupersedeBegin, Step, OnlyAt, TypeInv, TypeOK, LocalsOK
  <2>2. /\ pc'[t] = "supersede_decide" /\ req'[t] \in SupersedeRequest
        /\ cur'[t] = cur[t] /\ src'[t] = src[t]
    BY <1>10 DEF SupersedeBegin, Step, TypeInv, TypeOK, LocalsOK
  <2>3. ServesItsRequest(t)'
    BY <2>1, <2>2, UnchangedGrows, RequestsGrow DEF ServesItsRequest, SupersedePc
  <2> QED BY <2>1, <2>2, <2>3, ReadStepTyped DEF ProposePc
<1>11. CASE SupersedeDecide(t)
  <2>1. GoesOn("supersede_decide", "supersede_commit") BY DEF GoesOn, SupersedePc
  <2>2. PICK p \in proposals : cur' = [cur EXCEPT ![t] = refs[p.branch]]
    BY <1>11 DEF SupersedeDecide
  <2>3. p.branch \in Branch BY DEF TypeInv, TypeOK, TablesOK, ProposalRow
  <2> QED BY <1>11, <2>1, <2>2, <2>3, LockLocals, MiddleStepTyped
          DEF SupersedeDecide, ProposePc
<1> QED BY <1>1, <1>2, <1>3, <1>4, <1>5, <1>6, <1>7, <1>8, <1>9, <1>10, <1>11

(* The validator's part up to recording its verdict. *)
LEMMA ValidationReadsTyped ==
  ASSUME TypeInv, NEW t \in Tx, ValidateBegin(t) \/ ValidateRecordBegin(t)
  PROVE  TypeInv'
<1>1. CASE ValidateBegin(t)
  <2>1. OnlyAt(t) /\ UNCHANGED <<graphStatus, tables>>
    BY <1>1 DEF ValidateBegin, Step, OnlyAt, TypeInv, TypeOK, LocalsOK
  <2>2. /\ pc'[t] = "validate_call" /\ req'[t] \in ValidateRequest
        /\ cur'[t] = cur[t] /\ src'[t] = src[t]
    BY <1>1 DEF ValidateBegin, Step, TypeInv, TypeOK, LocalsOK
  <2>3. ServesItsRequest(t)'
    BY <2>1, <2>2, UnchangedGrows, RequestsGrow DEF ServesItsRequest, ValidatePc
  <2> QED BY <2>1, <2>2, <2>3, ReadStepTyped DEF ProposePc
<1>2. CASE ValidateRecordBegin(t)
  <2>1. GoesOn("validate_call", "validate_record") BY DEF GoesOn, ValidatePc
  <2> QED BY <1>2, <2>1, EnterTyped DEF ValidateRecordBegin, ProposePc
<1> QED BY <1>1, <1>2

(* Branch creation and lifecycle changes up to their commits. *)
LEMMA BranchReadsTyped ==
  ASSUME TypeInv, NEW t \in Tx,
         \/ CreateReadSource(t) \/ CreateBegin(t) \/ CreateLockRef(t) \/ CreateLockBranch(t)
         \/ LifecycleBegin(t) \/ LifecycleLockBranch(t) \/ LifecycleReadRef(t)
  PROVE  TypeInv'
<1>1. CASE CreateReadSource(t)
  <2>1. PICK r \in CreateRequest :
          /\ Step(t, "idle", "create_begin")
          /\ req' = [req EXCEPT ![t] = r]
          /\ src' = [src EXCEPT ![t] =
                       IF r.from # NoCommit /\ graphStatus = "active"
                       THEN refs[r.source] ELSE NoRef]
          /\ UNCHANGED <<graphStatus, tables, cur, held>>
    BY <1>1 DEF CreateReadSource
  <2>2. OnlyAt(t)
    BY <2>1 DEF Step, OnlyAt, TypeInv, TypeOK, LocalsOK
  <2>3. /\ pc'[t] = "create_begin" /\ req'[t] \in CreateRequest
        /\ cur'[t] = cur[t]
    BY <2>1 DEF Step, TypeInv, TypeOK, LocalsOK
  <2>4. src'[t] \in {NoRef} \cup {refs[b] : b \in Branch}
    BY <2>1 DEF TypeInv, TypeOK, LocalsOK, CreateRequest
  <2>5. ServesItsRequest(t)'
    BY <2>1, <2>3, UnchangedGrows, RequestsGrow DEF ServesItsRequest, CreatePc
  <2> QED BY <2>1, <2>2, <2>3, <2>4, <2>5, ReadStepTyped DEF ProposePc
<1>2. CASE CreateBegin(t)
  <2>1. GoesOn("create_begin", "create_ref") BY DEF GoesOn, CreatePc
  <2> QED BY <1>2, <2>1, EnterTyped DEF CreateBegin, ProposePc
<1>3. CASE CreateLockRef(t)
  <2>1. GoesOn("create_ref", "create_branch") BY DEF GoesOn, CreatePc
  <2>2. req[t].source \in Branch
    BY <1>3, RequestAt DEF CreateLockRef, Step, CreatePc, CreateRequest
  <2>3. cur'[t].version # 0 BY <1>3 DEF CreateLockRef, TypeInv, TypeOK, LocalsOK
  <2> QED BY <1>3, <2>1, <2>2, <2>3, LockLocals, MiddleStepTyped DEF CreateLockRef, ProposePc
<1>4. CASE CreateLockBranch(t)
  <2>1. GoesOn("create_branch", "create_commit") BY DEF GoesOn, CreatePc
  <2>2. cur'[t].version # 0
    BY <1>4 DEF CreateLockBranch, Step, TypeInv, ReadsArePlausible
  <2> QED BY <1>4, <2>1, <2>2, LockLocals, MiddleStepTyped DEF CreateLockBranch, ProposePc
<1>5. CASE LifecycleBegin(t) BY <1>5, BeginTyped DEF LifecycleBegin, LifecyclePc
<1>6. CASE LifecycleLockBranch(t)
  <2>1. GoesOn("lifecycle_branch", "lifecycle_read") BY DEF GoesOn, LifecyclePc
  <2> QED BY <1>6, <2>1, LockLocals, MiddleStepTyped DEF LifecycleLockBranch, ProposePc
<1>7. CASE LifecycleReadRef(t)
  <2>1. GoesOn("lifecycle_read", "lifecycle_commit") BY DEF GoesOn, LifecyclePc
  <2>2. req[t].name \in Branch
    BY SMT, <1>7, RequestAt DEF LifecycleReadRef, Step, LifecyclePc, LifecycleRequest
  <2> QED BY <1>7, <2>1, <2>2, LockLocals, MiddleStepTyped DEF LifecycleReadRef, ProposePc
<1> QED BY <1>1, <1>2, <1>3, <1>4, <1>5, <1>6, <1>7

(* The two branches of a merge proposal are branch names. *)
LEMMA MergeBranches ==
  ASSUME TypeInv, NEW c, NEW p \in MergeRow(c)
  PROVE  /\ p \in proposals /\ p.candidate = c
         /\ p.branch \in Branch /\ p.source \in Branch
         /\ \A n \in {1, 2} : InNameOrder(p, n) \in {p.branch, p.source}
  BY DEF MergeRow, InNameOrder, TypeInv, TypeOK, TablesOK, ProposalRow

(* Merge propose and merge apply up to their commits. *)
LEMMA MergeReadsTyped ==
  ASSUME TypeInv, NEW t \in Tx,
         \/ ProposeReadTarget(t) \/ ProposeReadSource(t) \/ ProposeBegin(t)
         \/ ProposeLockBranch(t) \/ ProposeRecheck(t) \/ ApplyBegin(t)
         \/ ApplyLockRef(t, 1, "apply_ref_1", "apply_ref_2")
         \/ ApplyLockRef(t, 2, "apply_ref_2", "apply_branch_1")
         \/ ApplyLockBranch(t, 1, "apply_branch_1", "apply_branch_2")
         \/ ApplyLockBranch(t, 2, "apply_branch_2", "apply_decide")
         \/ ApplyDecide(t)
  PROVE  TypeInv'
<1>1. CASE ProposeReadTarget(t)
  <2>1. PICK r \in ProposeRequest :
          /\ Step(t, "idle", "propose_source")
          /\ refs[r.target].head = r.targetHead
          /\ req' = [req EXCEPT ![t] = r]
          /\ cur' = [cur EXCEPT ![t] = refs[r.target]]
          /\ UNCHANGED <<graphStatus, tables, src, held>>
    BY <1>1 DEF ProposeReadTarget
  <2>2. OnlyAt(t) BY <2>1 DEF Step, OnlyAt, TypeInv, TypeOK, LocalsOK
  <2>3. /\ pc'[t] = "propose_source" /\ req'[t] = r
        /\ cur'[t] = refs[r.target] /\ src'[t] = src[t]
    BY <2>1 DEF Step, TypeInv, TypeOK, LocalsOK
  <2>4. ServesItsRequest(t)'
    BY <2>1, <2>3, UnchangedGrows, RequestsGrow DEF ServesItsRequest, ProposePc
  <2>5. r.target \in Branch BY DEF ProposeRequest
  <2> QED BY <2>1, <2>2, <2>3, <2>4, <2>5, ReadStepTyped
<1>2. CASE ProposeReadSource(t)
  <2>1. GoesOn("propose_source", "propose_begin") BY DEF GoesOn, ProposePc
  <2>2. req[t].source \in Branch
    BY <1>2, RequestAt DEF ProposeReadSource, Step, ProposePc, ProposeRequest
  <2>3. /\ cur'[t].head = req[t].targetHead
        /\ src'[t].head = req[t].sourceHead
    BY <1>2 DEF ProposeReadSource, Step, ProposePc, TypeInv, TypeOK, LocalsOK,
                ReadsArePlausible
  <2> QED BY <1>2, <2>1, <2>2, <2>3, LockLocals, MiddleStepTyped DEF ProposeReadSource
<1>3. CASE ProposeBegin(t)
  <2>1. GoesOn("propose_begin", "propose_branch") BY DEF GoesOn, ProposePc
  <2> QED BY <1>3, <2>1, EnterTyped DEF ProposeBegin, ProposePc
<1>4. CASE ProposeLockBranch(t)
  <2>1. GoesOn("propose_branch", "propose_recheck") BY DEF GoesOn, ProposePc
  <2>2. cur'[t].head = req[t].targetHead /\ src'[t].head = req[t].sourceHead
    BY <1>4 DEF ProposeLockBranch, Step, ProposePc, TypeInv, ReadsArePlausible
  <2> QED BY <1>4, <2>1, <2>2, LockLocals, MiddleStepTyped DEF ProposeLockBranch
<1>5. CASE ProposeRecheck(t)
  <2>1. GoesOn("propose_recheck", "propose_commit") BY DEF GoesOn, ProposePc
  <2>2. cur'[t].head = req[t].targetHead /\ src'[t].head = req[t].sourceHead
    BY <1>5 DEF ProposeRecheck, Step, ProposePc, TypeInv, ReadsArePlausible
  <2> QED BY <1>5, <2>1, <2>2, LockLocals, MiddleStepTyped DEF ProposeRecheck
<1>6. CASE ApplyBegin(t) BY <1>6, BeginTyped DEF ApplyBegin, ApplyPc
<1>7. ASSUME NEW n \in {1, 2}, NEW from \in ApplyPc, NEW to \in ApplyPc,
             ApplyLockRef(t, n, from, to)
      PROVE  TypeInv'
  <2>1. GoesOn(from, to) BY DEF GoesOn
  <2>2. PICK p \in MergeRow(req[t].candidate) :
          LET b == InNameOrder(p, n)
          IN  IF b = p.branch
              THEN /\ LockRef(t, b, "exclusive")
                   /\ cur' = [cur EXCEPT ![t] = refs[b]]
                   /\ UNCHANGED src
              ELSE /\ LockRef(t, b, "share")
                   /\ src' = [src EXCEPT ![t] = refs[b]]
                   /\ UNCHANGED cur
    BY <1>7 DEF ApplyLockRef
  <2>3. InNameOrder(p, n) \in Branch BY MergeBranches
  <2>4. to \notin {"create_branch", "create_commit"} /\ to \notin ProposePc
    BY DEF ApplyPc, ProposePc
  <2> QED BY <1>7, <2>1, <2>2, <2>3, <2>4, LockLocals, MiddleStepTyped DEF ApplyLockRef
<1>8. ASSUME NEW n \in {1, 2}, NEW from \in ApplyPc, NEW to \in ApplyPc,
             ApplyLockBranch(t, n, from, to)
      PROVE  TypeInv'
  <2>1. GoesOn(from, to) BY DEF GoesOn
  <2>2. to \notin {"create_branch", "create_commit"} /\ to \notin ProposePc
    BY DEF ApplyPc, ProposePc
  <2> QED BY <1>8, <2>1, <2>2, LockLocals, MiddleStepTyped DEF ApplyLockBranch
<1>9. CASE ApplyDecide(t)
  <2>1. GoesOn("apply_decide", "apply_commit") BY DEF GoesOn, ApplyPc
  <2> QED BY <1>9, <2>1, LockLocals, MiddleStepTyped DEF ApplyDecide, ProposePc
<1> QED BY <1>1, <1>2, <1>3, <1>4, <1>5, <1>6, <1>7, <1>8, <1>9 DEF ApplyPc

-----------------------------------------------------------------------------
(* The commits. *)

(* A commit ends its transaction: only the tables remain to be looked at. *)
LEMMA CommitTyped ==
  ASSUME TypeInv, NEW t \in Tx, EndTx(t), Grow, TablesOK',
         \A b \in Branch : IsRefPair(refs'[b])
  PROVE  TypeInv'
  BY EndTxKeepsLocals DEF TypeInv, TypeOK

(* record_result adds a well-typed row. *)
LEMMA ResultTyped ==
  ASSUME TypeInv, Grow, NEW r \in KeyedRequest', NEW c \in {NoCommit} \cup Commit',
         NEW v \in Nat, NEW n \in Nat, RecordResult(r, c, v, n)
  PROVE  idempotency' \subseteq IdempotencyRow'
<1>1. [req |-> r, commit |-> c, version |-> v, lifecycle |-> n] \in IdempotencyRow'
  BY DEF IdempotencyRow
<1> QED BY <1>1, RowsGrow DEF TypeInv, TypeOK, TablesOK, RecordResult

(* A decision on a known proposal is a well-typed row. *)
LEMMA DecisionTyped ==
  ASSUME TypeInv, Grow, NEW p \in proposals,
         NEW d \in {"accepted", "rejected", "superseded"}, NEW v \in Nat, NEW r,
         r.actor \in Actor, r.cites = {} \/ r.cites \in Citation,
         decisions' = decisions \cup {Decision(p, d, v, r)}
  PROVE  decisions' \subseteq DecisionRow'
<1>1. {x.validation : x \in r.cites} \subseteq ValidationRow
  BY SMT DEF Citation, TypeInv, TypeOK, TablesOK
<1>2. p.candidate \in Commit /\ p.branch \in Branch
  BY DEF TypeInv, TypeOK, TablesOK, ProposalRow
<1>3. Decision(p, d, v, r) \in DecisionRow'
  BY <1>1, <1>2, RowsGrow, CommitGrows DEF Decision, DecisionRow
<1> QED BY <1>3, RowsGrow DEF TypeInv, TypeOK, TablesOK

(* A proposal published with the next commit. *)
LEMMA ProposalTyped ==
  ASSUME TypeInv, NEW p, lastCommit' = lastCommit + 1, proposals' = proposals \cup {p},
         UNCHANGED validations, p \in ProposalRow'
  PROVE  Grow /\ proposals' \subseteq ProposalRow' /\ lastCommit + 1 \in Commit'
<1>1. Grow BY SMT DEF Grow, TypeInv, TypeOK, TablesOK
<1>2. lastCommit + 1 \in Commit' BY SMT DEF Commit, TypeInv, TypeOK, TablesOK
<1> QED BY <1>1, <1>2, RowsGrow DEF TypeInv, TypeOK, TablesOK

(* prepare's commit publishes a candidate and its proposal. *)
LEMMA PrepareCommitTyped ==
  ASSUME TypeInv, NEW t \in Tx, PrepareCommit(t)
  PROVE  TypeInv'
<1> DEFINE r == req[t]
           c == lastCommit + 1
           row == [candidate |-> c, branch |-> r.branch, expected |-> r.expected,
                   parents |-> IF r.expected = NoCommit THEN <<>> ELSE <<r.expected>>,
                   actor |-> r.actor, source |-> NoName, parties |-> {}]
<1>1. r \in PrepareRequest
  BY RequestAt DEF PrepareCommit, CommitTx, PreparePc
<1>2. /\ EndTx(t) /\ lastCommit' = c /\ proposals' = proposals \cup {row}
      /\ RecordResult(r, c, 0, 0)
      /\ UNCHANGED <<graphStatus, refs, refEvents, branches, branchEvents, decisions,
                     outbox, validations>>
  BY DEF PrepareCommit, CommitTx
<1>3. Grow BY <1>2, TablesGrow
<1>4. c \in Commit' /\ r.expected \in {NoCommit} \cup Commit'
  BY SMT, <1>1, <1>2, <1>3, CommitGrows DEF PrepareRequest, Commit, TypeInv, TypeOK, TablesOK
<1>5. row.parents \in Seq(Commit') BY SMT, <1>4
<1>6. row \in ProposalRow'
  BY <1>1, <1>4, <1>5 DEF ProposalRow, PrepareRequest
<1>7. proposals' \subseteq ProposalRow' BY <1>2, <1>6, ProposalTyped
<1>8. r \in KeyedRequest' BY <1>1, <1>3, RequestsGrow DEF KeyedRequest
<1>9. idempotency' \subseteq IdempotencyRow' BY <1>2, <1>3, <1>4, <1>8, ResultTyped
<1>10. TablesOK'
  BY <1>2, <1>3, <1>7, <1>9, RowsGrow DEF TypeInv, TypeOK, TablesOK, Grow
<1>11. \A b \in Branch : IsRefPair(refs'[b])
  BY <1>2 DEF TypeInv, ReadsArePlausible
<1> QED BY <1>2, <1>3, <1>10, <1>11, CommitTyped

(* A ref moved to a commit. *)
LEMMA MovedRefTyped ==
  ASSUME TypeInv, NEW b \in Branch, NEW c \in Commit, UNCHANGED lastCommit,
         \/ refs' = [refs EXCEPT ![b] = [head |-> c, version |-> @.version + 1]]
         \/ refs' = [refs EXCEPT ![b] = [head |-> c, version |-> 1]]
  PROVE  refs' \in [Branch -> Ref'] /\ \A x \in Branch : IsRefPair(refs'[x])
<1>1. c \in Nat \ {0} /\ c \in Commit' BY SMT DEF Commit, TypeInv, TypeOK, TablesOK
<1>2. refs \in [Branch -> Ref] /\ refs[b].version \in Nat /\ Ref' = Ref
  BY DEF TypeInv, TypeOK, TablesOK, Ref, Commit
<1>3. PICK v \in Nat \ {0} : refs' = [refs EXCEPT ![b] = [head |-> c, version |-> v]]
  BY SMT, <1>2
<1>4. [head |-> c, version |-> v] \in Ref BY <1>1 DEF Ref
<1> QED BY <1>1, <1>2, <1>3, <1>4 DEF IsRefPair, NoCommit, TypeInv, ReadsArePlausible

(* accept's commit moves one ref to the candidate it read and locked for. *)
LEMMA AcceptCommitTyped ==
  ASSUME TypeInv, NEW t \in Tx, AcceptCommit(t)
  PROVE  TypeInv'
<1> DEFINE r == req[t]
           b == r.branch
           v == cur[t].version + 1
           genesis == cur[t].version = 0
           event == [branch |-> b, old |-> cur[t].head, new |-> r.candidate, version |-> v,
                     operation |-> IF genesis THEN "genesis" ELSE "advance"]
           row == [branch |-> b, commit |-> r.candidate, version |-> v]
<1>1. r \in AcceptRequest BY RequestAt DEF AcceptCommit, CommitTx, AcceptPc
<1>2. /\ b \in Branch /\ r.candidate \in Commit /\ r.actor \in Actor /\ r.cites \in Citation
      /\ v \in Nat \ {0} /\ cur[t].head \in {NoCommit} \cup Commit
  BY SMT, <1>1 DEF AcceptRequest, TypeInv, TypeOK, LocalsOK, Ref
<1>3. EndTx(t) /\ UNCHANGED graphStatus /\ AcceptWrites(r, cur[t], v)
  BY DEF AcceptCommit, CommitTx
<1>4. UNCHANGED <<lastCommit, proposals, validations>> BY <1>3 DEF AcceptWrites
<1>5. Grow BY <1>4, TablesGrow
<1>6. refs' \in [Branch -> Ref'] /\ \A x \in Branch : IsRefPair(refs'[x])
  BY <1>2, <1>3, <1>4, MovedRefTyped DEF AcceptWrites
<1>7. refEvents' \subseteq RefEvent'
  <2>1. event \in RefEvent' BY <1>2, <1>5, CommitGrows DEF RefEvent
  <2>2. refEvents' = refEvents \cup {event} BY <1>3 DEF AcceptWrites
  <2> QED BY <2>1, <2>2, <1>5, RowsGrow DEF TypeInv, TypeOK, TablesOK
<1>8. branches' \in [Branch -> BranchRow'] /\ branchEvents' \subseteq BranchEvent'
  <2>1. [NoBranch EXCEPT !.status = "active", !.lifecycle = 1] \in BranchRow'
    BY DEF NoBranch, BranchRow, NoName, NoCommit
  <2>2. [branch |-> b, lifecycle |-> 1, status |-> "active", head |-> r.candidate,
         version |-> 1] \in BranchEvent'
    BY SMT, <1>2, <1>5, CommitGrows DEF BranchEvent
  <2>3. branches \in [Branch -> BranchRow'] /\ branchEvents \subseteq BranchEvent'
    BY <1>5, RowsGrow DEF TypeInv, TypeOK, TablesOK
  <2> QED BY <1>2, <1>3, <2>1, <2>2, <2>3 DEF AcceptWrites
<1>9. decisions' \subseteq DecisionRow'
  <2>1. PICK p \in proposals : decisions' = decisions \cup {Decision(p, "accepted", v, r)}
    BY <1>3 DEF AcceptWrites
  <2> QED BY <2>1, <1>2, <1>5, DecisionTyped
<1>10. outbox' \subseteq OutboxRow'
  <2>1. row \in OutboxRow' BY <1>2, <1>5, CommitGrows DEF OutboxRow
  <2> QED BY <2>1, <1>3, <1>5, RowsGrow DEF AcceptWrites, TypeInv, TypeOK, TablesOK
<1>11. idempotency' \subseteq IdempotencyRow'
  <2>1. r \in KeyedRequest' BY <1>1, <1>5, RequestsGrow DEF KeyedRequest
  <2>2. RecordResult(r, r.candidate, v, 0) BY <1>3 DEF AcceptWrites
  <2> QED BY <2>1, <2>2, <1>2, <1>5, CommitGrows, ResultTyped
<1>12. TablesOK'
  BY <1>3, <1>4, <1>5, <1>6, <1>7, <1>8, <1>9, <1>10, <1>11, RowsGrow
  DEF TypeInv, TypeOK, TablesOK
<1> QED BY <1>3, <1>5, <1>6, <1>12, CommitTyped

(* Commits that only decide, or only record a verdict. *)
LEMMA VerdictCommitsTyped ==
  ASSUME TypeInv, NEW t \in Tx, RejectCommit(t) \/ SupersedeCommit(t) \/ ValidateRecord(t)
  PROVE  TypeInv'
<1> DEFINE r == req[t]
<1>1. CASE RejectCommit(t)
  <2>1. r \in RejectRequest BY <1>1, RequestAt DEF RejectCommit, CommitTx, RejectPc
  <2>2. r.candidate \in Commit /\ r.actor \in Actor /\ r.cites \in Citation
    BY <2>1 DEF RejectRequest
  <2>3. /\ EndTx(t) /\ RecordResult(r, r.candidate, 0, 0)
        /\ UNCHANGED <<graphStatus, lastCommit, proposals, refs, refEvents, branches,
                       branchEvents, outbox, validations>>
    BY <1>1 DEF RejectCommit, CommitTx
  <2>4. Grow BY <2>3, TablesGrow
  <2>5. decisions' \subseteq DecisionRow'
    BY <1>1, <2>2, <2>4, DecisionTyped DEF RejectCommit
  <2>6. r \in KeyedRequest' BY <2>1, <2>4, RequestsGrow DEF KeyedRequest
  <2>7. idempotency' \subseteq IdempotencyRow'
    BY <2>2, <2>3, <2>4, <2>6, CommitGrows, ResultTyped
  <2>8. TablesOK' BY <2>3, <2>4, <2>5, <2>7, RowsGrow DEF TypeInv, TypeOK, TablesOK
  <2> QED BY <2>3, <2>4, <2>8, CommitTyped DEF TypeInv, ReadsArePlausible
<1>2. CASE SupersedeCommit(t)
  <2>1. r \in SupersedeRequest
    BY <1>2, RequestAt DEF SupersedeCommit, CommitTx, SupersedePc
  <2>2. r.actor \in Actor /\ r.cites = {} BY <2>1 DEF SupersedeRequest
  <2>3. /\ EndTx(t)
        /\ UNCHANGED <<graphStatus, lastCommit, proposals, refs, refEvents, branches,
                       branchEvents, outbox, validations, idempotency>>
    BY <1>2 DEF SupersedeCommit, CommitTx
  <2>4. Grow BY <2>3, TablesGrow
  <2>5. decisions' \subseteq DecisionRow'
    BY <1>2, <2>2, <2>4, DecisionTyped DEF SupersedeCommit
  <2>6. TablesOK' BY <2>3, <2>4, <2>5, RowsGrow DEF TypeInv, TypeOK, TablesOK
  <2> QED BY <2>3, <2>4, <2>6, CommitTyped DEF TypeInv, ReadsArePlausible
<1>3. CASE ValidateRecord(t)
  <2>1. r \in ValidateRequest BY <1>3, RequestAt DEF ValidateRecord, CommitTx, ValidatePc
  <2>2. r.candidate \in Commit BY <2>1 DEF ValidateRequest
  <2>3. /\ EndTx(t) /\ RecordResult(r, r.candidate, 0, 0)
        /\ UNCHANGED <<graphStatus, lastCommit, proposals, refs, refEvents, branches,
                       branchEvents, decisions, outbox>>
    BY <1>3 DEF ValidateRecord, CommitTx
  <2>4. PICK v \in [candidate : {r.candidate}, service : Service,
                    conforms : BOOLEAN, environment : Environment] :
          validations' = validations \cup {v}
    BY <1>3 DEF ValidateRecord
  <2>5. Grow BY <2>3, <2>4, TablesGrow
  <2>6. v \in ValidationRow' BY <2>2, <2>5, CommitGrows DEF ValidationRow
  <2>7. validations' \subseteq ValidationRow'
    BY <2>4, <2>5, <2>6, RowsGrow DEF TypeInv, TypeOK, TablesOK
  <2>8. r \in KeyedRequest' BY <2>1, <2>5, RequestsGrow DEF KeyedRequest
  <2>9. idempotency' \subseteq IdempotencyRow'
    BY <2>2, <2>3, <2>5, <2>8, CommitGrows, ResultTyped
  <2>10. TablesOK' BY <2>3, <2>5, <2>7, <2>9, RowsGrow DEF TypeInv, TypeOK, TablesOK
  <2> QED BY <2>3, <2>5, <2>10, CommitTyped DEF TypeInv, ReadsArePlausible
<1> QED BY <1>1, <1>2, <1>3

(* create_branch's commit inserts a ref and its branch row. *)
LEMMA CreateCommitTyped ==
  ASSUME TypeInv, NEW t \in Tx, CreateCommit(t)
  PROVE  TypeInv'
<1> DEFINE r == req[t]
           b == r.name
           point == IF r.from = NoCommit THEN cur[t].head ELSE r.from
           event == [branch |-> b, old |-> NoCommit, new |-> point, version |-> 1,
                     operation |-> "genesis"]
           branch == [status |-> "active", lifecycle |-> 1, source |-> r.source,
                      point |-> point, policy |-> r.policy]
           birth == [branch |-> b, lifecycle |-> 1, status |-> "active",
                     head |-> point, version |-> 1]
<1>1. r \in CreateRequest BY RequestAt DEF CreateCommit, CommitTx, CreatePc
<1>2. b \in Branch /\ r.source \in Branch /\ r.policy \in Policy BY <1>1 DEF CreateRequest
<1>3. point \in Commit
  <2>1. cur[t].head # NoCommit /\ cur[t].head \in {NoCommit} \cup Commit
    BY DEF CreateCommit, CommitTx, TypeInv, ReadsArePlausible, IsRefPair, TypeOK,
           LocalsOK, Ref
  <2> QED BY <1>1, <2>1 DEF CreateRequest
<1>4. EndTx(t) /\ UNCHANGED graphStatus /\ CreateWrites(r, cur[t])
  BY DEF CreateCommit, CommitTx
<1>5. UNCHANGED <<lastCommit, proposals, decisions, outbox, validations>>
  BY <1>4 DEF CreateWrites
<1>6. Grow BY <1>5, TablesGrow
<1>7. refs' \in [Branch -> Ref'] /\ \A x \in Branch : IsRefPair(refs'[x])
  BY <1>2, <1>3, <1>4, <1>5, MovedRefTyped DEF CreateWrites
<1>8. refEvents' \subseteq RefEvent'
  <2>1. event \in RefEvent'
    <3>1. point \in Commit' BY <1>3, <1>6, CommitGrows
    <3> HIDE DEF point, b
    <3> QED BY SMT, <1>2, <3>1 DEF RefEvent, NoCommit
  <2> QED BY <2>1, <1>4, <1>6, RowsGrow DEF CreateWrites, TypeInv, TypeOK, TablesOK
<1>9. branches' \in [Branch -> BranchRow']
  <2>1. branch \in BranchRow' BY <1>2, <1>3, <1>6, CommitGrows DEF BranchRow
  <2>2. branches \in [Branch -> BranchRow'] BY <1>6, RowsGrow DEF TypeInv, TypeOK, TablesOK
  <2> QED BY <1>4, <2>1, <2>2 DEF CreateWrites
<1>10. branchEvents' \subseteq BranchEvent'
  <2>1. birth \in BranchEvent'
    <3>1. point \in Commit' BY <1>3, <1>6, CommitGrows
    <3> HIDE DEF point, b
    <3> QED BY SMT, <1>2, <3>1 DEF BranchEvent
  <2> QED BY <2>1, <1>4, <1>6, RowsGrow DEF CreateWrites, TypeInv, TypeOK, TablesOK
<1>11. idempotency' \subseteq IdempotencyRow'
  <2>1. r \in KeyedRequest' BY <1>1, <1>6, RequestsGrow DEF KeyedRequest
  <2>2. RecordResult(r, point, 1, 1) BY <1>4 DEF CreateWrites
  <2>3. point \in {NoCommit} \cup Commit' BY <1>3, <1>6, CommitGrows
  <2> QED BY <2>1, <2>2, <2>3, <1>6, ResultTyped
<1>12. TablesOK'
  BY <1>4, <1>5, <1>6, <1>7, <1>8, <1>9, <1>10, <1>11, RowsGrow
  DEF TypeInv, TypeOK, TablesOK
<1> QED BY <1>4, <1>6, <1>7, <1>12, CommitTyped

(* delete's and restore's commit renumbers one branch row. *)
LEMMA LifecycleCommitTyped ==
  ASSUME TypeInv, NEW t \in Tx, LifecycleCommit(t)
  PROVE  TypeInv'
<1> DEFINE r == req[t]
           b == r.name
           n == branches[b].lifecycle + 1
           event == [branch |-> b, lifecycle |-> n, status |-> StatusAfter(r),
                     head |-> cur[t].head, version |-> cur[t].version]
<1>1. r \in LifecycleRequest BY RequestAt DEF LifecycleCommit, CommitTx, LifecyclePc
<1>2. b \in Branch BY SMT, <1>1 DEF LifecycleRequest
<1>3. n \in Nat \ {0} BY SMT, <1>2 DEF TypeInv, TypeOK, TablesOK, BranchRow
<1>4. StatusAfter(r) \in {"active", "deleted"} BY DEF StatusAfter
<1>5. cur[t].head \in {NoCommit} \cup Commit /\ cur[t].version \in Nat
  BY DEF TypeInv, TypeOK, LocalsOK, Ref
<1>6. /\ EndTx(t) /\ RecordResult(r, cur[t].head, cur[t].version, n)
      /\ branches' = [branches EXCEPT ![b] =
           [@ EXCEPT !.status = StatusAfter(r), !.lifecycle = n]]
      /\ branchEvents' = branchEvents \cup {event}
      /\ UNCHANGED <<graphStatus, lastCommit, proposals, refs, refEvents, decisions,
                     outbox, validations>>
  BY DEF LifecycleCommit, CommitTx
<1>7. Grow BY <1>6, TablesGrow
<1>8. branches' \in [Branch -> BranchRow']
  <2>1. branches \in [Branch -> BranchRow'] BY <1>7, RowsGrow DEF TypeInv, TypeOK, TablesOK
  <2>2. ASSUME NEW x \in BranchRow', NEW s \in {"active", "deleted"}, NEW m \in Nat
        PROVE  [x EXCEPT !.status = s, !.lifecycle = m] \in BranchRow'
    BY DEF BranchRow
  <2>3. [branches[b] EXCEPT !.status = StatusAfter(r), !.lifecycle = n] \in BranchRow'
    BY <1>2, <1>3, <1>4, <2>1, <2>2
  <2> QED BY <1>2, <1>6, <2>1, <2>3
<1>9. branchEvents' \subseteq BranchEvent'
  <2>1. event \in BranchEvent' BY <1>2, <1>3, <1>4, <1>5, <1>7, CommitGrows DEF BranchEvent
  <2> QED BY <2>1, <1>6, <1>7, RowsGrow DEF TypeInv, TypeOK, TablesOK
<1>10. r \in KeyedRequest' BY <1>1, <1>7, RequestsGrow DEF KeyedRequest
<1>11. idempotency' \subseteq IdempotencyRow'
  BY <1>3, <1>5, <1>6, <1>7, <1>10, CommitGrows, ResultTyped
<1>12. TablesOK'
  BY <1>6, <1>7, <1>8, <1>9, <1>11, RowsGrow DEF TypeInv, TypeOK, TablesOK
<1> QED BY <1>6, <1>7, <1>12, CommitTyped DEF TypeInv, ReadsArePlausible

(* merge_propose's commit publishes a two-parent candidate. *)
LEMMA ProposeCommitTyped ==
  ASSUME TypeInv, NEW t \in Tx, ProposeCommit(t)
  PROVE  TypeInv'
<1> DEFINE r == req[t]
           c == lastCommit + 1
           row == [candidate |-> c, branch |-> r.target, expected |-> cur[t].head,
                   parents |-> <<cur[t].head, src[t].head>>, actor |-> r.actor,
                   source |-> r.source,
                   parties |-> SourceParties(cur[t].head, src[t].head)]
<1>1. r \in ProposeRequest BY RequestAt DEF ProposeCommit, CommitTx, ProposePc
<1>2. /\ r.target \in Branch /\ r.source \in Branch /\ r.actor \in Actor
      /\ cur[t].head \in Commit /\ src[t].head \in Commit
  BY <1>1 DEF ProposeCommit, CommitTx, ProposePc, ProposeRequest, TypeInv, ReadsArePlausible
<1>3. /\ EndTx(t) /\ lastCommit' = c /\ proposals' = proposals \cup {row}
      /\ RecordResult(r, c, 0, 0)
      /\ UNCHANGED <<graphStatus, refs, refEvents, branches, branchEvents, decisions,
                     outbox, validations>>
  BY DEF ProposeCommit, CommitTx
<1>4. Grow BY <1>3, TablesGrow
<1>5. c \in Commit' BY <1>3, NextCommit
<1>6. row.parties \subseteq UNION Actor
  BY SMT DEF SourceParties, TypeInv, TypeOK, TablesOK, ProposalRow
<1>7. row.parents \in Seq(Commit') BY SMT, <1>2, <1>4, CommitGrows
<1>8. row \in ProposalRow'
  BY <1>2, <1>4, <1>5, <1>6, <1>7, CommitGrows DEF ProposalRow
<1>9. proposals' \subseteq ProposalRow' BY <1>3, <1>8, ProposalTyped
<1>10. r \in KeyedRequest' BY <1>1, <1>4, RequestsGrow DEF KeyedRequest
<1>11. idempotency' \subseteq IdempotencyRow' BY <1>3, <1>4, <1>5, <1>10, ResultTyped
<1>12. TablesOK'
  BY <1>3, <1>4, <1>9, <1>11, RowsGrow DEF TypeInv, TypeOK, TablesOK, Grow
<1> QED BY <1>3, <1>4, <1>12, CommitTyped DEF TypeInv, ReadsArePlausible

(* merge_apply's commit moves the target to the merge candidate. *)
LEMMA ApplyCommitTyped ==
  ASSUME TypeInv, NEW t \in Tx, ApplyCommit(t)
  PROVE  TypeInv'
<1> DEFINE r == req[t]
           v == cur[t].version + 1
<1>1. r \in ApplyRequest BY RequestAt DEF ApplyCommit, CommitTx, ApplyPc
<1>2. /\ r.candidate \in Commit /\ r.actor \in Actor /\ r.cites \in Citation
      /\ v \in Nat \ {0} /\ cur[t].head \in {NoCommit} \cup Commit
  <2>1. cur[t] \in Ref BY DEF TypeInv, TypeOK, LocalsOK
  <2>2. v \in Nat \ {0} /\ cur[t].head \in {NoCommit} \cup Commit BY SMT, <2>1 DEF Ref
  <2> QED BY <1>1, <2>2 DEF ApplyRequest
<1>3. PICK p \in MergeRow(r.candidate) :
        /\ refs' = [refs EXCEPT ![p.branch] =
                      [head |-> r.candidate, version |-> @.version + 1]]
        /\ refEvents' = refEvents \cup
             {[branch |-> p.branch, old |-> cur[t].head, new |-> r.candidate,
               version |-> v, operation |-> "merge"]}
        /\ decisions' = decisions \cup {Decision(p, "accepted", v, r)}
        /\ outbox' = outbox \cup
             {[branch |-> p.branch, commit |-> r.candidate, version |-> v]}
  BY DEF ApplyCommit
<1>4. /\ EndTx(t) /\ RecordResult(r, r.candidate, v, 0)
      /\ UNCHANGED <<graphStatus, lastCommit, proposals, branches, branchEvents, validations>>
  BY DEF ApplyCommit, CommitTx
<1>5. p \in proposals /\ p.branch \in Branch BY MergeBranches
<1>6. Grow BY <1>4, TablesGrow
<1>7. refs' \in [Branch -> Ref'] /\ \A x \in Branch : IsRefPair(refs'[x])
  BY <1>2, <1>3, <1>4, <1>5, MovedRefTyped
<1>8. refEvents' \subseteq RefEvent'
  <2>1. [branch |-> p.branch, old |-> cur[t].head, new |-> r.candidate,
         version |-> v, operation |-> "merge"] \in RefEvent'
    BY <1>2, <1>5, <1>6, CommitGrows DEF RefEvent
  <2> QED BY <2>1, <1>3, <1>6, RowsGrow DEF TypeInv, TypeOK, TablesOK
<1>9. decisions' \subseteq DecisionRow' BY <1>2, <1>3, <1>5, <1>6, DecisionTyped
<1>10. outbox' \subseteq OutboxRow'
  <2>1. [branch |-> p.branch, commit |-> r.candidate, version |-> v] \in OutboxRow'
    BY <1>2, <1>5, <1>6, CommitGrows DEF OutboxRow
  <2> QED BY <2>1, <1>3, <1>6, RowsGrow DEF TypeInv, TypeOK, TablesOK
<1>11. r \in KeyedRequest' BY <1>1, <1>6, RequestsGrow DEF KeyedRequest
<1>12. idempotency' \subseteq IdempotencyRow'
  BY <1>2, <1>4, <1>6, <1>11, CommitGrows, ResultTyped
<1>13. TablesOK'
  BY <1>4, <1>6, <1>7, <1>8, <1>9, <1>10, <1>12, RowsGrow DEF TypeInv, TypeOK, TablesOK
<1> QED BY <1>4, <1>6, <1>7, <1>13, CommitTyped

-----------------------------------------------------------------------------
(* A freshly created graph is well typed. *)
LEMMA InitTyped == Init => TypeInv
<1> SUFFICES ASSUME Init PROVE TypeInv OBVIOUS
<1>1. NoRef \in Ref /\ IsRefPair(NoRef) BY DEF NoRef, Ref, NoCommit, IsRefPair
<1>2. NoBranch \in BranchRow BY DEF NoBranch, BranchRow, NoName, NoCommit
<1>3. TablesOK BY <1>1, <1>2 DEF Init, TablesOK
<1>4. LocalsOK BY <1>1 DEF Init, LocalsOK, ServesItsRequest
<1>5. ReadsArePlausible BY <1>1 DEF Init, ReadsArePlausible, ProposePc
<1> QED BY <1>3, <1>4, <1>5 DEF TypeInv, TypeOK

(* Every step of the ledger keeps the types. *)
LEMMA NextTyped == TypeInv /\ [Next]_vars => TypeInv'
<1> SUFFICES ASSUME TypeInv, [Next]_vars PROVE TypeInv' OBVIOUS
<1>1. ASSUME NEW t \in Tx, WorkflowStep(t) PROVE TypeInv'
  BY <1>1, WorkflowReadsTyped, PrepareCommitTyped, AcceptCommitTyped, VerdictCommitsTyped
  DEF WorkflowStep
<1>2. ASSUME NEW t \in Tx, ValidationStep(t) PROVE TypeInv'
  BY <1>2, ValidationReadsTyped, VerdictCommitsTyped DEF ValidationStep
<1>3. ASSUME NEW t \in Tx, BranchStep(t) PROVE TypeInv'
  BY <1>3, BranchReadsTyped, CreateCommitTyped, LifecycleCommitTyped DEF BranchStep
<1>4. ASSUME NEW t \in Tx, MergeStep(t) PROVE TypeInv'
  BY <1>4, MergeReadsTyped, ProposeCommitTyped, ApplyCommitTyped DEF MergeStep
<1>5. ASSUME UNCHANGED tables, graphStatus' \in {"active", "archived"}
      PROVE  Grow /\ TablesOK' /\ \A b \in Branch : IsRefPair(refs'[b])
  <2>1. Grow BY <1>5, UnchangedGrows
  <2>2. TablesOK' BY <1>5, <2>1, RowsGrow DEF tables, TypeInv, TypeOK, TablesOK
  <2> QED BY <1>5, <2>1, <2>2 DEF tables, TypeInv, ReadsArePlausible, IsRefPair
<1>6. ASSUME UNCHANGED <<tables, locals>>, graphStatus' \in {"active", "archived"}
      PROVE  TypeInv'
  <2>1. \A t \in Tx : ServesItsRequest(t)'
    BY <1>5, <1>6, OthersServe DEF locals, TypeInv, TypeOK, LocalsOK
  <2>2. LocalsOK' BY <1>5, <1>6, <2>1, RowsGrow DEF locals, TypeInv, TypeOK, LocalsOK
  <2>3. ReadsArePlausible'
    BY <1>6 DEF locals, tables, TypeInv, ReadsArePlausible, IsRefPair
  <2> QED BY <1>5, <1>6, <2>2, <2>3 DEF TypeInv, TypeOK
<1>7. graphStatus \in {"active", "archived"} BY DEF TypeInv, TypeOK, TablesOK
<1>8. ASSUME NEW t \in Tx, Replay(t) PROVE TypeInv'
  BY <1>6, <1>7, <1>8 DEF Replay, vars
<1>9. ASSUME NEW t \in Tx, Rollback(t) PROVE TypeInv'
  BY <1>5, <1>7, <1>9, CommitTyped DEF Rollback
<1>10. CASE SetGraphStatus BY <1>6, <1>10 DEF SetGraphStatus
<1>11. CASE UNCHANGED vars BY <1>6, <1>7, <1>11 DEF vars
<1> QED BY <1>1, <1>2, <1>3, <1>4, <1>8, <1>9, <1>10, <1>11 DEF Next

(* Type correctness: every table row the repository writes, and everything  *)
(* a transaction carries from one statement to the next, is of its type; in *)
(* particular what a commit writes as a commit is one already published.    *)
THEOREM TypeCorrect == Spec => []TypeOK
<1>1. Spec => []TypeInv BY InitTyped, NextTyped, PTL DEF Spec
<1> QED BY <1>1, PTL DEF TypeInv

-----------------------------------------------------------------------------
(* The commit graph. *)

(* Ancestors is a recursive function: that it is what its definition says   *)
(* needs parents to be older than their children (Based), which is what     *)
(* makes a minimal counterexample impossible in each of the inductions.     *)

(* The least-number principle.  It is proved in LedgerTheorems, from the    *)
(* library's theorems on well-founded relations; only the inductions below  *)
(* use it, and no other step needs those theorems in its context.           *)
LeastNumber == \A T \in SUBSET Nat : T # {} => \E m \in T : \A n \in T : m <= n

(* A proposal's candidate is younger than its parents, the first of which   *)
(* is the head it expects.                                                  *)
WellBased(p) ==
    /\ \A i \in DOMAIN p.parents : p.parents[i] < p.candidate
    /\ IF p.expected = NoCommit THEN p.parents = <<>>
       ELSE p.parents # <<>> /\ p.parents[1] = p.expected

Based == LeastNumber /\ \A p \in proposals : WellBased(p)

(* A parent was there before its child. *)
LEMMA ParentsBelow ==
  ASSUME TypeInv, Based, NEW c \in Commit
  PROVE  Parents(c) \subseteq 1 .. (c - 1)
<1>1. ASSUME NEW p \in proposals, p.candidate = c, NEW i \in DOMAIN p.parents
      PROVE  p.parents[i] \in 1 .. (c - 1)
  <2>1. p.parents \in Seq(Commit) /\ lastCommit \in Nat
    BY DEF TypeInv, TypeOK, TablesOK, ProposalRow
  <2>2. p.parents[i] \in Commit BY SMT, <2>1
  <2>3. p.parents[i] < p.candidate BY DEF Based, WellBased
  <2> QED BY SMT, <1>1, <2>1, <2>2, <2>3 DEF Commit
<1> QED BY SMT, <1>1 DEF Parents

(* The body of Ancestors. *)
Reached(f, c) == IF c = NoCommit THEN {} ELSE {c} \cup UNION {f[p] : p \in Parents(c)}

(* Ancestors is what its definition says: by induction on n there is a      *)
(* function on the first n commits that is.                                 *)
LEMMA AncestorsDefined ==
  TypeInv /\ Based => Ancestors = [c \in 0 .. lastCommit |-> Reached(Ancestors, c)]
<1> SUFFICES ASSUME TypeInv, Based
             PROVE  Ancestors = [c \in 0 .. lastCommit |-> Reached(Ancestors, c)]
  OBVIOUS
<1> DEFINE Ex(n) == \E f : f = [c \in 0 .. n |-> Reached(f, c)]
           T == {n \in 0 .. lastCommit : ~Ex(n)}
<1>0. lastCommit \in Nat BY DEF TypeInv, TypeOK, TablesOK
<1>1. ASSUME NEW f, NEW g, NEW c \in 1 .. lastCommit, \A x \in 1 .. c - 1 : f[x] = g[x]
      PROVE  Reached(f, c) = Reached(g, c)
  <2>1. Parents(c) \subseteq 1 .. c - 1 BY ParentsBelow DEF Commit
  <2>2. {f[p] : p \in Parents(c)} = {g[p] : p \in Parents(c)} BY <1>1, <2>1
  <2> QED BY <2>2 DEF Reached
<1>2. Ex(0)
  <2> DEFINE f == [c \in 0 .. 0 |-> {}]
  <2>1. f = [c \in 0 .. 0 |-> Reached(f, c)] BY SMT DEF Reached, NoCommit
  <2> QED BY <2>1
<1>3. ASSUME NEW n \in 0 .. lastCommit, n + 1 \in 0 .. lastCommit, Ex(n) PROVE Ex(n + 1)
  <2>1. PICK f : f = [c \in 0 .. n |-> Reached(f, c)] BY <1>3
  <2> DEFINE g == [c \in 0 .. n + 1 |-> IF c = n + 1 THEN Reached(f, c) ELSE f[c]]
  <2>2. \A x \in 0 .. n : g[x] = f[x] BY SMT, <1>0, <1>3
  <2>3. ASSUME NEW c \in 0 .. n + 1 PROVE g[c] = Reached(g, c)
    <3>1. CASE c = 0 BY SMT, <1>0, <2>1, <3>1, <2>2 DEF Reached, NoCommit
    <3>2. CASE c # 0
      <4>1. c \in 1 .. lastCommit /\ \A x \in 1 .. c - 1 : f[x] = g[x] BY SMT, <1>0, <2>2, <3>2, <1>3
      <4> HIDE DEF g
      <4>2. Reached(f, c) = Reached(g, c) BY <4>1, <1>1
      <4>3. g[c] = Reached(f, c) BY SMT, <1>0, <2>1 DEF g
      <4> QED BY <4>2, <4>3
    <3> QED BY <3>1, <3>2
  <2>4. g = [c \in 0 .. n + 1 |-> Reached(g, c)]
    <3>1. g = [c \in 0 .. n + 1 |-> g[c]] OBVIOUS
    <3> HIDE DEF g
    <3> QED BY <3>1, <2>3
  <2> HIDE DEF g
  <2> QED BY <2>4
<1>4. T = {}
  <2> SUFFICES ASSUME T # {} PROVE FALSE OBVIOUS
  <2>1. T \subseteq Nat BY SMT, <1>0
  <2> HIDE DEF T, Ex
  <2>2. PICK m \in T : \A n \in T : m <= n BY <2>1 DEF Based, LeastNumber
  <2>3. m \in 0 .. lastCommit /\ ~Ex(m) BY DEF T
  <2>4. m # 0 BY <1>2, <2>3
  <2>5. m - 1 \in 0 .. lastCommit /\ m - 1 \notin T BY SMT, <1>0, <2>2, <2>3, <2>4
  <2>6. Ex(m - 1) BY <2>5 DEF T
  <2>7. Ex((m - 1) + 1) BY SMT, <1>0, <1>3, <2>3, <2>4, <2>5, <2>6
  <2>8. (m - 1) + 1 = m BY SMT, <1>0, <2>3
  <2> QED BY <2>3, <2>7, <2>8
<1>5. Ex(lastCommit) BY SMT, <1>0, <1>4
<1> QED BY <1>5 DEF Ancestors, Reached

(* What is reached from a commit: itself and what its parents reach. *)
AncestorsAre ==
    /\ Ancestors[NoCommit] = {}
    /\ \A c \in Commit : Ancestors[c] = {c} \cup UNION {Ancestors[p] : p \in Parents(c)}

(* Ancestors unfolds ... *)
LEMMA AncestorsOf == TypeInv /\ Based => AncestorsAre
<1> SUFFICES ASSUME TypeInv, Based PROVE AncestorsAre OBVIOUS
<1>0. lastCommit \in Nat BY DEF TypeInv, TypeOK, TablesOK
<1>1. Ancestors = [c \in 0 .. lastCommit |-> Reached(Ancestors, c)] BY AncestorsDefined
<1>2. \A c \in 0 .. lastCommit : Ancestors[c] = Reached(Ancestors, c) BY <1>1
<1>3. Ancestors[NoCommit] = {}
  <2>1. NoCommit \in 0 .. lastCommit BY SMT, <1>0 DEF NoCommit
  <2> QED BY <1>2, <2>1 DEF Reached
<1>4. ASSUME NEW c \in Commit
      PROVE  Ancestors[c] = {c} \cup UNION {Ancestors[p] : p \in Parents(c)}
  <2>1. c \in 0 .. lastCommit /\ c # NoCommit BY SMT, <1>0 DEF Commit, NoCommit
  <2> QED BY <1>2, <2>1 DEF Reached
<1> QED BY <1>3, <1>4 DEF AncestorsAre

(* ... after a step as well. *)
LEMMA AncestorsOfNext == TypeInv' /\ Based' => AncestorsAre'
  BY AncestorsOf, PTL

(* A commit reaches itself, nothing younger, and whatever those it reaches  *)
(* reach.                                                                   *)
AncestorsOrdered ==
    \A c \in Commit : /\ c \in Ancestors[c] /\ Ancestors[c] \subseteq 1 .. c
                      /\ \A x \in Ancestors[c] : Ancestors[x] \subseteq Ancestors[c]

(* The ancestors are ordered ... *)
LEMMA AncestorsOrder == TypeInv /\ Based => AncestorsOrdered
<1> SUFFICES ASSUME TypeInv, Based PROVE AncestorsOrdered OBVIOUS
<1> DEFINE Good(c) == /\ c \in Ancestors[c] /\ Ancestors[c] \subseteq 1 .. c
                      /\ \A x \in Ancestors[c] : Ancestors[x] \subseteq Ancestors[c]
           T == {c \in Commit : ~Good(c)}
<1>0. lastCommit \in Nat BY DEF TypeInv, TypeOK, TablesOK
<1>1. T = {}
  <2> SUFFICES ASSUME T # {} PROVE FALSE OBVIOUS
  <2>1. T \subseteq Nat BY SMT, <1>0 DEF Commit
  <2> HIDE DEF T
  <2>2. PICK m \in T : \A n \in T : m <= n BY <2>1 DEF Based, LeastNumber
  <2>3. m \in Commit /\ ~Good(m) BY DEF T
  <2>4. \A p \in Parents(m) : p \in Commit /\ p < m /\ p \notin T
    BY SMT, <1>0, <2>2, <2>3, ParentsBelow DEF Commit
  <2>5. \A p \in Parents(m) : Good(p) BY <2>4 DEF T
  <2>6. Ancestors[m] = {m} \cup UNION {Ancestors[p] : p \in Parents(m)}
    BY <2>3, AncestorsOf DEF AncestorsAre
  <2>7. m \in Ancestors[m] BY <2>6
  <2>8. ASSUME NEW x \in Ancestors[m] PROVE x \in 1 .. m /\ Ancestors[x] \subseteq Ancestors[m]
    <3>1. CASE x = m BY SMT, <1>0, <2>3, <3>1 DEF Commit
    <3>2. CASE x # m
      <4>1. PICK p \in Parents(m) : x \in Ancestors[p] BY SMT, <2>6, <3>2
      <4>2. p \in Commit /\ p < m /\ Good(p) BY <2>4, <2>5
      <4>3. Ancestors[p] \subseteq Ancestors[m] BY <2>6
      <4> QED BY SMT, <1>0, <2>3, <4>1, <4>2, <4>3 DEF Commit
    <3> QED BY <3>1, <3>2
  <2> QED BY <2>3, <2>7, <2>8
<1> QED BY <1>1 DEF AncestorsOrdered

(* ... after a step as well. *)
LEMMA AncestorsOrderNext == TypeInv' /\ Based' => AncestorsOrdered'
  BY AncestorsOrder, PTL

(* A step that only publishes new commits leaves what the old ones reach. *)
LEMMA AncestorsStable ==
  ASSUME TypeInv, Based, TypeInv', Based',
         proposals \subseteq proposals', lastCommit <= lastCommit',
         \A p \in proposals' \ proposals : p.candidate > lastCommit,
         NEW c \in 0 .. lastCommit
  PROVE  Ancestors'[c] = Ancestors[c]
<1> DEFINE T == {x \in 0 .. lastCommit : Ancestors'[x] # Ancestors[x]}
<1>0. lastCommit \in Nat /\ lastCommit' \in Nat BY DEF TypeInv, TypeOK, TablesOK
<1>1. ASSUME NEW x \in Commit PROVE Parents(x)' = Parents(x)
  <2>1. {q \in proposals' : q.candidate = x} = {q \in proposals : q.candidate = x}
    BY SMT, <1>0 DEF Commit
  <2> QED BY <2>1 DEF Parents
<1>2. AncestorsAre /\ AncestorsAre' BY SMT, AncestorsOf, AncestorsOfNext
<1>3. T = {}
  <2> SUFFICES ASSUME T # {} PROVE FALSE OBVIOUS
  <2>1. T \subseteq Nat BY SMT, <1>0
  <2> HIDE DEF T
  <2>2. PICK m \in T : \A n \in T : m <= n BY <2>1 DEF Based, LeastNumber
  <2>3. m \in 0 .. lastCommit /\ Ancestors'[m] # Ancestors[m] BY DEF T
  <2>4. m # NoCommit BY <1>2, <2>3 DEF AncestorsAre
  <2>5. m \in Commit /\ m \in Commit' BY SMT, <1>0, <2>3, <2>4 DEF Commit, NoCommit
  <2>6. \A p \in Parents(m) : p \in 0 .. lastCommit /\ p \notin T
    BY SMT, <1>0, <2>2, <2>5, ParentsBelow DEF Commit
  <2>7. \A p \in Parents(m) : Ancestors'[p] = Ancestors[p] BY <2>6 DEF T
  <2>8. Ancestors[m] = {m} \cup UNION {Ancestors[p] : p \in Parents(m)}
    BY <1>2, <2>5 DEF AncestorsAre
  <2>9. Ancestors'[m] = {m} \cup UNION {Ancestors'[p] : p \in Parents(m)}
    BY <1>1, <1>2, <2>5 DEF AncestorsAre
  <2>10. {Ancestors'[p] : p \in Parents(m)} = {Ancestors[p] : p \in Parents(m)} BY <2>7
  <2> QED BY <2>3, <2>8, <2>9, <2>10
<1> QED BY <1>3

-----------------------------------------------------------------------------
(* History and decisions. *)

(* The transaction has not begun: it holds no lock and was promised none. *)
Outside == {"idle", "create_begin", "validate_call", "propose_source", "propose_begin"}

(* Every step of a transaction that writes no table ... *)
ReadStep(t) ==
    \/ PrepareBegin(t) \/ PrepareLockBranch(t) \/ PrepareReadHead(t)
    \/ AcceptBegin(t) \/ AcceptLockRef(t) \/ AcceptLockBranch(t) \/ AcceptDecide(t)
    \/ RejectBegin(t) \/ RejectDecide(t) \/ SupersedeBegin(t) \/ SupersedeDecide(t)
    \/ ValidateBegin(t) \/ ValidateRecordBegin(t)
    \/ CreateReadSource(t) \/ CreateBegin(t) \/ CreateLockRef(t) \/ CreateLockBranch(t)
    \/ LifecycleBegin(t) \/ LifecycleLockBranch(t) \/ LifecycleReadRef(t)
    \/ ProposeReadTarget(t) \/ ProposeReadSource(t) \/ ProposeBegin(t)
    \/ ProposeLockBranch(t) \/ ProposeRecheck(t) \/ ApplyBegin(t)
    \/ ApplyLockRef(t, 1, "apply_ref_1", "apply_ref_2")
    \/ ApplyLockRef(t, 2, "apply_ref_2", "apply_branch_1")
    \/ ApplyLockBranch(t, 1, "apply_branch_1", "apply_branch_2")
    \/ ApplyLockBranch(t, 2, "apply_branch_2", "apply_decide")
    \/ ApplyDecide(t)

(* ... and the commits, by what they write. *)
MoveStep(t)   == AcceptCommit(t) \/ CreateCommit(t) \/ ApplyCommit(t)
DecideStep(t) == AcceptCommit(t) \/ RejectCommit(t) \/ SupersedeCommit(t) \/ ApplyCommit(t)
OtherStep(t)  == PrepareCommit(t) \/ ProposeCommit(t) \/ ValidateRecord(t) \/ LifecycleCommit(t)
WriteStep(t)  == MoveStep(t) \/ DecideStep(t) \/ OtherStep(t)

-----------------------------------------------------------------------------
(* The inductive invariant. *)

(* PostgreSQL grants no two transactions conflicting locks. *)
Compatible ==
    \A t, u \in Tx : t # u =>
        \A l \in held[t], m \in held[u] :
            (l.kind = m.kind /\ l.id = m.id) => (l.mode = "share" /\ m.mode = "share")

UniqueCandidates == \A p, q \in proposals : p.candidate = q.candidate => p = q

(* t locked the row of b and still sees it. *)
LockedRef(t, b) == refs[b] = cur[t] /\ Lock("ref", b, "exclusive") \in held[t]

(* accept, once past its ref lock, and merge apply, once past the lock of   *)
(* its target, still hold it and still see what they read.                  *)
HoldsRef(t) ==
    cur[t].version # 0 =>
        /\ pc[t] \in AcceptPc \ {"accept_ref"} => LockedRef(t, req[t].branch)
        /\ pc[t] \in ApplyPc \ {"apply_ref_1"} =>
             \A p \in MergeRow(req[t].candidate) :
                (pc[t] = "apply_ref_2" => InNameOrder(p, 1) = p.branch)
                    => LockedRef(t, p.branch)

(* A decider at its commit holds the decision lock of an undecided candidate. *)
HoldsDecision(t) ==
    pc[t] \in {"accept_commit", "reject_commit", "supersede_commit", "apply_commit"} =>
        /\ Lock("decision", req[t].candidate, "exclusive") \in held[t]
        /\ Undecided(req[t].candidate)

IInv == /\ TypeInv
        /\ Compatible
        /\ UniqueCandidates
        /\ \A t \in Tx : HoldsRef(t) /\ HoldsDecision(t)
        /\ RefHistory
        /\ OneDecisionPerCandidate

-----------------------------------------------------------------------------
(* How a step treats locks. *)

(* A reading step touches the locals of its transaction only. *)
LEMMA ReadStepFrame ==
  ASSUME TypeInv, NEW t \in Tx, ReadStep(t)
  PROVE  /\ UNCHANGED <<graphStatus, tables>>
         /\ \A u \in Tx \ {t} : /\ pc'[u] = pc[u] /\ req'[u] = req[u]
                                /\ held'[u] = held[u]
                                /\ cur'[u] = cur[u] /\ src'[u] = src[u]
<1> DEFINE Frame == /\ UNCHANGED <<graphStatus, tables>>
                    /\ \A u \in Tx \ {t} : /\ pc'[u] = pc[u] /\ req'[u] = req[u]
                                           /\ held'[u] = held[u]
                                           /\ cur'[u] = cur[u] /\ src'[u] = src[u]
<1>1. ASSUME NEW r, NEW from, NEW to, BeginScoped(t, r, from, to) PROVE Frame
  BY SMT, <1>1, BeginScopedLocals DEF OnlyAt
<1>2. ASSUME NEW from, NEW to, Step(t, from, to), UNCHANGED <<graphStatus, tables>>,
             UNCHANGED req \/ \E r : req' = [req EXCEPT ![t] = r],
             UNCHANGED cur \/ \E x : cur' = [cur EXCEPT ![t] = x],
             UNCHANGED src \/ \E x : src' = [src EXCEPT ![t] = x],
             \A u \in Tx \ {t} : held'[u] = held[u]
      PROVE  Frame
  BY <1>2 DEF Step, TypeInv, TypeOK, LocalsOK
<1>3. CASE PrepareBegin(t) \/ AcceptBegin(t) \/ RejectBegin(t) \/ LifecycleBegin(t)
           \/ ApplyBegin(t) \/ ValidateRecordBegin(t) \/ CreateBegin(t) \/ ProposeBegin(t)
  BY SMT, <1>1, <1>3 DEF PrepareBegin, AcceptBegin, RejectBegin, LifecycleBegin, ApplyBegin,
     ValidateRecordBegin, CreateBegin, ProposeBegin
<1>4. CASE PrepareLockBranch(t) BY <1>2, <1>4, LockLocals DEF PrepareLockBranch
<1>5. CASE PrepareReadHead(t) BY <1>2, <1>5 DEF PrepareReadHead
<1>6. CASE AcceptLockRef(t) BY <1>2, <1>6, LockLocals DEF AcceptLockRef
<1>7. CASE AcceptLockBranch(t) BY <1>2, <1>7, LockLocals DEF AcceptLockBranch
<1>8. CASE AcceptDecide(t) BY <1>2, <1>8, LockLocals DEF AcceptDecide
<1>9. CASE RejectDecide(t) BY <1>2, <1>9, LockLocals DEF RejectDecide
<1>10. CASE SupersedeBegin(t)
  BY <1>2, <1>10 DEF SupersedeBegin, TypeInv, TypeOK, LocalsOK
<1>11. CASE SupersedeDecide(t) BY <1>2, <1>11, LockLocals DEF SupersedeDecide
<1>12. CASE ValidateBegin(t) BY <1>2, <1>12 DEF ValidateBegin
<1>13. CASE CreateReadSource(t) BY <1>2, <1>13 DEF CreateReadSource
<1>14. CASE CreateLockRef(t) BY <1>2, <1>14, LockLocals DEF CreateLockRef
<1>15. CASE CreateLockBranch(t) BY <1>2, <1>15, LockLocals DEF CreateLockBranch
<1>16. CASE LifecycleLockBranch(t) BY <1>2, <1>16, LockLocals DEF LifecycleLockBranch
<1>17. CASE LifecycleReadRef(t) BY <1>2, <1>17 DEF LifecycleReadRef
<1>18. CASE ProposeReadTarget(t) BY <1>2, <1>18 DEF ProposeReadTarget
<1>19. CASE ProposeReadSource(t) BY <1>2, <1>19 DEF ProposeReadSource
<1>20. CASE ProposeLockBranch(t) BY <1>2, <1>20, LockLocals DEF ProposeLockBranch
<1>21. CASE ProposeRecheck(t) BY <1>2, <1>21 DEF ProposeRecheck
<1>22. ASSUME NEW n, NEW from, NEW to, ApplyLockRef(t, n, from, to) PROVE Frame
  BY <1>2, <1>22, LockLocals DEF ApplyLockRef
<1>23. ASSUME NEW n, NEW from, NEW to, ApplyLockBranch(t, n, from, to) PROVE Frame
  BY <1>2, <1>23, LockLocals DEF ApplyLockBranch
<1>24. CASE ApplyDecide(t) BY <1>2, <1>24, LockLocals DEF ApplyDecide
<1> QED
  BY <1>3, <1>4, <1>5, <1>6, <1>7, <1>8, <1>9, <1>10, <1>11, <1>12, <1>13, <1>14, <1>15,
     <1>16, <1>17, <1>18, <1>19, <1>20, <1>21, <1>22, <1>23, <1>24 DEF ReadStep

(* What a step adds to its locks it was granted, and it keeps what it had. *)
LEMMA ReadStepLocks ==
  ASSUME TypeInv, NEW t \in Tx, ReadStep(t)
  PROVE  /\ \A l \in held'[t] : l \in held[t] \/ IsFree(t, l)
         /\ pc[t] \notin Outside => held[t] \subseteq held'[t]
<1> DEFINE Locks == /\ \A l \in held'[t] : l \in held[t] \/ IsFree(t, l)
                    /\ pc[t] \notin Outside => held[t] \subseteq held'[t]
<1>1. ASSUME NEW r, NEW from \in Outside, NEW to, BeginScoped(t, r, from, to) PROVE Locks
  BY <1>1 DEF BeginScoped, Step, TypeInv, TypeOK, LocalsOK
<1>2. ASSUME UNCHANGED held PROVE Locks BY <1>2
<1>3. ASSUME NEW l, Acquire(t, l) PROVE Locks
  BY <1>3 DEF Acquire, TypeInv, TypeOK, LocalsOK
<1>4. ASSUME NEW b, NEW mode, LockRef(t, b, mode) \/ LockBranch(t, b, mode) PROVE Locks
  BY <1>2, <1>3, <1>4 DEF LockRef, LockBranch
<1>5. ASSUME NEW c, LockProposalDecision(t, c) PROVE Locks
  BY <1>3, <1>5 DEF LockProposalDecision
<1>6. CASE PrepareBegin(t) \/ AcceptBegin(t) \/ RejectBegin(t) \/ LifecycleBegin(t)
           \/ ApplyBegin(t) \/ ValidateRecordBegin(t) \/ CreateBegin(t) \/ ProposeBegin(t)
  BY <1>1, <1>6 DEF PrepareBegin, AcceptBegin, RejectBegin, LifecycleBegin, ApplyBegin,
     ValidateRecordBegin, CreateBegin, ProposeBegin, Outside
<1>7. CASE SupersedeBegin(t)
  BY <1>7 DEF SupersedeBegin, Step, Outside, TypeInv, TypeOK, LocalsOK
<1>8. CASE PrepareReadHead(t) \/ ValidateBegin(t) \/ CreateReadSource(t)
           \/ LifecycleReadRef(t) \/ ProposeReadTarget(t) \/ ProposeReadSource(t)
           \/ ProposeRecheck(t)
  BY <1>2, <1>8 DEF PrepareReadHead, ValidateBegin, CreateReadSource, LifecycleReadRef,
     ProposeReadTarget, ProposeReadSource, ProposeRecheck
<1>9. CASE PrepareLockBranch(t) \/ AcceptLockRef(t) \/ AcceptLockBranch(t)
           \/ CreateLockRef(t) \/ CreateLockBranch(t) \/ LifecycleLockBranch(t)
           \/ ProposeLockBranch(t)
  BY <1>4, <1>9 DEF PrepareLockBranch, AcceptLockRef, AcceptLockBranch, CreateLockRef,
     CreateLockBranch, LifecycleLockBranch, ProposeLockBranch
<1>10. CASE AcceptDecide(t) \/ RejectDecide(t) \/ SupersedeDecide(t) \/ ApplyDecide(t)
  BY <1>5, <1>10 DEF AcceptDecide, RejectDecide, SupersedeDecide, ApplyDecide
<1>11. ASSUME NEW n, NEW from, NEW to,
              ApplyLockRef(t, n, from, to) \/ ApplyLockBranch(t, n, from, to)
       PROVE  Locks
  BY <1>4, <1>11 DEF ApplyLockRef, ApplyLockBranch
<1> QED BY <1>6, <1>7, <1>8, <1>9, <1>10, <1>11 DEF ReadStep

(* A commit releases the locks of its transaction and disturbs no other. *)
LEMMA WriteStepFrame ==
  ASSUME TypeInv, NEW t \in Tx, WriteStep(t) \/ Rollback(t)
  PROVE  /\ pc'[t] = "idle" /\ held'[t] = {}
         /\ \A u \in Tx \ {t} : /\ pc'[u] = pc[u] /\ req'[u] = req[u]
                                /\ held'[u] = held[u]
                                /\ cur'[u] = cur[u] /\ src'[u] = src[u]
<1>1. EndTx(t)
  BY DEF WriteStep, MoveStep, DecideStep, OtherStep, AcceptCommit, CreateCommit,
     ApplyCommit, RejectCommit, SupersedeCommit, PrepareCommit, ProposeCommit,
     ValidateRecord, LifecycleCommit, CommitTx, Rollback
<1> QED BY <1>1 DEF EndTx, TypeInv, TypeOK, LocalsOK

(* PostgreSQL's lock table stays free of conflicting grants. *)
LEMMA CompatibleStep ==
  ASSUME TypeInv, Compatible, NEW t \in Tx, ReadStep(t) \/ WriteStep(t) \/ Rollback(t)
  PROVE  Compatible'
<1>1. CASE ReadStep(t)
  <2>1. \A u \in Tx \ {t} : held'[u] = held[u] BY <1>1, ReadStepFrame
  <2>2. \A l \in held'[t] : l \in held[t] \/ IsFree(t, l) BY <1>1, ReadStepLocks
  <2> QED BY SMT, <2>1, <2>2 DEF Compatible, IsFree
<1>2. CASE WriteStep(t) \/ Rollback(t) BY SMT, <1>2, WriteStepFrame DEF Compatible
<1> QED BY <1>1, <1>2

-----------------------------------------------------------------------------
(* Where a step leads. *)

(* t goes from one statement to another. *)
Goes(t, from, to) == pc[t] = from /\ pc'[t] = to

(* Where each step of a transaction that writes no table starts and ends. *)
LEMMA Places ==
  ASSUME TypeInv, NEW t \in Tx
  PROVE  /\ PrepareBegin(t) => Goes(t, "idle", "prepare_branch")
         /\ AcceptBegin(t) => Goes(t, "idle", "accept_ref")
         /\ RejectBegin(t) => Goes(t, "idle", "reject_decide")
         /\ LifecycleBegin(t) => Goes(t, "idle", "lifecycle_branch")
         /\ ApplyBegin(t) => Goes(t, "idle", "apply_ref_1")
         /\ ValidateRecordBegin(t) => Goes(t, "validate_call", "validate_record")
         /\ CreateBegin(t) => Goes(t, "create_begin", "create_ref")
         /\ ProposeBegin(t) => Goes(t, "propose_begin", "propose_branch")
         /\ PrepareLockBranch(t) => Goes(t, "prepare_branch", "prepare_read")
         /\ PrepareReadHead(t) => Goes(t, "prepare_read", "prepare_commit")
         /\ AcceptLockRef(t) => Goes(t, "accept_ref", "accept_branch")
         /\ AcceptLockBranch(t) => Goes(t, "accept_branch", "accept_decide")
         /\ AcceptDecide(t) => Goes(t, "accept_decide", "accept_commit")
         /\ RejectDecide(t) => Goes(t, "reject_decide", "reject_commit")
         /\ SupersedeBegin(t) => Goes(t, "idle", "supersede_decide")
         /\ SupersedeDecide(t) => Goes(t, "supersede_decide", "supersede_commit")
         /\ ValidateBegin(t) => Goes(t, "idle", "validate_call")
         /\ CreateReadSource(t) => Goes(t, "idle", "create_begin")
         /\ CreateLockRef(t) => Goes(t, "create_ref", "create_branch")
         /\ CreateLockBranch(t) => Goes(t, "create_branch", "create_commit")
         /\ LifecycleLockBranch(t) => Goes(t, "lifecycle_branch", "lifecycle_read")
         /\ LifecycleReadRef(t) => Goes(t, "lifecycle_read", "lifecycle_commit")
         /\ ProposeReadTarget(t) => Goes(t, "idle", "propose_source")
         /\ ProposeReadSource(t) => Goes(t, "propose_source", "propose_begin")
         /\ ProposeLockBranch(t) => Goes(t, "propose_branch", "propose_recheck")
         /\ ProposeRecheck(t) => Goes(t, "propose_recheck", "propose_commit")
         /\ ApplyDecide(t) => Goes(t, "apply_decide", "apply_commit")
         /\ \A n, from, to : ApplyLockRef(t, n, from, to) => Goes(t, from, to)
         /\ \A n, from, to : ApplyLockBranch(t, n, from, to) => Goes(t, from, to)
<1>1. ASSUME NEW from, NEW to, Step(t, from, to) PROVE Goes(t, from, to)
  BY <1>1 DEF Step, Goes, TypeInv, TypeOK, LocalsOK
<1>2. ASSUME NEW r, NEW from, NEW to, BeginScoped(t, r, from, to) PROVE Goes(t, from, to)
  BY <1>2, BeginScopedLocals DEF Goes
<1>3. /\ PrepareBegin(t) => Goes(t, "idle", "prepare_branch")
      /\ AcceptBegin(t) => Goes(t, "idle", "accept_ref")
      /\ RejectBegin(t) => Goes(t, "idle", "reject_decide")
      /\ LifecycleBegin(t) => Goes(t, "idle", "lifecycle_branch")
      /\ ApplyBegin(t) => Goes(t, "idle", "apply_ref_1")
      /\ ValidateRecordBegin(t) => Goes(t, "validate_call", "validate_record")
      /\ CreateBegin(t) => Goes(t, "create_begin", "create_ref")
      /\ ProposeBegin(t) => Goes(t, "propose_begin", "propose_branch")
  BY <1>2 DEF PrepareBegin, AcceptBegin, RejectBegin, LifecycleBegin, ApplyBegin,
     ValidateRecordBegin, CreateBegin, ProposeBegin
<1>4. /\ PrepareLockBranch(t) => Goes(t, "prepare_branch", "prepare_read")
      /\ PrepareReadHead(t) => Goes(t, "prepare_read", "prepare_commit")
      /\ AcceptLockRef(t) => Goes(t, "accept_ref", "accept_branch")
      /\ AcceptLockBranch(t) => Goes(t, "accept_branch", "accept_decide")
      /\ AcceptDecide(t) => Goes(t, "accept_decide", "accept_commit")
      /\ RejectDecide(t) => Goes(t, "reject_decide", "reject_commit")
      /\ SupersedeBegin(t) => Goes(t, "idle", "supersede_decide")
      /\ SupersedeDecide(t) => Goes(t, "supersede_decide", "supersede_commit")
      /\ ValidateBegin(t) => Goes(t, "idle", "validate_call")
      /\ CreateReadSource(t) => Goes(t, "idle", "create_begin")
  BY <1>1 DEF PrepareLockBranch, PrepareReadHead, AcceptLockRef, AcceptLockBranch, AcceptDecide,
     RejectDecide, SupersedeBegin, SupersedeDecide, ValidateBegin, CreateReadSource
<1>5. /\ CreateLockRef(t) => Goes(t, "create_ref", "create_branch")
      /\ CreateLockBranch(t) => Goes(t, "create_branch", "create_commit")
      /\ LifecycleLockBranch(t) => Goes(t, "lifecycle_branch", "lifecycle_read")
      /\ LifecycleReadRef(t) => Goes(t, "lifecycle_read", "lifecycle_commit")
      /\ ProposeReadTarget(t) => Goes(t, "idle", "propose_source")
      /\ ProposeReadSource(t) => Goes(t, "propose_source", "propose_begin")
      /\ ProposeLockBranch(t) => Goes(t, "propose_branch", "propose_recheck")
      /\ ProposeRecheck(t) => Goes(t, "propose_recheck", "propose_commit")
      /\ ApplyDecide(t) => Goes(t, "apply_decide", "apply_commit")
  BY <1>1 DEF CreateLockRef, CreateLockBranch, LifecycleLockBranch, LifecycleReadRef,
     ProposeReadTarget, ProposeReadSource, ProposeLockBranch, ProposeRecheck, ApplyDecide
<1> QED BY <1>1, <1>3, <1>4, <1>5 DEF ApplyLockRef, ApplyLockBranch

(* A transaction begins with its scope and the graph's status locked, and   *)
(* stays with its request until it ends.                                    *)
LEMMA Entering ==
  ASSUME TypeInv, NEW t \in Tx, ReadStep(t)
  PROVE  /\ pc[t] \notin Outside =>
              /\ pc'[t] \notin Outside /\ req'[t] = req[t]
              /\ pc'[t] \in SupersedePc <=> pc[t] \in SupersedePc
         /\ (pc[t] \in Outside /\ pc'[t] \notin Outside) =>
              SupersedeBegin(t) \/ BeginScoped(t, req'[t], pc[t], pc'[t])
<1>1. CASE PrepareBegin(t) \/ AcceptBegin(t) \/ RejectBegin(t) \/ LifecycleBegin(t)
           \/ ApplyBegin(t) \/ ValidateRecordBegin(t) \/ CreateBegin(t) \/ ProposeBegin(t)
  <2>1. PICK r, from, to : BeginScoped(t, r, from, to)
    BY <1>1 DEF PrepareBegin, AcceptBegin, RejectBegin, LifecycleBegin, ApplyBegin,
       ValidateRecordBegin, CreateBegin, ProposeBegin
  <2>2. BeginScoped(t, req'[t], pc[t], pc'[t]) BY <2>1, BeginScopedLocals
  <2>3. pc[t] \in Outside BY <1>1, Places DEF Goes, Outside
  <2> QED BY <2>2, <2>3
<1>2. CASE SupersedeBegin(t) BY <1>2, Places DEF Goes, Outside
<1>3. CASE ValidateBegin(t) \/ CreateReadSource(t) \/ ProposeReadTarget(t) \/ ProposeReadSource(t)
  BY <1>3, Places DEF Goes, Outside
<1>4. CASE PrepareLockBranch(t) \/ PrepareReadHead(t) \/ AcceptLockRef(t) \/ AcceptLockBranch(t)
           \/ AcceptDecide(t) \/ RejectDecide(t) \/ CreateLockRef(t) \/ CreateLockBranch(t)
           \/ LifecycleLockBranch(t) \/ LifecycleReadRef(t) \/ ProposeLockBranch(t)
           \/ ProposeRecheck(t) \/ ApplyDecide(t)
  <2>1. UNCHANGED req
    BY <1>4 DEF PrepareLockBranch, PrepareReadHead, AcceptLockRef, AcceptLockBranch,
       AcceptDecide, RejectDecide, CreateLockRef, CreateLockBranch, LifecycleLockBranch,
       LifecycleReadRef, ProposeLockBranch, ProposeRecheck, ApplyDecide
  <2>2. pc[t] \notin Outside \cup SupersedePc /\ pc'[t] \notin Outside \cup SupersedePc
    BY <1>4, Places DEF Goes, Outside, SupersedePc
  <2> QED BY <2>1, <2>2
<1>5. CASE SupersedeDecide(t)
  BY <1>5, Places DEF SupersedeDecide, Goes, Outside, SupersedePc
<1>6. ASSUME NEW n, NEW from \in ApplyPc, NEW to \in ApplyPc,
             ApplyLockRef(t, n, from, to) \/ ApplyLockBranch(t, n, from, to)
      PROVE  /\ pc[t] \notin Outside \cup SupersedePc /\ pc'[t] \notin Outside \cup SupersedePc
             /\ req' = req
  BY <1>6, Places DEF ApplyLockRef, ApplyLockBranch, Goes, Outside, SupersedePc, ApplyPc
<1> QED BY <1>1, <1>2, <1>3, <1>4, <1>5, <1>6 DEF ReadStep, ApplyPc

(* The one statement that leads to each place of the invariant. *)
LEMMA ComesFrom ==
  ASSUME TypeInv, NEW t \in Tx, ReadStep(t)
  PROVE  /\ pc'[t] = "prepare_branch" => PrepareBegin(t)
         /\ pc'[t] = "prepare_read" => PrepareLockBranch(t)
         /\ pc'[t] = "prepare_commit" => PrepareReadHead(t)
         /\ pc'[t] = "accept_ref" => AcceptBegin(t)
         /\ pc'[t] = "accept_branch" => AcceptLockRef(t)
         /\ pc'[t] = "accept_decide" => AcceptLockBranch(t)
         /\ pc'[t] = "accept_commit" => AcceptDecide(t)
         /\ pc'[t] = "reject_decide" => RejectBegin(t)
         /\ pc'[t] = "reject_commit" => RejectDecide(t)
         /\ pc'[t] = "supersede_decide" => SupersedeBegin(t)
         /\ pc'[t] = "supersede_commit" => SupersedeDecide(t)
         /\ pc'[t] = "create_begin" => CreateReadSource(t)
         /\ pc'[t] = "create_ref" => CreateBegin(t)
         /\ pc'[t] = "create_branch" => CreateLockRef(t)
         /\ pc'[t] = "create_commit" => CreateLockBranch(t)
         /\ pc'[t] = "lifecycle_branch" => LifecycleBegin(t)
         /\ pc'[t] = "lifecycle_read" => LifecycleLockBranch(t)
         /\ pc'[t] = "lifecycle_commit" => LifecycleReadRef(t)
         /\ pc'[t] = "propose_source" => ProposeReadTarget(t)
         /\ pc'[t] = "propose_begin" => ProposeReadSource(t)
         /\ pc'[t] = "propose_branch" => ProposeBegin(t)
         /\ pc'[t] = "propose_recheck" => ProposeLockBranch(t)
         /\ pc'[t] = "propose_commit" => ProposeRecheck(t)
         /\ pc'[t] = "apply_ref_1" => ApplyBegin(t)
         /\ pc'[t] = "apply_commit" => ApplyDecide(t)
         /\ pc'[t] = "apply_ref_2" => ApplyLockRef(t, 1, "apply_ref_1", "apply_ref_2")
         /\ pc'[t] = "apply_branch_1" => ApplyLockRef(t, 2, "apply_ref_2", "apply_branch_1")
         /\ pc'[t] = "apply_branch_2" => ApplyLockBranch(t, 1, "apply_branch_1", "apply_branch_2")
         /\ pc'[t] = "apply_decide" => ApplyLockBranch(t, 2, "apply_branch_2", "apply_decide")
  BY SMT, Places DEF ReadStep, Goes

-----------------------------------------------------------------------------
(* The invariant is kept. *)

-----------------------------------------------------------------------------
(* Decisions. *)

Deciding == {"accept_commit", "reject_commit", "supersede_commit", "apply_commit"}

(* Which statements lead to the places the invariant speaks of. *)
LEMMA ReadStepTo ==
  ASSUME TypeInv, NEW t \in Tx, ReadStep(t)
  PROVE  /\ pc'[t] \in Deciding =>
              AcceptDecide(t) \/ RejectDecide(t) \/ SupersedeDecide(t) \/ ApplyDecide(t)
         /\ pc'[t] \in AcceptPc \ {"accept_ref"} =>
              AcceptLockRef(t) \/ AcceptLockBranch(t) \/ AcceptDecide(t)
         /\ pc'[t] \in ApplyPc \ {"apply_ref_1"} =>
              \/ ApplyLockRef(t, 1, "apply_ref_1", "apply_ref_2")
              \/ ApplyLockRef(t, 2, "apply_ref_2", "apply_branch_1")
              \/ ApplyLockBranch(t, 1, "apply_branch_1", "apply_branch_2")
              \/ ApplyLockBranch(t, 2, "apply_branch_2", "apply_decide")
              \/ ApplyDecide(t)
<1> DEFINE Elsewhere == pc'[t] \notin Deciding \cup (AcceptPc \ {"accept_ref"})
                                           \cup (ApplyPc \ {"apply_ref_1"})
<1>1. ASSUME NEW from, NEW to, Step(t, from, to) PROVE pc'[t] = to
  BY <1>1 DEF Step, TypeInv, TypeOK, LocalsOK
<1>2. ASSUME NEW r, NEW from, NEW to, BeginScoped(t, r, from, to) PROVE pc'[t] = to
  BY <1>2, BeginScopedLocals
<1>3. CASE PrepareBegin(t) \/ AcceptBegin(t) \/ RejectBegin(t) \/ LifecycleBegin(t)
           \/ ApplyBegin(t) \/ ValidateRecordBegin(t) \/ CreateBegin(t) \/ ProposeBegin(t)
  <2>1. Elsewhere
    BY <1>2, <1>3 DEF PrepareBegin, AcceptBegin, RejectBegin, LifecycleBegin, ApplyBegin,
       ValidateRecordBegin, CreateBegin, ProposeBegin, Deciding, AcceptPc, ApplyPc
  <2> QED BY <2>1
<1>4. CASE PrepareLockBranch(t) \/ PrepareReadHead(t) \/ SupersedeBegin(t)
           \/ ValidateBegin(t) \/ CreateReadSource(t) \/ CreateLockRef(t)
           \/ CreateLockBranch(t) \/ LifecycleLockBranch(t) \/ LifecycleReadRef(t)
           \/ ProposeReadTarget(t) \/ ProposeReadSource(t) \/ ProposeLockBranch(t)
           \/ ProposeRecheck(t)
  <2>1. Elsewhere
    BY <1>1, <1>4 DEF PrepareLockBranch, PrepareReadHead, SupersedeBegin, ValidateBegin,
       CreateReadSource, CreateLockRef, CreateLockBranch, LifecycleLockBranch,
       LifecycleReadRef, ProposeReadTarget, ProposeReadSource, ProposeLockBranch,
       ProposeRecheck, Deciding, AcceptPc, ApplyPc
  <2> QED BY <2>1
<1>5. CASE AcceptLockRef(t) \/ AcceptLockBranch(t) \/ AcceptDecide(t)
  <2>1. pc'[t] \in {"accept_branch", "accept_decide", "accept_commit"}
    BY <1>1, <1>5 DEF AcceptLockRef, AcceptLockBranch, AcceptDecide
  <2>2. pc'[t] \in Deciding => AcceptDecide(t)
    BY <1>1, <1>5 DEF AcceptLockRef, AcceptLockBranch, Deciding
  <2> QED BY <1>5, <2>1, <2>2 DEF ApplyPc
<1>6. CASE RejectDecide(t) \/ SupersedeDecide(t)
  <2>1. pc'[t] \in {"reject_commit", "supersede_commit"}
    BY <1>1, <1>6 DEF RejectDecide, SupersedeDecide
  <2> QED BY <1>6, <2>1 DEF AcceptPc, ApplyPc
<1>7. ASSUME NEW n, NEW from, NEW to \in ApplyPc \ {"apply_commit"},
             ApplyLockRef(t, n, from, to) \/ ApplyLockBranch(t, n, from, to)
      PROVE  pc'[t] \notin Deciding \cup AcceptPc
  BY <1>1, <1>7 DEF ApplyLockRef, ApplyLockBranch, Deciding, AcceptPc, ApplyPc
<1>8. CASE ApplyDecide(t)
  <2>1. pc'[t] = "apply_commit" BY <1>1, <1>8 DEF ApplyDecide
  <2> QED BY <1>8, <2>1 DEF AcceptPc
<1> QED BY SMT, <1>3, <1>4, <1>5, <1>6, <1>7, <1>8 DEF ReadStep, ApplyPc

(* A commit that decides, decides the candidate of its request, once. *)
LEMMA DecideStepWrites ==
  ASSUME TypeInv, NEW t \in Tx, WriteStep(t)
  PROVE  \/ UNCHANGED decisions
         \/ /\ pc[t] \in Deciding
            /\ \E d : decisions' = decisions \cup {d} /\ d.candidate = req[t].candidate
<1>1. CASE OtherStep(t) \/ CreateCommit(t)
  BY <1>1 DEF OtherStep, PrepareCommit, ProposeCommit, ValidateRecord, LifecycleCommit,
     CreateCommit, CreateWrites
<1>2. ASSUME NEW p, NEW s, NEW v, p.candidate = req[t].candidate,
             decisions' = decisions \cup {Decision(p, s, v, req[t])}
      PROVE  \E d : decisions' = decisions \cup {d} /\ d.candidate = req[t].candidate
  <2>1. Decision(p, s, v, req[t]).candidate = req[t].candidate BY <1>2 DEF Decision
  <2> QED BY <1>2, <2>1
<1>3. CASE AcceptCommit(t)
  BY <1>2, <1>3 DEF AcceptCommit, AcceptWrites, CommitTx, Deciding
<1>4. CASE RejectCommit(t) BY <1>2, <1>4 DEF RejectCommit, CommitTx, Deciding
<1>5. CASE SupersedeCommit(t) BY <1>2, <1>5 DEF SupersedeCommit, CommitTx, Deciding
<1>6. CASE ApplyCommit(t) BY <1>2, <1>6 DEF ApplyCommit, MergeRow, CommitTx, Deciding
<1> QED BY <1>1, <1>3, <1>4, <1>5, <1>6 DEF WriteStep, MoveStep, DecideStep

(* A decider keeps its lock, and its candidate undecided, to its commit. *)
LEMMA HoldsDecisionStep ==
  ASSUME IInv, NEW t \in Tx, ReadStep(t) \/ WriteStep(t) \/ Rollback(t), NEW u \in Tx
  PROVE  HoldsDecision(u)'
<1>0. TypeInv /\ Compatible /\ HoldsDecision(t) /\ HoldsDecision(u) BY DEF IInv
<1>1. CASE ReadStep(t) /\ u # t
  BY <1>0, <1>1, ReadStepFrame DEF HoldsDecision, Undecided, tables
<1>2. CASE ReadStep(t) /\ u = t
  <2> SUFFICES ASSUME pc'[t] \in Deciding
               PROVE  /\ (Lock("decision", req[t].candidate, "exclusive") \in held[t])'
                      /\ Undecided(req[t].candidate)'
    BY <1>2 DEF HoldsDecision, Deciding
  <2>1. AcceptDecide(t) \/ RejectDecide(t) \/ SupersedeDecide(t) \/ ApplyDecide(t)
    BY <1>0, <1>2, ReadStepTo
  <2>2. /\ LockProposalDecision(t, req[t].candidate) /\ Undecided(req[t].candidate)
        /\ UNCHANGED <<req, tables>>
    BY <2>1 DEF AcceptDecide, RejectDecide, SupersedeDecide, ApplyDecide
  <2> QED BY <1>0, <2>2 DEF LockProposalDecision, Acquire, Undecided, tables,
             TypeInv, TypeOK, LocalsOK
<1>3. CASE (WriteStep(t) \/ Rollback(t)) /\ u = t
  BY <1>0, <1>3, WriteStepFrame DEF HoldsDecision
<1>4. CASE Rollback(t) /\ u # t
  BY SMT, <1>0, <1>4, WriteStepFrame DEF HoldsDecision, Undecided, Rollback, tables
<1>5. CASE WriteStep(t) /\ u # t
  <2>1. /\ pc'[u] = pc[u] /\ req'[u] = req[u] /\ held'[u] = held[u]
    BY <1>0, <1>5, WriteStepFrame
  <2>2. CASE UNCHANGED decisions BY <1>0, <2>1, <2>2 DEF HoldsDecision, Undecided
  <2>3. ASSUME pc[t] \in Deciding, NEW d, decisions' = decisions \cup {d},
               d.candidate = req[t].candidate
        PROVE  HoldsDecision(u)'
    <3> SUFFICES ASSUME pc[u] \in Deciding
                 PROVE  Undecided(req[u].candidate)'
      BY <1>0, <2>1 DEF HoldsDecision, Deciding, Undecided
    <3>1. /\ Lock("decision", req[t].candidate, "exclusive") \in held[t]
          /\ Lock("decision", req[u].candidate, "exclusive") \in held[u]
          /\ Undecided(req[u].candidate)
      BY <1>0, <2>3 DEF HoldsDecision, Deciding
    <3>2. req[t].candidate # req[u].candidate
      BY <1>0, <1>5, <3>1 DEF Compatible, Lock
    <3> QED BY <2>1, <2>3, <3>1, <3>2 DEF Undecided
  <2> QED BY <1>0, <1>5, <2>2, <2>3, DecideStepWrites
<1> QED BY <1>1, <1>2, <1>3, <1>4, <1>5

(* No commit decides a candidate a second time. *)
LEMMA OneDecisionStep ==
  ASSUME IInv, NEW t \in Tx, WriteStep(t)
  PROVE  OneDecisionPerCandidate'
<1>1. CASE UNCHANGED decisions BY <1>1 DEF IInv, OneDecisionPerCandidate
<1>2. ASSUME pc[t] \in Deciding, NEW d, decisions' = decisions \cup {d},
             d.candidate = req[t].candidate
      PROVE  OneDecisionPerCandidate'
  <2>1. Undecided(d.candidate) BY <1>2 DEF IInv, HoldsDecision, Deciding
  <2> QED BY <1>2, <2>1 DEF IInv, OneDecisionPerCandidate, Undecided
<1> QED BY <1>1, <1>2, DecideStepWrites DEF IInv

-----------------------------------------------------------------------------
(* Proposals and refs. *)

(* Only prepare and merge propose publish, and always the next commit. *)
LEMMA PublishStepWrites ==
  ASSUME TypeInv, NEW t \in Tx, WriteStep(t)
  PROVE  \/ UNCHANGED proposals
         \/ \E p : proposals' = proposals \cup {p} /\ p.candidate = lastCommit + 1
<1>1. CASE MoveStep(t) \/ DecideStep(t) \/ ValidateRecord(t) \/ LifecycleCommit(t)
  BY <1>1 DEF MoveStep, DecideStep, ValidateRecord, LifecycleCommit, AcceptCommit,
     AcceptWrites, CreateCommit, CreateWrites, ApplyCommit, RejectCommit, SupersedeCommit
<1>2. CASE PrepareCommit(t)
  <2> DEFINE r == req[t]
             c == lastCommit + 1
             row == [candidate |-> c, branch |-> r.branch, expected |-> r.expected,
                     parents |-> IF r.expected = NoCommit THEN <<>> ELSE <<r.expected>>,
                     actor |-> r.actor, source |-> NoName, parties |-> {}]
  <2>1. proposals' = proposals \cup {row} BY <1>2 DEF PrepareCommit
  <2>2. row.candidate = lastCommit + 1 OBVIOUS
  <2> HIDE DEF row
  <2> QED BY <2>1, <2>2
<1>3. CASE ProposeCommit(t)
  <2> DEFINE r == req[t]
             c == lastCommit + 1
             row == [candidate |-> c, branch |-> r.target, expected |-> cur[t].head,
                     parents |-> <<cur[t].head, src[t].head>>, actor |-> r.actor,
                     source |-> r.source,
                     parties |-> SourceParties(cur[t].head, src[t].head)]
  <2>1. proposals' = proposals \cup {row} BY <1>3 DEF ProposeCommit
  <2>2. row.candidate = lastCommit + 1 OBVIOUS
  <2> HIDE DEF row
  <2> QED BY <2>1, <2>2
<1> QED BY <1>1, <1>2, <1>3 DEF WriteStep, OtherStep

(* So a candidate keeps the proposal it has. *)
LEMMA ProposalsStep ==
  ASSUME TypeInv, UniqueCandidates, NEW t \in Tx, WriteStep(t)
  PROVE  /\ UniqueCandidates'
         /\ \A c \in Commit : MergeRow(c)' = MergeRow(c)
<1>1. CASE UNCHANGED proposals BY <1>1 DEF UniqueCandidates, MergeRow
<1>2. ASSUME NEW p, proposals' = proposals \cup {p}, p.candidate = lastCommit + 1
      PROVE  /\ UniqueCandidates'
             /\ \A c \in Commit : MergeRow(c)' = MergeRow(c)
  <2>1. \A c \in Commit : c # p.candidate
    BY SMT, <1>2 DEF Commit, TypeInv, TypeOK, TablesOK
  <2>2. \A q \in proposals : q.candidate \in Commit
    BY DEF TypeInv, TypeOK, TablesOK, ProposalRow
  <2>3. UniqueCandidates' BY <1>2, <2>1, <2>2 DEF UniqueCandidates
  <2>4. \A c \in Commit : MergeRow(c)' = MergeRow(c) BY <1>2, <2>1 DEF MergeRow
  <2> QED BY <2>3, <2>4
<1> QED BY <1>1, <1>2, PublishStepWrites

(* A ref moves from the head its mover read, and the mover read all of the  *)
(* ref: under its lock, or, for a ref that did not exist, because a ref     *)
(* without a head has no version either.                                    *)
LEMMA MoverSeesRef ==
  ASSUME TypeInv, NEW t \in Tx, NEW b \in Branch, refs[b].head = cur[t].head,
         cur[t].version # 0 => LockedRef(t, b)
  PROVE  refs[b].head = cur[t].head /\ refs[b].version = cur[t].version
<1>1. CASE cur[t].version # 0 BY <1>1 DEF LockedRef
<1>2. CASE cur[t].version = 0
  <2>1. IsRefPair(refs[b]) /\ IsRefPair(cur[t]) BY DEF TypeInv, ReadsArePlausible
  <2> QED BY <1>2, <2>1 DEF IsRefPair
<1> QED BY <1>1, <1>2

(* What a moving commit does to the ref and to its events. *)
Moves(b, c, op) ==
    /\ refs' = [refs EXCEPT ![b] = [head |-> c, version |-> @.version + 1]]
    /\ refEvents' = refEvents \cup
         {[branch |-> b, old |-> refs[b].head, new |-> c,
           version |-> refs[b].version + 1, operation |-> op]}

(* A commit that moves a ref moves it from where it is, and one event on. *)
LEMMA MoveStepWrites ==
  ASSUME IInv, NEW t \in Tx, WriteStep(t)
  PROVE  \/ UNCHANGED <<refs, refEvents>>
         \/ \E b \in Branch, c \in Commit, op \in {"genesis", "advance", "merge"} :
              /\ Moves(b, c, op)
              /\ refs[b].version = 0 \/ Lock("ref", b, "exclusive") \in held[t]
<1>0. TypeInv /\ HoldsRef(t) BY DEF IInv
<1>1. CASE OtherStep(t) \/ RejectCommit(t) \/ SupersedeCommit(t)
  BY <1>1 DEF OtherStep, PrepareCommit, ProposeCommit, ValidateRecord, LifecycleCommit,
     RejectCommit, SupersedeCommit
<1>2. CASE AcceptCommit(t)
  <2> DEFINE b == req[t].branch
             op == IF cur[t].version = 0 THEN "genesis" ELSE "advance"
  <2>1. pc[t] = "accept_commit" BY <1>2 DEF AcceptCommit, CommitTx
  <2>2. b \in Branch /\ req[t].candidate \in Commit
    BY <1>0, <2>1, RequestAt DEF AcceptPc, AcceptRequest
  <2>3. cur[t].version # 0 => LockedRef(t, b) BY <1>0, <2>1 DEF HoldsRef, AcceptPc
  <2>4. refs[b].head = cur[t].head /\ refs[b].version = cur[t].version
    BY <1>0, <1>2, <2>2, <2>3, MoverSeesRef DEF AcceptCommit
  <2>5. Moves(b, req[t].candidate, op)
    BY <1>2, <2>4 DEF AcceptCommit, AcceptWrites, Moves
  <2>6. refs[b].version = 0 \/ Lock("ref", b, "exclusive") \in held[t]
    BY <2>3, <2>4 DEF LockedRef
  <2>7. op \in {"genesis", "advance", "merge"} OBVIOUS
  <2> QED BY <2>2, <2>5, <2>6, <2>7
<1>3. CASE CreateCommit(t)
  <2> DEFINE b == req[t].name
             point == IF req[t].from = NoCommit THEN cur[t].head ELSE req[t].from
  <2>1. pc[t] = "create_commit" BY <1>3 DEF CreateCommit, CommitTx
  <2>2. req[t] \in CreateRequest BY <1>0, <2>1, RequestAt DEF CreatePc
  <2>3. cur[t].head \in Commit
    BY <1>0, <2>1 DEF TypeInv, ReadsArePlausible, IsRefPair, TypeOK, LocalsOK, Ref
  <2>4. b \in Branch /\ point \in Commit BY <2>2, <2>3 DEF CreateRequest
  <2>5. refs[b].version = 0 /\ refs[b].head = NoCommit
    BY <1>0, <1>3, <2>4 DEF CreateCommit, TypeInv, ReadsArePlausible, IsRefPair
  <2>6. Moves(b, point, "genesis")
    <3>1. /\ refs' = [refs EXCEPT ![b] = [head |-> point, version |-> 1]]
          /\ refEvents' = refEvents \cup
               {[branch |-> b, old |-> NoCommit, new |-> point, version |-> 1,
                 operation |-> "genesis"]}
      BY <1>3 DEF CreateCommit, CreateWrites
    <3> HIDE DEF point, b
    <3> QED BY SMT, <2>5, <3>1 DEF Moves
  <2> QED BY <2>4, <2>5, <2>6
<1>4. CASE ApplyCommit(t)
  <2> DEFINE v == cur[t].version + 1
  <2>1. pc[t] = "apply_commit" BY <1>4 DEF ApplyCommit, CommitTx
  <2>2. req[t].candidate \in Commit BY <1>0, <2>1, RequestAt DEF ApplyPc, ApplyRequest
  <2>3. PICK p \in MergeRow(req[t].candidate) :
          /\ refs[p.branch].head = cur[t].head
          /\ refs' = [refs EXCEPT ![p.branch] =
                        [head |-> req[t].candidate, version |-> @.version + 1]]
          /\ refEvents' = refEvents \cup
               {[branch |-> p.branch, old |-> cur[t].head, new |-> req[t].candidate,
                 version |-> v, operation |-> "merge"]}
    BY <1>4 DEF ApplyCommit
  <2>4. p.branch \in Branch BY <1>0, MergeBranches
  <2>5. cur[t].version # 0 => LockedRef(t, p.branch)
    BY <1>0, <2>1 DEF HoldsRef, ApplyPc
  <2>6. refs[p.branch].head = cur[t].head /\ refs[p.branch].version = cur[t].version
    BY <1>0, <2>3, <2>4, <2>5, MoverSeesRef
  <2>7. Moves(p.branch, req[t].candidate, "merge") BY <2>3, <2>6 DEF Moves
  <2>8. refs[p.branch].version = 0 \/ Lock("ref", p.branch, "exclusive") \in held[t]
    BY <2>5, <2>6 DEF LockedRef
  <2> QED BY <2>2, <2>4, <2>7, <2>8
<1> QED BY <1>1, <1>2, <1>3, <1>4 DEF WriteStep, MoveStep, DecideStep

(* A move extends the history of its ref by one event and touches no other. *)
LEMMA MoveKeepsHistory ==
  ASSUME TypeInv, RefHistory, NEW b \in Branch, NEW c \in Commit, NEW op, Moves(b, c, op)
  PROVE  RefHistory'
<1> DEFINE n == refs[b].version
           e0 == [branch |-> b, old |-> refs[b].head, new |-> c,
                  version |-> n + 1, operation |-> op]
<1>1. n \in Nat /\ IsRefPair(refs[b])
  BY DEF TypeInv, TypeOK, TablesOK, Ref, ReadsArePlausible
<1>2. /\ refs'[b].head = c /\ refs'[b].version = n + 1
      /\ \A x \in Branch \ {b} : refs'[x] = refs[x]
  BY DEF Moves, TypeInv, TypeOK, TablesOK
<1>3. /\ EventsOf(b)' = EventsOf(b) \cup {e0}
      /\ \A x \in Branch \ {b} : EventsOf(x)' = EventsOf(x)
  BY SMT DEF Moves, EventsOf
<1>4. \A e \in EventsOf(b) : e.version \in Nat \ {0}
  BY DEF EventsOf, TypeInv, TypeOK, TablesOK, RefEvent
<1>5. e0.version = n + 1 /\ e0.new = c /\ e0.old = refs[b].head OBVIOUS
<1> HIDE DEF e0
<1>6. ASSUME NEW v \in 1 .. refs'[b].version PROVE \E e \in EventsOf(b)' : e.version = v
  BY SMT, <1>1, <1>2, <1>3, <1>5 DEF RefHistory
<1>7. ASSUME NEW e \in EventsOf(b)', NEW f \in EventsOf(b)'
      PROVE  /\ e.version <= refs'[b].version
             /\ e.version = f.version => e = f
             /\ f.version = e.version + 1 => f.old = e.new
  <2>1. \A x \in EventsOf(b) : x.version <= n BY DEF RefHistory
  <2>2. \A x \in EventsOf(b) : x.version = n => x.new = refs[b].head BY DEF RefHistory
  <2>3. CASE e \in EventsOf(b) /\ f \in EventsOf(b)
    BY SMT, <1>1, <1>2, <1>4, <2>1, <2>3 DEF RefHistory
  <2>4. CASE e = e0 /\ f \in EventsOf(b) BY SMT, <1>1, <1>2, <1>4, <1>5, <2>1, <2>4
  <2>5. CASE e \in EventsOf(b) /\ f = e0 BY SMT, <1>1, <1>2, <1>4, <1>5, <2>1, <2>2, <2>5
  <2>6. CASE e = e0 /\ f = e0 BY SMT, <1>1, <1>2, <1>5, <2>6
  <2> QED BY <1>3, <2>3, <2>4, <2>5, <2>6
<1>8. ASSUME NEW e \in EventsOf(b)'
      PROVE  /\ e.version = refs'[b].version => e.new = refs'[b].head
             /\ e.version = 1 <=> e.old = NoCommit
  <2>1. CASE e \in EventsOf(b)
    <3>1. e.version <= n /\ (e.version = 1 <=> e.old = NoCommit) BY <2>1 DEF RefHistory
    <3> QED BY SMT, <1>1, <1>2, <1>4, <2>1, <3>1
  <2>2. CASE e = e0 BY SMT, <1>1, <1>2, <1>5, <2>2 DEF IsRefPair
  <2> QED BY <1>3, <2>1, <2>2
<1>9. \A x \in Branch \ {b} : /\ refs'[x] = refs[x] /\ EventsOf(x)' = EventsOf(x)
  BY <1>2, <1>3
<1> QED BY SMT, <1>6, <1>7, <1>8, <1>9 DEF RefHistory

(* A step that moves no ref keeps every history. *)
LEMMA UnmovedKeepsHistory ==
  ASSUME RefHistory, refs' = refs, refEvents' = refEvents
  PROVE  RefHistory'
<1>1. \A b : EventsOf(b)' = EventsOf(b) BY DEF EventsOf
<1> QED BY SMT, <1>1 DEF RefHistory

(* No commit breaks the history of a ref. *)
LEMMA RefHistoryStep ==
  ASSUME IInv, NEW t \in Tx, WriteStep(t)
  PROVE  RefHistory'
<1>1. CASE UNCHANGED <<refs, refEvents>> BY <1>1, UnmovedKeepsHistory DEF IInv
<1> QED BY <1>1, MoveStepWrites, MoveKeepsHistory DEF IInv

(* A ref that a transaction locked and saw is moved by no other. *)
LEMMA LockedRefStays ==
  ASSUME IInv, NEW t \in Tx, WriteStep(t), NEW u \in Tx \ {t}, NEW b \in Branch,
         cur[u].version # 0, LockedRef(u, b)
  PROVE  LockedRef(u, b)'
<1>1. held'[u] = held[u] /\ cur'[u] = cur[u] BY WriteStepFrame DEF IInv
<1>2. refs'[b] = refs[b]
  <2>1. CASE UNCHANGED <<refs, refEvents>> BY <2>1
  <2>2. ASSUME NEW x \in Branch, NEW c \in Commit, NEW op, Moves(x, c, op),
               refs[x].version = 0 \/ Lock("ref", x, "exclusive") \in held[t]
        PROVE  refs'[b] = refs[b]
    <3>1. x # b
      <4>1. refs[b].version # 0 /\ Lock("ref", b, "exclusive") \in held[u] BY DEF LockedRef
      <4>2. Lock("ref", b, "exclusive") \notin held[t]
        BY <4>1 DEF IInv, Compatible, Lock
      <4> QED BY <2>2, <4>1, <4>2
    <3> QED BY <2>2, <3>1 DEF Moves, IInv, TypeInv, TypeOK, TablesOK
  <2> QED BY <2>1, <2>2, MoveStepWrites
<1> QED BY <1>1, <1>2 DEF LockedRef

(* The lock statement itself: the row is there, so it is locked and seen. *)
LEMMA LockRefSees ==
  ASSUME TypeInv, NEW t \in Tx, NEW b \in Branch, LockRef(t, b, "exclusive"),
         cur' = [cur EXCEPT ![t] = refs[b]], UNCHANGED tables, cur'[t].version # 0
  PROVE  LockedRef(t, b)'
  BY DEF LockRef, Acquire, LockedRef, tables, TypeInv, TypeOK, LocalsOK

(* accept keeps the ref row it locked. *)
LEMMA AcceptHoldsRef ==
  ASSUME IInv, NEW t \in Tx, AcceptLockRef(t) \/ AcceptLockBranch(t) \/ AcceptDecide(t),
         cur'[t].version # 0
  PROVE  LockedRef(t, req[t].branch)'
<1>0. TypeInv /\ HoldsRef(t) BY DEF IInv
<1>1. CASE AcceptLockRef(t)
  <2>1. req[t].branch \in Branch
    BY <1>0, <1>1, RequestAt DEF AcceptLockRef, Step, AcceptPc, AcceptRequest
  <2> DEFINE b == req[t].branch
  <2>2. LockedRef(t, b)' <=> refs'[b] = cur'[t] /\ Lock("ref", b, "exclusive") \in held'[t]
    BY <1>1 DEF LockedRef, AcceptLockRef
  <2>3. /\ LockRef(t, b, "exclusive") /\ cur' = [cur EXCEPT ![t] = refs[b]]
        /\ UNCHANGED <<tables, req>>
    BY <1>1 DEF AcceptLockRef
  <2> QED BY <1>0, <2>1, <2>2, <2>3
      DEF LockRef, Acquire, tables, TypeInv, TypeOK, LocalsOK
<1>2. CASE AcceptLockBranch(t) \/ AcceptDecide(t)
  <2>1. pc[t] \in AcceptPc \ {"accept_ref"} /\ UNCHANGED <<tables, req, cur>>
    BY <1>2 DEF AcceptLockBranch, AcceptDecide, Step, AcceptPc
  <2>2. LockedRef(t, req[t].branch) BY <1>0, <2>1 DEF HoldsRef
  <2>3. ReadStep(t) /\ pc[t] \notin Outside
    BY <1>2, <2>1 DEF ReadStep, AcceptPc, Outside
  <2>4. held[t] \subseteq held'[t] BY <1>0, <2>3, ReadStepLocks
  <2> QED BY <2>1, <2>2, <2>4 DEF LockedRef, tables
<1> QED BY <1>1, <1>2

(* merge_apply keeps the target's ref row it locked. *)
LEMMA ApplyHoldsRef ==
  ASSUME IInv, NEW t \in Tx, ReadStep(t), cur'[t].version # 0,
         pc'[t] \in ApplyPc \ {"apply_ref_1"},
         NEW p \in MergeRow(req[t].candidate),
         pc'[t] = "apply_ref_2" => InNameOrder(p, 1) = p.branch
  PROVE  UNCHANGED <<req, tables>> /\ LockedRef(t, p.branch)'
<1>0. TypeInv /\ HoldsRef(t) /\ UniqueCandidates BY DEF IInv
<1>1. p.branch \in Branch /\ p.source \in Branch BY <1>0, MergeBranches
<1>2. ASSUME pc[t] \in ApplyPc \ {"apply_ref_1", "apply_ref_2"}, UNCHANGED <<req, tables, cur>>
      PROVE  LockedRef(t, p.branch)'
  <2>1. LockedRef(t, p.branch) BY <1>0, <1>2 DEF HoldsRef, ApplyPc
  <2>2. held[t] \subseteq held'[t]
    BY <1>0, <1>2, ReadStepLocks DEF ApplyPc, Outside
  <2> QED BY <1>2, <2>1, <2>2 DEF LockedRef, tables
<1>3. ASSUME NEW n \in {1, 2}, NEW from, NEW to, ApplyLockRef(t, n, from, to)
      PROVE  LET b == InNameOrder(p, n)
             IN  IF b = p.branch
                 THEN /\ LockRef(t, b, "exclusive")
                      /\ cur' = [cur EXCEPT ![t] = refs[b]]
                 ELSE UNCHANGED cur
  <2>1. PICK q \in MergeRow(req[t].candidate) :
          LET b == InNameOrder(q, n)
          IN  IF b = q.branch
              THEN /\ LockRef(t, b, "exclusive")
                   /\ cur' = [cur EXCEPT ![t] = refs[b]]
              ELSE UNCHANGED cur
    BY <1>3 DEF ApplyLockRef
  <2>2. q = p BY <1>0 DEF MergeRow, UniqueCandidates
  <2> QED BY <2>1, <2>2
<1>4. CASE ApplyLockRef(t, 1, "apply_ref_1", "apply_ref_2")
  <2>1. pc'[t] = "apply_ref_2" /\ UNCHANGED <<req, tables>>
    BY <1>0, <1>4 DEF ApplyLockRef, Step, TypeInv, TypeOK, LocalsOK
  <2>2. LockRef(t, p.branch, "exclusive") /\ cur' = [cur EXCEPT ![t] = refs[p.branch]]
    BY <1>3, <1>4, <2>1
  <2> QED BY <1>0, <1>1, <2>1, <2>2, LockRefSees
<1>5. CASE ApplyLockRef(t, 2, "apply_ref_2", "apply_branch_1")
  <2>1. pc[t] = "apply_ref_2" /\ UNCHANGED <<req, tables>>
    BY <1>5 DEF ApplyLockRef, Step
  <2>2. CASE InNameOrder(p, 2) = p.branch
    <3>1. LockRef(t, p.branch, "exclusive") /\ cur' = [cur EXCEPT ![t] = refs[p.branch]]
      BY <1>3, <1>5, <2>2
    <3> QED BY <1>0, <1>1, <2>1, <3>1, LockRefSees
  <2>3. CASE InNameOrder(p, 2) # p.branch
    <3>1. UNCHANGED cur BY <1>3, <1>5, <2>3
    <3>2. InNameOrder(p, 1) = p.branch
      BY SMT, <2>3 DEF InNameOrder
    <3>3. LockedRef(t, p.branch) BY <1>0, <2>1, <3>1, <3>2 DEF HoldsRef, ApplyPc
    <3>4. held[t] \subseteq held'[t] BY <1>0, <2>1, ReadStepLocks DEF Outside
    <3> QED BY <2>1, <3>1, <3>3, <3>4 DEF LockedRef, tables
  <2> QED BY <2>1, <2>2, <2>3
<1>6. CASE \/ ApplyLockBranch(t, 1, "apply_branch_1", "apply_branch_2")
           \/ ApplyLockBranch(t, 2, "apply_branch_2", "apply_decide")
           \/ ApplyDecide(t)
  <2>1. pc[t] \in ApplyPc \ {"apply_ref_1", "apply_ref_2"} /\ UNCHANGED <<req, tables, cur>>
    BY <1>6 DEF ApplyLockBranch, ApplyDecide, Step, ApplyPc
  <2> QED BY <1>2, <2>1
<1> QED BY <1>0, <1>4, <1>5, <1>6, ReadStepTo

(* What a transaction holds depends on the refs, the proposals and itself. *)
LEMMA HoldsRefKept ==
  ASSUME NEW u \in Tx, HoldsRef(u), refs' = refs, proposals' = proposals,
         pc'[u] = pc[u], req'[u] = req[u], cur'[u] = cur[u], held'[u] = held[u]
  PROVE  HoldsRef(u)'
<1>1. \A b : LockedRef(u, b)' <=> LockedRef(u, b) BY DEF LockedRef
<1>2. MergeRow(req[u].candidate)' = MergeRow(req[u].candidate) BY DEF MergeRow
<1> QED BY <1>1, <1>2 DEF HoldsRef, InNameOrder

(* No step takes away, or moves, a ref that is locked for an update. *)
LEMMA HoldsRefStep ==
  ASSUME IInv, NEW t \in Tx, ReadStep(t) \/ WriteStep(t) \/ Rollback(t), NEW u \in Tx
  PROVE  HoldsRef(u)'
<1>0. TypeInv /\ HoldsRef(u) /\ UniqueCandidates BY DEF IInv
<1>1. CASE ReadStep(t) /\ u # t
  BY <1>0, <1>1, ReadStepFrame, HoldsRefKept DEF tables
<1>2. CASE ReadStep(t) /\ u = t
  <2>1. ASSUME cur'[t].version # 0, pc'[t] \in AcceptPc \ {"accept_ref"}
        PROVE  LockedRef(t, req[t].branch)'
    BY <1>0, <1>2, <2>1, ReadStepTo, AcceptHoldsRef
  <2>2. ASSUME cur'[t].version # 0, pc'[t] \in ApplyPc \ {"apply_ref_1"},
               NEW p \in MergeRow(req[t].candidate)',
               pc'[t] = "apply_ref_2" => InNameOrder(p, 1) = p.branch
        PROVE  LockedRef(t, p.branch)'
    <3>1. \/ ApplyLockRef(t, 1, "apply_ref_1", "apply_ref_2")
          \/ ApplyLockRef(t, 2, "apply_ref_2", "apply_branch_1")
          \/ ApplyLockBranch(t, 1, "apply_branch_1", "apply_branch_2")
          \/ ApplyLockBranch(t, 2, "apply_branch_2", "apply_decide")
          \/ ApplyDecide(t)
      BY <1>0, <1>2, <2>2, ReadStepTo
    <3>2. UNCHANGED <<req, tables>> BY <3>1 DEF ApplyLockRef, ApplyLockBranch, ApplyDecide
    <3>3. p \in MergeRow(req[t].candidate) BY <3>2 DEF MergeRow, tables
    <3> QED BY <1>2, <2>2, <3>3, ApplyHoldsRef
  <2> QED BY <1>2, <2>1, <2>2 DEF HoldsRef, InNameOrder
<1>3. CASE (WriteStep(t) \/ Rollback(t)) /\ u = t
  BY <1>0, <1>3, WriteStepFrame DEF HoldsRef, AcceptPc, ApplyPc
<1>4. CASE Rollback(t) /\ u # t
  BY <1>0, <1>4, WriteStepFrame, HoldsRefKept DEF Rollback, tables
<1>5. CASE WriteStep(t) /\ u # t
  <2>1. /\ pc'[u] = pc[u] /\ req'[u] = req[u] /\ cur'[u] = cur[u]
    BY <1>0, <1>5, WriteStepFrame
  <2> SUFFICES ASSUME cur[u].version # 0
               PROVE  /\ pc[u] \in AcceptPc \ {"accept_ref"} => LockedRef(u, req[u].branch)'
                      /\ pc[u] \in ApplyPc \ {"apply_ref_1"} =>
                           \A p \in MergeRow(req[u].candidate)' :
                             (pc[u] = "apply_ref_2" => InNameOrder(p, 1) = p.branch)
                                 => LockedRef(u, p.branch)'
    BY <2>1 DEF HoldsRef, InNameOrder
  <2>2. ASSUME pc[u] \in AcceptPc \ {"accept_ref"} PROVE LockedRef(u, req[u].branch)'
    <3> DEFINE b == req[u].branch
    <3>1. b \in Branch /\ LockedRef(u, b)
      BY <1>0, <2>2, RequestAt DEF HoldsRef, AcceptRequest
    <3>2. refs'[b] = cur'[u] /\ Lock("ref", b, "exclusive") \in held'[u]
      <4> HIDE DEF b
      <4> QED BY <1>5, <3>1, LockedRefStays DEF LockedRef
    <3> QED BY <2>1, <3>2 DEF LockedRef
  <2>3. ASSUME pc[u] \in ApplyPc \ {"apply_ref_1"}, NEW p \in MergeRow(req[u].candidate)',
               pc[u] = "apply_ref_2" => InNameOrder(p, 1) = p.branch
        PROVE  LockedRef(u, p.branch)'
    <3>1. req[u].candidate \in Commit BY <1>0, <2>3, RequestAt DEF ApplyRequest
    <3>2. MergeRow(req[u].candidate)' = {q \in proposals' : q.candidate = req[u].candidate
                                                            /\ q.source # NoName}
      BY <2>1 DEF MergeRow
    <3>3. p \in MergeRow(req[u].candidate)
      BY <1>0, <1>5, <2>3, <3>1, <3>2, ProposalsStep DEF MergeRow
    <3>4. p.branch \in Branch /\ LockedRef(u, p.branch)
      BY <1>0, <2>3, <3>3, MergeBranches DEF HoldsRef
    <3> QED BY <1>5, <3>4, LockedRefStays
  <2> QED BY <2>2, <2>3
<1> QED BY <1>1, <1>2, <1>3, <1>4, <1>5

-----------------------------------------------------------------------------
(* A freshly created graph satisfies the inductive invariant. *)
LEMMA InitIInv == Init => IInv
<1> SUFFICES ASSUME Init PROVE IInv OBVIOUS
<1>1. Compatible /\ UniqueCandidates BY DEF Init, Compatible, UniqueCandidates
<1>2. \A t \in Tx : HoldsRef(t) /\ HoldsDecision(t)
  BY DEF Init, HoldsRef, HoldsDecision, NoRef
<1>3. RefHistory BY SMT DEF Init, RefHistory, EventsOf, NoRef
<1>4. OneDecisionPerCandidate BY DEF Init, OneDecisionPerCandidate
<1> QED BY <1>1, <1>2, <1>3, <1>4, InitTyped DEF IInv

(* A step that changes neither tables nor locals keeps the invariant. *)
LEMMA StutterIInv ==
  ASSUME IInv, TypeInv', UNCHANGED <<tables, locals>>
  PROVE  IInv'
<1>1. \A t \in Tx : HoldsRef(t)' BY HoldsRefKept DEF IInv, tables, locals
<1>5. \A t \in Tx : HoldsDecision(t)'
  BY DEF IInv, HoldsDecision, Undecided, tables, locals
<1>2. Compatible' /\ UniqueCandidates' BY DEF IInv, Compatible, UniqueCandidates, tables, locals
<1>3. RefHistory' BY UnmovedKeepsHistory DEF IInv, tables
<1>4. OneDecisionPerCandidate' BY DEF IInv, OneDecisionPerCandidate, tables
<1> QED BY <1>1, <1>2, <1>3, <1>4, <1>5 DEF IInv

(* Every step keeps the inductive invariant. *)
LEMMA NextIInv == IInv /\ [Next]_vars => IInv'
<1> SUFFICES ASSUME IInv, [Next]_vars PROVE IInv' OBVIOUS
<1>0. TypeInv' BY NextTyped DEF IInv
<1>1. ASSUME NEW t \in Tx, ReadStep(t) \/ WriteStep(t) \/ Rollback(t) PROVE IInv'
  <2>1. \A u \in Tx : HoldsRef(u)' /\ HoldsDecision(u)'
    BY <1>1, HoldsRefStep, HoldsDecisionStep
  <2>2. Compatible' BY <1>1, CompatibleStep DEF IInv
  <2>3. CASE ReadStep(t) \/ Rollback(t)
    <3>1. UNCHANGED tables BY <2>3, ReadStepFrame DEF IInv, Rollback
    <3>2. UniqueCandidates' /\ OneDecisionPerCandidate'
      BY <3>1 DEF IInv, tables, UniqueCandidates, OneDecisionPerCandidate
    <3>3. RefHistory' BY <3>1, UnmovedKeepsHistory DEF IInv, tables
    <3> QED BY <1>0, <2>1, <2>2, <3>2, <3>3 DEF IInv
  <2>4. CASE WriteStep(t)
    <3>1. UniqueCandidates' BY <2>4, ProposalsStep DEF IInv
    <3> QED BY <1>0, <2>1, <2>2, <2>4, <3>1, RefHistoryStep, OneDecisionStep DEF IInv
  <2> QED BY <1>1, <2>3, <2>4
<1>2. ASSUME NEW t \in Tx, WorkflowStep(t) \/ ValidationStep(t) \/ BranchStep(t) \/ MergeStep(t)
      PROVE  ReadStep(t) \/ WriteStep(t)
  BY <1>2 DEF WorkflowStep, ValidationStep, BranchStep, MergeStep, ReadStep, WriteStep,
     MoveStep, DecideStep, OtherStep
<1>3. ASSUME NEW t \in Tx, Replay(t) PROVE IInv'
  BY <1>0, <1>3, StutterIInv DEF Replay, vars
<1>4. CASE SetGraphStatus BY <1>0, <1>4, StutterIInv DEF SetGraphStatus
<1>5. CASE UNCHANGED vars BY <1>0, <1>5, StutterIInv DEF vars
<1> QED BY <1>1, <1>2, <1>3, <1>4, <1>5 DEF Next

(* The inductive invariant holds in every reachable state. *)
LEMMA Invariance == Spec => []IInv
  BY InitIInv, NextIInv, PTL DEF Spec

(* A ref is the fold of its events: whatever accepts, merges and branch     *)
(* creations race, no version is lost, repeated or installed twice, and     *)
(* each event leaves the head its predecessor installed.                    *)
THEOREM HistoryIsExact == Spec => []RefHistory
  BY Invariance, PTL DEF IInv

(* However accept, reject, mark_superseded and merge apply race for it, a   *)
(* candidate is decided at most once.                                       *)
THEOREM DecidedOnce == Spec => []OneDecisionPerCandidate
  BY Invariance, PTL DEF IInv

-----------------------------------------------------------------------------
(* What a transaction relies on at its commit. *)

(* A branch row and its ref come into being together, and a row never goes. *)
RowsTogether ==
    \A b \in Branch : /\ branches[b].status = "none" <=> refs[b].version = 0
                      /\ branches[b].status = "none" => branches[b] = NoBranch

(* The lifecycle operations and branch create never name `main'. *)
MainIsPlain == /\ branches[Main].status # "deleted"
               /\ branches[Main].source = NoName
               /\ branches[Main].policy = NoPolicy

(* What merge propose writes: two parents, the first of them the expected   *)
(* head, and two branches that exist.                                       *)
MergeShape ==
    \A p \in proposals : p.source # NoName =>
        /\ p.branch # p.source
        /\ Len(p.parents) = 2 /\ p.parents[1] = p.expected
        /\ branches[p.branch].status # "none" /\ branches[p.source].status # "none"

(* A transaction that has begun keeps the graph active. *)
HoldsStatus(t) ==
    pc[t] \notin Outside => /\ graphStatus = "active"
                            /\ Lock("status", NoName, "share") \in held[t]

(* It keeps its scope to itself, and the scope without a result. *)
HoldsScope(t) ==
    pc[t] \notin Outside \cup SupersedePc =>
        /\ Lock("idempotency", Scope(req[t]), "exclusive") \in held[t]
        /\ StoredResult(req[t]) = {}

(* t keeps b active; `main' needs no lock for that. *)
KeepsActive(t, b) ==
    b = Main \/ (branches[b].status = "active" /\ Lock("branch", b, "share") \in held[t])

(* What the branch lock of each operation keeps. *)
HoldsBranch(t) ==
    /\ pc[t] \in {"prepare_read", "prepare_commit", "accept_decide", "accept_commit"} =>
         KeepsActive(t, req[t].branch)
    /\ pc[t] \in {"propose_recheck", "propose_commit"} => KeepsActive(t, req[t].target)
    /\ pc[t] \in {"lifecycle_read", "lifecycle_commit"} =>
         /\ Lock("branch", req[t].name, "exclusive") \in held[t]
         /\ branches[req[t].name].status = StatusBefore(req[t])
    /\ pc[t] = "lifecycle_commit" => refs[req[t].name] = cur[t]
    /\ pc[t] \in ProposePc => branches[req[t].target].status # "none"
    /\ pc[t] \in ProposePc \ {"propose_source"} => branches[req[t].source].status # "none"

(* t locked the row of b for reading and still sees it. *)
SharedRef(t, b) == refs[b] = src[t] /\ Lock("ref", b, "share") \in held[t]

(* merge apply, by how far it is: the source's ref, the two branch rows, and *)
(* everything it checked.                                                   *)
HoldsMerge(t) ==
    pc[t] \in ApplyPc => \A p \in MergeRow(req[t].candidate) :
        /\ (/\ pc[t] # "apply_ref_1" /\ src[t].version # 0
            /\ pc[t] = "apply_ref_2" => InNameOrder(p, 1) = p.source)
               => SharedRef(t, p.source)
        /\ pc[t] \in {"apply_branch_2", "apply_decide", "apply_commit"} =>
             Lock("branch", InNameOrder(p, 1), "share") \in held[t]
        /\ pc[t] \in {"apply_decide", "apply_commit"} =>
             Lock("branch", InNameOrder(p, 2), "share") \in held[t]
        /\ pc[t] = "apply_commit" =>
             /\ ApplyTargetIsCurrent(t, p)
             /\ ApplySourceIsCurrent(t, p)
             /\ ApplyReviewerIsDistinct(t, p)

(* accept at its commit: everything it checked about the proposal. *)
AcceptChecked(t, p) ==
    /\ p.branch = req[t].branch
    /\ p.expected = req[t].expected
    /\ RequireDistinctParties(p.branch, p, req[t].actor)
    /\ IF cur[t].version = 0 THEN p.parents = <<>>
       ELSE Len(p.parents) = 1 /\ p.parents[1] = req[t].expected

HoldsAccept(t) ==
    /\ pc[t] \in {"accept_decide", "accept_commit"} =>
         /\ branches[req[t].branch].policy.requireValidation => req[t].cites # {}
         /\ cur[t].head = req[t].expected
    /\ pc[t] = "accept_commit" =>
         \A p \in proposals : p.candidate = req[t].candidate => AcceptChecked(t, p)
    /\ pc[t] \in {"accept_commit", "apply_commit"} =>
         CiteValidation(req[t].cites, req[t].candidate)

LInv == /\ IInv
        /\ RowsTogether /\ MainIsPlain /\ MergeShape
        /\ \A t \in Tx : /\ HoldsStatus(t) /\ HoldsScope(t) /\ HoldsBranch(t)
                         /\ HoldsMerge(t) /\ HoldsAccept(t)

-----------------------------------------------------------------------------
(* What the commits write, given what their transactions still hold. *)

(* The row a genesis gives `main'. *)
FirstRow == [NoBranch EXCEPT !.status = "active", !.lifecycle = 1]

(* The reviewer of p and what they cite satisfy the policy of its branch. *)
Reviewed(r, p) ==
    /\ RequireDistinctParties(p.branch, p, r.actor)
    /\ branches[p.branch].policy.requireValidation => r.cites # {}
    /\ CiteValidation(r.cites, p.candidate)

(* accept and merge apply: p, undecided, becomes the head of its branch. *)
Installs(t, p, op) ==
    LET b == p.branch
        v == refs[b].version + 1
    IN  /\ p \in proposals /\ p.candidate = req[t].candidate /\ Undecided(p.candidate)
        /\ p.expected = refs[b].head
        /\ Reviewed(req[t], p)
        /\ Moves(b, p.candidate, op)
        /\ decisions' = decisions \cup {Decision(p, "accepted", v, req[t])}
        /\ outbox' = outbox \cup {[branch |-> b, commit |-> p.candidate, version |-> v]}
        /\ RecordResult(req[t], p.candidate, v, 0)
        /\ UNCHANGED <<lastCommit, proposals, validations>>

(* The first acceptance on `main' ... *)
InstallsGenesis(t, p) ==
    /\ Installs(t, p, "genesis")
    /\ req[t].op = "accept"
    /\ p.branch = Main /\ refs[Main].version = 0 /\ p.parents = <<>> /\ p.source = NoName
    /\ branches' = [branches EXCEPT ![Main] = FirstRow]
    /\ branchEvents' = branchEvents \cup
         {[branch |-> Main, lifecycle |-> 1, status |-> "active",
           head |-> p.candidate, version |-> 1]}

(* ... and any later one hold the ref and, except `main', the branch row. *)
Advances(t, p, op) ==
    /\ Installs(t, p, op)
    /\ refs[p.branch].version # 0 /\ Lock("ref", p.branch, "exclusive") \in held[t]
    /\ branches[p.branch].status = "active"
    /\ p.branch = Main \/ Lock("branch", p.branch, "share") \in held[t]
    /\ UNCHANGED <<branches, branchEvents>>

InstallsNext(t, p) ==
    /\ Advances(t, p, "advance")
    /\ req[t].op = "accept"
    /\ Len(p.parents) = 1 /\ p.parents[1] = p.expected /\ p.source = NoName

InstallsMerge(t, p) ==
    /\ Advances(t, p, "merge")
    /\ req[t].op = "merge_apply"
    /\ p.source \in Branch \ {p.branch}
    /\ p.parents = <<refs[p.branch].head, refs[p.source].head>>
    /\ branches[p.source].status = "active"
    /\ branches[p.branch].policy.requireDistinctReviewer
           => req[t].actor \cap p.parties = {}

(* accept finds the ref as it read it, its proposal as it checked it. *)
LEMMA AcceptInstalls ==
  ASSUME LInv, NEW t \in Tx, AcceptCommit(t)
  PROVE  \E p \in proposals : InstallsGenesis(t, p) \/ InstallsNext(t, p)
<1> DEFINE r == req[t]
<1>0. /\ TypeInv /\ HoldsRef(t) /\ HoldsDecision(t) /\ HoldsBranch(t) /\ HoldsAccept(t)
      /\ RowsTogether /\ MainIsPlain /\ MergeShape
  BY DEF LInv, IInv
<1>1. pc[t] = "accept_commit" BY DEF AcceptCommit, CommitTx
<1>2. r \in AcceptRequest BY <1>0, <1>1, RequestAt DEF AcceptPc
<1>3. r.op = "accept" /\ r.branch \in Branch /\ r.candidate \in Commit BY <1>2 DEF AcceptRequest
<1>4. PICK p \in proposals :
        /\ p.candidate = r.candidate
        /\ decisions' = decisions \cup {Decision(p, "accepted", cur[t].version + 1, r)}
  BY DEF AcceptCommit, AcceptWrites
<1>5. AcceptChecked(t, p) BY <1>0, <1>1, <1>4 DEF HoldsAccept
<1>6. p.branch = r.branch /\ p.expected = r.expected /\ cur[t].head = r.expected
  BY <1>0, <1>1, <1>5 DEF AcceptChecked, HoldsAccept
<1>7. cur[t].version # 0 => LockedRef(t, r.branch) BY <1>0, <1>1 DEF HoldsRef, AcceptPc
<1>8. refs[r.branch].head = cur[t].head /\ refs[r.branch].version = cur[t].version
  BY <1>0, <1>3, <1>7, MoverSeesRef DEF AcceptCommit
<1>9. Reviewed(r, p)
  BY <1>0, <1>1, <1>4, <1>5, <1>6 DEF Reviewed, AcceptChecked, HoldsAccept
<1>10. KeepsActive(t, r.branch) BY <1>0, <1>1 DEF HoldsBranch
<1>11. Undecided(p.candidate) BY <1>0, <1>1, <1>4 DEF HoldsDecision
<1>12. AcceptWrites(r, cur[t], cur[t].version + 1) BY DEF AcceptCommit
<1>13. p.source = NoName
  BY SMT, <1>0, <1>4, <1>5 DEF AcceptChecked, MergeShape
<1>14. CASE cur[t].version = 0
  <2>1. branches[r.branch].status = "none" BY <1>0, <1>3, <1>8, <1>14 DEF RowsTogether
  <2>2. r.branch = Main BY <1>10, <2>1 DEF KeepsActive
  <2>3. Moves(p.branch, p.candidate, "genesis")
    BY <1>4, <1>6, <1>8, <1>12, <1>14 DEF AcceptWrites, Moves
  <2>4. Installs(t, p, "genesis")
    BY <1>4, <1>6, <1>8, <1>9, <1>11, <1>12, <2>3 DEF Installs, AcceptWrites
  <2>5. /\ branches' = [branches EXCEPT ![Main] = FirstRow]
        /\ branchEvents' = branchEvents \cup
             {[branch |-> Main, lifecycle |-> 1, status |-> "active",
               head |-> p.candidate, version |-> 1]}
    BY <1>4, <1>12, <1>14, <2>2 DEF AcceptWrites, FirstRow
  <2>6. p.parents = <<>> BY <1>5, <1>14 DEF AcceptChecked
  <2> QED BY <1>3, <1>4, <1>6, <1>8, <1>13, <1>14, <2>2, <2>4, <2>5, <2>6
      DEF InstallsGenesis
<1>15. CASE cur[t].version # 0
  <2>1. Moves(p.branch, p.candidate, "advance")
    BY <1>4, <1>6, <1>8, <1>12, <1>15 DEF AcceptWrites, Moves
  <2>2. Installs(t, p, "advance")
    BY <1>4, <1>6, <1>8, <1>9, <1>11, <1>12, <2>1 DEF Installs, AcceptWrites
  <2>3. UNCHANGED <<branches, branchEvents>> BY <1>12, <1>15 DEF AcceptWrites
  <2>4. branches[r.branch].status \in {"none", "active", "deleted"}
    BY <1>0, <1>3 DEF TypeInv, TypeOK, TablesOK, BranchRow
  <2>5. branches[r.branch].status = "active"
    BY <1>0, <1>3, <1>8, <1>10, <1>15, <2>4 DEF KeepsActive, RowsTogether, MainIsPlain
  <2>6. r.branch = Main \/ Lock("branch", r.branch, "share") \in held[t]
    BY <1>10 DEF KeepsActive
  <2>7. Lock("ref", r.branch, "exclusive") \in held[t] BY <1>7, <1>15 DEF LockedRef
  <2>8. Len(p.parents) = 1 /\ p.parents[1] = p.expected
    BY <1>5, <1>15, <1>6 DEF AcceptChecked
  <2>9. Advances(t, p, "advance")
    BY <1>6, <1>8, <1>15, <2>2, <2>3, <2>5, <2>6, <2>7 DEF Advances
  <2> QED BY <1>3, <1>4, <1>13, <2>8, <2>9 DEF InstallsNext
<1> QED BY <1>14, <1>15

(* merge apply finds both refs as it read them and both branches active. *)
LEMMA ApplyInstalls ==
  ASSUME LInv, NEW t \in Tx, ApplyCommit(t)
  PROVE  \E p \in proposals : InstallsMerge(t, p)
<1> DEFINE r == req[t]
<1>0. /\ TypeInv /\ HoldsRef(t) /\ HoldsDecision(t) /\ HoldsMerge(t) /\ HoldsAccept(t)
      /\ RowsTogether /\ MainIsPlain /\ MergeShape
  BY DEF LInv, IInv
<1>1. pc[t] = "apply_commit" BY DEF ApplyCommit, CommitTx
<1>2. r.op = "merge_apply" /\ r.candidate \in Commit
  BY <1>0, <1>1, RequestAt DEF ApplyPc, ApplyRequest
<1>3. PICK p \in MergeRow(r.candidate) :
        /\ refs[p.branch].head = cur[t].head
        /\ refs' = [refs EXCEPT ![p.branch] =
                      [head |-> r.candidate, version |-> @.version + 1]]
        /\ refEvents' = refEvents \cup
             {[branch |-> p.branch, old |-> cur[t].head, new |-> r.candidate,
               version |-> cur[t].version + 1, operation |-> "merge"]}
        /\ decisions' = decisions \cup {Decision(p, "accepted", cur[t].version + 1, r)}
        /\ outbox' = outbox \cup
             {[branch |-> p.branch, commit |-> r.candidate, version |-> cur[t].version + 1]}
  BY DEF ApplyCommit
<1>4. /\ p \in proposals /\ p.candidate = r.candidate
      /\ p.branch \in Branch /\ p.source \in Branch /\ p.source # NoName
  BY <1>0, MergeBranches DEF MergeRow
<1>5. /\ ApplyTargetIsCurrent(t, p) /\ ApplySourceIsCurrent(t, p)
      /\ ApplyReviewerIsDistinct(t, p)
      /\ src[t].version # 0 => SharedRef(t, p.source)
      /\ Lock("branch", InNameOrder(p, 1), "share") \in held[t]
      /\ Lock("branch", InNameOrder(p, 2), "share") \in held[t]
  BY <1>0, <1>1, <1>3 DEF HoldsMerge, ApplyPc
<1>6. /\ p.parents \in Seq(Commit) /\ Len(p.parents) = 2 /\ p.parents[1] = p.expected
      /\ p.branch # p.source
  BY <1>0, <1>4 DEF MergeShape, TypeInv, TypeOK, TablesOK, ProposalRow
<1>7. p.parents = <<p.parents[1], p.parents[2]>> /\ p.parents[1] \in Commit /\ p.parents[2] \in Commit
  BY SMT, <1>6
<1>8. \A c \in Commit : c # NoCommit BY SMT, <1>0 DEF Commit, NoCommit, TypeInv, TypeOK, TablesOK
<1>9. cur[t].head = p.parents[1] /\ src[t].head = p.parents[2]
  BY <1>5 DEF ApplyTargetIsCurrent, ApplySourceIsCurrent
<1>10. cur[t].version # 0 /\ src[t].version # 0
  BY SMT, <1>0, <1>7, <1>8, <1>9 DEF TypeInv, ReadsArePlausible, IsRefPair
<1>11. LockedRef(t, p.branch) BY <1>0, <1>1, <1>3, <1>10 DEF HoldsRef, ApplyPc
<1>12. refs[p.branch] = cur[t] /\ refs[p.source] = src[t]
  BY <1>5, <1>10, <1>11 DEF LockedRef, SharedRef
<1>13. Reviewed(r, p)
  BY <1>0, <1>1, <1>4, <1>5 DEF Reviewed, ApplyReviewerIsDistinct, ApplyTargetIsCurrent, HoldsAccept
<1>14. Undecided(p.candidate) BY <1>0, <1>1, <1>4 DEF HoldsDecision
<1>15. Moves(p.branch, p.candidate, "merge") BY <1>3, <1>4, <1>12 DEF Moves
<1>16. RecordResult(r, p.candidate, refs[p.branch].version + 1, 0)
       /\ UNCHANGED <<lastCommit, proposals, validations, branches, branchEvents>>
  BY <1>4, <1>12 DEF ApplyCommit
<1>17. Installs(t, p, "merge")
  BY <1>3, <1>4, <1>6, <1>9, <1>12, <1>13, <1>14, <1>15, <1>16 DEF Installs
<1>18. Lock("branch", p.branch, "share") \in held[t] BY SMT, <1>5 DEF InNameOrder
<1>19. Advances(t, p, "merge")
  BY <1>5, <1>10, <1>11, <1>12, <1>16, <1>17, <1>18
  DEF Advances, LockedRef, ApplyTargetIsCurrent
<1> QED BY <1>2, <1>4, <1>5, <1>6, <1>7, <1>9, <1>12, <1>19
    DEF InstallsMerge, ApplySourceIsCurrent, ApplyReviewerIsDistinct

(* branch create: a new ref at the point, and its row. *)
Point(t) == IF req[t].from = NoCommit THEN cur[t].head ELSE req[t].from

CreatesBranch(t) ==
    LET r == req[t]
        b == r.name
    IN  /\ pc[t] = "create_commit" /\ r \in CreateRequest
        /\ refs[b].version = 0 /\ Point(t) \in Commit
        /\ Moves(b, Point(t), "genesis")
        /\ branches' = [branches EXCEPT ![b] =
             [status |-> "active", lifecycle |-> 1, source |-> r.source,
              point |-> Point(t), policy |-> r.policy]]
        /\ branchEvents' = branchEvents \cup
             {[branch |-> b, lifecycle |-> 1, status |-> "active",
               head |-> Point(t), version |-> 1]}
        /\ RecordResult(r, Point(t), 1, 1)
        /\ UNCHANGED <<lastCommit, proposals, decisions, outbox, validations>>

(* A creation is the first movement of a ref that did not exist. *)
LEMMA CreateCreates ==
  ASSUME LInv, NEW t \in Tx, CreateCommit(t)
  PROVE  CreatesBranch(t)
<1> DEFINE b == req[t].name
<1>0. TypeInv BY DEF LInv, IInv
<1>1. pc[t] = "create_commit" BY DEF CreateCommit, CommitTx
<1>2. req[t] \in CreateRequest BY <1>0, <1>1, RequestAt DEF CreatePc
<1>3. cur[t].head \in Commit
  BY <1>0, <1>1 DEF TypeInv, ReadsArePlausible, IsRefPair, TypeOK, LocalsOK, Ref
<1>4. b \in Branch /\ Point(t) \in Commit BY <1>2, <1>3 DEF CreateRequest, Point
<1>5. refs[b].version = 0 /\ refs[b].head = NoCommit
  BY <1>0, <1>4 DEF CreateCommit, TypeInv, ReadsArePlausible, IsRefPair
<1>6. CreateWrites(req[t], cur[t]) BY DEF CreateCommit
<1>7. Moves(b, Point(t), "genesis")
  <2>1. /\ refs' = [refs EXCEPT ![b] = [head |-> Point(t), version |-> 1]]
        /\ refEvents' = refEvents \cup
             {[branch |-> b, old |-> NoCommit, new |-> Point(t), version |-> 1,
               operation |-> "genesis"]}
    BY <1>6 DEF CreateWrites, Point
  <2> HIDE DEF b
  <2> QED BY SMT, <1>5, <2>1 DEF Moves
<1> QED BY <1>1, <1>2, <1>4, <1>5, <1>6, <1>7 DEF CreatesBranch, CreateWrites, Point

(* prepare and merge propose: a commit and its proposal, on a branch that   *)
(* is not deleted.                                                          *)
Publishes(t, p) ==
    /\ proposals' = proposals \cup {p}
    /\ p.candidate = lastCommit + 1 /\ lastCommit' = lastCommit + 1
    /\ p.actor = req[t].actor
    /\ p.branch \in Branch /\ branches[p.branch].status # "deleted"
    /\ RecordResult(req[t], p.candidate, 0, 0)
    /\ UNCHANGED <<refs, refEvents, branches, branchEvents, decisions, outbox, validations>>

PublishesPlain(t, p) ==
    /\ Publishes(t, p)
    /\ pc[t] = "prepare_commit" /\ req[t].op = "prepare"
    /\ p.branch = req[t].branch /\ p.expected = req[t].expected
    /\ p.parents = IF p.expected = NoCommit THEN <<>> ELSE <<p.expected>>
    /\ p.source = NoName /\ p.parties = {}

PublishesMerge(t, p) ==
    /\ Publishes(t, p)
    /\ pc[t] = "propose_commit" /\ req[t].op = "merge_propose"
    /\ p.branch = req[t].target /\ p.source = req[t].source /\ p.branch # p.source
    /\ p.source \in Branch
    /\ p.expected = cur[t].head /\ p.parents = <<cur[t].head, src[t].head>>
    /\ p.parties = SourceParties(cur[t].head, src[t].head)

(* The branch is active, or is `main' before its genesis. *)
LEMMA KeptActive ==
  ASSUME LInv, NEW t \in Tx, NEW b \in Branch, KeepsActive(t, b)
  PROVE  branches[b].status # "deleted"
  BY DEF LInv, MainIsPlain, KeepsActive

(* prepare publishes what its request says. *)
LEMMA PreparePublishes ==
  ASSUME LInv, NEW t \in Tx, PrepareCommit(t)
  PROVE  \E p : PublishesPlain(t, p)
<1> DEFINE r == req[t]
           c == lastCommit + 1
           row == [candidate |-> c, branch |-> r.branch, expected |-> r.expected,
                   parents |-> IF r.expected = NoCommit THEN <<>> ELSE <<r.expected>>,
                   actor |-> r.actor, source |-> NoName, parties |-> {}]
<1>0. TypeInv /\ HoldsBranch(t) BY DEF LInv, IInv
<1>1. pc[t] = "prepare_commit" BY DEF PrepareCommit, CommitTx
<1>2. r.op = "prepare" /\ r.branch \in Branch
  BY <1>0, <1>1, RequestAt DEF PreparePc, PrepareRequest
<1>3. branches[r.branch].status # "deleted" BY <1>0, <1>1, <1>2, KeptActive DEF HoldsBranch
<1>4. /\ row.candidate = c /\ row.branch = r.branch /\ row.expected = r.expected
      /\ row.parents = IF r.expected = NoCommit THEN <<>> ELSE <<r.expected>>
      /\ row.actor = r.actor /\ row.source = NoName /\ row.parties = {}
  OBVIOUS
<1>5. /\ proposals' = proposals \cup {row} /\ lastCommit' = c /\ RecordResult(r, c, 0, 0)
      /\ UNCHANGED <<refs, refEvents, branches, branchEvents, decisions, outbox, validations>>
  BY DEF PrepareCommit
<1> HIDE DEF row
<1>6. PublishesPlain(t, row) BY <1>1, <1>2, <1>3, <1>4, <1>5 DEF PublishesPlain, Publishes
<1> QED BY <1>6

(* merge propose publishes the merge of the two heads it read twice. *)
LEMMA ProposePublishes ==
  ASSUME LInv, NEW t \in Tx, ProposeCommit(t)
  PROVE  \E p : PublishesMerge(t, p)
<1> DEFINE r == req[t]
           c == lastCommit + 1
           row == [candidate |-> c, branch |-> r.target, expected |-> cur[t].head,
                   parents |-> <<cur[t].head, src[t].head>>, actor |-> r.actor,
                   source |-> r.source,
                   parties |-> SourceParties(cur[t].head, src[t].head)]
<1>0. TypeInv /\ HoldsBranch(t) BY DEF LInv, IInv
<1>1. pc[t] = "propose_commit" BY DEF ProposeCommit, CommitTx
<1>2. r.op = "merge_propose" /\ r.target \in Branch /\ r.source \in Branch /\ r.target # r.source
  BY <1>0, <1>1, RequestAt DEF ProposePc, ProposeRequest
<1>3. branches[r.target].status # "deleted" BY <1>0, <1>1, <1>2, KeptActive DEF HoldsBranch
<1>4. /\ row.candidate = c /\ row.branch = r.target /\ row.expected = cur[t].head
      /\ row.parents = <<cur[t].head, src[t].head>>
      /\ row.actor = r.actor /\ row.source = r.source
      /\ row.parties = SourceParties(cur[t].head, src[t].head)
  OBVIOUS
<1>5. /\ proposals' = proposals \cup {row} /\ lastCommit' = c /\ RecordResult(r, c, 0, 0)
      /\ UNCHANGED <<refs, refEvents, branches, branchEvents, decisions, outbox, validations>>
  BY DEF ProposeCommit
<1> HIDE DEF row
<1>6. PublishesMerge(t, row) BY <1>1, <1>2, <1>3, <1>4, <1>5 DEF PublishesMerge, Publishes
<1> QED BY <1>6

(* reject and mark_superseded: a decision that moves nothing. *)
Declines(t, p, s) ==
    /\ p \in proposals /\ p.candidate = req[t].candidate /\ Undecided(p.candidate)
    /\ decisions' = decisions \cup {Decision(p, s, 0, req[t])}
    /\ \/ /\ s = "rejected" /\ pc[t] = "reject_commit" /\ req[t].op = "reject"
          /\ RecordResult(req[t], p.candidate, 0, 0)
       \/ s = "superseded" /\ pc[t] = "supersede_commit" /\ UNCHANGED idempotency
    /\ UNCHANGED <<lastCommit, proposals, refs, refEvents, branches, branchEvents, outbox,
                   validations>>

(* Recording a verdict. *)
Validates(t) ==
    /\ req[t].op = "validate"
    /\ validations \subseteq validations'
    /\ RecordResult(req[t], req[t].candidate, 0, 0)
    /\ UNCHANGED <<lastCommit, proposals, refs, refEvents, branches, branchEvents, decisions,
                   outbox>>

(* delete and restore: the branch row is held exclusively, its ref as read. *)
ChangesStatus(t) ==
    LET r == req[t]
        b == r.name
        n == branches[b].lifecycle + 1
    IN  /\ r \in LifecycleRequest
        /\ Lock("branch", b, "exclusive") \in held[t]
        /\ branches[b].status = StatusBefore(r) /\ refs[b] = cur[t]
        /\ branches' = [branches EXCEPT ![b] =
             [@ EXCEPT !.status = StatusAfter(r), !.lifecycle = n]]
        /\ branchEvents' = branchEvents \cup
             {[branch |-> b, lifecycle |-> n, status |-> StatusAfter(r),
               head |-> refs[b].head, version |-> refs[b].version]}
        /\ RecordResult(r, refs[b].head, refs[b].version, n)
        /\ UNCHANGED <<lastCommit, proposals, refs, refEvents, decisions, outbox, validations>>

(* Every commit is one of these. *)
LEMMA Effects ==
  ASSUME LInv, NEW t \in Tx, WriteStep(t)
  PROVE  \/ \E p \in proposals : InstallsGenesis(t, p) \/ InstallsNext(t, p) \/ InstallsMerge(t, p)
         \/ CreatesBranch(t)
         \/ \E p : PublishesPlain(t, p) \/ PublishesMerge(t, p)
         \/ \E p, s : Declines(t, p, s)
         \/ Validates(t)
         \/ ChangesStatus(t)
<1>0. TypeInv /\ HoldsDecision(t) /\ HoldsBranch(t) BY DEF LInv, IInv
<1>1. CASE AcceptCommit(t) BY <1>1, AcceptInstalls
<1>2. CASE ApplyCommit(t) BY <1>2, ApplyInstalls
<1>3. CASE CreateCommit(t) BY <1>3, CreateCreates
<1>4. CASE PrepareCommit(t) BY <1>4, PreparePublishes
<1>5. CASE ProposeCommit(t) BY <1>5, ProposePublishes
<1>6. CASE RejectCommit(t)
  <2>1. pc[t] = "reject_commit" BY <1>6 DEF RejectCommit, CommitTx
  <2>2. req[t].op = "reject" BY <1>0, <2>1, RequestAt DEF RejectPc, RejectRequest
  <2>3. Undecided(req[t].candidate) BY <1>0, <2>1 DEF HoldsDecision
  <2>4. \E p : Declines(t, p, "rejected")
    BY <1>6, <2>1, <2>2, <2>3 DEF RejectCommit, Declines
  <2> QED BY <2>4
<1>7. CASE SupersedeCommit(t)
  <2>1. pc[t] = "supersede_commit" BY <1>7 DEF SupersedeCommit, CommitTx
  <2>2. Undecided(req[t].candidate) BY <1>0, <2>1 DEF HoldsDecision
  <2>3. \E p : Declines(t, p, "superseded")
    BY <1>7, <2>1, <2>2 DEF SupersedeCommit, Declines
  <2> QED BY <2>3
<1>8. CASE ValidateRecord(t)
  <2>1. pc[t] = "validate_record" BY <1>8 DEF ValidateRecord, CommitTx
  <2>2. req[t].op = "validate" BY <1>0, <2>1, RequestAt DEF ValidatePc, ValidateRequest
  <2>3. validations \subseteq validations' BY <1>8 DEF ValidateRecord
  <2> QED BY <1>8, <2>2, <2>3 DEF ValidateRecord, Validates
<1>9. CASE LifecycleCommit(t)
  <2>1. pc[t] = "lifecycle_commit" BY <1>9 DEF LifecycleCommit, CommitTx
  <2>2. req[t] \in LifecycleRequest BY <1>0, <2>1, RequestAt DEF LifecyclePc
  <2>3. /\ Lock("branch", req[t].name, "exclusive") \in held[t]
        /\ branches[req[t].name].status = StatusBefore(req[t]) /\ refs[req[t].name] = cur[t]
    BY <1>0, <2>1 DEF HoldsBranch
  <2> QED BY <1>9, <2>2, <2>3 DEF LifecycleCommit, ChangesStatus
<1> QED BY <1>1, <1>2, <1>3, <1>4, <1>5, <1>6, <1>7, <1>8, <1>9
    DEF WriteStep, MoveStep, DecideStep, OtherStep

(* A commit comes from the last statement of its transaction. *)
LEMMA CommitsFrom ==
  ASSUME NEW t \in Tx, WriteStep(t)
  PROVE  pc[t] \notin Outside /\ UNCHANGED graphStatus
<1>1. \E from \in {"accept_commit", "create_commit", "apply_commit", "reject_commit",
                   "supersede_commit", "prepare_commit", "propose_commit",
                   "validate_record", "lifecycle_commit"} : CommitTx(t, from)
  BY DEF WriteStep, MoveStep, DecideStep, OtherStep, AcceptCommit, CreateCommit,
     ApplyCommit, RejectCommit, SupersedeCommit, PrepareCommit, ProposeCommit,
     ValidateRecord, LifecycleCommit
<1> QED BY <1>1 DEF CommitTx, Outside

(* It records at most the result of its own request. *)
LEMMA ResultWrites ==
  ASSUME TypeInv, NEW t \in Tx, WriteStep(t)
  PROVE  \/ UNCHANGED idempotency
         \/ /\ pc[t] \notin Outside \cup SupersedePc
            /\ \E i : idempotency' = idempotency \cup {i} /\ i.req = req[t]
<1>1. ASSUME NEW c, NEW v, NEW n, RecordResult(req[t], c, v, n)
      PROVE  \E i : idempotency' = idempotency \cup {i} /\ i.req = req[t]
  <2> DEFINE i == [req |-> req[t], commit |-> c, version |-> v, lifecycle |-> n]
  <2>1. i.req = req[t] OBVIOUS
  <2>2. idempotency' = idempotency \cup {i} BY <1>1 DEF RecordResult
  <2> HIDE DEF i
  <2> QED BY <2>1, <2>2
<1>2. CASE SupersedeCommit(t) BY <1>2 DEF SupersedeCommit
<1>3. CASE OtherStep(t) \/ MoveStep(t) \/ RejectCommit(t)
  <2>1. \E c, v, n : RecordResult(req[t], c, v, n)
    BY <1>3 DEF MoveStep, OtherStep, AcceptCommit, CreateCommit, AcceptWrites,
     CreateWrites, ApplyCommit, RejectCommit, PrepareCommit, ProposeCommit, ValidateRecord,
     LifecycleCommit
  <2>2. \E from \in {"accept_commit", "create_commit", "apply_commit", "reject_commit",
                     "prepare_commit", "propose_commit", "validate_record",
                     "lifecycle_commit"} : CommitTx(t, from)
    BY <1>3 DEF MoveStep, OtherStep, AcceptCommit, CreateCommit, ApplyCommit,
     RejectCommit, PrepareCommit, ProposeCommit, ValidateRecord, LifecycleCommit
  <2> QED BY <1>1, <2>1, <2>2 DEF CommitTx, Outside, SupersedePc
<1> QED BY <1>2, <1>3 DEF WriteStep, MoveStep, DecideStep

-----------------------------------------------------------------------------
(* What a commit does to one branch, its row and its ref. *)

Kept(b) == refs'[b] = refs[b] /\ branches'[b] = branches[b]

Born(b) == /\ branches[b].status = "none" /\ refs[b].version = 0
           /\ branches'[b].status = "active" /\ refs'[b].version # 0
           /\ b = Main => branches'[b] = FirstRow

Moved(t, b) ==
    /\ branches'[b] = branches[b] /\ branches[b].status = "active"
    /\ refs[b].version # 0 /\ refs'[b].version # 0
    /\ Lock("ref", b, "exclusive") \in held[t]
    /\ b = Main \/ Lock("branch", b, "share") \in held[t]

Turned(t, b) ==
    /\ refs'[b] = refs[b] /\ b # Main
    /\ Lock("branch", b, "exclusive") \in held[t]
    /\ branches[b].status # "none" /\ branches'[b].status \in {"active", "deleted"}
    /\ branches'[b].source = branches[b].source /\ branches'[b].point = branches[b].point
    /\ branches'[b].policy = branches[b].policy

(* A branch comes into being with its ref, its ref moves under the locks of *)
(* both, or its status turns under the exclusive lock of its row.           *)
LEMMA RowStep ==
  ASSUME LInv, NEW t \in Tx, WriteStep(t), NEW b \in Branch
  PROVE  Kept(b) \/ Born(b) \/ Moved(t, b) \/ Turned(t, b)
<1>0. TypeInv /\ RowsTogether /\ MainIsPlain BY DEF LInv, IInv
<1>1. /\ refs \in [Branch -> Ref] /\ branches \in [Branch -> BranchRow] /\ Main \in Branch
      /\ \A x \in Branch : refs[x].version \in Nat
  BY <1>0, StoreAssumption DEF TypeInv, TypeOK, TablesOK, Ref
<1>2. ASSUME NEW x \in Branch, NEW c, NEW op, Moves(x, c, op)
      PROVE  /\ refs'[x].version = refs[x].version + 1 /\ refs'[x].version # 0
             /\ b # x => refs'[b] = refs[b]
  BY SMT, <1>1, <1>2 DEF Moves
<1>3. ASSUME NEW p \in proposals, InstallsGenesis(t, p) PROVE Kept(b) \/ Born(b)
  <2>1. FirstRow.status = "active" BY DEF FirstRow, NoBranch
  <2>2. Moves(Main, p.candidate, "genesis") BY <1>3 DEF InstallsGenesis, Installs
  <2>3. refs[Main].version = 0 /\ branches' = [branches EXCEPT ![Main] = FirstRow]
    BY <1>3 DEF InstallsGenesis
  <2>4. branches[Main].status = "none" BY <1>0, <1>1, <2>3 DEF RowsTogether
  <2> HIDE DEF FirstRow
  <2> QED BY <1>1, <1>2, <2>1, <2>2, <2>3, <2>4 DEF Kept, Born
<1>4. ASSUME NEW p \in proposals, NEW op, Advances(t, p, op) PROVE Kept(b) \/ Moved(t, b)
  <2>1. p.branch \in Branch BY <1>0 DEF TypeInv, TypeOK, TablesOK, ProposalRow
  <2>2. Moves(p.branch, p.candidate, op) BY <1>4 DEF Advances, Installs
  <2> QED BY <1>2, <1>4, <2>1, <2>2 DEF Advances, Kept, Moved
<1>5. CASE CreatesBranch(t)
  <2> DEFINE x == req[t].name
             row == [status |-> "active", lifecycle |-> 1, source |-> req[t].source,
                     point |-> Point(t), policy |-> req[t].policy]
  <2>1. x \in Branch \ {Main} BY <1>5 DEF CreatesBranch, CreateRequest
  <2>2. /\ refs[x].version = 0 /\ Moves(x, Point(t), "genesis")
        /\ branches' = [branches EXCEPT ![x] = row]
    BY <1>5 DEF CreatesBranch
  <2>3. row.status = "active" OBVIOUS
  <2>4. branches[x].status = "none" BY <1>0, <2>1, <2>2 DEF RowsTogether
  <2> HIDE DEF x, row
  <2> QED BY <1>1, <1>2, <2>1, <2>2, <2>3, <2>4 DEF Kept, Born
<1>6. CASE ChangesStatus(t)
  <2> DEFINE x == req[t].name
             n == branches[x].lifecycle + 1
  <2>1. x \in Branch \ {Main} BY SMT, <1>6 DEF ChangesStatus, LifecycleRequest
  <2>2. /\ Lock("branch", x, "exclusive") \in held[t] /\ UNCHANGED refs
        /\ branches[x].status = StatusBefore(req[t])
        /\ branches' = [branches EXCEPT ![x] =
             [@ EXCEPT !.status = StatusAfter(req[t]), !.lifecycle = n]]
    BY <1>6 DEF ChangesStatus
  <2>3. branches[x] \in BranchRow BY <1>1, <2>1
  <2>4. StatusBefore(req[t]) # "none" /\ StatusAfter(req[t]) \in {"active", "deleted"}
    BY DEF StatusBefore, StatusAfter
  <2> HIDE DEF x, n
  <2>5. /\ branches'[x].status = StatusAfter(req[t]) /\ branches'[x].source = branches[x].source
        /\ branches'[x].point = branches[x].point /\ branches'[x].policy = branches[x].policy
    BY <1>1, <2>1, <2>2, <2>3 DEF BranchRow
  <2>6. b # x => branches'[b] = branches[b] BY SMT, <2>2
  <2> QED BY <2>1, <2>2, <2>4, <2>5, <2>6 DEF Kept, Turned
<1>7. ASSUME NEW p, NEW s, PublishesPlain(t, p) \/ PublishesMerge(t, p) \/ Declines(t, p, s)
                           \/ Validates(t)
      PROVE  Kept(b)
  BY <1>7 DEF PublishesPlain, PublishesMerge, Publishes, Declines, Validates, Kept
<1> QED BY <1>3, <1>4, <1>5, <1>6, <1>7, Effects DEF InstallsNext, InstallsMerge

(* Rows and refs still come in pairs, and `main' is still plain. *)
LEMMA RowsStep ==
  ASSUME LInv, NEW t \in Tx, WriteStep(t)
  PROVE  RowsTogether' /\ MainIsPlain'
<1>0. RowsTogether /\ MainIsPlain /\ Main \in Branch BY StoreAssumption DEF LInv
<1>1. ASSUME NEW b \in Branch
      PROVE  /\ branches'[b].status = "none" <=> refs'[b].version = 0
             /\ branches'[b].status = "none" => branches'[b] = NoBranch
  BY <1>0, <1>1, RowStep DEF RowsTogether, Kept, Born, Moved, Turned
<1>2. /\ FirstRow.status = "active" /\ FirstRow.source = NoName /\ FirstRow.policy = NoPolicy
  BY DEF FirstRow, NoBranch
<1>3. MainIsPlain' BY <1>0, <1>2, RowStep DEF MainIsPlain, Kept, Born, Moved, Turned
<1> QED BY <1>1, <1>3 DEF RowsTogether

(* u is where it was. *)
Still(u) == /\ pc'[u] = pc[u] /\ req'[u] = req[u] /\ held'[u] = held[u]
            /\ cur'[u] = cur[u] /\ src'[u] = src[u]

(* What u holds depends on the tables and itself only. *)
LEMMA StillHolds ==
  ASSUME NEW u \in Tx, Still(u), UNCHANGED tables,
         HoldsScope(u), HoldsBranch(u), HoldsMerge(u), HoldsAccept(u)
  PROVE  HoldsScope(u)' /\ HoldsBranch(u)' /\ HoldsMerge(u)' /\ HoldsAccept(u)'
<1>1. /\ refs' = refs /\ branches' = branches /\ proposals' = proposals
      /\ idempotency' = idempotency
  BY DEF tables
<1>2. HoldsScope(u)' BY <1>1 DEF HoldsScope, StoredResult, Still
<1>3. HoldsBranch(u)' BY <1>1 DEF HoldsBranch, KeepsActive, Still, StatusBefore
<1>4. MergeRow(req[u].candidate)' = MergeRow(req[u].candidate) BY <1>1 DEF MergeRow, Still
<1>5. HoldsMerge(u)'
  BY SMT, <1>1, <1>4 DEF HoldsMerge, Still, SharedRef, InNameOrder, ApplyTargetIsCurrent,
     ApplySourceIsCurrent, ApplyReviewerIsDistinct, RequireDistinctParties
<1>6. HoldsAccept(u)'
  BY <1>1 DEF HoldsAccept, Still, AcceptChecked, RequireDistinctParties, CiteValidation,
     CitesCandidate
<1> QED BY <1>2, <1>3, <1>5, <1>6

(* A transaction that has begun keeps the graph active. *)
LEMMA StatusStep ==
  ASSUME LInv, NEW t \in Tx, ReadStep(t) \/ WriteStep(t) \/ Rollback(t), NEW u \in Tx
  PROVE  HoldsStatus(u)'
<1>0. TypeInv /\ HoldsStatus(t) /\ HoldsStatus(u) BY DEF LInv, IInv
<1>1. CASE ReadStep(t) /\ u # t BY <1>0, <1>1, ReadStepFrame DEF HoldsStatus
<1>2. CASE (WriteStep(t) \/ Rollback(t)) /\ u # t
  BY <1>0, <1>2, WriteStepFrame, CommitsFrom DEF HoldsStatus, Rollback
<1>3. CASE (WriteStep(t) \/ Rollback(t)) /\ u = t
  BY <1>0, <1>3, WriteStepFrame DEF HoldsStatus, Outside
<1>4. CASE ReadStep(t) /\ u = t
  <2> SUFFICES ASSUME pc'[t] \notin Outside
               PROVE  graphStatus' = "active" /\ Lock("status", NoName, "share") \in held'[t]
    BY <1>4 DEF HoldsStatus
  <2>1. UNCHANGED graphStatus BY <1>0, <1>4, ReadStepFrame
  <2>2. CASE pc[t] \notin Outside BY <1>0, <1>4, <2>1, <2>2, ReadStepLocks DEF HoldsStatus
  <2>3. CASE pc[t] \in Outside
    <3>1. SupersedeBegin(t) \/ BeginScoped(t, req'[t], pc[t], pc'[t])
      BY <1>0, <1>4, <2>3, Entering
    <3> QED BY <1>0, <2>1, <3>1 DEF SupersedeBegin, BeginScoped, TypeInv, TypeOK, LocalsOK
  <2> QED BY <2>2, <2>3
<1> QED BY <1>1, <1>2, <1>3, <1>4

(* Its scope stays its own, and without a result. *)
LEMMA ScopeStep ==
  ASSUME LInv, NEW t \in Tx, ReadStep(t) \/ WriteStep(t), NEW u \in Tx
  PROVE  HoldsScope(u)'
<1>0. TypeInv /\ HoldsScope(t) /\ HoldsScope(u) /\ Compatible BY DEF LInv, IInv
<1>1. CASE ReadStep(t) /\ u # t
  BY SMT, <1>0, <1>1, ReadStepFrame DEF HoldsScope, StoredResult, tables
<1>2. CASE WriteStep(t) /\ u = t BY <1>0, <1>2, WriteStepFrame DEF HoldsScope, Outside
<1>3. CASE ReadStep(t) /\ u = t
  <2> SUFFICES ASSUME pc'[t] \notin Outside \cup SupersedePc
               PROVE  /\ Lock("idempotency", Scope(req'[t]), "exclusive") \in held'[t]
                      /\ \A i \in idempotency' : Scope(i.req) # Scope(req'[t])
    BY <1>3 DEF HoldsScope, StoredResult
  <2>1. UNCHANGED idempotency BY <1>0, <1>3, ReadStepFrame DEF tables
  <2>2. CASE pc[t] \notin Outside
    <3>1. pc[t] \notin SupersedePc /\ req'[t] = req[t] BY <1>0, <1>3, <2>2, Entering
    <3>2. held[t] \subseteq held'[t] BY <1>0, <1>3, <2>2, ReadStepLocks
    <3>3. StoredResult(req[t]) = {} /\ Lock("idempotency", Scope(req[t]), "exclusive") \in held[t]
      BY <1>0, <2>2, <3>1 DEF HoldsScope
    <3> QED BY <2>1, <3>1, <3>2, <3>3 DEF StoredResult
  <2>3. CASE pc[t] \in Outside
    <3>1. BeginScoped(t, req'[t], pc[t], pc'[t])
      BY <1>0, <1>3, <2>3, Entering, Places DEF Goes, SupersedePc
    <3> QED BY <1>0, <2>1, <3>1 DEF BeginScoped, StoredResult, TypeInv, TypeOK, LocalsOK
  <2> QED BY <2>2, <2>3
<1>4. CASE WriteStep(t) /\ u # t
  <2>1. Still(u) BY <1>0, <1>4, WriteStepFrame DEF Still
  <2>2. CASE UNCHANGED idempotency BY <1>0, <2>1, <2>2 DEF HoldsScope, StoredResult, Still
  <2>3. ASSUME pc[t] \notin Outside \cup SupersedePc, NEW i,
               idempotency' = idempotency \cup {i}, i.req = req[t]
        PROVE  HoldsScope(u)'
    <3> SUFFICES ASSUME pc[u] \notin Outside \cup SupersedePc
                 PROVE  /\ Lock("idempotency", Scope(req[u]), "exclusive") \in held[u]
                        /\ StoredResult(req[u])' = {}
      BY <2>1 DEF HoldsScope, Still
    <3>1. /\ Lock("idempotency", Scope(req[u]), "exclusive") \in held[u]
          /\ StoredResult(req[u]) = {}
          /\ Lock("idempotency", Scope(req[t]), "exclusive") \in held[t]
      BY <1>0, <2>3 DEF HoldsScope
    <3>2. Scope(req[t]) # Scope(req[u])
      <4>1. ASSUME NEW x, Lock("idempotency", x, "exclusive") \in held[u]
            PROVE  Lock("idempotency", x, "exclusive") \notin held[t]
        BY <1>0, <1>4, <4>1 DEF Compatible, Lock
      <4> QED BY <3>1, <4>1
    <3> QED BY <2>1, <2>3, <3>1, <3>2 DEF StoredResult, Still
  <2> QED BY <1>0, <1>4, <2>2, <2>3, ResultWrites
<1> QED BY <1>1, <1>2, <1>3, <1>4

(* An exclusive lock excludes every other lock on the same thing. *)
LEMMA Excludes ==
  ASSUME Compatible, NEW t \in Tx, NEW u \in Tx, t # u, NEW kind, NEW b, NEW mode,
         Lock(kind, b, "exclusive") \in held[t]
  PROVE  Lock(kind, b, mode) \notin held[u]
  BY DEF Compatible, Lock

(* LockBranch locks the row of a branch that has one. *)
LEMMA LockBranchHolds ==
  ASSUME TypeInv, NEW t \in Tx, NEW b, NEW mode, LockBranch(t, b, mode),
         branches[b].status # "none"
  PROVE  Lock("branch", b, mode) \in held'[t]
  BY DEF LockBranch, Acquire, TypeInv, TypeOK, LocalsOK

(* No other commit turns a branch that u keeps active. *)
LEMMA ActiveStays ==
  ASSUME LInv, NEW t \in Tx, WriteStep(t), NEW u \in Tx \ {t}, NEW b \in Branch,
         branches[b].status = "active", Lock("branch", b, "share") \in held[u]
  PROVE  branches'[b].status = "active" /\ branches'[b].policy = branches[b].policy
<1>1. Lock("branch", b, "exclusive") \notin held[t] BY Excludes DEF LInv, IInv
<1> QED BY <1>1, RowStep DEF Kept, Born, Moved, Turned

(* A branch that has a row keeps it. *)
LEMMA RowStays ==
  ASSUME LInv, NEW t \in Tx, WriteStep(t), NEW b \in Branch, branches[b].status # "none"
  PROVE  branches'[b].status # "none" /\ branches'[b].policy = branches[b].policy
  BY RowStep DEF Kept, Born, Moved, Turned

(* What the branch lock keeps, when another transaction commits. *)
LEMMA BranchOther ==
  ASSUME LInv, NEW t \in Tx, WriteStep(t), NEW u \in Tx \ {t}
  PROVE  HoldsBranch(u)'
<1>0. TypeInv /\ HoldsBranch(u) /\ Compatible /\ RowsTogether BY DEF LInv, IInv
<1>1. Still(u) BY <1>0, WriteStepFrame DEF Still
<1>2. ASSUME NEW b \in Branch, KeepsActive(u, b)
      PROVE  b = Main \/ (branches'[b].status = "active" /\ Lock("branch", b, "share") \in held[u])
  BY <1>2, ActiveStays DEF KeepsActive
<1>3. ASSUME pc[u] \in {"prepare_read", "prepare_commit", "accept_decide", "accept_commit"}
      PROVE  KeepsActive(u, req[u].branch)'
  <2>1. req[u].branch \in Branch
    BY <1>0, <1>3, RequestAt DEF PreparePc, AcceptPc, PrepareRequest, AcceptRequest
  <2> QED BY <1>0, <1>1, <1>2, <1>3, <2>1 DEF HoldsBranch, KeepsActive, Still
<1>4. ASSUME pc[u] \in ProposePc
      PROVE  /\ req[u].target \in Branch /\ req[u].source \in Branch
  BY <1>0, <1>4, RequestAt DEF ProposeRequest
<1>5. ASSUME pc[u] \in {"propose_recheck", "propose_commit"}
      PROVE  KeepsActive(u, req[u].target)'
  <2>1. req[u].target \in Branch BY <1>4, <1>5 DEF ProposePc
  <2> QED BY <1>0, <1>1, <1>2, <1>5, <2>1 DEF HoldsBranch, KeepsActive, Still
<1>6. /\ pc[u] \in ProposePc => branches'[req[u].target].status # "none"
      /\ pc[u] \in ProposePc \ {"propose_source"} => branches'[req[u].source].status # "none"
  BY <1>0, <1>4, RowStays DEF HoldsBranch
<1>7. ASSUME pc[u] \in {"lifecycle_read", "lifecycle_commit"}
      PROVE  /\ Lock("branch", req[u].name, "exclusive") \in held[u]
             /\ branches'[req[u].name].status = StatusBefore(req[u])
             /\ refs'[req[u].name] = refs[req[u].name]
  <2> DEFINE b == req[u].name
  <2>1. b \in Branch \ {Main} BY SMT, <1>0, <1>7, RequestAt DEF LifecyclePc, LifecycleRequest
  <2>2. Lock("branch", b, "exclusive") \in held[u] /\ branches[b].status = StatusBefore(req[u])
    BY <1>0, <1>7 DEF HoldsBranch
  <2>3. Lock("branch", b, "share") \notin held[t] /\ Lock("branch", b, "exclusive") \notin held[t]
    BY <1>0, <2>2, Excludes
  <2>4. branches[b].status # "none" BY <2>2 DEF StatusBefore
  <2> HIDE DEF b
  <2>5. branches'[b] = branches[b] /\ refs'[b] = refs[b]
    BY <2>1, <2>3, <2>4, RowStep DEF Kept, Born, Moved, Turned
  <2> QED BY <2>2, <2>5 DEF b
<1> QED BY <1>0, <1>1, <1>3, <1>5, <1>6, <1>7 DEF HoldsBranch, Still, StatusBefore

(* The locking statements themselves, and those after them. *)
LEMMA BranchSelf ==
  ASSUME LInv, NEW t \in Tx, ReadStep(t)
  PROVE  HoldsBranch(t)'
<1>0. TypeInv /\ HoldsBranch(t) BY DEF LInv, IInv
<1>1. branches' = branches /\ refs' = refs BY <1>0, ReadStepFrame DEF tables
<1>2. pc[t] \notin Outside => held[t] \subseteq held'[t] /\ req'[t] = req[t]
  BY <1>0, ReadStepLocks, Entering
<1>3. ASSUME NEW b, KeepsActive(t, b), held[t] \subseteq held'[t]
      PROVE  b = Main \/ (branches'[b].status = "active" /\ Lock("branch", b, "share") \in held'[t])
  BY <1>1, <1>3 DEF KeepsActive
<1>4. ASSUME NEW b, LockBranch(t, b, "share"),
             branches[b].status = "active" \/ b = Main
      PROVE  b = Main \/ (branches'[b].status = "active" /\ Lock("branch", b, "share") \in held'[t])
  BY <1>0, <1>1, <1>4, LockBranchHolds
<1>5. ASSUME pc'[t] \in {"prepare_read", "prepare_commit", "accept_decide", "accept_commit"}
      PROVE  KeepsActive(t, req[t].branch)'
  <2>1. CASE pc'[t] = "prepare_read" \/ pc'[t] = "accept_decide"
    <3>1. PrepareLockBranch(t) \/ AcceptLockBranch(t) BY <1>0, <2>1, ComesFrom
    <3>2. /\ LockBranch(t, req[t].branch, "share") /\ UNCHANGED req
          /\ branches[req[t].branch].status = "active" \/ req[t].branch = Main
      BY <3>1 DEF PrepareLockBranch, AcceptLockBranch
    <3> QED BY <1>4, <3>2 DEF KeepsActive
  <2>2. CASE pc'[t] = "prepare_commit" \/ pc'[t] = "accept_commit"
    <3>1. PrepareReadHead(t) \/ AcceptDecide(t) BY <1>0, <2>2, ComesFrom
    <3>2. pc[t] \in {"prepare_read", "accept_decide"} BY <1>0, <3>1, Places DEF Goes
    <3>3. held[t] \subseteq held'[t] /\ req'[t] = req[t] BY <1>2, <3>2 DEF Outside
    <3> QED BY <1>0, <1>3, <3>2, <3>3 DEF HoldsBranch, KeepsActive
  <2> QED BY <1>5, <2>1, <2>2
<1>6. ASSUME pc'[t] \in {"propose_recheck", "propose_commit"}
      PROVE  KeepsActive(t, req[t].target)'
  <2>1. CASE pc'[t] = "propose_recheck"
    <3>1. ProposeLockBranch(t) BY <1>0, <2>1, ComesFrom
    <3>2. /\ LockBranch(t, req[t].target, "share") /\ UNCHANGED req
          /\ branches[req[t].target].status = "active"
      BY <3>1 DEF ProposeLockBranch
    <3> QED BY <1>4, <3>2 DEF KeepsActive
  <2>2. CASE pc'[t] = "propose_commit"
    <3>1. ProposeRecheck(t) BY <1>0, <2>2, ComesFrom
    <3>2. pc[t] = "propose_recheck" BY <1>0, <3>1, Places DEF Goes
    <3>3. held[t] \subseteq held'[t] /\ req'[t] = req[t] BY <1>2, <3>2 DEF Outside
    <3> QED BY <1>0, <1>3, <3>2, <3>3 DEF HoldsBranch, KeepsActive
  <2> QED BY <1>6, <2>1, <2>2
<1>7. ASSUME pc'[t] \in {"lifecycle_read", "lifecycle_commit"}
      PROVE  /\ (Lock("branch", req[t].name, "exclusive") \in held[t])'
             /\ (branches[req[t].name].status = StatusBefore(req[t]))'
             /\ pc'[t] = "lifecycle_commit" => refs'[req'[t].name] = cur'[t]
  <2>1. CASE pc'[t] = "lifecycle_read"
    <3>1. LifecycleLockBranch(t) BY <1>0, <2>1, ComesFrom
    <3>2. /\ LockBranch(t, req[t].name, "exclusive") /\ UNCHANGED req
          /\ branches[req[t].name].status = StatusBefore(req[t])
      BY <3>1 DEF LifecycleLockBranch
    <3>3. Lock("branch", req[t].name, "exclusive") \in held'[t]
      BY <1>0, <3>2, LockBranchHolds DEF StatusBefore
    <3> QED BY <1>1, <2>1, <3>2, <3>3 DEF StatusBefore
  <2>2. CASE pc'[t] = "lifecycle_commit"
    <3>1. LifecycleReadRef(t) BY <1>0, <2>2, ComesFrom
    <3>2. pc[t] = "lifecycle_read" BY <1>0, <3>1, Places DEF Goes
    <3>3. held[t] \subseteq held'[t] /\ req'[t] = req[t] BY <1>2, <3>2 DEF Outside
    <3>4. cur'[t] = refs[req[t].name]
      BY <1>0, <3>1 DEF LifecycleReadRef, TypeInv, TypeOK, LocalsOK
    <3> QED BY <1>0, <1>1, <3>2, <3>3, <3>4 DEF HoldsBranch, StatusBefore
  <2> QED BY <1>7, <2>1, <2>2
<1>8. ASSUME pc'[t] \in ProposePc
      PROVE  /\ branches'[req'[t].target].status # "none"
             /\ pc'[t] # "propose_source" => branches'[req'[t].source].status # "none"
  <2>1. CASE pc'[t] = "propose_source"
    <3>1. ProposeReadTarget(t) BY <1>0, <2>1, ComesFrom
    <3>2. branches[req'[t].target].status = "active"
      BY <1>0, <3>1 DEF ProposeReadTarget, TypeInv, TypeOK, LocalsOK
    <3> QED BY <1>1, <2>1, <3>2
  <2>2. CASE pc'[t] = "propose_begin"
    <3>1. ProposeReadSource(t) BY <1>0, <2>2, ComesFrom
    <3>2. pc[t] = "propose_source" BY <1>0, <3>1, Places DEF Goes
    <3>3. branches[req[t].source].status = "active" /\ UNCHANGED req
      BY <3>1 DEF ProposeReadSource
    <3> QED BY <1>0, <1>1, <3>2, <3>3 DEF HoldsBranch, ProposePc
  <2>3. CASE pc'[t] \in {"propose_branch", "propose_recheck", "propose_commit"}
    <3>1. ProposeBegin(t) \/ ProposeLockBranch(t) \/ ProposeRecheck(t)
      BY <1>0, <2>3, ComesFrom
    <3>2. pc[t] \in ProposePc \ {"propose_source"} BY <1>0, <3>1, Places DEF Goes, ProposePc
    <3>3. req'[t] = req[t]
      BY <1>0, <3>1, BeginScopedLocals DEF ProposeBegin, ProposeLockBranch, ProposeRecheck
    <3> QED BY <1>0, <1>1, <3>2, <3>3 DEF HoldsBranch
  <2> QED BY <1>8, <2>1, <2>2, <2>3 DEF ProposePc
<1> QED BY <1>5, <1>6, <1>7, <1>8 DEF HoldsBranch

(* The two branches of a merge, their locks and their rows. *)
LEMMA MergeRowOf ==
  ASSUME LInv, NEW c, NEW p \in MergeRow(c)
  PROVE  /\ p \in proposals /\ p.candidate = c /\ p.source # NoName
         /\ p.branch \in Branch /\ p.source \in Branch /\ p.branch # p.source
         /\ branches[p.branch].status # "none" /\ branches[p.source].status # "none"
         /\ InNameOrder(p, 1) = p.branch <=> InNameOrder(p, 2) = p.source
         /\ InNameOrder(p, 1) = p.source <=> InNameOrder(p, 2) = p.branch
         /\ InNameOrder(p, 1) \in {p.branch, p.source}
         /\ \A q \in MergeRow(c) : q = p
<1>1. TypeInv /\ MergeShape /\ UniqueCandidates BY DEF LInv, IInv
<1>2. /\ p \in proposals /\ p.candidate = c /\ p.source # NoName
      /\ p.branch \in Branch /\ p.source \in Branch
  BY <1>1, MergeBranches DEF MergeRow
<1>3. /\ p.branch # p.source
      /\ branches[p.branch].status # "none" /\ branches[p.source].status # "none"
  BY <1>1, <1>2 DEF MergeShape
<1>4. /\ InNameOrder(p, 1) = p.branch <=> InNameOrder(p, 2) = p.source
      /\ InNameOrder(p, 1) = p.source <=> InNameOrder(p, 2) = p.branch
      /\ InNameOrder(p, 1) \in {p.branch, p.source}
  BY SMT, <1>3 DEF InNameOrder
<1>5. \A q \in MergeRow(c) : q = p BY <1>1 DEF MergeRow, UniqueCandidates
<1> QED BY <1>2, <1>3, <1>4, <1>5

(* A ref that a transaction locked for reading is moved by no other. *)
LEMMA SharedRefStays ==
  ASSUME LInv, NEW t \in Tx, WriteStep(t), NEW u \in Tx \ {t}, NEW b \in Branch,
         src[u].version # 0, SharedRef(u, b)
  PROVE  refs'[b] = src[u]
<1>1. Lock("ref", b, "exclusive") \notin held[t] BY Excludes DEF LInv, IInv, SharedRef
<1> QED BY SMT, <1>1, RowStep DEF SharedRef, Kept, Born, Moved, Turned

(* What merge apply holds, when another transaction commits. *)
LEMMA MergeOther ==
  ASSUME LInv, NEW t \in Tx, WriteStep(t), NEW u \in Tx \ {t}
  PROVE  HoldsMerge(u)'
<1>0. TypeInv /\ HoldsMerge(u) /\ UniqueCandidates BY DEF LInv, IInv
<1>1. Still(u) BY <1>0, WriteStepFrame DEF Still
<1> DEFINE c == req[u].candidate
<1> SUFFICES ASSUME pc[u] \in ApplyPc, NEW p \in MergeRow(c)'
             PROVE  /\ (/\ pc[u] # "apply_ref_1" /\ src[u].version # 0
                        /\ pc[u] = "apply_ref_2" => InNameOrder(p, 1) = p.source)
                          => refs'[p.source] = src[u] /\ Lock("ref", p.source, "share") \in held[u]
                    /\ pc[u] \in {"apply_branch_2", "apply_decide", "apply_commit"} =>
                         Lock("branch", InNameOrder(p, 1), "share") \in held[u]
                    /\ pc[u] \in {"apply_decide", "apply_commit"} =>
                         Lock("branch", InNameOrder(p, 2), "share") \in held[u]
                    /\ pc[u] = "apply_commit" =>
                         /\ ApplyTargetIsCurrent(u, p)'
                         /\ ApplySourceIsCurrent(u, p)'
                         /\ ApplyReviewerIsDistinct(u, p)'
  BY <1>1 DEF HoldsMerge, Still, SharedRef, InNameOrder
<1>2. c \in Commit BY <1>0, RequestAt DEF ApplyRequest
<1>3. MergeRow(c)' = {q \in proposals' : q.candidate = c /\ q.source # NoName}
  BY <1>1 DEF MergeRow, Still
<1>4. p \in MergeRow(c)
  <2> HIDE DEF c
  <2> QED BY <1>0, <1>2, <1>3, ProposalsStep DEF MergeRow
<1>5. /\ p.branch \in Branch /\ p.source \in Branch
      /\ InNameOrder(p, 1) = p.branch <=> InNameOrder(p, 2) = p.source
      /\ InNameOrder(p, 1) \in {p.branch, p.source}
      /\ branches[p.branch].status # "none"
      /\ InNameOrder(p, 1) = p.source <=> InNameOrder(p, 2) = p.branch
  BY SMT, <1>4, MergeRowOf
<1>6. ASSUME pc[u] # "apply_ref_1", src[u].version # 0,
             pc[u] = "apply_ref_2" => InNameOrder(p, 1) = p.source
      PROVE  refs'[p.source] = src[u] /\ Lock("ref", p.source, "share") \in held[u]
  <2>1. SharedRef(u, p.source) BY <1>0, <1>4, <1>6 DEF HoldsMerge
  <2> QED BY <1>5, <1>6, <2>1, SharedRefStays DEF SharedRef
<1>7. /\ pc[u] \in {"apply_branch_2", "apply_decide", "apply_commit"} =>
           Lock("branch", InNameOrder(p, 1), "share") \in held[u]
      /\ pc[u] \in {"apply_decide", "apply_commit"} =>
           Lock("branch", InNameOrder(p, 2), "share") \in held[u]
  BY <1>0, <1>4 DEF HoldsMerge
<1>8. ASSUME pc[u] = "apply_commit"
      PROVE  /\ ApplyTargetIsCurrent(u, p)'
             /\ ApplySourceIsCurrent(u, p)'
             /\ ApplyReviewerIsDistinct(u, p)'
  <2>1. /\ ApplyTargetIsCurrent(u, p) /\ ApplySourceIsCurrent(u, p)
        /\ ApplyReviewerIsDistinct(u, p)
    BY <1>0, <1>4, <1>8 DEF HoldsMerge
  <2>2. /\ Lock("branch", p.branch, "share") \in held[u]
        /\ Lock("branch", p.source, "share") \in held[u]
    BY <1>5, <1>7, <1>8
  <2>3. branches[p.branch].status = "active" /\ branches[p.source].status = "active"
    BY <2>1 DEF ApplyTargetIsCurrent, ApplySourceIsCurrent
  <2>4. /\ branches'[p.branch].status = "active" /\ branches'[p.source].status = "active"
        /\ branches'[p.branch].policy = branches[p.branch].policy
    BY <1>5, <2>2, <2>3, ActiveStays
  <2> QED BY <1>1, <2>1, <2>4 DEF ApplyTargetIsCurrent, ApplySourceIsCurrent,
      ApplyReviewerIsDistinct, RequireDistinctParties, Still
<1> QED BY <1>6, <1>7, <1>8

(* The statements of merge apply. *)
LEMMA MergeSelf ==
  ASSUME LInv, NEW t \in Tx, ReadStep(t)
  PROVE  HoldsMerge(t)'
<1>0. TypeInv /\ HoldsMerge(t) BY DEF LInv, IInv
<1>1. branches' = branches /\ refs' = refs /\ proposals' = proposals
  BY <1>0, ReadStepFrame DEF tables
<1> DEFINE c == req[t].candidate
           Seen(p) == refs[p.source] = src'[t] /\ Lock("ref", p.source, "share") \in held'[t]
           First(p) == Lock("branch", InNameOrder(p, 1), "share") \in held'[t]
           Second(p) == Lock("branch", InNameOrder(p, 2), "share") \in held'[t]
           Checked(p) == /\ ApplyTargetIsCurrent(t, p)' /\ ApplySourceIsCurrent(t, p)'
                         /\ ApplyReviewerIsDistinct(t, p)'
<1>2. CASE pc'[t] \notin ApplyPc \ {"apply_ref_1"} BY <1>2 DEF HoldsMerge, ApplyPc
<1>3. CASE pc'[t] \in ApplyPc \ {"apply_ref_1"}
  <2>1. \/ ApplyLockRef(t, 1, "apply_ref_1", "apply_ref_2")
        \/ ApplyLockRef(t, 2, "apply_ref_2", "apply_branch_1")
        \/ ApplyLockBranch(t, 1, "apply_branch_1", "apply_branch_2")
        \/ ApplyLockBranch(t, 2, "apply_branch_2", "apply_decide")
        \/ ApplyDecide(t)
    BY <1>0, <1>3, ReadStepTo
  <2>2. pc[t] \in ApplyPc BY <1>0, <2>1, Places DEF Goes, ApplyPc
  <2>3. held[t] \subseteq held'[t] /\ req'[t] = req[t]
    BY <1>0, <2>2, ReadStepLocks, Entering DEF ApplyPc, Outside
  <2> SUFFICES ASSUME NEW p \in MergeRow(c)
               PROVE  /\ (/\ src'[t].version # 0
                          /\ pc'[t] = "apply_ref_2" => InNameOrder(p, 1) = p.source) => Seen(p)
                      /\ pc'[t] \in {"apply_branch_2", "apply_decide", "apply_commit"} => First(p)
                      /\ pc'[t] \in {"apply_decide", "apply_commit"} => Second(p)
                      /\ pc'[t] = "apply_commit" => Checked(p)
    <3>1. MergeRow(c)' = MergeRow(c) BY <1>1, <2>3 DEF MergeRow
    <3> QED BY <1>1, <2>3, <3>1 DEF HoldsMerge, SharedRef, InNameOrder
  <2>4. /\ p.branch \in Branch /\ p.source \in Branch /\ p.branch # p.source
        /\ branches[p.branch].status # "none" /\ branches[p.source].status # "none"
        /\ InNameOrder(p, 1) = p.branch <=> InNameOrder(p, 2) = p.source
        /\ InNameOrder(p, 1) = p.source <=> InNameOrder(p, 2) = p.branch
        /\ InNameOrder(p, 1) \in {p.branch, p.source}
        /\ \A q \in MergeRow(c) : q = p
    BY SMT, MergeRowOf
  <2>5. ASSUME NEW n, NEW from, NEW to, ApplyLockRef(t, n, from, to)
        PROVE  IF InNameOrder(p, n) = p.branch THEN UNCHANGED src
               ELSE /\ LockRef(t, InNameOrder(p, n), "share")
                    /\ src' = [src EXCEPT ![t] = refs[InNameOrder(p, n)]]
    BY <2>4, <2>5 DEF ApplyLockRef
  <2>6. ASSUME LockRef(t, p.source, "share"), src' = [src EXCEPT ![t] = refs[p.source]],
               src'[t].version # 0
        PROVE  Seen(p)
    BY <1>0, <2>6 DEF LockRef, Acquire, TypeInv, TypeOK, LocalsOK
  <2>7. ASSUME UNCHANGED src, src'[t].version # 0, pc[t] # "apply_ref_1",
               pc[t] = "apply_ref_2" => InNameOrder(p, 1) = p.source
        PROVE  Seen(p)
    BY <1>0, <2>2, <2>3, <2>7 DEF HoldsMerge, SharedRef
  <2>8. ASSUME NEW n \in {1, 2}, NEW from, NEW to, ApplyLockBranch(t, n, from, to)
        PROVE  Lock("branch", InNameOrder(p, n), "share") \in held'[t]
    <3>1. LockBranch(t, InNameOrder(p, n), "share") BY <2>4, <2>8 DEF ApplyLockBranch
    <3> QED BY <1>0, <2>4, <3>1, LockBranchHolds
  <2>9. CASE ApplyLockRef(t, 1, "apply_ref_1", "apply_ref_2")
    <3>1. pc'[t] = "apply_ref_2" BY <1>0, <2>9, Places DEF Goes
    <3> QED BY <2>4, <2>5, <2>6, <2>9, <3>1
  <2>10. CASE ApplyLockRef(t, 2, "apply_ref_2", "apply_branch_1")
    <3>1. pc[t] = "apply_ref_2" /\ pc'[t] = "apply_branch_1" BY <1>0, <2>10, Places DEF Goes
    <3> QED BY <2>4, <2>5, <2>6, <2>7, <2>10, <3>1
  <2>11. CASE ApplyLockBranch(t, 1, "apply_branch_1", "apply_branch_2")
    <3>1. pc[t] = "apply_branch_1" /\ pc'[t] = "apply_branch_2" BY <1>0, <2>11, Places DEF Goes
    <3>2. UNCHANGED src BY <2>11 DEF ApplyLockBranch
    <3> QED BY <2>7, <2>8, <2>11, <3>1, <3>2
  <2>12. CASE ApplyLockBranch(t, 2, "apply_branch_2", "apply_decide")
    <3>1. pc[t] = "apply_branch_2" /\ pc'[t] = "apply_decide" BY <1>0, <2>12, Places DEF Goes
    <3>2. UNCHANGED src BY <2>12 DEF ApplyLockBranch
    <3>3. First(p) BY <1>0, <2>2, <2>3, <3>1 DEF HoldsMerge
    <3> QED BY <2>7, <2>8, <2>12, <3>1, <3>2, <3>3
  <2>13. CASE ApplyDecide(t)
    <3>1. pc[t] = "apply_decide" /\ pc'[t] = "apply_commit" BY <1>0, <2>13, Places DEF Goes
    <3>2. UNCHANGED <<src, cur>> BY <2>13 DEF ApplyDecide
    <3>3. First(p) /\ Second(p) BY <1>0, <2>2, <2>3, <3>1 DEF HoldsMerge
    <3>4. /\ ApplyTargetIsCurrent(t, p) /\ ApplySourceIsCurrent(t, p)
          /\ ApplyReviewerIsDistinct(t, p)
      BY <2>4, <2>13 DEF ApplyDecide
    <3>5. Checked(p)
      BY <1>1, <2>3, <3>2, <3>4 DEF ApplyTargetIsCurrent, ApplySourceIsCurrent,
         ApplyReviewerIsDistinct, RequireDistinctParties
    <3> QED BY <2>7, <3>1, <3>2, <3>3, <3>5
  <2> QED BY <2>1, <2>9, <2>10, <2>11, <2>12, <2>13
<1> QED BY <1>2, <1>3

(* A candidate that has a proposal gets no other. *)
LEMMA ProposalsOf ==
  ASSUME TypeInv, NEW t \in Tx, WriteStep(t), NEW p \in proposals', p.candidate \in Commit
  PROVE  p \in proposals
<1>1. ASSUME NEW q, proposals' = proposals \cup {q}, q.candidate = lastCommit + 1
      PROVE  p \in proposals
  <2>1. lastCommit + 1 \notin Commit BY SMT DEF Commit, TypeInv, TypeOK, TablesOK
  <2> QED BY <1>1, <2>1
<1> QED BY <1>1, PublishStepWrites

(* What accept checked, when another transaction commits. *)
LEMMA AcceptOther ==
  ASSUME LInv, NEW t \in Tx, WriteStep(t), NEW u \in Tx \ {t}
  PROVE  HoldsAccept(u)'
<1>0. TypeInv /\ HoldsAccept(u) /\ HoldsBranch(u) BY DEF LInv, IInv
<1>1. Still(u) BY <1>0, WriteStepFrame DEF Still
<1> DEFINE b == req[u].branch
<1>2. ASSUME pc[u] \in {"accept_decide", "accept_commit"}
      PROVE  \/ branches'[b].policy = branches[b].policy
             \/ ~branches'[b].policy.requireValidation
                /\ ~branches'[b].policy.requireDistinctReviewer
  <2>1. b \in Branch BY <1>0, <1>2, RequestAt DEF AcceptPc, AcceptRequest
  <2>2. KeepsActive(u, b) BY <1>0, <1>2 DEF HoldsBranch
  <2>3. CASE b = Main BY SMT, <2>3, RowsStep DEF MainIsPlain, NoPolicy
  <2>4. CASE b # Main BY <2>1, <2>2, <2>4, ActiveStays DEF KeepsActive
  <2> QED BY <2>3, <2>4
<1>3. ASSUME pc[u] \in {"accept_decide", "accept_commit"}
      PROVE  /\ branches'[b].policy.requireValidation => req[u].cites # {}
             /\ cur[u].head = req[u].expected
  BY <1>0, <1>2, <1>3 DEF HoldsAccept
<1>4. ASSUME pc[u] = "accept_commit", NEW p \in proposals', p.candidate = req[u].candidate
      PROVE  AcceptChecked(u, p)'
  <2>1. p \in proposals
    BY <1>0, <1>4, RequestAt, ProposalsOf DEF AcceptPc, AcceptRequest
  <2>2. AcceptChecked(u, p) BY <1>0, <1>4, <2>1 DEF HoldsAccept
  <2>3. RequireDistinctParties(p.branch, p, req[u].actor)'
    BY <1>1, <1>2, <1>4, <2>2 DEF AcceptChecked, RequireDistinctParties, Still
  <2> QED BY <1>1, <2>2, <2>3 DEF AcceptChecked, Still
<1>5. pc[u] \in {"accept_commit", "apply_commit"} =>
         CiteValidation(req[u].cites, req[u].candidate)
  BY <1>0 DEF HoldsAccept
<1> QED BY <1>1, <1>3, <1>4, <1>5 DEF HoldsAccept, Still, CiteValidation, CitesCandidate

(* The checks of accept themselves. *)
LEMMA AcceptSelf ==
  ASSUME LInv, NEW t \in Tx, ReadStep(t)
  PROVE  HoldsAccept(t)'
<1>0. TypeInv /\ HoldsAccept(t) /\ UniqueCandidates BY DEF LInv, IInv
<1>1. branches' = branches /\ proposals' = proposals BY <1>0, ReadStepFrame DEF tables
<1>2. ASSUME pc'[t] = "accept_decide"
      PROVE  /\ (branches[req[t].branch].policy.requireValidation => req[t].cites # {})'
             /\ cur'[t].head = req'[t].expected
  <2>1. AcceptLockBranch(t) BY <1>0, <1>2, ComesFrom
  <2> QED BY <1>1, <2>1 DEF AcceptLockBranch
<1>3. ASSUME pc'[t] = "accept_commit"
      PROVE  /\ (branches[req[t].branch].policy.requireValidation => req[t].cites # {})'
             /\ cur'[t].head = req'[t].expected
             /\ \A p \in proposals' : p.candidate = req'[t].candidate => AcceptChecked(t, p)'
             /\ CiteValidation(req[t].cites, req[t].candidate)'
  <2>1. AcceptDecide(t) BY <1>0, <1>3, ComesFrom
  <2>2. pc[t] = "accept_decide" BY <1>0, <2>1, Places DEF Goes
  <2>3. UNCHANGED <<req, cur>> /\ CiteValidation(req[t].cites, req[t].candidate)
    BY <2>1 DEF AcceptDecide
  <2>4. PICK p \in proposals :
          /\ p.candidate = req[t].candidate
          /\ p.branch = req[t].branch
          /\ p.expected = req[t].expected
          /\ RequireDistinctParties(req[t].branch, p, req[t].actor)
          /\ IF cur[t].version = 0 THEN p.parents = <<>>
             ELSE Len(p.parents) = 1 /\ p.parents[1] = req[t].expected
    BY <2>1 DEF AcceptDecide
  <2>5. AcceptChecked(t, p)' BY <1>1, <2>3, <2>4 DEF AcceptChecked, RequireDistinctParties
  <2>6. \A q \in proposals' : q.candidate = req'[t].candidate => q = p
    BY <1>0, <1>1, <2>3, <2>4 DEF UniqueCandidates
  <2>7. /\ branches[req[t].branch].policy.requireValidation => req[t].cites # {}
        /\ cur[t].head = req[t].expected
    BY <1>0, <2>2 DEF HoldsAccept
  <2> QED BY <1>1, <2>3, <2>5, <2>6, <2>7 DEF CiteValidation, CitesCandidate
<1>4. ASSUME pc'[t] = "apply_commit"
      PROVE  CiteValidation(req[t].cites, req[t].candidate)'
  <2>1. ApplyDecide(t) BY <1>0, <1>4, ComesFrom
  <2> QED BY <2>1 DEF ApplyDecide, CiteValidation, CitesCandidate
<1> QED BY <1>2, <1>3, <1>4 DEF HoldsAccept

(* A merge proposal keeps its shape. *)
LEMMA MergeShapeStep ==
  ASSUME LInv, NEW t \in Tx, WriteStep(t)
  PROVE  MergeShape'
<1>0. TypeInv /\ HoldsBranch(t) /\ MergeShape BY DEF LInv, IInv
<1>1. ASSUME NEW p \in proposals, p.source # NoName
      PROVE  /\ p.branch # p.source
             /\ Len(p.parents) = 2 /\ p.parents[1] = p.expected
             /\ branches'[p.branch].status # "none" /\ branches'[p.source].status # "none"
  <2>1. p.branch \in Branch /\ p.source \in Branch
    BY <1>0, <1>1 DEF TypeInv, TypeOK, TablesOK, ProposalRow
  <2> QED BY <1>0, <1>1, <2>1, RowStays DEF MergeShape
<1>2. CASE UNCHANGED proposals BY <1>1, <1>2 DEF MergeShape
<1>3. ASSUME NEW p, PublishesPlain(t, p) PROVE MergeShape'
  BY <1>1, <1>3 DEF MergeShape, PublishesPlain, Publishes
<1>4. ASSUME NEW p, PublishesMerge(t, p) PROVE MergeShape'
  <2>1. /\ branches[p.branch].status # "none" /\ branches[p.source].status # "none"
    BY <1>0, <1>4 DEF PublishesMerge, HoldsBranch, ProposePc
  <2>2. /\ p.branch # p.source /\ p.expected = cur[t].head
        /\ p.parents = <<cur[t].head, src[t].head>>
        /\ branches' = branches /\ proposals' = proposals \cup {p}
    BY <1>4 DEF PublishesMerge, Publishes
  <2>3. Len(p.parents) = 2 /\ p.parents[1] = p.expected BY SMT, <2>2
  <2> QED BY <1>1, <2>1, <2>2, <2>3 DEF MergeShape
<1>5. ASSUME NEW p, InstallsGenesis(t, p) \/ InstallsNext(t, p) \/ InstallsMerge(t, p)
      PROVE  UNCHANGED proposals
  BY <1>5 DEF InstallsGenesis, InstallsNext, InstallsMerge, Advances, Installs
<1>6. CASE CreatesBranch(t) \/ (\E p, s : Declines(t, p, s)) \/ Validates(t) \/ ChangesStatus(t)
  BY <1>2, <1>6 DEF CreatesBranch, Declines, Validates, ChangesStatus
<1> QED BY <1>2, <1>3, <1>4, <1>5, <1>6, Effects

-----------------------------------------------------------------------------
(* A freshly created graph satisfies the invariant. *)
LEMMA InitLInv == Init => LInv
<1> SUFFICES ASSUME Init PROVE LInv OBVIOUS
<1>1. RowsTogether /\ MainIsPlain /\ MergeShape
  BY StoreAssumption DEF Init, RowsTogether, MainIsPlain, MergeShape, NoRef, NoBranch
<1>2. ASSUME NEW t \in Tx
      PROVE  /\ HoldsStatus(t) /\ HoldsScope(t) /\ HoldsBranch(t) /\ HoldsMerge(t)
             /\ HoldsAccept(t)
  BY DEF Init, HoldsStatus, HoldsScope, HoldsBranch, HoldsMerge, HoldsAccept, Outside,
     ProposePc, ApplyPc
<1> QED BY <1>1, <1>2, InitIInv DEF LInv

(* Every step of a transaction keeps it ... *)
LEMMA TransactionLInv ==
  ASSUME LInv, IInv', NEW t \in Tx, ReadStep(t) \/ WriteStep(t) \/ Rollback(t)
  PROVE  LInv'
<1>0. TypeInv BY DEF LInv, IInv
<1>1. \A u \in Tx : HoldsStatus(u)' BY StatusStep
<1>2. CASE WriteStep(t)
  <2>1. ASSUME NEW u \in Tx
        PROVE  HoldsScope(u)' /\ HoldsBranch(u)' /\ HoldsMerge(u)' /\ HoldsAccept(u)'
    <3>1. CASE u # t BY <1>2, <3>1, ScopeStep, BranchOther, MergeOther, AcceptOther
    <3>2. CASE u = t
      <4>1. pc'[t] = "idle" BY <1>0, <1>2, WriteStepFrame
      <4> QED BY <3>2, <4>1 DEF HoldsScope, HoldsBranch, HoldsMerge, HoldsAccept, Outside,
              ProposePc, ApplyPc
    <3> QED BY <3>1, <3>2
  <2> QED BY <1>1, <1>2, <2>1, RowsStep, MergeShapeStep DEF LInv
<1>3. CASE ReadStep(t) \/ Rollback(t)
  <2>1. UNCHANGED tables BY <1>0, <1>3, ReadStepFrame DEF Rollback
  <2>2. RowsTogether' /\ MainIsPlain' /\ MergeShape'
    BY <2>1 DEF LInv, RowsTogether, MainIsPlain, MergeShape, tables
  <2>3. ASSUME NEW u \in Tx
        PROVE  HoldsScope(u)' /\ HoldsBranch(u)' /\ HoldsMerge(u)' /\ HoldsAccept(u)'
    <3>1. CASE u # t
      <4>1. Still(u) BY <1>0, <1>3, <3>1, ReadStepFrame, WriteStepFrame DEF Still
      <4> QED BY <2>1, <4>1, StillHolds DEF LInv
    <3>2. CASE u = t /\ ReadStep(t) BY <3>2, ScopeStep, BranchSelf, MergeSelf, AcceptSelf
    <3>3. CASE u = t /\ Rollback(t)
      <4>1. pc'[t] = "idle" BY <1>0, <3>3, WriteStepFrame
      <4> QED BY <3>3, <4>1 DEF HoldsScope, HoldsBranch, HoldsMerge, HoldsAccept, Outside,
              ProposePc, ApplyPc
    <3> QED BY <1>3, <3>1, <3>2, <3>3
  <2> QED BY <1>1, <2>2, <2>3 DEF LInv
<1> QED BY <1>2, <1>3

(* The steps of the system, by what they write. *)
LEMMA StepKinds ==
  ASSUME [Next]_vars
  PROVE  \/ \E t \in Tx : ReadStep(t) \/ WriteStep(t) \/ Rollback(t)
         \/ SetGraphStatus
         \/ UNCHANGED vars
<1>1. ASSUME NEW t \in Tx, WorkflowStep(t) \/ ValidationStep(t) \/ BranchStep(t) \/ MergeStep(t)
      PROVE  ReadStep(t) \/ WriteStep(t)
  BY <1>1 DEF WorkflowStep, ValidationStep, BranchStep, MergeStep, ReadStep, WriteStep,
     MoveStep, DecideStep, OtherStep
<1> QED BY <1>1 DEF Next, Replay

(* ... and so does every other step. *)
LEMMA NextLInv == LInv /\ [Next]_vars => LInv'
<1> SUFFICES ASSUME LInv, [Next]_vars PROVE LInv' OBVIOUS
<1>0. IInv' BY NextIInv DEF LInv
<1>1. ASSUME UNCHANGED <<tables, locals>>, \A u \in Tx : HoldsStatus(u)' PROVE LInv'
  <2>1. RowsTogether' /\ MainIsPlain' /\ MergeShape'
    BY <1>1 DEF LInv, RowsTogether, MainIsPlain, MergeShape, tables
  <2>2. ASSUME NEW u \in Tx
        PROVE  HoldsScope(u)' /\ HoldsBranch(u)' /\ HoldsMerge(u)' /\ HoldsAccept(u)'
    <3>1. Still(u) BY <1>1 DEF Still, locals
    <3> QED BY <1>1, <3>1, StillHolds DEF LInv
  <2> QED BY <1>0, <1>1, <2>1, <2>2 DEF LInv
<1>2. CASE UNCHANGED vars
  <2>1. \A u \in Tx : HoldsStatus(u)' BY <1>2 DEF LInv, HoldsStatus, vars, locals
  <2> QED BY <1>1, <1>2, <2>1 DEF vars
<1>3. CASE SetGraphStatus
  <2>1. \A u \in Tx : pc[u] \in Outside BY <1>3 DEF SetGraphStatus, LInv, HoldsStatus
  <2>2. \A u \in Tx : HoldsStatus(u)' BY <1>3, <2>1 DEF SetGraphStatus, HoldsStatus, locals
  <2> QED BY <1>1, <1>3, <2>2 DEF SetGraphStatus
<1> QED BY <1>0, <1>2, <1>3, StepKinds, TransactionLInv

(* The invariant holds in every reachable state. *)
LEMMA LocksInvariance == Spec => []LInv
  BY InitLInv, NextLInv, PTL DEF Spec

-----------------------------------------------------------------------------
(* What the invariant gives. *)

(* Only a commit writes a table. *)
LEMMA OnlyCommitsWrite ==
  ASSUME TypeInv, [Next]_vars
  PROVE  UNCHANGED tables \/ \E t \in Tx : WriteStep(t)
  BY StepKinds, ReadStepFrame DEF Rollback, SetGraphStatus, vars

(* Nothing is written to an archived graph: whoever commits has held the    *)
(* graph's status, shared, since it saw the graph active.                   *)
THEOREM FrozenGraph == Spec => ArchivedGraphIsFrozen
<1>1. LInv /\ [Next]_vars => [graphStatus # "active" => UNCHANGED tables]_vars
  BY OnlyCommitsWrite, CommitsFrom DEF LInv, IInv, HoldsStatus
<1> QED BY <1>1, LocksInvariance, PTL DEF Spec, ArchivedGraphIsFrozen

(* Nothing happens on a deleted branch, although delete locks its row only  *)
(* and never its ref.                                                       *)
THEOREM DeletedIsInert == Spec => DeletedBranchIsInert
<1> DEFINE Inert == \A b \in Branch : branches[b].status = "deleted" =>
                       /\ refs'[b] = refs[b]
                       /\ \A p \in proposals' \ proposals : p.branch # b
<1>1. LInv /\ [Next]_vars => Inert
  <2> SUFFICES ASSUME LInv, [Next]_vars, NEW b \in Branch, branches[b].status = "deleted"
               PROVE  /\ refs'[b] = refs[b]
                      /\ \A p \in proposals' \ proposals : p.branch # b
    OBVIOUS
  <2>1. CASE UNCHANGED tables BY <2>1 DEF tables
  <2>2. ASSUME NEW t \in Tx, WriteStep(t)
        PROVE  /\ refs'[b] = refs[b]
               /\ \A p \in proposals' \ proposals : p.branch # b
    <3>1. refs'[b] = refs[b] BY <2>2, RowStep DEF Kept, Born, Moved, Turned
    <3>2. ASSUME NEW p, Publishes(t, p)
          PROVE  \A q \in proposals' \ proposals : q.branch # b
      BY <3>2 DEF Publishes
    <3>3. ASSUME ~ \E p : Publishes(t, p) PROVE UNCHANGED proposals
      BY <2>2, <3>3, Effects DEF PublishesPlain, PublishesMerge, InstallsGenesis,
         InstallsNext, InstallsMerge, Advances, Installs, CreatesBranch, Declines, Validates,
         ChangesStatus
    <3> QED BY <3>1, <3>2, <3>3
  <2> QED BY <2>1, <2>2, OnlyCommitsWrite DEF LInv, IInv
<1>2. LInv /\ [Next]_vars => [Inert]_vars BY <1>1
<1> QED BY <1>2, LocksInvariance, PTL DEF Spec, DeletedBranchIsInert

(* A merge is installed only while both heads are the previewed ones and    *)
(* the source is active: merge apply holds both refs and both rows.         *)
THEOREM MergeStaysCurrent == Spec => MergeIsCurrent
<1> DEFINE Current == \A e \in refEvents' \ refEvents : e.operation = "merge" =>
                        \E p \in proposals :
                          /\ p.candidate = e.new
                          /\ p.parents = <<refs[e.branch].head, refs[p.source].head>>
                          /\ branches[p.source].status = "active"
<1>1. LInv /\ [Next]_vars => Current
  <2> SUFFICES ASSUME LInv, [Next]_vars, NEW e \in refEvents' \ refEvents, e.operation = "merge"
               PROVE  \E p \in proposals :
                          /\ p.candidate = e.new
                          /\ p.parents = <<refs[e.branch].head, refs[p.source].head>>
                          /\ branches[p.source].status = "active"
    OBVIOUS
  <2>1. PICK t \in Tx : WriteStep(t) BY OnlyCommitsWrite DEF LInv, IInv, tables
  <2>2. ASSUME NEW b, NEW c, NEW op, Moves(b, c, op)
        PROVE  e.branch = b /\ e.new = c /\ e.operation = op
    BY SMT, <2>2 DEF Moves
  <2>3. ASSUME NEW p \in proposals, InstallsMerge(t, p)
        PROVE  /\ p.candidate = e.new
               /\ p.parents = <<refs[e.branch].head, refs[p.source].head>>
               /\ branches[p.source].status = "active"
    <3>1. Moves(p.branch, p.candidate, "merge")
      BY <2>3 DEF InstallsMerge, Advances, Installs
    <3> QED BY <2>2, <2>3, <3>1 DEF InstallsMerge
  <2>4. ASSUME NEW p, InstallsGenesis(t, p) \/ InstallsNext(t, p) \/ CreatesBranch(t) PROVE FALSE
    <3>1. \E b, c, op : op # "merge" /\ Moves(b, c, op)
      BY <2>4 DEF InstallsGenesis, InstallsNext, Advances, Installs, CreatesBranch
    <3> QED BY <2>2, <3>1
  <2>5. ASSUME NEW p, NEW s,
               \/ PublishesPlain(t, p) \/ PublishesMerge(t, p) \/ Declines(t, p, s)
               \/ Validates(t) \/ ChangesStatus(t)
        PROVE  FALSE
    BY <2>5 DEF PublishesPlain, PublishesMerge, Publishes, Declines, Validates, ChangesStatus
  <2> QED BY <2>1, <2>3, <2>4, <2>5, Effects
<1>2. LInv /\ [Next]_vars => [Current]_vars BY <1>1
<1> QED BY <1>2, LocksInvariance, PTL DEF Spec, MergeIsCurrent

-----------------------------------------------------------------------------
(* The order of the locks. *)

(* Where the next statement waits for a ref, for a branch row, for the      *)
(* decision lock.                                                           *)
WantsRef == {"accept_ref", "create_ref", "apply_ref_1", "apply_ref_2"}
WantsBranch == {"prepare_branch", "accept_branch", "propose_branch", "create_branch",
                "lifecycle_branch", "apply_branch_1", "apply_branch_2"}
WantsDecision == {"accept_decide", "reject_decide", "supersede_decide", "apply_decide"}

(* Refs are locked before branch rows and these before a decision; only     *)
(* merge apply locks two refs and two rows, the smaller name first.         *)
LocksInOrder(t) ==
    \A l \in held[t] :
        /\ l.kind = "ref" /\ pc[t] \in WantsRef =>
             /\ pc[t] = "apply_ref_2"
             /\ \A p \in MergeRow(req[t].candidate) : l.id = InNameOrder(p, 1)
        /\ l.kind = "branch" /\ pc[t] \in WantsRef \cup WantsBranch =>
             /\ pc[t] = "apply_branch_2"
             /\ \A p \in MergeRow(req[t].candidate) : l.id = InNameOrder(p, 1)
        /\ l.kind = "decision" => pc[t] \notin WantsRef \cup WantsBranch \cup WantsDecision

(* merge apply serves a merge that was proposed. *)
AppliesMerge(t) == pc[t] \in ApplyPc => MergeRow(req[t].candidate) # {}

OInv == LInv /\ \A t \in Tx : LocksInOrder(t) /\ AppliesMerge(t)

(* A locking statement adds at most its lock. *)
LEMMA AddsLock ==
  ASSUME TypeInv, NEW t \in Tx, NEW b, NEW mode
  PROVE  /\ LockRef(t, b, mode) => held'[t] \subseteq held[t] \cup {Lock("ref", b, mode)}
         /\ LockBranch(t, b, mode) => held'[t] \subseteq held[t] \cup {Lock("branch", b, mode)}
  BY DEF LockRef, LockBranch, Acquire, TypeInv, TypeOK, LocalsOK

(* The statements that lead to a wait. *)
LEMMA OrderSelf ==
  ASSUME OInv, NEW t \in Tx, ReadStep(t)
  PROVE  LocksInOrder(t)'
<1>0. TypeInv /\ LocksInOrder(t) BY DEF OInv, LInv, IInv
<1>1. proposals' = proposals BY <1>0, ReadStepFrame DEF tables
<1> DEFINE Clean == \A l \in held'[t] : l.kind \notin {"ref", "branch", "decision"}
<1>2. Clean => LocksInOrder(t)' BY DEF LocksInOrder
<1>3. ASSUME pc'[t] \in {"prepare_branch", "accept_ref", "reject_decide", "lifecycle_branch",
                         "create_ref", "propose_branch", "apply_ref_1", "supersede_decide"}
      PROVE  Clean
  <2>1. pc[t] \in Outside
    BY <1>0, <1>3, ComesFrom, Places DEF Goes, Outside
  <2>2. SupersedeBegin(t) \/ BeginScoped(t, req'[t], pc[t], pc'[t])
    BY <1>0, <1>3, <2>1, Entering DEF Outside
  <2> QED BY SMT, <1>0, <2>2 DEF SupersedeBegin, BeginScoped, Lock, TypeInv, TypeOK, LocalsOK
<1>4. ASSUME pc'[t] = "accept_branch" \/ pc'[t] = "create_branch" PROVE LocksInOrder(t)'
  <2>1. AcceptLockRef(t) \/ CreateLockRef(t) BY <1>0, <1>4, ComesFrom
  <2>2. pc[t] \in {"accept_ref", "create_ref"} BY <1>0, <2>1, Places DEF Goes
  <2>3. \E b, mode : LockRef(t, b, mode) BY <2>1 DEF AcceptLockRef, CreateLockRef
  <2>4. PICK b, mode : held'[t] \subseteq held[t] \cup {Lock("ref", b, mode)}
    BY <1>0, <2>3, AddsLock
  <2>5. \A l \in held[t] : l.kind \notin {"ref", "branch", "decision"}
    BY <1>0, <2>2 DEF LocksInOrder, WantsRef
  <2>6. Lock("ref", b, mode).kind = "ref" BY DEF Lock
  <2>7. \A l \in held'[t] : l.kind \notin {"branch", "decision"} BY <2>4, <2>5, <2>6
  <2> QED BY <1>4, <2>7 DEF LocksInOrder, WantsRef
<1>5. ASSUME pc'[t] = "accept_decide" \/ pc'[t] = "apply_decide" PROVE LocksInOrder(t)'
  <2>1. AcceptLockBranch(t) \/ ApplyLockBranch(t, 2, "apply_branch_2", "apply_decide")
    BY <1>0, <1>5, ComesFrom
  <2>2. pc[t] \in {"accept_branch", "apply_branch_2"} BY <1>0, <2>1, Places DEF Goes
  <2>3. \E b, mode : LockBranch(t, b, mode) BY <2>1 DEF AcceptLockBranch, ApplyLockBranch
  <2>4. PICK b, mode : held'[t] \subseteq held[t] \cup {Lock("branch", b, mode)}
    BY <1>0, <2>3, AddsLock
  <2>5. \A l \in held[t] : l.kind # "decision" BY <1>0, <2>2 DEF LocksInOrder, WantsBranch
  <2>6. Lock("branch", b, mode).kind = "branch" BY DEF Lock
  <2>7. \A l \in held'[t] : l.kind # "decision" BY <2>4, <2>5, <2>6
  <2> QED BY <1>5, <2>7 DEF LocksInOrder, WantsRef, WantsBranch
<1> DEFINE Rows == MergeRow(req[t].candidate)
<1>6. ASSUME pc[t] \in ApplyPc PROVE Rows' = Rows /\ req'[t] = req[t]
  <2>1. req'[t] = req[t] BY <1>0, <1>6, Entering DEF ApplyPc, Outside
  <2> QED BY <1>1, <2>1 DEF MergeRow
<1>7. \A p, q \in Rows : p = q BY MergeRowOf DEF OInv
<1>8. ASSUME pc'[t] = "apply_ref_2" \/ pc'[t] = "apply_branch_1" PROVE LocksInOrder(t)'
  <2>1. \/ ApplyLockRef(t, 1, "apply_ref_1", "apply_ref_2")
        \/ ApplyLockRef(t, 2, "apply_ref_2", "apply_branch_1")
    BY <1>0, <1>8, ComesFrom
  <2>2. \/ pc[t] = "apply_ref_1" /\ pc'[t] = "apply_ref_2"
        \/ pc[t] = "apply_ref_2" /\ pc'[t] = "apply_branch_1"
    BY <1>0, <2>1, Places DEF Goes
  <2>3. \A l \in held[t] : l.kind \notin {"branch", "decision"}
    BY <1>0, <2>2 DEF LocksInOrder, WantsRef
  <2>4. ASSUME NEW n, NEW from, NEW to, ApplyLockRef(t, n, from, to)
        PROVE  \E p \in Rows : \E mode : LockRef(t, InNameOrder(p, n), mode)
    BY <2>4 DEF ApplyLockRef
  <2>5. PICK n : /\ pc'[t] = "apply_ref_2" => n = 1
                 /\ \E p \in Rows : \E mode : LockRef(t, InNameOrder(p, n), mode)
    BY <1>0, <2>1, <2>4, Places DEF Goes
  <2>6. PICK p \in Rows : \E mode : LockRef(t, InNameOrder(p, n), mode) BY <2>5
  <2>7. PICK mode : LockRef(t, InNameOrder(p, n), mode) BY <2>6
  <2>8. held'[t] \subseteq held[t] \cup {Lock("ref", InNameOrder(p, n), mode)}
    BY <1>0, <2>7, AddsLock
  <2>9. /\ Lock("ref", InNameOrder(p, n), mode).kind = "ref"
        /\ Lock("ref", InNameOrder(p, n), mode).id = InNameOrder(p, n)
    BY DEF Lock
  <2>10. \A l \in held'[t] : l.kind \notin {"branch", "decision"} BY <2>3, <2>8, <2>9
  <2>11. ASSUME pc'[t] = "apply_ref_2", NEW l \in held'[t], l.kind = "ref"
         PROVE  l.id = InNameOrder(p, 1)
    <3>1. l \notin held[t] BY <1>0, <2>2, <2>11 DEF LocksInOrder, WantsRef
    <3> QED BY <2>5, <2>8, <2>9, <2>11, <3>1
  <2>12. Rows' = Rows BY <1>6, <2>2 DEF ApplyPc
  <2>13. \A q \in Rows' : q = p BY <1>7, <2>12
  <2> QED BY <2>2, <2>10, <2>11, <2>13 DEF LocksInOrder, WantsRef, WantsBranch, InNameOrder
<1>9. ASSUME pc'[t] = "apply_branch_2" PROVE LocksInOrder(t)'
  <2>1. ApplyLockBranch(t, 1, "apply_branch_1", "apply_branch_2") BY <1>0, <1>9, ComesFrom
  <2>2. pc[t] = "apply_branch_1" BY <1>0, <2>1, Places DEF Goes
  <2>3. \A l \in held[t] : l.kind \notin {"branch", "decision"}
    BY <1>0, <2>2 DEF LocksInOrder, WantsBranch
  <2>4. PICK p \in Rows : LockBranch(t, InNameOrder(p, 1), "share")
    BY <2>1 DEF ApplyLockBranch
  <2>5. held'[t] \subseteq held[t] \cup {Lock("branch", InNameOrder(p, 1), "share")}
    BY <1>0, <2>4, AddsLock
  <2>6. /\ Lock("branch", InNameOrder(p, 1), "share").kind = "branch"
        /\ Lock("branch", InNameOrder(p, 1), "share").id = InNameOrder(p, 1)
    BY DEF Lock
  <2>7. \A l \in held'[t] : /\ l.kind # "decision"
                            /\ l.kind = "branch" => l.id = InNameOrder(p, 1)
    BY <2>3, <2>5, <2>6
  <2>8. Rows' = Rows BY <1>6, <2>2 DEF ApplyPc
  <2>9. \A q \in Rows' : q = p BY <1>7, <2>8
  <2> QED BY <1>9, <2>7, <2>9 DEF LocksInOrder, WantsRef, WantsBranch, InNameOrder
<1>10. ASSUME pc'[t] \notin WantsRef \cup WantsBranch \cup WantsDecision PROVE LocksInOrder(t)'
  BY <1>10 DEF LocksInOrder
<1> QED BY <1>2, <1>3, <1>4, <1>5, <1>8, <1>9, <1>10 DEF WantsRef, WantsBranch, WantsDecision

(* merge apply begins for a merge that exists, and proposals stay. *)
LEMMA AppliesSelf ==
  ASSUME OInv, NEW t \in Tx, ReadStep(t)
  PROVE  AppliesMerge(t)'
<1>0. TypeInv /\ AppliesMerge(t) BY DEF OInv, LInv, IInv
<1>1. proposals' = proposals BY <1>0, ReadStepFrame DEF tables
<1> SUFFICES ASSUME pc'[t] \in ApplyPc PROVE (MergeRow(req[t].candidate) # {})'
  BY DEF AppliesMerge
<1>2. CASE pc'[t] = "apply_ref_1"
  <2>1. ApplyBegin(t) BY <1>0, <1>2, ComesFrom
  <2>2. PICK r : MergeRow(r.candidate) # {} /\ BeginScoped(t, r, "idle", "apply_ref_1")
    BY <2>1 DEF ApplyBegin
  <2>3. req'[t] = r BY <1>0, <2>2, BeginScopedLocals
  <2> QED BY <1>1, <2>2, <2>3 DEF MergeRow
<1>3. CASE pc'[t] # "apply_ref_1"
  <2>1. pc[t] \in ApplyPc BY <1>0, <1>3, ComesFrom, Places DEF Goes, ApplyPc
  <2>2. req'[t] = req[t] BY <1>0, <2>1, Entering DEF ApplyPc, Outside
  <2> QED BY <1>0, <1>1, <2>1, <2>2 DEF AppliesMerge, MergeRow
<1> QED BY <1>2, <1>3

(* Where nothing of a merge's row changes. *)
LEMMA OrderOther ==
  ASSUME OInv, NEW u \in Tx, Still(u),
         \A c \in Commit : MergeRow(c)' = MergeRow(c)
  PROVE  LocksInOrder(u)' /\ AppliesMerge(u)'
<1>0. TypeInv /\ LocksInOrder(u) /\ AppliesMerge(u) BY DEF OInv, LInv, IInv
<1>1. pc[u] \in ApplyPc => MergeRow(req[u].candidate)' = MergeRow(req[u].candidate)
  <2> SUFFICES ASSUME pc[u] \in ApplyPc
               PROVE  MergeRow(req[u].candidate)' = MergeRow(req[u].candidate)
    OBVIOUS
  <2>1. req[u].candidate \in Commit BY <1>0, RequestAt DEF ApplyRequest
  <2>2. MergeRow(req[u].candidate)' = {q \in proposals' : q.candidate = req[u].candidate /\ q.source # NoName}
    BY DEF MergeRow, Still
  <2> QED BY <2>1, <2>2 DEF MergeRow
<1>2. AppliesMerge(u)' BY <1>0, <1>1 DEF AppliesMerge, Still
<1>3. LocksInOrder(u)'
  BY <1>0, <1>1 DEF LocksInOrder, Still, WantsRef, WantsBranch, ApplyPc, InNameOrder
<1> QED BY <1>2, <1>3

(* The order is kept. *)
LEMMA NextOInv == OInv /\ [Next]_vars => OInv'
<1> SUFFICES ASSUME OInv, [Next]_vars PROVE OInv' OBVIOUS
<1>0. TypeInv /\ UniqueCandidates /\ LInv' BY NextLInv DEF OInv, LInv, IInv
<1> SUFFICES ASSUME NEW u \in Tx PROVE LocksInOrder(u)' /\ AppliesMerge(u)'
  BY <1>0 DEF OInv
<1>1. UNCHANGED proposals => \A c \in Commit : MergeRow(c)' = MergeRow(c) BY DEF MergeRow
<1>2. ASSUME NEW t \in Tx, ReadStep(t) PROVE LocksInOrder(u)' /\ AppliesMerge(u)'
  <2>1. CASE u = t BY <1>2, <2>1, OrderSelf, AppliesSelf
  <2>2. CASE u # t
    <3>1. Still(u) /\ UNCHANGED proposals BY <1>0, <1>2, <2>2, ReadStepFrame DEF Still, tables
    <3> QED BY <1>1, <3>1, OrderOther
  <2> QED BY <2>1, <2>2
<1>3. ASSUME NEW t \in Tx, WriteStep(t) \/ Rollback(t) PROVE LocksInOrder(u)' /\ AppliesMerge(u)'
  <2>1. CASE u = t
    <3>1. pc'[t] = "idle" BY <1>0, <1>3, WriteStepFrame
          DEF Rollback, EndTx, TypeInv, TypeOK, LocalsOK
    <3> QED BY <2>1, <3>1
        DEF LocksInOrder, AppliesMerge, ApplyPc, WantsRef, WantsBranch, WantsDecision
  <2>2. CASE u # t /\ WriteStep(t)
    <3>1. Still(u) BY <1>0, <2>2, WriteStepFrame DEF Still
    <3>2. \A c \in Commit : MergeRow(c)' = MergeRow(c) BY <1>0, <2>2, ProposalsStep
    <3> QED BY <3>1, <3>2, OrderOther
  <2>3. CASE u # t /\ Rollback(t)
    <3>1. Still(u) BY <1>0, <2>3 DEF Still, Rollback, EndTx, TypeInv, TypeOK, LocalsOK
    <3>2. UNCHANGED proposals BY <2>3 DEF Rollback, tables
    <3> QED BY <1>1, <3>1, <3>2, OrderOther
  <2> QED BY <1>3, <2>1, <2>2, <2>3
<1>4. CASE SetGraphStatus \/ UNCHANGED vars
  <2>1. Still(u) /\ UNCHANGED proposals BY <1>4 DEF SetGraphStatus, vars, locals, tables, Still
  <2> QED BY <1>1, <2>1, OrderOther
<1> QED BY <1>2, <1>3, <1>4, StepKinds

LEMMA OrderInvariance == Spec => []OInv
<1>1. Init => OInv
  BY InitLInv DEF Init, OInv, LocksInOrder, AppliesMerge, ApplyPc
<1> QED BY <1>1, NextOInv, PTL DEF Spec

(* What a transaction checked still is so when it commits, so the unique    *)
(* indexes and triggers behind it never fire.                               *)
LEMMA LocksAreEnough == OInv => LocksSuffice
<1> SUFFICES ASSUME OInv, NEW t \in Tx
             PROVE  /\ pc[t] \in {"prepare_commit", "accept_commit", "reject_commit",
                                  "validate_record", "create_commit", "lifecycle_commit",
                                  "propose_commit", "apply_commit"}
                         => StoredResult(req[t]) = {} /\ graphStatus = "active"
                    /\ pc[t] \in {"accept_commit", "reject_commit", "supersede_commit",
                                  "apply_commit"} => Undecided(req[t].candidate)
                    /\ pc[t] = "accept_commit" /\ cur[t].version # 0 =>
                         /\ refs[req[t].branch] = cur[t]
                         /\ branches[req[t].branch].status = "active"
                    /\ pc[t] = "lifecycle_commit" =>
                         /\ refs[req[t].name] = cur[t]
                         /\ branches[req[t].name].status = StatusBefore(req[t])
                    /\ pc[t] = "apply_commit" =>
                         \E p \in MergeRow(req[t].candidate) :
                           /\ refs[p.branch] = cur[t] /\ refs[p.source] = src[t]
                           /\ branches[p.branch].status = "active"
                           /\ branches[p.source].status = "active"
  BY DEF LocksSuffice
<1>0. /\ LInv /\ TypeInv /\ RowsTogether /\ MainIsPlain /\ AppliesMerge(t)
      /\ HoldsRef(t) /\ HoldsDecision(t) /\ HoldsStatus(t) /\ HoldsScope(t) /\ HoldsBranch(t)
      /\ HoldsMerge(t)
  BY DEF OInv, LInv, IInv
<1>1. pc[t] \in {"prepare_commit", "accept_commit", "reject_commit", "validate_record",
                 "create_commit", "lifecycle_commit", "propose_commit", "apply_commit"}
        => StoredResult(req[t]) = {} /\ graphStatus = "active"
  BY <1>0 DEF HoldsStatus, HoldsScope, Outside, SupersedePc
<1>2. pc[t] \in {"accept_commit", "reject_commit", "supersede_commit", "apply_commit"}
        => Undecided(req[t].candidate)
  BY <1>0 DEF HoldsDecision
<1>3. ASSUME pc[t] = "accept_commit", cur[t].version # 0
      PROVE  refs[req[t].branch] = cur[t] /\ branches[req[t].branch].status = "active"
  <2> DEFINE b == req[t].branch
  <2>1. b \in Branch BY <1>0, <1>3, RequestAt DEF AcceptPc, AcceptRequest
  <2>2. refs[b] = cur[t] BY <1>0, <1>3 DEF HoldsRef, LockedRef, AcceptPc
  <2>3. branches[b].status \in {"none", "active", "deleted"}
    BY <1>0, <2>1 DEF TypeInv, TypeOK, TablesOK, BranchRow
  <2>4. branches[b].status # "none" BY <1>0, <1>3, <2>1, <2>2 DEF RowsTogether
  <2>5. KeepsActive(t, b) BY <1>0, <1>3 DEF HoldsBranch
  <2> QED BY <1>0, <2>2, <2>3, <2>4, <2>5 DEF KeepsActive, MainIsPlain
<1>4. pc[t] = "lifecycle_commit" =>
        /\ refs[req[t].name] = cur[t]
        /\ branches[req[t].name].status = StatusBefore(req[t])
  BY <1>0 DEF HoldsBranch
<1>5. ASSUME pc[t] = "apply_commit", NEW p \in MergeRow(req[t].candidate)
      PROVE  /\ refs[p.branch] = cur[t] /\ refs[p.source] = src[t]
             /\ branches[p.branch].status = "active" /\ branches[p.source].status = "active"
  <2>1. /\ ApplyTargetIsCurrent(t, p) /\ ApplySourceIsCurrent(t, p)
        /\ src[t].version # 0 => SharedRef(t, p.source)
        /\ cur[t].version # 0 => LockedRef(t, p.branch)
    BY <1>0, <1>5 DEF HoldsMerge, HoldsRef, ApplyPc
  <2>2. p \in proposals BY <1>5 DEF MergeRow
  <2>3. p.parents[1] \in Commit /\ p.parents[2] \in Commit
    <3>1. p.parents \in Seq(Commit) /\ Len(p.parents) = 2
      BY <1>0, <1>5, <2>2 DEF LInv, MergeShape, MergeRow, TypeInv, TypeOK, TablesOK, ProposalRow
    <3> QED BY SMT, <3>1
  <2>4. cur[t].head # NoCommit /\ src[t].head # NoCommit
    BY SMT, <2>1, <2>3 DEF ApplyTargetIsCurrent, ApplySourceIsCurrent, Commit, NoCommit
  <2>5. cur[t].version # 0 /\ src[t].version # 0
    BY <1>0, <2>4 DEF TypeInv, ReadsArePlausible, IsRefPair
  <2> QED BY <2>1, <2>5 DEF LockedRef, SharedRef, ApplyTargetIsCurrent, ApplySourceIsCurrent
<1>6. pc[t] = "apply_commit" => \E p \in MergeRow(req[t].candidate) : TRUE
  BY <1>0 DEF AppliesMerge, ApplyPc
<1> QED BY <1>1, <1>2, <1>3, <1>4, <1>5, <1>6

-----------------------------------------------------------------------------
(* Who waits for whom. *)

(* What the next statement of each place waits for. *)
LEMMA WantedIs ==
  ASSUME NEW t \in Tx, NEW l \in Wanted(t)
  PROVE  /\ \/ pc[t] \in WantsRef /\ l.kind = "ref"
            \/ pc[t] \in WantsBranch /\ l.kind = "branch"
            \/ pc[t] \in WantsDecision /\ l.kind = "decision"
         /\ pc[t] \in {"apply_ref_2", "apply_branch_2"} =>
              \E p \in MergeRow(req[t].candidate) : l.id = InNameOrder(p, 2)
<1>1. ASSUME NEW kind, NEW id, NEW mode
      PROVE  Lock(kind, id, mode).kind = kind /\ Lock(kind, id, mode).id = id
  BY DEF Lock
<1>2. CASE pc[t] \in {"prepare_branch", "accept_branch", "propose_branch", "create_branch",
                      "lifecycle_branch", "accept_ref", "create_ref", "accept_decide",
                      "reject_decide", "supersede_decide", "apply_decide"}
  <2>1. \E id, mode : l = Lock(IF pc[t] \in WantsRef THEN "ref"
                               ELSE IF pc[t] \in WantsBranch THEN "branch" ELSE "decision", id, mode)
    BY <1>2 DEF Wanted, WantsRef, WantsBranch
  <2> QED BY SMT, <1>1, <1>2, <2>1 DEF WantsRef, WantsBranch, WantsDecision
<1>3. CASE pc[t] = "apply_ref_1" \/ pc[t] = "apply_branch_1"
  BY SMT, <1>1, <1>3 DEF Wanted, WantsRef, WantsBranch
<1>4. CASE pc[t] = "apply_ref_2"
  BY SMT, <1>1, <1>4 DEF Wanted, WantsRef, WantsBranch
<1>5. CASE pc[t] = "apply_branch_2"
  BY SMT, <1>1, <1>5 DEF Wanted, WantsRef, WantsBranch
<1>6. CASE pc[t] \notin WantsRef \cup WantsBranch \cup WantsDecision
  BY <1>6 DEF Wanted, WantsRef, WantsBranch, WantsDecision
<1> QED BY <1>2, <1>3, <1>4, <1>5, <1>6 DEF WantsRef, WantsBranch, WantsDecision

(* The second of a merge's two branches in name order. *)
SecondName(t) == InNameOrder(CHOOSE p \in MergeRow(req[t].candidate) : TRUE, 2)

(* Whoever is waited for, and waits itself, holds the first of two locks,   *)
(* waits for the second, and so for a greater name than it is waited for.   *)
LEMMA WaitsUpward ==
  ASSUME OInv, NEW t \in Tx, NEW u \in Tx, WaitsFor(t, u), Wanted(u) # {}
  PROVE  /\ pc[t] \notin WantsDecision
         /\ pc[t] \in WantsBranch => pc[u] = "apply_branch_2" \/ pc[u] \in WantsDecision
         /\ pc[t] \in WantsRef => \/ pc[u] = "apply_ref_2"
                                  \/ pc[u] \in WantsBranch \cup WantsDecision
         /\ (\/ pc[t] = "apply_branch_2" /\ pc[u] = "apply_branch_2"
             \/ pc[t] = "apply_ref_2" /\ pc[u] = "apply_ref_2")
              => SecondName(t) < SecondName(u)
<1>0. LInv /\ LocksInOrder(u) /\ AppliesMerge(u) BY DEF OInv
<1>1. PICK l \in Wanted(t), m \in held[u] : l.kind = m.kind /\ l.id = m.id
  BY DEF WaitsFor
<1>2. pc[u] \in WantsRef \cup WantsBranch \cup WantsDecision BY WantedIs
<1>3. \/ pc[t] \in WantsRef /\ m.kind = "ref"
      \/ pc[t] \in WantsBranch /\ m.kind = "branch"
      \/ pc[t] \in WantsDecision /\ m.kind = "decision"
  BY <1>1, WantedIs
<1>4. /\ m.kind # "decision"
      /\ m.kind = "branch" => pc[u] = "apply_branch_2" \/ pc[u] \in WantsDecision
      /\ m.kind = "ref" => pc[u] = "apply_ref_2" \/ pc[u] \in WantsBranch \cup WantsDecision
  BY <1>0, <1>2 DEF LocksInOrder
<1>5. ASSUME \/ pc[t] = "apply_branch_2" /\ pc[u] = "apply_branch_2"
             \/ pc[t] = "apply_ref_2" /\ pc[u] = "apply_ref_2"
      PROVE  SecondName(t) < SecondName(u)
  <2>1. PICK p \in MergeRow(req[t].candidate) : l.id = InNameOrder(p, 2)
    BY <1>1, <1>5, WantedIs
  <2>2. SecondName(t) = m.id
    <3>1. \A q \in MergeRow(req[t].candidate) : q = p BY <1>0, <2>1, MergeRowOf
    <3>2. (CHOOSE q \in MergeRow(req[t].candidate) : TRUE) = p BY <2>1, <3>1
    <3> QED BY <1>1, <2>1, <3>2 DEF SecondName
  <2>3. PICK q \in MergeRow(req[u].candidate) : TRUE BY <1>0, <1>5 DEF AppliesMerge, ApplyPc
  <2>4. m.id = InNameOrder(q, 1)
    BY <1>0, <1>3, <1>5, <2>3 DEF LocksInOrder, WantsRef, WantsBranch, WantsDecision
  <2>5. (CHOOSE p_1 \in MergeRow(req[u].candidate) : TRUE) = q
    <3>1. \A p_1 \in MergeRow(req[u].candidate) : p_1 = q BY <1>0, <2>3, MergeRowOf
    <3> QED BY <2>3, <3>1
  <2>6. q.branch \in Nat /\ q.source \in Nat /\ q.branch # q.source
    BY <1>0, <2>3, MergeRowOf, StoreAssumption
  <2>7. InNameOrder(q, 1) < InNameOrder(q, 2) BY SMT, <2>6 DEF InNameOrder
  <2> QED BY <2>2, <2>4, <2>5, <2>7 DEF SecondName
<1> QED BY <1>1, <1>3, <1>4, <1>5 DEF WantsRef, WantsBranch, WantsDecision

-----------------------------------------------------------------------------
(* Validation. *)

(* Whoever decides cites what is recorded. *)
LEMMA CitesRecorded ==
  ASSUME TypeInv, NEW t \in Tx, req[t].op \in {"accept", "merge_apply"}, NEW x \in req[t].cites
  PROVE  x.validation \in validations
<1>1. ServesItsRequest(t) BY DEF TypeInv, TypeOK, LocalsOK
<1>2. req[t] \in AcceptRequest \cup ApplyRequest
  BY SMT, <1>1 DEF ServesItsRequest, NoRequest, PrepareRequest, AcceptRequest, RejectRequest,
     SupersedeRequest, ValidateRequest, CreateRequest, LifecycleRequest, ProposeRequest,
     ApplyRequest
<1>3. req[t].cites \in Citation BY <1>2 DEF AcceptRequest, ApplyRequest
<1> QED BY SMT, <1>3 DEF Citation

(* The branch of an accepted candidate has a row, so its policy is settled. *)
AcceptedHasRow ==
    \A d \in decisions : d.decision = "accepted" => branches[d.branch].status # "none"

VInv == LInv /\ AcceptedHasRow /\ ValidatedWhereRequired

(* Acceptances keep the policy they were made under. *)
LEMMA AcceptedStay ==
  ASSUME VInv, NEW t \in Tx, WriteStep(t), NEW d \in decisions, d.decision = "accepted"
  PROVE  branches'[d.branch].status # "none" /\ branches'[d.branch].policy = branches[d.branch].policy
<1>1. d.branch \in Branch BY DEF VInv, LInv, IInv, TypeInv, TypeOK, TablesOK, DecisionRow
<1> QED BY <1>1, RowStays DEF VInv, AcceptedHasRow

(* An acceptance that is new was reviewed under the policy it meets. *)
LEMMA NewAcceptance ==
  ASSUME LInv, NEW t \in Tx, WriteStep(t), NEW p \in proposals, NEW op, Installs(t, p, op),
         req[t].op \in {"accept", "merge_apply"},
         \/ p.branch = Main /\ branches' = [branches EXCEPT ![Main] = FirstRow]
         \/ branches[p.branch].status = "active" /\ UNCHANGED branches,
         NEW d \in decisions' \ decisions
  PROVE  /\ d.candidate = p.candidate /\ d.branch = p.branch
         /\ branches'[p.branch].status = "active"
         /\ branches'[d.branch].policy.requireValidation => d.validations # {}
         /\ \A v \in d.validations : /\ v \in validations' /\ v.candidate = d.candidate
                                     /\ v.conforms /\ v.service \in Trusted
<1> DEFINE v == refs[p.branch].version + 1
           row == Decision(p, "accepted", v, req[t])
<1>0. TypeInv BY DEF LInv, IInv
<1>1. d = row /\ UNCHANGED validations /\ Reviewed(req[t], p) BY DEF Installs
<1>2. /\ row.candidate = p.candidate /\ row.branch = p.branch
      /\ row.validations = {x.validation : x \in req[t].cites}
  BY DEF Decision
<1> HIDE DEF row
<1>3. CiteValidation(req[t].cites, p.candidate) BY <1>1 DEF Reviewed
<1>4. \A x \in req[t].cites : /\ x.validation \in validations
                              /\ x.validation.candidate = p.candidate
                              /\ x.validation.conforms /\ x.validation.service \in Trusted
  BY <1>0, <1>3, CitesRecorded DEF CiteValidation, CitesCandidate
<1>5. /\ FirstRow.status = "active" /\ ~FirstRow.policy.requireValidation
  BY DEF FirstRow, NoBranch, NoPolicy
<1>6. branches \in [Branch -> BranchRow] /\ Main \in Branch
  BY <1>0, StoreAssumption DEF TypeInv, TypeOK, TablesOK
<1>7. /\ branches'[p.branch].status = "active"
      /\ branches'[p.branch].policy.requireValidation => req[t].cites # {}
  <2> HIDE DEF FirstRow
  <2> QED BY <1>1, <1>5, <1>6 DEF Reviewed
<1> QED BY <1>1, <1>2, <1>4, <1>7

(* A commit keeps every acceptance validated. *)
LEMMA WriteVInv ==
  ASSUME VInv, NEW t \in Tx, WriteStep(t)
  PROVE  AcceptedHasRow' /\ ValidatedWhereRequired'
<1>0. LInv /\ TypeInv /\ AcceptedHasRow /\ ValidatedWhereRequired BY DEF VInv, LInv, IInv
<1> DEFINE Good(d) ==
             /\ branches'[d.branch].status # "none"
             /\ branches'[d.branch].policy.requireValidation => d.validations # {}
             /\ \A v \in d.validations : /\ v \in validations' /\ v.candidate = d.candidate
                                         /\ v.conforms /\ v.service \in Trusted
<1>1. validations \subseteq validations'
  BY <1>0, Effects DEF InstallsGenesis, InstallsNext, InstallsMerge, Advances, Installs,
     CreatesBranch, PublishesPlain, PublishesMerge, Publishes, Declines, Validates, ChangesStatus
<1>2. ASSUME NEW d \in decisions, d.decision = "accepted" PROVE Good(d)
  BY <1>0, <1>1, <1>2, AcceptedStay DEF ValidatedWhereRequired
<1>3. ASSUME NEW p \in proposals, InstallsGenesis(t, p) \/ InstallsNext(t, p) \/ InstallsMerge(t, p),
             NEW d \in decisions' \ decisions
      PROVE  Good(d)
  <2>1. PICK op : Installs(t, p, op)
    BY <1>3 DEF InstallsGenesis, InstallsNext, InstallsMerge, Advances
  <2>2. /\ req[t].op \in {"accept", "merge_apply"}
        /\ \/ p.branch = Main /\ branches' = [branches EXCEPT ![Main] = FirstRow]
           \/ branches[p.branch].status = "active" /\ UNCHANGED branches
    BY <1>3 DEF InstallsGenesis, InstallsNext, InstallsMerge, Advances
  <2> QED BY <1>0, <2>1, <2>2, NewAcceptance
<1>4. ASSUME NEW p, NEW s, Declines(t, p, s), NEW d \in decisions' \ decisions
      PROVE  d.decision # "accepted"
  BY SMT, <1>4 DEF Declines, Decision
<1>5. ASSUME NEW d \in decisions', d.decision = "accepted" PROVE Good(d)
  <2>1. CASE d \in decisions BY <1>2, <1>5, <2>1
  <2>2. CASE d \notin decisions
    <3>1. ASSUME NEW p, PublishesPlain(t, p) \/ PublishesMerge(t, p) \/ CreatesBranch(t)
                        \/ Validates(t) \/ ChangesStatus(t)
          PROVE  FALSE
      BY <1>5, <2>2, <3>1 DEF PublishesPlain, PublishesMerge, Publishes, CreatesBranch, Validates,
         ChangesStatus
    <3> QED BY <1>0, <1>3, <1>4, <1>5, <2>2, <3>1, Effects
  <2> QED BY <2>1, <2>2
<1> QED BY <1>5 DEF AcceptedHasRow, ValidatedWhereRequired

(* Whatever is accepted onto a branch that requires validation cites one,   *)
(* and every citation is a conforming verdict of a trusted service on that  *)
(* very candidate (cite_validation, accept, merge_apply).                   *)
THEOREM AlwaysValidated == Spec => []ValidatedWhereRequired
<1>1. Init => VInv BY InitLInv DEF Init, VInv, AcceptedHasRow, ValidatedWhereRequired
<1>2. VInv /\ [Next]_vars => VInv'
  <2> SUFFICES ASSUME VInv, [Next]_vars PROVE VInv' OBVIOUS
  <2>1. LInv' /\ TypeInv BY NextLInv DEF VInv, LInv, IInv
  <2>2. CASE UNCHANGED tables
    BY <2>1, <2>2 DEF VInv, AcceptedHasRow, ValidatedWhereRequired, tables
  <2> QED BY <2>1, <2>2, WriteVInv, OnlyCommitsWrite DEF VInv
<1> QED BY <1>1, <1>2, PTL DEF Spec, VInv

=============================================================================

---------------------------- MODULE LedgerTheorems ----------------------------
(***************************************************************************)
(* The history of the ledger is a history and its transactions serialize,  *)
(* for any number of transactions, branches, actors and keys.              *)
(*                                                                         *)
(* LedgerProofs shows that the locks are enough, LedgerHistoryProofs what  *)
(* every step keeps of the history.  What is left needs the least-number   *)
(* principle or cardinalities: that a movement has one acceptance, that a  *)
(* chain of waits among finitely many ends, and that what was inserted     *)
(* balances what was answered, so that a retried request takes effect      *)
(* once.                                                                   *)
(***************************************************************************)
EXTENDS LedgerHistoryProofs, FiniteSetTheorems

(* Zenon proves the leaves that name no prover. *)
USE Zenon

(* The least-number principle, from the well-foundedness of Nat. *)
LEMMA MinNat ==
  ASSUME NEW T, T \subseteq Nat, T # {}
  PROVE  \E m \in T : \A n \in T : m <= n
<1> DEFINE R == OpToRel(<, Nat)
<1>1. IsWellFoundedOn(R, Nat) BY NatLessThanWellFounded
<1>2. \A x, y \in Nat : <<x, y>> \in R <=> x < y BY DEF OpToRel
<1> HIDE DEF R
<1>3. PICK m \in T : \A n \in T : ~(<<n, m>> \in R) BY <1>1, WFMin
<1>4. ASSUME NEW n \in T PROVE m <= n
  <2>1. m \in Nat /\ n \in Nat OBVIOUS
  <2>2. ~(n < m) BY <1>2, <1>3, <2>1
  <2> QED BY SMT, <2>1, <2>2
<1> QED BY <1>4

(* ... as the inductions assume it. *)
LEMMA LeastNumbers == LeastNumber
  BY MinNat DEF LeastNumber

-----------------------------------------------------------------------------
(* What needs cardinalities: the counts of HistoryIsDecided and of          *)
(* ExactlyOnce, and that a chain of waits among finitely many ends.         *)

(* One acceptance and one queue entry each, since a candidate is decided    *)
(* once and a queue entry is no more than its movement.                     *)
LEMMA ExplainedIsDecided == MInv => MovementsAreDecided
<1> SUFFICES ASSUME MInv PROVE MovementsAreDecided OBVIOUS
<1> DEFINE D(e) == {d \in decisions : /\ d.decision = "accepted"
                                      /\ d.branch = e.branch
                                      /\ d.version = e.version
                                      /\ d.candidate = e.new}
           Q(e) == {o \in outbox : /\ o.branch = e.branch
                                   /\ o.version = e.version
                                   /\ o.commit = e.new}
<1>1. ASSUME NEW e \in refEvents, IsCreation(e) PROVE D(e) = {} /\ Q(e) = {}
  <2>1. Explained(e) BY DEF MInv
  <2> QED BY <1>1, <2>1 DEF Explained, Accepts, Queues
<1>2. ASSUME NEW e \in refEvents, ~IsCreation(e)
      PROVE  Cardinality(D(e)) = 1 /\ Cardinality(Q(e)) = 1
  <2>1. Explained(e) BY DEF MInv
  <2>2. PICK d \in decisions : Accepts(d, e) BY <1>2, <2>1 DEF Explained
  <2>3. PICK o \in outbox : Queues(o, e) BY <1>2, <2>1 DEF Explained
  <2>4. D(e) = {d} BY <2>2 DEF Accepts, MInv, LInv, IInv, OneDecisionPerCandidate
  <2>5. ASSUME NEW x \in outbox, Queues(x, e) PROVE x = o
    <3>1. x \in OutboxRow /\ o \in OutboxRow BY DEF MInv, LInv, IInv, TypeInv, TypeOK, TablesOK
    <3> QED BY SMT, <2>3, <2>5, <3>1 DEF OutboxRow, Queues
  <2>6. Q(e) = {o} BY <2>3, <2>5 DEF Queues
  <2> HIDE DEF D, Q
  <2> QED BY <2>4, <2>6, FS_Singleton
<1>3. \A d \in decisions : (d.decision = "accepted") = \E e \in refEvents : d \in D(e)
  BY DEF MInv, Accepts
<1>4. \A o \in outbox : \E e \in refEvents : o \in Q(e) BY DEF MInv, Queues
<1> HIDE DEF D, Q
<1>5. \A e \in refEvents :
        IF e.version = 1 /\ branches[e.branch].source # NoName
        THEN D(e) = {} /\ Q(e) = {} ELSE Cardinality(D(e)) = 1 /\ Cardinality(Q(e)) = 1
  BY <1>1, <1>2 DEF IsCreation
<1> QED BY <1>3, <1>4, <1>5 DEF MovementsAreDecided, D, Q

(* A finite set has an element that none of the others exceeds. *)
LEMMA Topmost ==
  ASSUME NEW B, IsFiniteSet(B), B # {}, NEW f, \A u \in B : f[u] \in Int
  PROVE  \E u \in B : \A v \in B : f[v] <= f[u]
<1> DEFINE Above(u) == {v \in B : f[v] > f[u]}
           T == {Cardinality(Above(u)) : u \in B}
<1>1. ASSUME NEW u \in B PROVE IsFiniteSet(Above(u)) /\ Cardinality(Above(u)) \in Nat
  <2>1. Above(u) \in SUBSET B OBVIOUS
  <2> HIDE DEF Above
  <2> QED BY <2>1, FS_Subset, FS_CardinalityType
<1>2. T \subseteq Nat /\ T # {}
  <2> HIDE DEF Above
  <2> QED BY <1>1
<1>3. PICK m \in T : \A n \in T : m <= n
  <2> HIDE DEF T
  <2> QED BY <1>2, MinNat
<1>4. PICK u \in B : m = Cardinality(Above(u)) OBVIOUS
<1>5. ASSUME NEW v \in B, ~(f[v] <= f[u]) PROVE FALSE
  <2>1. f[v] > f[u] BY SMT, <1>5
  <2>2. Above(v) \subseteq Above(u) BY SMT, <2>1
  <2>3. v \in Above(u) /\ v \notin Above(v) BY SMT, <2>1
  <2>4. Cardinality(Above(u)) <= Cardinality(Above(v)) BY <1>3, <1>4
  <2> HIDE DEF Above
  <2>5. /\ Cardinality(Above(v)) <= Cardinality(Above(u))
        /\ Cardinality(Above(u)) = Cardinality(Above(v)) => Above(u) = Above(v)
    BY <1>1, <2>2, FS_Subset
  <2>6. Cardinality(Above(u)) = Cardinality(Above(v)) BY SMT, <1>1, <2>4, <2>5
  <2> QED BY <2>3, <2>5, <2>6
<1> QED BY <1>5

-----------------------------------------------------------------------------
(* No wait cycle. *)

(* A chain of waits at one of merge apply's two second locks would rise for *)
(* ever among finitely many transactions.                                   *)
LEMMA NoChain ==
  ASSUME OInv, NEW S \in SUBSET Tx, NEW place \in {"apply_ref_2", "apply_branch_2"},
         \A t \in {v \in S : pc[v] = place} : \E u \in S : pc[u] = place /\ WaitsFor(t, u)
  PROVE  \A t \in S : pc[t] # place
<1> SUFFICES ASSUME NEW s \in S, pc[s] = place PROVE FALSE
  OBVIOUS
<1> DEFINE B == {v \in S : pc[v] = place}
           f == [v \in B |-> SecondName(v)]
<1>1. IsFiniteSet(B) /\ B # {} BY SMT, StoreAssumption, FS_Subset
<1>2. ASSUME NEW t \in B PROVE f[t] \in Int
  <2>1. PICK p \in MergeRow(req[t].candidate) : TRUE BY DEF OInv, AppliesMerge, ApplyPc
  <2>2. (CHOOSE q \in MergeRow(req[t].candidate) : TRUE) \in MergeRow(req[t].candidate) BY SMT, <2>1
  <2>3. SecondName(t) \in Nat
    BY <2>2, MergeRowOf, StoreAssumption DEF OInv, SecondName, InNameOrder
  <2> QED BY SMT, <2>3
<1>3. ASSUME NEW t \in B PROVE \E u \in B : f[t] < f[u]
  <2>1. PICK u \in S : pc[u] = place /\ WaitsFor(t, u) OBVIOUS
  <2>2. PICK v \in S : WaitsFor(u, v) BY <2>1
  <2>3. Wanted(u) # {} BY <2>2 DEF WaitsFor
  <2>4. SecondName(t) < SecondName(u) BY <2>1, <2>3, WaitsUpward
  <2> QED BY <2>1, <2>4
<1> HIDE DEF B, f
<1>4. PICK t \in B : \A v \in B : f[v] <= f[t] BY <1>1, <1>2, Topmost
<1> QED BY SMT, <1>2, <1>3, <1>4

(* Decisions wait for no one who waits; so branch rows only for merges that *)
(* wait for greater names; so refs likewise.                                *)
LEMMA LocksDoNotDeadlock == OInv => NoWaitCycle
<1> SUFFICES ASSUME OInv, NEW S \in SUBSET Tx, S # {},
                    \A t \in S : \E u \in S : WaitsFor(t, u)
             PROVE  FALSE
  BY DEF NoWaitCycle
<1>1. \A t \in S : Wanted(t) # {} BY DEF WaitsFor
<1>2. \A t \in S : pc[t] \in WantsRef \cup WantsBranch \cup WantsDecision BY <1>1, WantedIs
<1>3. \A t \in S : pc[t] \notin WantsDecision BY <1>1, WaitsUpward
<1>4. \A t \in S : pc[t] # "apply_branch_2"
  <2>1. \A t \in S : pc[t] = "apply_branch_2" =>
          \E u \in S : pc[u] = "apply_branch_2" /\ WaitsFor(t, u)
    BY SMT, <1>1, <1>3, WaitsUpward DEF WantsBranch
  <2> QED BY <2>1, NoChain
<1>5. \A t \in S : pc[t] \notin WantsBranch BY <1>1, <1>3, <1>4, WaitsUpward
<1>6. \A t \in S : pc[t] # "apply_ref_2"
  <2>1. \A t \in S : pc[t] = "apply_ref_2" =>
          \E u \in S : pc[u] = "apply_ref_2" /\ WaitsFor(t, u)
    BY SMT, <1>1, <1>3, <1>5, WaitsUpward DEF WantsRef
  <2> QED BY <2>1, NoChain
<1>7. \A t \in S : pc[t] \notin WantsRef BY SMT, <1>1, <1>3, <1>5, <1>6, WaitsUpward
<1> QED BY <1>2, <1>3, <1>5, <1>7

-----------------------------------------------------------------------------
(* The balance. *)

(* A commit that inserts a fresh row of the kind its operation inserts, and *)
(* no row of another kind, keeps the balance; so does one that inserts      *)
(* none and whose operation is not counted.                                 *)
LEMMA BalanceStep ==
  ASSUME LInv, EInv, NEW t \in Tx, WriteStep(t), req[t].op # "supersede",
         NEW c, NEW v, NEW n, RecordResult(req[t], c, v, n),
         \A k \in Kind : IF req[t].op \in Inserters(k)
                         THEN \E x : x \notin Inserted(k) /\ Inserted(k)' = Inserted(k) \cup {x}
                         ELSE Inserted(k)' = Inserted(k)
  PROVE  OneResult' /\ \A k \in Kind : Balanced(k)'
<1>1. /\ OneResult'
      /\ \A k \in Kind : IF req[t].op \in Inserters(k)
                         THEN \E i : i \notin Results(k) /\ Results(k)' = Results(k) \cup {i}
                         ELSE Results(k)' = Results(k)
  BY ResultStep DEF EInv
<1>2. ASSUME NEW k \in Kind PROVE Balanced(k)'
  <2>1. Balanced(k) BY DEF EInv
  <2>2. CASE req[t].op \notin Inserters(k)
    <3>1. Inserted(k)' = Inserted(k) /\ Results(k)' = Results(k) BY <1>1, <2>2
    <3> QED BY SMT, <2>1, <3>1 DEF Balanced
  <2>3. CASE req[t].op \in Inserters(k)
    <3>1. PICK x : x \notin Inserted(k) /\ Inserted(k)' = Inserted(k) \cup {x} BY SMT, <2>3
    <3>2. PICK i : i \notin Results(k) /\ Results(k)' = Results(k) \cup {i} BY SMT, <1>1, <2>3
    <3>3. IsFiniteSet(Inserted(k)) /\ IsFiniteSet(Results(k)) BY SMT, <2>1 DEF Balanced
    <3>4. /\ IsFiniteSet(Inserted(k)') /\ Cardinality(Inserted(k)') = Cardinality(Inserted(k)) + 1
      BY SMT, <3>1, <3>3, FS_AddElement
    <3>5. /\ IsFiniteSet(Results(k)') /\ Cardinality(Results(k)') = Cardinality(Results(k)) + 1
      BY <3>2, <3>3, FS_AddElement
    <3> QED BY SMT, <2>1, <3>4, <3>5 DEF Balanced
  <2> QED BY SMT, <2>2, <2>3
<1> QED BY <1>1, <1>2

(* Every commit inserts what it is counted for, and records its result. *)
LEMMA OnceStep ==
  ASSUME BInv, EInv, NEW t \in Tx, WriteStep(t)
  PROVE  EInv'
<1>0. LInv /\ OneResult /\ Sourced BY DEF BInv, EInv
<1>1. Sourced' BY <1>0, SourcedStep
<1>2. ASSUME Inserts(t), req[t].op # "supersede", \E c, v, n : RecordResult(req[t], c, v, n)
      PROVE  EInv'
  <2>1. PICK c, v, n : RecordResult(req[t], c, v, n) BY <1>2
  <2>2. OneResult' /\ \A k \in Kind : Balanced(k)' BY <1>0, <1>2, <2>1, BalanceStep DEF Inserts
  <2> QED BY SMT, <1>1, <2>2 DEF EInv
<1>3. ASSUME NEW p, InstallsGenesis(t, p) \/ InstallsNext(t, p) \/ InstallsMerge(t, p)
      PROVE  EInv'
  <2>1. Inserts(t) BY <1>0, <1>3, InstallationInserts
  <2>2. req[t].op # "supersede" BY <1>3 DEF InstallsGenesis, InstallsNext, InstallsMerge
  <2>3. \E c, v, n : RecordResult(req[t], c, v, n)
    BY <1>3 DEF InstallsGenesis, InstallsNext, InstallsMerge, Advances, Installs
  <2> QED BY <1>2, <2>1, <2>2, <2>3
<1>4. CASE CreatesBranch(t)
  <2>1. Inserts(t) BY <1>4, CreationInserts
  <2>2. req[t].op # "supersede" BY <1>4, CreateNames DEF CreatesBranch
  <2>3. \E c, v, n : RecordResult(req[t], c, v, n) BY <1>4 DEF CreatesBranch
  <2> QED BY <1>2, <2>1, <2>2, <2>3
<1>5. ASSUME NEW p, PublishesPlain(t, p) \/ PublishesMerge(t, p) PROVE EInv'
  <2>1. /\ Publishes(t, p) /\ req[t].op \in {"prepare", "merge_propose"}
    BY <1>5 DEF PublishesPlain, PublishesMerge
  <2>2. Inserts(t) BY <1>0, <2>1, PublicationInserts
  <2>3. \E c, v, n : RecordResult(req[t], c, v, n) BY <2>1 DEF Publishes
  <2> QED BY <1>2, <2>1, <2>2, <2>3
<1>6. ASSUME NEW p, Declines(t, p, "rejected") PROVE EInv'
  <2>1. /\ Undecided(p.candidate) /\ UNCHANGED <<proposals, branches, branchEvents>>
        /\ decisions' = decisions \cup {Decision(p, "rejected", 0, req[t])}
        /\ req[t].op = "reject" /\ RecordResult(req[t], p.candidate, 0, 0)
    BY <1>6 DEF Declines
  <2>2. /\ \E x : /\ x \notin Inserted("rejection")
                  /\ Inserted("rejection")' = Inserted("rejection") \cup {x}
        /\ Inserted("acceptance")' = Inserted("acceptance")
    BY <2>1, DecisionInserts
  <2>3. \A j \in Kind \ {"rejection"} : Inserted(j)' = Inserted(j)
    BY <2>1, <2>2, SameRows DEF Kind
  <2>4. "rejection" \in Kind /\ req[t].op \in Inserters("rejection") BY <2>1 DEF Kind, Inserters
  <2>5. Inserts(t) BY <2>2, <2>3, <2>4, InsertsOne
  <2> QED BY <1>2, <2>1, <2>5
<1>7. ASSUME NEW p, Declines(t, p, "superseded") PROVE EInv'
  <2>1. /\ Undecided(p.candidate) /\ UNCHANGED <<proposals, branches, branchEvents, idempotency>>
        /\ decisions' = decisions \cup {Decision(p, "superseded", 0, req[t])}
    BY <1>7 DEF Declines
  <2>2. UNCHANGED <<Inserted("rejection"), Inserted("acceptance")>> BY <2>1, DecisionInserts
  <2>3. \A k \in Kind : Inserted(k)' = Inserted(k) /\ Results(k)' = Results(k)
    BY SMT, <2>1, <2>2, SameRows DEF Kind, Results
  <2>4. OneResult' BY <1>0, <2>1 DEF OneResult
  <2> QED BY <1>1, <2>3, <2>4 DEF EInv, Balanced
<1>8. CASE Validates(t)
  <2>1. req[t].op = "validate" /\ UNCHANGED <<proposals, decisions, branches, branchEvents>>
    BY <1>8 DEF Validates
  <2>2. \A k \in Kind : Inserted(k)' = Inserted(k) /\ req[t].op \notin Inserters(k)
    BY <2>1, SameRows DEF Kind, Inserters
  <2>3. Inserts(t) BY <2>2 DEF Inserts
  <2>4. \E c, v, n : RecordResult(req[t], c, v, n) BY <1>8 DEF Validates
  <2> QED BY <1>2, <2>1, <2>3, <2>4
<1>9. CASE ChangesStatus(t)
  <2>1. Inserts(t) BY <1>0, <1>9, TurnInserts
  <2>2. req[t].op # "supersede" BY SMT, <1>9 DEF ChangesStatus, LifecycleRequest
  <2>3. \E c, v, n : RecordResult(req[t], c, v, n) BY <1>9 DEF ChangesStatus
  <2> QED BY <1>2, <2>1, <2>2, <2>3
<1>10. \A p, s : Declines(t, p, s) => s \in {"rejected", "superseded"} BY DEF Declines
<1> QED BY SMT, <1>0, <1>3, <1>4, <1>5, <1>6, <1>7, <1>8, <1>9, <1>10, Effects

-----------------------------------------------------------------------------
(* The invariants of LedgerHistoryProofs hold. *)

(* A freshly created graph satisfies the invariant. *)
LEMMA InitHInv == Init => HInv
<1> SUFFICES ASSUME Init PROVE HInv OBVIOUS
<1>1. LInv BY InitLInv
<1>2. Based /\ BaseWasHead /\ SupersededIsBehind /\ FastForwardOnly
  BY LeastNumbers DEF Init, Based, BaseWasHead, SupersededIsBehind, FastForwardOnly, EventsOf
<1>3. BranchPointInSource BY DEF Init, BranchPointInSource, NoBranch
<1>4. \A t \in Tx : ReadHead(t) BY DEF Init, ReadHead, ProposePc, CreatePc
<1> QED BY <1>1, <1>2, <1>3, <1>4 DEF HInv

(* The invariant holds in every reachable state. *)
LEMMA HistoryInvariance == Spec => []HInv
  BY InitHInv, NextHInv, PTL DEF Spec

(* A fresh graph has no movements to explain. *)
LEMMA InitMInv == Init => MInv
  BY InitLInv DEF Init, MInv

(* The tombstones hold in every reachable state. *)
LEMMA TombstoneInvariance == Spec => []BInv
<1>1. Init => BInv
  <2> SUFFICES ASSUME Init PROVE BInv OBVIOUS
  <2>1. \A b \in Branch : LifecycleEventsOf(b) = {} /\ branches[b].lifecycle = 0
    BY DEF Init, LifecycleEventsOf, NoBranch
  <2>2. \A b \in Branch : branches[b].status = "none" BY DEF Init, NoBranch
  <2>3. \A b \in Branch : Holds(b) BY SMT, <2>1, <2>2 DEF Holds
  <2> QED BY <2>3, InitLInv DEF BInv
<1>2. BInv /\ [Next]_vars => BInv'
  <2> SUFFICES ASSUME BInv, [Next]_vars PROVE BInv' OBVIOUS
  <2>0. LInv /\ TypeInv BY DEF BInv, LInv, IInv
  <2>1. LInv' /\ TypeInv' BY <2>0, NextLInv DEF LInv, IInv
  <2>2. CASE UNCHANGED tables
    <3>1. \A b \in Branch : LifecycleEventsOf(b)' = LifecycleEventsOf(b)
      BY <2>2 DEF LifecycleEventsOf, tables
    <3>2. \A b \in Branch : Holds(b)' BY <2>2, <3>1, HoldsStill DEF BInv, tables
    <3> QED BY <2>1, <3>2 DEF BInv
  <2>3. ASSUME NEW t \in Tx, WriteStep(t) PROVE BInv'
    BY <2>1, <2>3, TombstoneStep DEF BInv
  <2> QED BY <2>0, <2>2, <2>3, OnlyCommitsWrite
<1> QED BY <1>1, <1>2, PTL DEF Spec

(* A fresh graph has accepted nothing. *)
LEMMA InitFInv == Init => FInv
<1> SUFFICES ASSUME Init PROVE FInv OBVIOUS
<1>1. HInv /\ MInv BY InitHInv, InitMInv
<1>2. proposals = {} /\ decisions = {} BY DEF Init
<1> QED BY <1>1, <1>2 DEF FInv, PartiesKnown, FourEyes

(* The balance holds in every reachable state. *)
LEMMA OnceInvariance == Spec => []EInv
<1>1. Init => EInv
  <2> SUFFICES ASSUME Init PROVE EInv OBVIOUS
  <2>1. /\ idempotency = {} /\ proposals = {} /\ decisions = {} /\ branchEvents = {}
        /\ \A b \in Branch : branches[b].status = "none"
    BY DEF Init, NoBranch
  <2>2. \A k \in Kind : Inserted(k) = {} /\ Results(k) = {} BY <2>1 DEF Kind, Inserted, Results
  <2>3. \A k \in Kind : Balanced(k) BY SMT, <2>2, FS_EmptySet DEF Balanced
  <2> QED BY <2>1, <2>3 DEF EInv, OneResult, Sourced
<1>2. BInv /\ EInv /\ [Next]_vars => EInv'
  <2> SUFFICES ASSUME BInv, EInv, [Next]_vars PROVE EInv' OBVIOUS
  <2>0. TypeInv BY DEF BInv, LInv, IInv
  <2>1. CASE UNCHANGED tables
    <3>1. UNCHANGED <<idempotency, proposals, decisions, branches, branchEvents>>
      BY SMT, <2>1 DEF tables
    <3>2. \A k \in Kind : Inserted(k)' = Inserted(k) /\ Results(k)' = Results(k)
      BY SMT, <3>1, SameRows DEF Kind, Results
    <3> QED BY <3>1, <3>2 DEF EInv, OneResult, Sourced, Balanced
  <2> QED BY <2>0, <2>1, OnceStep, OnlyCommitsWrite
<1> QED BY <1>1, <1>2, TombstoneInvariance, PTL DEF Spec

-----------------------------------------------------------------------------
(* What the invariants give. *)

(* A tombstone holds its branch still, although delete never locks the ref, *)
(* and a created branch starts inside its source's history, although the    *)
(* point was checked against a head read before the transaction             *)
(* (change_branch_status, create_branch).                                   *)
THEOREM BranchesAlwaysHold == Spec => []BranchesHold
<1>1. BInv /\ HInv => BranchesHold BY HoldsIsTombstone DEF BInv, HInv, BranchesHold
<1> QED BY <1>1, TombstoneInvariance, HistoryInvariance, PTL

(* Four eyes: on a branch that requires a distinct reviewer, whoever        *)
(* accepted a movement proposed none of the commits it made reachable       *)
(* (require_distinct_parties, and source_parties_on for a merge).           *)
THEOREM FourEyesAlways == Spec => []FourEyes
<1>1. Init => FInv BY InitFInv
<1>2. FInv /\ [Next]_vars => FInv' BY NextFInv
<1>3. FInv => FourEyes BY DEF FInv
<1> QED BY <1>1, <1>2, <1>3, PTL DEF Spec

(* Every ref is where decisions put it: it never leaves its history, each   *)
(* movement has exactly the acceptance and the queue entry that explain it, *)
(* and a superseded proposal never becomes current again (accept,           *)
(* merge_apply, create_branch and mark_superseded).                         *)
THEOREM RefsAreDecided == Spec => []HistoryIsDecided
<1>1. Spec => []MInv BY InitMInv, NextMInv, PTL DEF Spec
<1>2. HInv => FastForwardOnly BY DEF HInv
<1>3. HInv /\ MInv => HistoryIsDecided BY SMT, <1>2, BehindIsStale, ExplainedIsDecided DEF HistoryIsDecided
<1> QED BY <1>1, <1>3, HistoryInvariance, PTL

(* The transactions serialize: every request takes effect exactly once,     *)
(* whatever is retried or raced; what a transaction checked under its locks *)
(* still is so when it commits; and no set of transactions waits for each   *)
(* other (begin_scoped, the lock statements of every operation, merge       *)
(* apply's name order).                                                     *)
THEOREM TransactionsAlwaysSerialize == Spec => []TransactionsSerialize
<1>1. EInv => ExactlyOnce BY BalancedIsOnce
<1>2. OInv => LocksSuffice /\ NoWaitCycle BY LocksAreEnough, LocksDoNotDeadlock
<1>3. EInv /\ OInv => TransactionsSerialize BY <1>1, <1>2 DEF TransactionsSerialize
<1> QED BY <1>3, OnceInvariance, OrderInvariance, PTL

=============================================================================

------------------------------ MODULE StoreProofs ------------------------------
(***************************************************************************)
(* What the store holds and the schema that guards it, for every set of     *)
(* quads and every structural key, and for every number of processes,       *)
(* migrations, controls, changes and faults.                                *)
(*                                                                         *)
(* States, patches and the three-way merge: what effective_delta persists,  *)
(* what the patch of a diff does, and what three_way_reported returns.      *)
(*                                                                         *)
(* The schema a process serves from: as long as the owner executes nothing, *)
(* every check that is no longer to be made holds (LookHolds), and what was *)
(* read at start-up is what start-up accepts (ServesAccepted); the last     *)
(* check leaves the whole catalog looked at (AllHeld, NothingLeftOut).      *)
(***************************************************************************)
EXTENDS Serving, ThreeWay, FiniteSetTheorems, TLAPS

VARIABLES requested, policy, answer, state   \* StateDelta's, its base is the merge's

Delta == INSTANCE StateDelta

(* The slots some side uses.                                                *)
Used == {KeyOf[q] : q \in base \cup target \cup source}

(* After any number of slots, the merged state and the conflicts are those  *)
(* of the slots taken so far.                                               *)
MergeInv == /\ base \in SUBSET Quad /\ target \in SUBSET Quad /\ source \in SUBSET Quad
            /\ strategy \in Strategy
            /\ slots \subseteq Used
            /\ merged = {q \in Quad : /\ KeyOf[q] \in Used \ slots
                                      /\ q \in SlotResult(base, target, source, KeyOf[q], strategy)}
            /\ conflicting = {k \in Used \ slots : Conflicts(base, target, source, k)}

(* The result of a slot is made of quads of that slot.                      *)
LEMMA ResultInSlot ==
    ASSUME NEW b \in SUBSET Quad, NEW t \in SUBSET Quad, NEW s \in SUBSET Quad,
           NEW how \in Strategy, NEW k, NEW q \in SlotResult(b, t, s, k, how)
    PROVE  q \in t \cup s /\ KeyOf[q] = k
  BY DEF SlotResult, Resolve, Slot, Strategy

(* Nothing is merged before the first slot.                                 *)
LEMMA MergeInitial == MergeInit => MergeInv
  BY DEF MergeInit, MergeInv, Used

(* Taking a slot adds its result and nothing else.                          *)
LEMMA MergeInductive == MergeInv /\ [MergeNext]_mergeVars => MergeInv'
  <1> SUFFICES ASSUME MergeInv, [MergeNext]_mergeVars PROVE MergeInv'
    OBVIOUS
  <1>1. ASSUME NEW k \in slots, MergeSlot(k) PROVE MergeInv'
    <2>1. UNCHANGED <<base, target, source, strategy>> /\ Used' = Used /\ slots' = slots \ {k} /\ k \in Used
      BY <1>1 DEF MergeSlot, Used, MergeInv
    <2>2. merged' = {q \in Quad : /\ KeyOf[q] \in Used \ slots'
                                  /\ q \in SlotResult(base, target, source, KeyOf[q], strategy)}
      <3>1. \A q \in SlotResult(base, target, source, k, strategy) : q \in Quad /\ KeyOf[q] = k
        BY ResultInSlot DEF MergeInv
      <3>2. merged' = merged \cup SlotResult(base, target, source, k, strategy)
        BY <1>1 DEF MergeSlot
      <3> QED BY <2>1, <3>1, <3>2 DEF MergeInv
    <2>3. conflicting' = {j \in Used \ slots' : Conflicts(base, target, source, j)}
      BY <1>1, <2>1 DEF MergeInv, MergeSlot
    <2> QED BY <2>1, <2>2, <2>3 DEF MergeInv
  <1>2. CASE UNCHANGED mergeVars
    BY <1>2 DEF MergeInv, mergeVars, Used
  <1> QED BY <1>1, <1>2 DEF MergeNext

(* When the loop has ended the slots need no mention.                       *)
LEMMA AtTheEnd ==
    ASSUME MergeInv, Done
    PROVE  /\ merged = {q \in Quad : q \in SlotResult(base, target, source, KeyOf[q], strategy)}
           /\ conflicting = {k \in Used : Conflicts(base, target, source, k)}
  <1>1. \A q \in Quad : q \in SlotResult(base, target, source, KeyOf[q], strategy) => KeyOf[q] \in Used
    <2> SUFFICES ASSUME NEW q \in Quad, q \in SlotResult(base, target, source, KeyOf[q], strategy)
                 PROVE  KeyOf[q] \in Used
      OBVIOUS
    <2>1. q \in target \cup source
      BY ResultInSlot DEF MergeInv
    <2> QED BY <2>1 DEF Used
  <1> QED BY <1>1 DEF MergeInv, Done

(* Membership in a slot of a quad's own key.                                *)
LEMMA OwnSlot ==
    ASSUME NEW S \in SUBSET Quad, NEW q \in Quad
    PROVE  q \in Slot(S, KeyOf[q]) <=> q \in S
  BY DEF Slot

(* three_way_reported: without conflicts both sides' changes are applied.   *)
THEOREM CleanMerge == MergeSpec => []CleanMergeIsBothChanges
  <1>1. MergeInv => CleanMergeIsBothChanges
    <2> SUFFICES ASSUME MergeInv, Done, conflicting = {}
                 PROVE  /\ merged = (target \ (base \ source)) \cup (source \ base)
                        /\ merged = (source \ (base \ target)) \cup (target \ base)
      BY DEF CleanMergeIsBothChanges
    <2>0. merged \subseteq Quad /\ base \subseteq Quad /\ target \subseteq Quad /\ source \subseteq Quad
      BY DEF MergeInv
    <2> SUFFICES ASSUME NEW q \in Quad
                 PROVE  /\ q \in merged <=> q \in (target \ (base \ source)) \cup (source \ base)
                        /\ q \in merged <=> q \in (source \ (base \ target)) \cup (target \ base)
      BY <2>0
    <2> DEFINE k == KeyOf[q]
    <2>1. q \in merged <=> q \in SlotResult(base, target, source, k, strategy)
      BY AtTheEnd
    <2>2. /\ q \in Slot(base, k) <=> q \in base
          /\ q \in Slot(target, k) <=> q \in target
          /\ q \in Slot(source, k) <=> q \in source
      BY OwnSlot DEF MergeInv
    <2>3. CASE k \in Used
      <3>1. ~Conflicts(base, target, source, k)
        BY <2>3, AtTheEnd
      <3> QED BY <2>1, <2>2, <3>1 DEF SlotResult, Conflicts
    <2>4. CASE k \notin Used
      <3>1. q \notin base /\ q \notin target /\ q \notin source
        BY <2>4 DEF Used
      <3>2. q \notin merged
        BY <2>4 DEF MergeInv
      <3> QED BY <3>1, <3>2
    <2> QED BY <2>3, <2>4
  <1> QED BY <1>1, MergeInitial, MergeInductive, PTL DEF MergeSpec

(* three_way_reported: agreement is kept and nothing is resurrected.        *)
THEOREM NothingLostOrInvented == MergeSpec => []BetweenTheSides
  <1>1. MergeInv => BetweenTheSides
    <2> SUFFICES ASSUME MergeInv, Returned
                 PROVE  target \cap source \subseteq merged /\ merged \subseteq target \cup source
      BY DEF BetweenTheSides
    <2>0. Done
      BY DEF Returned
    <2>1. merged \subseteq target \cup source
      BY <2>0, AtTheEnd, ResultInSlot DEF MergeInv
    <2>2. ASSUME NEW q \in target \cap source PROVE q \in merged
      <3>1. q \in Quad /\ KeyOf[q] \in Used
        BY DEF MergeInv, Used
      <3>2. q \in Slot(target, KeyOf[q]) /\ q \in Slot(source, KeyOf[q])
        BY <3>1, OwnSlot DEF MergeInv
      <3>3. strategy = "abort" => ~Conflicts(base, target, source, KeyOf[q])
        BY <2>0, <3>1, AtTheEnd DEF Returned
      <3>4. strategy \in Strategy
        BY DEF MergeInv
      <3>5. q \in SlotResult(base, target, source, KeyOf[q], strategy)
        BY <3>2, <3>3, <3>4 DEF SlotResult, Conflicts, Resolve, Strategy
      <3> QED BY <2>0, <3>1, <3>5, AtTheEnd
    <2> QED BY <2>1, <2>2
  <1> QED BY <1>1, MergeInitial, MergeInductive, PTL DEF MergeSpec

(* creates_nothing: repeating a merge creates nothing, and a merge from the *)
(* target's own state is the source.                                        *)
THEOREM RepeatIsEmpty == MergeSpec => []RepeatCreatesNothing
  <1>1. MergeInv => RepeatCreatesNothing
    <2> SUFFICES ASSUME MergeInv, Done
                 PROVE  /\ CreatesNothing(base, target, source, merged) <=> source = base
                        /\ base = target => conflicting = {} /\ merged = source
      BY DEF RepeatCreatesNothing
    <2>0. merged \subseteq Quad /\ base \subseteq Quad /\ target \subseteq Quad /\ source \subseteq Quad
      BY DEF MergeInv
    <2>1. ASSUME source = base PROVE merged = target
      <3>1. \A q \in Quad : q \in SlotResult(base, target, source, KeyOf[q], strategy)
                               <=> q \in Slot(target, KeyOf[q])
        BY <2>1 DEF SlotResult
      <3>2. \A q \in Quad : q \in merged <=> q \in target
        BY Zenon, <2>0, <3>1, AtTheEnd, OwnSlot
      <3> QED BY <2>0, <3>2
    <2>2. ASSUME base = target PROVE conflicting = {} /\ merged = source
      <3>1. \A q \in Quad : q \in SlotResult(base, target, source, KeyOf[q], strategy)
                               <=> q \in Slot(source, KeyOf[q])
        BY <2>2 DEF SlotResult
      <3>2. \A q \in Quad : q \in merged <=> q \in source
        BY Zenon, <2>0, <3>1, AtTheEnd, OwnSlot
      <3>3. conflicting = {}
        BY <2>2, AtTheEnd DEF Conflicts
      <3> QED BY <2>0, <3>2, <3>3
    <2>3. CreatesNothing(base, target, source, merged) => source = base
      BY <2>0 DEF CreatesNothing
    <2> QED BY <2>1, <2>2, <2>3 DEF CreatesNothing, IsNoChange
  <1> QED BY <1>1, MergeInitial, MergeInductive, PTL DEF MergeSpec

(* All three of them, for every set of quads and every assignment of slots. *)
THEOREM ExactMerge == MergeSpec => []MergeIsExact
  BY CleanMerge, NothingLostOrInvented, RepeatIsEmpty, PTL DEF MergeIsExact

-----------------------------------------------------------------------------
(* For every set of quads: what effective_delta persists, and what a diff's *)
(* patch does.                                                              *)

(* The adds and deletes of the patch effective_delta keeps.                 *)
LEMMA EffectiveOperations ==
    ASSUME NEW start \in SUBSET Quad, NEW patch, Delta!IsPatch(patch)
    PROVE  /\ Delta!Adds(Delta!Effective(start, patch)) = Delta!Adds(patch) \ start
           /\ Delta!Deletes(Delta!Effective(start, patch)) = Delta!Deletes(patch) \cap start
           /\ Delta!IsPatch(Delta!Effective(start, patch))
  <1>1. Delta!Adds(Delta!Effective(start, patch)) = Delta!Adds(patch) \ start
    BY Zenon DEF Delta!Adds, Delta!Effective, Delta!Add, Delta!Delete
  <1>2. Delta!Deletes(Delta!Effective(start, patch)) = Delta!Deletes(patch) \cap start
    BY Zenon DEF Delta!Deletes, Delta!Effective, Delta!Add, Delta!Delete
  <1>3. Delta!Effective(start, patch) \subseteq Delta!Operation
    <2>1. Delta!Effective(start, patch) \subseteq patch
      BY DEF Delta!Effective, Delta!Adds, Delta!Deletes
    <2> QED BY Zenon, <2>1 DEF Delta!IsPatch
  <1> QED BY <1>1, <1>2, <1>3 DEF Delta!IsPatch

(* The adds and deletes of the patch of a diff.                             *)
LEMMA DiffOperations ==
    ASSUME NEW a \in SUBSET Quad, NEW b \in SUBSET Quad
    PROVE  /\ Delta!Adds(Delta!DiffToPatch(a, b)) = b \ a
           /\ Delta!Deletes(Delta!DiffToPatch(a, b)) = a \ b
           /\ Delta!IsPatch(Delta!DiffToPatch(a, b))
  <1>1. Delta!Adds(Delta!DiffToPatch(a, b)) = b \ a
    BY Zenon DEF Delta!Adds, Delta!DiffToPatch, Delta!Add, Delta!Delete
  <1>2. Delta!Deletes(Delta!DiffToPatch(a, b)) = a \ b
    BY Zenon DEF Delta!Deletes, Delta!DiffToPatch, Delta!Add, Delta!Delete
  <1>3. Delta!DiffToPatch(a, b) \subseteq Delta!Operation
    BY DEF Delta!DiffToPatch, Delta!Add, Delta!Delete, Delta!Operation
  <1> QED BY <1>1, <1>2, <1>3 DEF Delta!IsPatch

(* apply_patch stays within the quads.                                      *)
LEMMA ApplyType ==
    ASSUME NEW start \in SUBSET Quad, NEW patch
    PROVE  Delta!Apply(start, patch) \in SUBSET Quad
  BY DEF Delta!Apply, Delta!Adds

(* Dropping the operations without effect does not change what is reached,  *)
(* and replaying the rest once more changes nothing.                        *)
LEMMA EffectiveApplies ==
    ASSUME NEW start \in SUBSET Quad, NEW patch, Delta!IsPatch(patch)
    PROVE  /\ Delta!Apply(start, Delta!Effective(start, patch)) = Delta!Apply(start, patch)
           /\ Delta!Apply(Delta!Apply(start, patch), Delta!Effective(start, patch)) = Delta!Apply(start, patch)
  <1>1. Delta!Adds(patch) \cap Delta!Deletes(patch) = {}
    BY DEF Delta!IsPatch
  <1> QED
    BY <1>1, EffectiveOperations DEF Delta!Apply

(* What the specification's states look like.                               *)
DeltaInv == /\ base \in SUBSET Quad
            /\ Delta!IsPatch(requested)
            /\ policy \in {"strict", "permissive"}
            /\ answer \in {Delta!Unanswered, Delta!EffectiveDelta(base, requested, policy)}
            /\ answer.error # "none" => state = base
            /\ state \in {base, Delta!Apply(base, requested)}

(* The specification starts in such a state.                                *)
LEMMA DeltaInitial == Delta!Init => DeltaInv
  <1> SUFFICES ASSUME Delta!Init PROVE DeltaInv
    OBVIOUS
  <1>1. Delta!IsPatch(requested)
    <2> PICK added \in SUBSET Quad, deleted \in SUBSET Quad :
              /\ added \cap deleted = {}
              /\ requested = {Delta!Add(q) : q \in added} \cup {Delta!Delete(q) : q \in deleted}
      BY Zenon DEF Delta!Init
    <2>1. Delta!Adds(requested) = added /\ Delta!Deletes(requested) = deleted
      BY Zenon DEF Delta!Adds, Delta!Deletes, Delta!Add, Delta!Delete
    <2>2. requested \subseteq Delta!Operation
      BY DEF Delta!Add, Delta!Delete, Delta!Operation
    <2> QED BY Zenon, <2>1, <2>2 DEF Delta!IsPatch
  <1>2. answer = Delta!Unanswered /\ state = base /\ base \in SUBSET Quad /\ policy \in {"strict", "permissive"}
    BY DEF Delta!Init
  <1> QED BY <1>1, <1>2 DEF DeltaInv

(* Reducing the request and replaying the patch both keep it.               *)
LEMMA DeltaInductive == DeltaInv /\ [Delta!Next]_Delta!vars => DeltaInv'
  <1> SUFFICES ASSUME DeltaInv, [Delta!Next]_Delta!vars PROVE DeltaInv'
    OBVIOUS
  <1>1. CASE Delta!Reduce
    BY <1>1 DEF DeltaInv, Delta!Reduce, Delta!Unanswered
  <1>2. CASE Delta!Replay
    <2>1. answer = Delta!EffectiveDelta(base, requested, policy) /\ answer.error = "none"
      BY <1>2 DEF DeltaInv, Delta!Replay, Delta!Unanswered
    <2>2. answer.patch = Delta!Effective(base, requested)
      BY Zenon, <2>1 DEF Delta!EffectiveDelta
    <2>3. state' = Delta!Apply(base, requested)
      BY <1>2, <2>2, EffectiveApplies DEF DeltaInv, Delta!Replay
    <2> QED BY <1>2, <2>1, <2>3 DEF DeltaInv, Delta!Replay
  <1>3. CASE UNCHANGED Delta!vars
    BY <1>3 DEF DeltaInv, Delta!vars, Delta!Unanswered
  <1> QED BY <1>1, <1>2, <1>3 DEF Delta!Next

(* effective_delta and apply_patch: the persisted patch means the request.  *)
THEOREM DeltaIsFaithful == Delta!Spec => []Delta!DeltaMeansTheRequest
  <1>1. DeltaInv => Delta!DeltaMeansTheRequest
    BY DEF DeltaInv, Delta!DeltaMeansTheRequest
  <1> QED BY <1>1, DeltaInitial, DeltaInductive, PTL DEF Delta!Spec

(* effective_delta: what is persisted has no operation without effect.      *)
THEOREM NoEmptyHistory == Delta!Spec => []Delta!HistoryIsEffective
  <1>1. DeltaInv => Delta!HistoryIsEffective
    <2> SUFFICES ASSUME DeltaInv, answer.error = "none"
                 PROVE  /\ Delta!IsPatch(answer.patch)
                        /\ answer.patch # {}
                        /\ Delta!Adds(answer.patch) \cap base = {} /\ Delta!Deletes(answer.patch) \subseteq base
                        /\ Delta!Apply(base, answer.patch) # base
                        /\ policy = "strict" => Delta!Deletes(answer.patch) = Delta!Deletes(requested)
      BY DEF Delta!HistoryIsEffective
    <2>1. answer = Delta!EffectiveDelta(base, requested, policy)
      BY DEF DeltaInv, Delta!Unanswered
    <2>2. /\ answer.patch = Delta!Effective(base, requested)
          /\ Delta!Effective(base, requested) # {}
          /\ policy = "strict" => Delta!Deletes(requested) \subseteq base
      BY Zenon, <2>1 DEF Delta!EffectiveDelta
    <2>3. /\ Delta!Adds(answer.patch) = Delta!Adds(requested) \ base
          /\ Delta!Deletes(answer.patch) = Delta!Deletes(requested) \cap base
          /\ Delta!IsPatch(answer.patch)
      <3>1. base \in SUBSET Quad /\ Delta!IsPatch(requested)
        BY DEF DeltaInv
      <3>2. /\ Delta!Adds(Delta!Effective(base, requested)) = Delta!Adds(requested) \ base
            /\ Delta!Deletes(Delta!Effective(base, requested)) = Delta!Deletes(requested) \cap base
            /\ Delta!IsPatch(Delta!Effective(base, requested))
        BY Zenon, <3>1, EffectiveOperations
      <3> QED BY Zenon, <2>2, <3>2
    <2>4. Delta!Adds(answer.patch) # {} \/ Delta!Deletes(answer.patch) # {}
      BY Zenon, <2>2, <2>3 DEF Delta!Effective, Delta!Adds, Delta!Deletes
    <2>5. Delta!Adds(answer.patch) \cap Delta!Deletes(answer.patch) = {} /\ Delta!Adds(answer.patch) \subseteq Quad
      BY <2>3 DEF Delta!IsPatch, Delta!Adds
    <2>6. Delta!Apply(base, answer.patch) # base
      BY <2>3, <2>4, <2>5 DEF Delta!Apply
    <2> QED BY <2>2, <2>3, <2>6
  <1> QED BY <1>1, DeltaInitial, DeltaInductive, PTL DEF Delta!Spec

(* diff and to_patch: exact, and accepted as it stands.                     *)
THEOREM DiffRoundTrip == Delta!Spec => []Delta!DiffIsExact
  <1>1. DeltaInv => Delta!DiffIsExact
    <2> SUFFICES ASSUME DeltaInv PROVE Delta!DiffIsExact
      OBVIOUS
    <2> DEFINE goal == Delta!Apply(base, requested)
               patch == Delta!DiffToPatch(base, goal)
    <2>1. base \in SUBSET Quad /\ goal \in SUBSET Quad
      BY ApplyType DEF DeltaInv
    <2> HIDE DEF goal
    <2>2. Delta!Adds(patch) = goal \ base /\ Delta!Deletes(patch) = base \ goal /\ Delta!IsPatch(patch)
      BY <2>1, DiffOperations
    <2>3. Delta!Apply(base, patch) = goal
      BY <2>1, <2>2 DEF Delta!Apply
    <2>4. Delta!Effective(base, patch) = patch
      BY Zenon, <2>1, <2>2 DEF Delta!Effective, Delta!DiffToPatch
    <2>5. ASSUME goal # base PROVE patch # {}
      BY <2>1, <2>5 DEF Delta!DiffToPatch
    <2>6. goal # base => Delta!EffectiveDelta(base, patch, "strict") = [error |-> "none", patch |-> patch]
      BY Zenon, <2>1, <2>2, <2>4, <2>5 DEF Delta!EffectiveDelta
    <2> QED BY <2>2, <2>3, <2>6 DEF Delta!DiffIsExact, goal
  <1> QED BY <1>1, DeltaInitial, DeltaInductive, PTL DEF Delta!Spec

-----------------------------------------------------------------------------
(* The schema a process serves from.  Zenon proves the leaves that name no   *)
(* prover.                                                                  *)

USE Zenon

(* Finitely many controls, of the kinds there are, and two identities.      *)
ControlsAreKnown ==
  /\ IsFiniteSet(Control) /\ \A c \in Control : Kind[c] \in Kinds
  /\ \A r \in Replica : Identity[r] \in {"runtime", "projector"}

(* What a sequence of checks has in it. *)
Elems(s) == {s[i] : i \in 1 .. Len(s)}

(* A sequence of a set has its elements, and nothing else. *)
LEMMA SequenceOfSet ==
    ASSUME NEW S, IsFiniteSet(S)
    PROVE  /\ Cardinality(S) \in Nat
           /\ InTurn(S) \in [1 .. Cardinality(S) -> S]
           /\ \A x \in S : \E i \in 1 .. Cardinality(S) : InTurn(S)[i] = x
  <1> DEFINE n == Cardinality(S)
             f == InTurn(S)
  <1>2. n \in Nat /\ Cardinality(1 .. n) = n /\ IsFiniteSet(1 .. n)
    <2>1. n \in Nat
      BY FS_CardinalityType
    <2>2. 1 \in Int /\ n \in Int
      BY SMT, <2>1
    <2>3. IsFiniteSet(1 .. n) /\ Cardinality(1 .. n) = IF 1 > n THEN 0 ELSE n - 1 + 1
      BY <2>2, FS_Interval
    <2>4. Cardinality(1 .. n) = n
      <3> HIDE DEF n
      <3> QED BY SMT, <2>1, <2>3
    <2> QED BY <2>1, <2>3, <2>4
  <1>3. PICK g : g \in Bijection(1 .. n, S)
    BY <1>2, FS_SameCardinalityBij DEF ExistsBijection
  <1>4. \E h \in [1 .. n -> S] : IsInjective(h)
    BY <1>3 DEF Bijection, Injection, IsInjective
  <1>5. f \in [1 .. n -> S] /\ IsInjective(f)
    BY <1>4 DEF InTurn
  <1> HIDE DEF f
  <1>6. f \in Injection(1 .. n, S)
    BY <1>5 DEF Injection, IsInjective
  <1>7. f \in Surjection(1 .. n, S)
    BY <1>2, <1>6, FS_Injection
  <1> QED BY <1>2, <1>5, <1>7 DEF Surjection, f

(* Each: one check for each control, and no other.                         *)
LEMMA EachHas ==
    ASSUME NEW S, IsFiniteSet(S), NEW name, NEW Any, \A c \in S : Check(name, c) \in Any
    PROVE  /\ Each(name, S) \in Seq(Any)
           /\ Elems(Each(name, S)) = {Check(name, c) : c \in S}
  <1> DEFINE n == Cardinality(S)
             f == InTurn(S)
             e == Each(name, S)
             C(c) == Check(name, c)
             T == {C(c) : c \in S}
  <1>1. n \in Nat /\ f \in [1 .. n -> S] /\ \A x \in S : \E i \in 1 .. n : f[i] = x
    BY SequenceOfSet
  <1>2. e = [i \in 1 .. n |-> C(f[i])]
    BY DEF Each
  <1> HIDE DEF n, f, e, C
  <1>3. e \in Seq(Any) /\ Len(e) = n
    <2>1. \A c \in S : C(c) \in Any
      BY DEF C
    <2> QED BY SMT, <1>1, <1>2, <2>1
  <1>4. \A i \in 1 .. n : e[i] = C(f[i])
    BY <1>2
  <1>5. \A x \in S : \E i \in 1 .. n : e[i] = C(x)
    BY <1>1, <1>4
  <1>6. Elems(e) = T
    <2>1. ASSUME NEW k \in Elems(e) PROVE k \in T
      <3>1. PICK i \in 1 .. n : k = e[i]
        BY <1>3 DEF Elems
      <3>2. f[i] \in S /\ k = C(f[i])
        BY <1>1, <1>4, <3>1
      <3> QED BY <3>2
    <2>2. ASSUME NEW k \in T PROVE k \in Elems(e)
      BY <1>3, <1>5, <2>2 DEF Elems
    <2> QED BY <2>1, <2>2
  <1> QED BY <1>3, <1>6 DEF e, C

(* What a sequence of two has is what each has. *)
LEMMA TogetherHas ==
    ASSUME NEW T, NEW s \in Seq(T), NEW t \in Seq(T)
    PROVE  s \o t \in Seq(T) /\ Elems(s \o t) = Elems(s) \cup Elems(t)
  <1>1. /\ s \o t \in Seq(T) /\ Len(s) \in Nat /\ Len(t) \in Nat /\ Len(s \o t) = Len(s) + Len(t)
        /\ \A i \in 1 .. Len(s) : i \in 1 .. Len(s \o t) /\ (s \o t)[i] = s[i]
        /\ \A i \in 1 .. Len(t) : Len(s) + i \in 1 .. Len(s \o t) /\ (s \o t)[Len(s) + i] = t[i]
        /\ \A j \in 1 .. Len(s \o t) : j \in 1 .. Len(s) \/ \E i \in 1 .. Len(t) : j = Len(s) + i
    <2>1. /\ s \o t \in Seq(T) /\ Len(s) \in Nat /\ Len(t) \in Nat /\ Len(s \o t) = Len(s) + Len(t)
          /\ \A i \in 1 .. Len(s) : i \in 1 .. Len(s \o t) /\ (s \o t)[i] = s[i]
          /\ \A i \in 1 .. Len(t) : Len(s) + i \in 1 .. Len(s \o t) /\ (s \o t)[Len(s) + i] = t[i]
      BY SMT
    <2>2. ASSUME NEW j \in 1 .. Len(s \o t), j \notin 1 .. Len(s)
          PROVE  j - Len(s) \in 1 .. Len(t) /\ j = Len(s) + (j - Len(s))
      BY SMT, <2>1, <2>2
    <2> QED BY <2>1, <2>2
  <1>2. ASSUME NEW k \in Elems(s \o t) PROVE k \in Elems(s) \/ k \in Elems(t)
    <2>1. PICK j \in 1 .. Len(s \o t) : k = (s \o t)[j]
      BY <1>2 DEF Elems
    <2>2. CASE j \in 1 .. Len(s)
      BY <1>1, <2>1, <2>2 DEF Elems
    <2>3. ASSUME NEW i \in 1 .. Len(t), j = Len(s) + i PROVE k \in Elems(t)
      BY <1>1, <2>1, <2>3 DEF Elems
    <2> QED BY <1>1, <2>2, <2>3
  <1>3. ASSUME NEW k \in Elems(s) PROVE k \in Elems(s \o t)
    BY <1>1, <1>3 DEF Elems
  <1>4. ASSUME NEW k \in Elems(t) PROVE k \in Elems(s \o t)
    BY <1>1, <1>4 DEF Elems
  <1> QED BY <1>1, <1>2, <1>3, <1>4

(* A sequence has its head and what its tail has. *)
LEMMA RestHas ==
    ASSUME NEW T, NEW s \in Seq(T), s # <<>>
    PROVE  /\ Tail(s) \in Seq(T) /\ Head(s) \in Elems(s)
           /\ Elems(s) = {Head(s)} \cup Elems(Tail(s))
  <1>1. /\ Tail(s) \in Seq(T) /\ Len(s) \in Nat /\ 1 \in 1 .. Len(s) /\ Head(s) = s[1]
        /\ \A i \in 1 .. Len(Tail(s)) : i + 1 \in 1 .. Len(s) /\ Tail(s)[i] = s[i + 1]
    BY SMT
  <1>2. ASSUME NEW i \in 1 .. Len(s), i # 1
        PROVE  i - 1 \in 1 .. Len(Tail(s)) /\ Tail(s)[i - 1] = s[i]
    BY SMT, <1>2
  <1>3. Head(s) \in Elems(s)
    BY <1>1 DEF Elems
  <1>4. ASSUME NEW k \in Elems(s), k # Head(s) PROVE k \in Elems(Tail(s))
    <2>1. PICK i \in 1 .. Len(s) : k = s[i]
      BY <1>4 DEF Elems
    <2> QED BY <1>1, <1>2, <1>4, <2>1 DEF Elems
  <1>5. ASSUME NEW k \in Elems(Tail(s)) PROVE k \in Elems(s)
    BY <1>1, <1>5 DEF Elems
  <1> QED BY <1>1, <1>3, <1>4, <1>5

(* The checks. *)
NoC == NoControl
CheckName == {"metadata", "trigger", "function", "constraints", "indexes", "not null", "identity",
              "definition", "probe", "fingerprints"}
AnyCheck == [name : CheckName, on : Control \cup {NoC}]
ChecksOf(name, S) == {Check(name, c) : c \in S}
VerifySet(r) ==
  {Check("metadata", NoC)} \cup ChecksOf("trigger", Of({"trigger"}, r))
    \cup ChecksOf("function", Of({"function"}, r))
    \cup {Check("constraints", NoC), Check("indexes", NoC), Check("not null", NoC)}
ConnectSet(r) ==
  VerifySet(r) \cup {Check("identity", NoC)} \cup ChecksOf("definition", Expressions(r))
    \cup (IF Identity[r] = "runtime" THEN ChecksOf("probe", Of({"address"}, r)) ELSE {})
ReadySet(r) ==
  VerifySet(r) \cup {Check("fingerprints", NoC)}
    \cup (IF Identity[r] = "projector" THEN {Check("identity", NoC)} ELSE {})

(* The fingerprints are compared after everything they are taken from was   *)
(* read.                                                                    *)
Late(s) == \A i, j \in 1 .. Len(s) :
  s[i].name = "fingerprints" /\ s[j].name \in {"constraints", "indexes"} => j < i

(* A sequence in which they are not compared, or nothing is read. *)
LEMMA LateTogether ==
    ASSUME NEW T, NEW s \in Seq(T), NEW t \in Seq(T), Late(s),
           \A k \in Elems(t) : k.name \notin {"constraints", "indexes"}
    PROVE  Late(s \o t)
  <1> DEFINE F(k) == k.name = "fingerprints"
             R(k) == k.name \in {"constraints", "indexes"}
  <1>1. \A i, j \in 1 .. Len(s) : F(s[i]) /\ R(s[j]) => j < i
    BY DEF Late
  <1>2. \A i \in 1 .. Len(t) : ~R(t[i])
    BY DEF Elems
  <1>3. ASSUME \A i, j \in 1 .. Len(s \o t) : F((s \o t)[i]) /\ R((s \o t)[j]) => j < i
        PROVE  Late(s \o t)
    BY <1>3 DEF Late
  <1> HIDE DEF F, R
  <1> SUFFICES ASSUME NEW i \in 1 .. Len(s \o t), NEW j \in 1 .. Len(s \o t),
                      F((s \o t)[i]), R((s \o t)[j])
               PROVE  j < i
    BY <1>3
  <1>4. j \in 1 .. Len(s)
    <2>1. ASSUME j \notin 1 .. Len(s) PROVE j - Len(s) \in 1 .. Len(t) /\ (s \o t)[j] = t[j - Len(s)]
      BY SMT, <2>1
    <2> QED BY <1>2, <2>1
  <1>5. CASE i \in 1 .. Len(s)
    <2>1. (s \o t)[i] = s[i] /\ (s \o t)[j] = s[j]
      BY SMT, <1>4, <1>5
    <2> QED BY <1>1, <1>4, <1>5, <2>1
  <1>6. CASE i \notin 1 .. Len(s)
    BY SMT, <1>4, <1>6
  <1> QED BY <1>5, <1>6

(* It stays so as the checks are made.                                      *)
LEMMA LateRest ==
    ASSUME NEW T, NEW s \in Seq(T), s # <<>>, Late(s)
    PROVE  /\ Late(Tail(s))
           /\ Head(s).name = "fingerprints" =>
                \A k \in Elems(s) : k.name \notin {"constraints", "indexes"}
  <1>1. /\ 1 \in 1 .. Len(s) /\ Head(s) = s[1] /\ \A i \in 1 .. Len(s) : ~(i < 1)
        /\ \A i \in 1 .. Len(Tail(s)) : i + 1 \in 1 .. Len(s) /\ Tail(s)[i] = s[i + 1]
        /\ \A i, j \in 1 .. Len(Tail(s)) : i + 1 < j + 1 => i < j
    BY SMT
  <1>2. Late(Tail(s))
    <2> SUFFICES ASSUME NEW i \in 1 .. Len(Tail(s)), NEW j \in 1 .. Len(Tail(s)),
                        Tail(s)[i].name = "fingerprints", Tail(s)[j].name \in {"constraints", "indexes"}
                 PROVE  j < i
      BY DEF Late
    <2>1. /\ i + 1 \in 1 .. Len(s) /\ j + 1 \in 1 .. Len(s)
          /\ Tail(s)[i] = s[i + 1] /\ Tail(s)[j] = s[j + 1]
      BY <1>1
    <2>2. j + 1 < i + 1
      BY <2>1 DEF Late
    <2> QED BY <1>1, <2>2
  <1>3. ASSUME Head(s).name = "fingerprints", NEW k \in Elems(s)
        PROVE  k.name \notin {"constraints", "indexes"}
    BY <1>1, <1>3 DEF Late, Elems
  <1> QED BY <1>2, <1>3

(* A sequence that has just these checks in it. *)
LooksAt(s, S) == s \in Seq(AnyCheck) /\ Elems(s) = S

(* Two lists of checks, one after the other.                                *)
LEMMA Joined ==
    ASSUME NEW s, NEW t, NEW S, NEW U, LooksAt(s, S), LooksAt(t, U)
    PROVE  LooksAt(s \o t, S \cup U)
  <1>1. s \in Seq(AnyCheck) /\ t \in Seq(AnyCheck) /\ Elems(s) = S /\ Elems(t) = U
    BY DEF LooksAt
  <1>2. s \o t \in Seq(AnyCheck) /\ Elems(s \o t) = Elems(s) \cup Elems(t)
    BY <1>1, TogetherHas
  <1> QED BY <1>1, <1>2 DEF LooksAt

(* One check. *)
LEMMA OneCheck ==
    ASSUME NEW name \in CheckName
    PROVE  LooksAt(<<Check(name, NoC)>>, {Check(name, NoC)})
  <1> DEFINE k == Check(name, NoC)
             Any == AnyCheck
  <1>1. k \in Any
    BY SMT DEF AnyCheck, Check
  <1> HIDE DEF k, Any
  <1>2. <<k>> \in Seq(Any)
    BY SMT, <1>1
  <1>3. Len(<<k>>) = 1 /\ <<k>>[1] = k /\ 1 \in 1 .. 1 /\ \A i \in 1 .. 1 : i = 1
    BY SMT
  <1>4. Elems(<<k>>) = {k}
    BY <1>3 DEF Elems
  <1> QED BY <1>2, <1>4 DEF k, Any, LooksAt

(* The checks of some controls. *)
LEMMA SomeChecks ==
    ASSUME ControlsAreKnown, NEW name \in CheckName, NEW S, S \subseteq Control
    PROVE  LooksAt(Each(name, S), ChecksOf(name, S))
  <1>1. IsFiniteSet(S)
    BY FS_Subset DEF ControlsAreKnown
  <1>2. \A c \in S : Check(name, c) \in AnyCheck
    BY SMT DEF AnyCheck, Check
  <1> QED BY <1>1, <1>2, EachHas DEF ChecksOf, LooksAt

(* None. *)
LEMMA NothingLooked == LooksAt(<<>>, {})
  <1> DEFINE Any == AnyCheck
  <1> HIDE DEF Any
  <1>1. <<>> \in Seq(Any) /\ Len(<<>>) = 0 /\ 1 .. 0 = {}
    BY SMT
  <1>2. Elems(<<>>) = {}
    BY <1>1 DEF Elems
  <1> QED BY <1>1, <1>2 DEF LooksAt, Any

(* Three checks. *)
LEMMA ThreeChecks ==
    ASSUME NEW l \in CheckName, NEW m \in CheckName, NEW n \in CheckName
    PROVE  LooksAt(<<Check(l, NoC), Check(m, NoC), Check(n, NoC)>>,
                   {Check(l, NoC), Check(m, NoC), Check(n, NoC)})
  <1> DEFINE x == Check(l, NoC)
             y == Check(m, NoC)
             z == Check(n, NoC)
             s == <<x, y, z>>
             Any == AnyCheck
  <1>1. x \in Any /\ y \in Any /\ z \in Any
    BY SMT DEF AnyCheck, Check
  <1> HIDE DEF x, y, z, Any
  <1>2. s \in Seq(Any) /\ Len(s) = 3 /\ s[1] = x /\ s[2] = y /\ s[3] = z
    BY SMT, <1>1
  <1>3. {1, 2, 3} \subseteq 1 .. 3 /\ \A i \in 1 .. 3 : i = 1 \/ i = 2 \/ i = 3
    BY SMT
  <1> HIDE DEF s
  <1>4. Elems(s) = {x, y, z}
    <2>1. ASSUME NEW k \in Elems(s) PROVE k \in {x, y, z}
      <3>1. PICK i \in 1 .. 3 : k = s[i]
        BY <1>2, <2>1 DEF Elems
      <3> QED BY <1>2, <1>3, <3>1
    <2>2. x \in Elems(s) /\ y \in Elems(s) /\ z \in Elems(s)
      BY <1>2, <1>3 DEF Elems
    <2> QED BY <2>1, <2>2
  <1> QED BY <1>2, <1>4 DEF s, x, y, z, Any, LooksAt

(* What verify looks at. *)
LEMMA VerifyLooksAt ==
    ASSUME ControlsAreKnown, NEW r
    PROVE  LooksAt(verify(r), VerifySet(r))
  <1> DEFINE K(name) == Check(name, NoC)
             triggers == Of({"trigger"}, r)
             functions == Of({"function"}, r)
             t == Each("trigger", triggers)
             f == Each("function", functions)
  <1>1. triggers \subseteq Control /\ functions \subseteq Control
    BY DEF Of
  <1>2. /\ LooksAt(<<K("metadata")>>, {K("metadata")})
        /\ LooksAt(<<K("constraints"), K("indexes"), K("not null")>>,
                   {K("constraints"), K("indexes"), K("not null")})
    <2>1. {"metadata", "constraints", "indexes", "not null"} \subseteq CheckName
      BY DEF CheckName
    <2> HIDE DEF triggers, functions, t, f
    <2> QED BY <2>1, OneCheck, ThreeChecks
  <1>3. LooksAt(t, ChecksOf("trigger", triggers)) /\ LooksAt(f, ChecksOf("function", functions))
    <2>1. "trigger" \in CheckName /\ "function" \in CheckName
      BY DEF CheckName
    <2> HIDE DEF triggers, functions
    <2> QED BY <1>1, <2>1, SomeChecks
  <1>4. verify(r) = ((<<K("metadata")>> \o t) \o f) \o <<K("constraints"), K("indexes"), K("not null")>>
    BY DEF verify, NoC
  <1>5. VerifySet(r) = (({K("metadata")} \cup ChecksOf("trigger", triggers)) \cup ChecksOf("function", functions))
                         \cup {K("constraints"), K("indexes"), K("not null")}
    BY DEF VerifySet
  <1> HIDE DEF K, t, f, triggers, functions
  <1>6. LooksAt((<<K("metadata")>> \o t) \o f,
                ({K("metadata")} \cup ChecksOf("trigger", triggers)) \cup ChecksOf("function", functions))
    BY <1>2, <1>3, Joined
  <1>7. LooksAt(((<<K("metadata")>> \o t) \o f) \o <<K("constraints"), K("indexes"), K("not null")>>,
                (({K("metadata")} \cup ChecksOf("trigger", triggers)) \cup ChecksOf("function", functions))
                  \cup {K("constraints"), K("indexes"), K("not null")})
    BY <1>2, <1>6, Joined
  <1> QED BY <1>4, <1>5, <1>7

(* A check is known by its name. *)
LEMMA Named ==
    ASSUME NEW name, NEW c
    PROVE  Check(name, c).name = name /\ Check(name, c).on = c
  BY SMT DEF Check

(* A check of Each names its control.                                       *)
LEMMA NamedEach ==
    ASSUME NEW name, NEW S, NEW k \in ChecksOf(name, S)
    PROVE  k.name = name /\ k.on \in S
  <1>1. PICK c \in S : k = Check(name, c)
    BY DEF ChecksOf
  <1> QED BY <1>1, Named

(* Only a probe compares fingerprints. *)
LEMMA NoneCompared ==
    ASSUME NEW r
    PROVE  /\ \A k \in VerifySet(r) : k.name # "fingerprints"
           /\ \A k \in ConnectSet(r) : k.name # "fingerprints"
  <1>1. ASSUME NEW k \in VerifySet(r) PROVE k.name # "fingerprints"
    <2>1. CASE k \in ChecksOf("trigger", Of({"trigger"}, r))
      <3>1. k.name = "trigger"
        BY <2>1, NamedEach
      <3> QED BY <3>1
    <2>2. CASE k \in ChecksOf("function", Of({"function"}, r))
      <3>1. k.name = "function"
        BY <2>2, NamedEach
      <3> QED BY <3>1
    <2>3. ASSUME NEW n \in {"metadata", "constraints", "indexes", "not null"}, k = Check(n, NoC)
          PROVE  k.name # "fingerprints"
      <3>1. k.name = n
        BY <2>3, Named
      <3> QED BY <3>1
    <2> QED BY <1>1, <2>1, <2>2, <2>3 DEF VerifySet
  <1>2. ASSUME NEW k \in ConnectSet(r) PROVE k.name # "fingerprints"
    <2>1. CASE k = Check("identity", NoC)
      <3>1. k.name = "identity"
        BY <2>1, Named
      <3> QED BY <3>1
    <2>2. CASE k \in ChecksOf("definition", Expressions(r))
      <3>1. k.name = "definition"
        BY <2>2, NamedEach
      <3> QED BY <3>1
    <2>3. CASE k \in ChecksOf("probe", Of({"address"}, r))
      <3>1. k.name = "probe"
        BY <2>3, NamedEach
      <3> QED BY <3>1
    <2> QED BY <1>1, <1>2, <2>1, <2>2, <2>3 DEF ConnectSet
  <1> QED BY <1>1, <1>2

(* Then any order will do. *)
LEMMA LateAnyway ==
    ASSUME NEW s, NEW S, LooksAt(s, S), \A k \in S : k.name # "fingerprints"
    PROVE  Late(s)
  <1>1. \A i \in 1 .. Len(s) : s[i] \in S
    BY DEF LooksAt, Elems
  <1> QED BY <1>1 DEF Late

(* What start-up looks at. *)
LEMMA ConnectLooksAt ==
    ASSUME ControlsAreKnown, NEW r
    PROVE  LooksAt(ConnectChecks(r), ConnectSet(r)) /\ Late(ConnectChecks(r))
  <1> DEFINE v == verify(r)
             i == <<Check("identity", NoC)>>
             I == {Check("identity", NoC)}
             d == verify_definitions(r)
             D == ChecksOf("definition", Expressions(r))
             p == Probes(r)
             P == IF Identity[r] = "runtime" THEN ChecksOf("probe", Of({"address"}, r)) ELSE {}
  <1>0. {"identity", "definition", "probe"} \subseteq CheckName
    BY DEF CheckName
  <1>1. Expressions(r) \subseteq Control /\ Of({"address"}, r) \subseteq Control
    BY DEF Expressions, Checks, Of
  <1>2. LooksAt(v, VerifySet(r))
    BY VerifyLooksAt
  <1>3. LooksAt(i, I)
    BY <1>0, OneCheck
  <1>4. LooksAt(d, D)
    BY <1>0, <1>1, SomeChecks DEF verify_definitions
  <1>5. LooksAt(p, P)
    <2>1. CASE Identity[r] = "runtime"
      BY <1>0, <1>1, <2>1, SomeChecks DEF Probes
    <2>2. CASE Identity[r] # "runtime"
      <3>1. <<>> \in Seq(AnyCheck) /\ Elems(<<>>) = {}
        BY NothingLooked DEF LooksAt
      <3> QED BY <2>2, <3>1 DEF Probes, LooksAt
    <2> QED BY <2>1, <2>2
  <1>6. ConnectChecks(r) = ((v \o i) \o d) \o p
    BY DEF ConnectChecks, NoC
  <1>7. ConnectSet(r) = ((VerifySet(r) \cup I) \cup D) \cup P
    BY DEF ConnectSet
  <1>8. \A k \in ConnectSet(r) : k.name # "fingerprints"
    BY NoneCompared
  <1> HIDE DEF v, i, I, d, D, p, P
  <1>9. LooksAt(v \o i, VerifySet(r) \cup I)
    BY <1>2, <1>3, Joined
  <1>10. LooksAt((v \o i) \o d, (VerifySet(r) \cup I) \cup D)
    BY <1>4, <1>9, Joined
  <1>11. LooksAt(ConnectChecks(r), ConnectSet(r))
    <2>1. LooksAt(((v \o i) \o d) \o p, ((VerifySet(r) \cup I) \cup D) \cup P)
      BY <1>5, <1>10, Joined
    <2> QED BY <1>6, <1>7, <2>1
  <1>12. Late(ConnectChecks(r))
    BY <1>8, <1>11, LateAnyway
  <1> QED BY <1>11, <1>12

(* What a probe looks at, and in which order. *)
LEMMA ReadyLooksAt ==
    ASSUME ControlsAreKnown, NEW r
    PROVE  LooksAt(ReadyChecks(r), ReadySet(r)) /\ Late(ReadyChecks(r))
  <1> DEFINE v == verify(r)
             f == <<Check("fingerprints", NoC)>>
             F == {Check("fingerprints", NoC)}
             p == IF Identity[r] = "projector" THEN <<Check("identity", NoC)>> ELSE <<>>
             P == IF Identity[r] = "projector" THEN {Check("identity", NoC)} ELSE {}
  <1>0. {"identity", "fingerprints"} \subseteq CheckName
    BY DEF CheckName
  <1>1. LooksAt(v, VerifySet(r))
    BY VerifyLooksAt
  <1>2. LooksAt(f, F)
    BY <1>0, OneCheck
  <1>3. LooksAt(p, P)
    BY <1>0, OneCheck, NothingLooked
  <1>4. ReadyChecks(r) = (v \o f) \o p
    BY DEF ReadyChecks, NoC
  <1>5. ReadySet(r) = (VerifySet(r) \cup F) \cup P
    BY DEF ReadySet
  <1>6. \A k \in VerifySet(r) : k.name # "fingerprints"
    BY NoneCompared
  <1>7. \A k \in F \cup P : k.name \notin {"constraints", "indexes"}
    <2>1. \A k \in F \cup P : k = Check("fingerprints", NoC) \/ k = Check("identity", NoC)
      OBVIOUS
    <2>2. Check("fingerprints", NoC).name = "fingerprints" /\ Check("identity", NoC).name = "identity"
      BY Named
    <2> HIDE DEF F, P
    <2> QED BY <2>1, <2>2
  <1> HIDE DEF v, f, F, p, P
  <1>8. LooksAt(v \o f, VerifySet(r) \cup F)
    BY <1>1, <1>2, Joined
  <1>9. LooksAt((v \o f) \o p, (VerifySet(r) \cup F) \cup P)
    BY <1>3, <1>8, Joined
  <1>10. Late(v)
    BY <1>1, <1>6, LateAnyway
  <1>11. Late(v \o f)
    BY <1>1, <1>2, <1>7, <1>10, LateTogether DEF LooksAt
  <1>12. Late((v \o f) \o p)
    BY <1>3, <1>7, <1>8, <1>11, LateTogether DEF LooksAt
  <1> QED BY <1>4, <1>5, <1>9, <1>12

(* What a look at the catalog is about. *)
LookingAt(r) == IF replica[r].pc = "starting" THEN ConnectSet(r) ELSE ReadySet(r)

(* A check that was made holds of the catalog; the fingerprints do when the *)
(* expressions are the ones that were read at start-up.                     *)
Stands(r, k) ==
  IF k.name = "fingerprints" THEN \A c \in Expressions(r) : replica[r].expected[c] = control[c]
  ELSE Holds(r, k)

(* Expressions that start-up accepts. *)
Accepts(r, f) == \A c \in Expressions(r) :
  /\ f[c] \in {"intact", "reworded", "hollow"}
  /\ Identity[r] = "runtime" /\ Kind[c] = "address" => f[c] \in {"intact", "reworded"}

Fields == {"pc", "todo", "seen", "expected", "began", "quiet", "probe", "answer"}

(* A process. *)
ReplicaTypes(r) ==
  /\ DOMAIN replica[r] = Fields
  /\ replica[r].pc \in {"down", "starting", "serving"}
  /\ replica[r].answer \in {"none", "ready", "not ready"}
  /\ replica[r].probe = "asked" => replica[r].pc = "serving" /\ replica[r].answer = "none"
  /\ ~Busy(r) => replica[r].todo = <<>>
  /\ replica[r].began \in Nat /\ replica[r].began <= changes
  /\ DOMAIN replica[r].seen = Expressions(r)

(* Its look at the catalog: what is not to be looked at any more holds, as  *)
(* long as the owner has done nothing.                                      *)
LookHolds(r) ==
  Busy(r) =>
    /\ replica[r].todo \in Seq(AnyCheck) /\ Late(replica[r].todo)
    /\ Elems(replica[r].todo) \subseteq LookingAt(r)
    /\ replica[r].began = changes =>
        /\ \A k \in LookingAt(r) : k \in Elems(replica[r].todo) \/ Stands(r, k)
        /\ Check("constraints", NoC) \in Elems(replica[r].todo)
           \/ \A c \in Checks(r) : replica[r].seen[c] = control[c]
        /\ Check("indexes", NoC) \in Elems(replica[r].todo)
           \/ \A c \in Of({"index"}, r) : replica[r].seen[c] = control[c]

(* What it serves from. *)
ServesAccepted(r) == replica[r].pc = "serving" /\ replica[r].quiet => Accepts(r, replica[r].expected)

ReplicaHolds(r) == ReplicaTypes(r) /\ LookHolds(r) /\ ServesAccepted(r)

(* The catalog. *)
CatalogTypes ==
  /\ applied \in [1 .. Level -> RowStates]
  /\ DOMAIN control = Control
  /\ \A c \in Control : control[c] \in States(Kind[c]) \cup {"absent"}
  /\ granted \in [{"runtime", "projector"} -> GrantStates]
  /\ changes \in Nat /\ changes <= MaxChanges /\ faults \in Nat /\ faults <= MaxFaults

SchemaInv ==
  /\ CatalogTypes
  /\ DOMAIN replica = Replica /\ \A r \in Replica : ReplicaHolds(r)

(* What each check says. *)
LEMMA HoldsMeans ==
    ASSUME NEW r, NEW k
    PROVE  /\ k.name = "metadata" => (Holds(r, k) <=> MetadataHolds(r))
           /\ k.name = "trigger" => (Holds(r, k) <=> TriggerHolds(k.on))
           /\ k.name = "function" => (Holds(r, k) <=> FunctionHolds(k.on))
           /\ k.name = "constraints" => (Holds(r, k) <=> ConstraintsHold(r))
           /\ k.name = "indexes" => (Holds(r, k) <=> IndexesHold(r))
           /\ k.name = "not null" => (Holds(r, k) <=> NotNullHolds(r))
           /\ k.name = "identity" => (Holds(r, k) <=> IdentityHolds(r))
           /\ k.name = "definition" => (Holds(r, k) <=> DefinitionHolds(k.on))
           /\ k.name = "probe" => (Holds(r, k) <=> ProbeHolds(k.on))
           /\ k.name = "fingerprints" => (Holds(r, k) <=> FingerprintsHold(r))
  <1>1. k.name = "metadata" => (Holds(r, k) <=> MetadataHolds(r))
    BY DEF Holds, MetadataHolds
  <1>2. k.name = "trigger" => (Holds(r, k) <=> TriggerHolds(k.on))
    BY DEF Holds, TriggerHolds
  <1>3. k.name = "function" => (Holds(r, k) <=> FunctionHolds(k.on))
    BY DEF Holds, FunctionHolds
  <1>4. k.name = "constraints" => (Holds(r, k) <=> ConstraintsHold(r))
    BY DEF Holds, ConstraintsHold
  <1>5. k.name = "indexes" => (Holds(r, k) <=> IndexesHold(r))
    BY DEF Holds, IndexesHold
  <1>6. k.name = "not null" => (Holds(r, k) <=> NotNullHolds(r))
    BY DEF Holds, NotNullHolds
  <1>7. k.name = "identity" => (Holds(r, k) <=> IdentityHolds(r))
    BY DEF Holds, IdentityHolds
  <1>8. k.name = "definition" => (Holds(r, k) <=> DefinitionHolds(k.on))
    BY DEF Holds, DefinitionHolds
  <1>9. k.name = "probe" => (Holds(r, k) <=> ProbeHolds(k.on))
    BY DEF Holds, ProbeHolds
  <1>10. k.name = "fingerprints" => (Holds(r, k) <=> FingerprintsHold(r))
    BY DEF Holds, FingerprintsHold
  <1> QED BY <1>1, <1>2, <1>3, <1>4, <1>5, <1>6, <1>7, <1>8, <1>9, <1>10

(* What is said of a process is said of its own state and of the catalog.   *)
LEMMA StandsKept ==
    ASSUME NEW r, replica'[r].expected = replica[r].expected, UNCHANGED <<applied, control, granted>>,
           NEW k, k.name \in CheckName
    PROVE  Stands(r, k)' <=> Stands(r, k)
  <1>1. CASE k.name = "fingerprints"
    BY <1>1 DEF Stands
  <1>2. CASE k.name # "fingerprints"
    <2>2. CASE k.name = "metadata"
      <3>1. MetadataHolds(r)' <=> MetadataHolds(r)
        BY DEF MetadataHolds
      <3>2. Holds(r, k) <=> MetadataHolds(r)
        BY <2>2, HoldsMeans
      <3>3. Holds(r, k)' <=> MetadataHolds(r)'
        BY <2>2 DEF Holds, MetadataHolds
      <3> QED BY <1>2, <3>1, <3>2, <3>3 DEF Stands
    <2>3. CASE k.name = "trigger"
      <3>1. TriggerHolds(k.on)' <=> TriggerHolds(k.on)
        BY DEF TriggerHolds
      <3>2. Holds(r, k) <=> TriggerHolds(k.on)
        BY <2>3, HoldsMeans
      <3>3. Holds(r, k)' <=> TriggerHolds(k.on)'
        BY <2>3 DEF Holds, TriggerHolds
      <3> QED BY <1>2, <3>1, <3>2, <3>3 DEF Stands
    <2>4. CASE k.name = "function"
      <3>1. FunctionHolds(k.on)' <=> FunctionHolds(k.on)
        BY DEF FunctionHolds
      <3>2. Holds(r, k) <=> FunctionHolds(k.on)
        BY <2>4, HoldsMeans
      <3>3. Holds(r, k)' <=> FunctionHolds(k.on)'
        BY <2>4 DEF Holds, FunctionHolds
      <3> QED BY <1>2, <3>1, <3>2, <3>3 DEF Stands
    <2>5. CASE k.name = "constraints"
      <3>1. ConstraintsHold(r)' <=> ConstraintsHold(r)
        BY DEF ConstraintsHold
      <3>2. Holds(r, k) <=> ConstraintsHold(r)
        BY <2>5, HoldsMeans
      <3>3. Holds(r, k)' <=> ConstraintsHold(r)'
        BY <2>5 DEF Holds, ConstraintsHold
      <3> QED BY <1>2, <3>1, <3>2, <3>3 DEF Stands
    <2>6. CASE k.name = "indexes"
      <3>1. IndexesHold(r)' <=> IndexesHold(r)
        BY DEF IndexesHold
      <3>2. Holds(r, k) <=> IndexesHold(r)
        BY <2>6, HoldsMeans
      <3>3. Holds(r, k)' <=> IndexesHold(r)'
        BY <2>6 DEF Holds, IndexesHold
      <3> QED BY <1>2, <3>1, <3>2, <3>3 DEF Stands
    <2>7. CASE k.name = "not null"
      <3>1. NotNullHolds(r)' <=> NotNullHolds(r)
        BY DEF NotNullHolds
      <3>2. Holds(r, k) <=> NotNullHolds(r)
        BY <2>7, HoldsMeans
      <3>3. Holds(r, k)' <=> NotNullHolds(r)'
        BY <2>7 DEF Holds, NotNullHolds
      <3> QED BY <1>2, <3>1, <3>2, <3>3 DEF Stands
    <2>8. CASE k.name = "identity"
      <3>1. IdentityHolds(r)' <=> IdentityHolds(r)
        BY DEF IdentityHolds
      <3>2. Holds(r, k) <=> IdentityHolds(r)
        BY <2>8, HoldsMeans
      <3>3. Holds(r, k)' <=> IdentityHolds(r)'
        BY <2>8 DEF Holds, IdentityHolds
      <3> QED BY <1>2, <3>1, <3>2, <3>3 DEF Stands
    <2>9. CASE k.name = "definition"
      <3>1. DefinitionHolds(k.on)' <=> DefinitionHolds(k.on)
        BY DEF DefinitionHolds
      <3>2. Holds(r, k) <=> DefinitionHolds(k.on)
        BY <2>9, HoldsMeans
      <3>3. Holds(r, k)' <=> DefinitionHolds(k.on)'
        BY <2>9 DEF Holds, DefinitionHolds
      <3> QED BY <1>2, <3>1, <3>2, <3>3 DEF Stands
    <2>1. CASE k.name = "probe"
      <3>1. ProbeHolds(k.on)' <=> ProbeHolds(k.on)
        BY DEF ProbeHolds
      <3>2. Holds(r, k) <=> ProbeHolds(k.on)
        BY <2>1, HoldsMeans
      <3>3. Holds(r, k)' <=> ProbeHolds(k.on)'
        BY <2>1 DEF Holds, ProbeHolds
      <3> QED BY <1>2, <3>1, <3>2, <3>3 DEF Stands
    <2> QED BY <1>2, <2>1, <2>2, <2>3, <2>4, <2>5, <2>6, <2>7, <2>8, <2>9 DEF CheckName
  <1> QED BY <1>1, <1>2

(* Every check has a name. *)
LEMMA KnownNames ==
    ASSUME ControlsAreKnown, NEW r, NEW k \in ConnectSet(r) \cup ReadySet(r)
    PROVE  k.name \in CheckName
  <1>1. \A s \in Seq(AnyCheck) : Elems(s) \subseteq AnyCheck
    <2>1. \A s \in Seq(AnyCheck) : \A i \in 1 .. Len(s) : s[i] \in AnyCheck
      <3> DEFINE Any == AnyCheck
      <3> HIDE DEF Any
      <3>1. \A s \in Seq(Any) : \A i \in 1 .. Len(s) : s[i] \in Any
        BY SMT
      <3> QED BY <3>1 DEF Any
    <2> QED BY <2>1 DEF Elems
  <1>2. \A x \in AnyCheck : x.name \in CheckName
    BY SMT DEF AnyCheck
  <1>3. k \in AnyCheck
    BY <1>1, ConnectLooksAt, ReadyLooksAt DEF LooksAt
  <1> QED BY <1>2, <1>3

(* A process whose own state stays, over a catalog that stays. *)
LEMMA LeftAlone ==
    ASSUME ControlsAreKnown, SchemaInv, NEW r \in Replica, replica'[r] = replica[r],
           UNCHANGED <<applied, control, granted, changes>>
    PROVE  ReplicaHolds(r)'
  <1>1. ReplicaTypes(r) /\ LookHolds(r) /\ ServesAccepted(r)
    BY DEF SchemaInv, ReplicaHolds
  <1>2. Busy(r)' <=> Busy(r)
    BY DEF Busy
  <1>3. ReplicaTypes(r)'
    <2>1. changes' = changes
      OBVIOUS
    <2> QED BY <1>1, <1>2, <2>1 DEF ReplicaTypes
  <1>4. ServesAccepted(r)'
    BY <1>1 DEF ServesAccepted
  <1>5. \A k \in LookingAt(r) : Stands(r, k)' <=> Stands(r, k)
    <2>1. \A k \in LookingAt(r) : k.name \in CheckName
      BY KnownNames DEF LookingAt
    <2> QED BY <2>1, StandsKept
  <1>6. LookingAt(r)' = LookingAt(r)
    BY DEF LookingAt
  <1>7. LookHolds(r)'
    <2>1. CASE ~Busy(r)
      BY <1>2, <2>1 DEF LookHolds
    <2>2. CASE Busy(r)
      <3>1. /\ replica'[r].todo \in Seq(AnyCheck) /\ Late(replica'[r].todo)
            /\ Elems(replica'[r].todo) \subseteq LookingAt(r)'
        BY <1>1, <1>6, <2>2 DEF LookHolds
      <3>2. CASE replica[r].began # changes
        BY <3>1, <3>2 DEF LookHolds
      <3>3. CASE replica[r].began = changes
        <4>1. \A k \in LookingAt(r)' : k \in Elems(replica'[r].todo) \/ Stands(r, k)'
          BY <1>1, <1>5, <1>6, <2>2, <3>3 DEF LookHolds
        <4>2. /\ Check("constraints", NoC) \in Elems(replica'[r].todo)
                 \/ \A c \in Checks(r) : replica'[r].seen[c] = control'[c]
              /\ Check("indexes", NoC) \in Elems(replica'[r].todo)
                 \/ \A c \in Of({"index"}, r) : replica'[r].seen[c] = control'[c]
          BY <1>1, <2>2, <3>3 DEF LookHolds
        <4> QED BY <3>1, <4>1, <4>2 DEF LookHolds
      <3> QED BY <3>2, <3>3
    <2> QED BY <2>1, <2>2
  <1> QED BY <1>3, <1>4, <1>7 DEF ReplicaHolds

(* The owner's statements: whatever was looked at may be otherwise now. *)
LEMMA OwnerInterferes ==
    ASSUME SchemaInv, NEW r \in Replica, replica' = replica, changes' = changes + 1
    PROVE  ReplicaHolds(r)'
  <1>1. ReplicaTypes(r) /\ LookHolds(r) /\ ServesAccepted(r)
    BY DEF SchemaInv, ReplicaHolds
  <1>2. Busy(r)' <=> Busy(r)
    BY DEF Busy
  <1>3. replica[r].began \in Nat /\ changes \in Nat /\ replica[r].began <= changes
    BY <1>1 DEF ReplicaTypes, SchemaInv, CatalogTypes
  <1>4. replica[r].began <= changes + 1 /\ replica[r].began # changes + 1
    BY SMT, <1>3
  <1>5. ReplicaTypes(r)'
    BY <1>1, <1>2, <1>4 DEF ReplicaTypes
  <1>6. ServesAccepted(r)'
    BY <1>1 DEF ServesAccepted
  <1>7. LookingAt(r)' = LookingAt(r)
    BY DEF LookingAt
  <1>8. LookHolds(r)'
    BY <1>1, <1>2, <1>4, <1>7 DEF LookHolds
  <1> QED BY <1>5, <1>6, <1>8 DEF ReplicaHolds

(* A process that is down. *)
LEMMA DownIs ==
    ASSUME NEW r
    PROVE  LET d == Down(r)
           IN  /\ DOMAIN d = Fields /\ d.pc = "down" /\ d.todo = <<>> /\ d.probe = "none"
               /\ d.answer = "none" /\ d.began = 0 /\ DOMAIN d.seen = Expressions(r)
  BY DEF Down, Unread, Fields

(* A process that went down has nothing left to look at.                   *)
LEMMA DownHolds ==
    ASSUME SchemaInv, NEW r \in Replica, replica'[r] = Down(r), changes' = changes
    PROVE  ReplicaHolds(r)'
  <1>1. /\ DOMAIN replica'[r] = Fields /\ replica'[r].pc = "down" /\ replica'[r].todo = <<>>
        /\ replica'[r].probe = "none" /\ replica'[r].answer = "none" /\ replica'[r].began = 0
        /\ DOMAIN replica'[r].seen = Expressions(r)
    BY DownIs
  <1>2. changes \in Nat /\ 0 \in Nat /\ 0 <= changes
    <2>1. changes \in Nat
      BY DEF SchemaInv, CatalogTypes
    <2> QED BY SMT, <2>1
  <1>3. ~Busy(r)'
    BY <1>1 DEF Busy
  <1>4. ReplicaTypes(r)'
    BY <1>1, <1>2 DEF ReplicaTypes
  <1> QED BY <1>1, <1>3, <1>4 DEF ReplicaHolds, LookHolds, ServesAccepted

(* A process is refused. *)
LEMMA RefusalHolds ==
    ASSUME SchemaInv, NEW r \in Replica, Refuse(r), changes' = changes
    PROVE  /\ ReplicaHolds(r)' /\ DOMAIN replica' = Replica
           /\ \A x \in Replica : x # r => replica'[x] = replica[x]
           /\ replica[r].pc = "starting" => replica'[r].pc = "down"
           /\ replica[r].pc # "starting" => replica'[r].answer = "not ready"
           /\ replica'[r].pc # "starting"
           /\ replica'[r].pc = "serving" => replica[r].pc = "serving"
  <1>1. ReplicaTypes(r) /\ LookHolds(r) /\ ServesAccepted(r) /\ DOMAIN replica = Replica
    BY DEF SchemaInv, ReplicaHolds
  <1>2. /\ DOMAIN replica' = Replica /\ \A x \in Replica : x # r => replica'[x] = replica[x]
        /\ replica'[r] = IF replica[r].pc = "starting" THEN Down(r)
             ELSE [replica[r] EXCEPT !.todo = <<>>, !.probe = "none", !.answer = "not ready"]
    BY <1>1 DEF Refuse
  <1>3. CASE replica[r].pc = "starting"
    <2>1. replica'[r] = Down(r)
      BY <1>2, <1>3
    <2> QED BY <1>2, <1>3, <2>1, DownHolds, DownIs
  <1>4. CASE replica[r].pc # "starting"
    <2>1. /\ DOMAIN replica'[r] = Fields /\ replica'[r].todo = <<>> /\ replica'[r].probe = "none"
          /\ replica'[r].answer = "not ready" /\ replica'[r].pc = replica[r].pc
          /\ replica'[r].began = replica[r].began /\ replica'[r].seen = replica[r].seen
          /\ replica'[r].expected = replica[r].expected /\ replica'[r].quiet = replica[r].quiet
      BY <1>1, <1>2, <1>4 DEF ReplicaTypes, Fields
    <2>2. ~Busy(r)'
      BY <1>4, <2>1 DEF Busy
    <2>3. ReplicaTypes(r)'
      BY <1>1, <2>1 DEF ReplicaTypes
    <2>4. ServesAccepted(r)'
      BY <1>1, <2>1 DEF ServesAccepted, Accepts
    <2> QED BY <1>2, <1>4, <2>1, <2>2, <2>3, <2>4 DEF ReplicaHolds, LookHolds
  <1> QED BY <1>3, <1>4

(* Start-up begins. *)
LEMMA StartHolds ==
    ASSUME ControlsAreKnown, SchemaInv, NEW r \in Replica, Start(r)
    PROVE  /\ ReplicaHolds(r)' /\ DOMAIN replica' = Replica
           /\ \A x \in Replica : x # r => replica'[x] = replica[x]
  <1>1. ReplicaTypes(r) /\ DOMAIN replica = Replica /\ changes \in Nat
    BY DEF SchemaInv, ReplicaHolds, CatalogTypes
  <1>2. /\ DOMAIN replica' = Replica /\ \A x \in Replica : x # r => replica'[x] = replica[x]
        /\ replica'[r] = [Down(r) EXCEPT !.pc = "starting", !.todo = ConnectChecks(r),
                                                 !.began = changes]
        /\ changes' = changes
    BY <1>1 DEF Start
  <1>3. /\ DOMAIN replica'[r] = Fields /\ replica'[r].pc = "starting"
        /\ replica'[r].todo = ConnectChecks(r) /\ replica'[r].began = changes
        /\ replica'[r].probe = "none" /\ replica'[r].answer = "none"
        /\ DOMAIN replica'[r].seen = Expressions(r)
    <2> DEFINE d == Down(r)
    <2>1. /\ DOMAIN d = Fields /\ d.pc = "down" /\ d.todo = <<>> /\ d.probe = "none"
          /\ d.answer = "none" /\ d.began = 0 /\ DOMAIN d.seen = Expressions(r)
      BY DownIs
    <2> DEFINE n == [d EXCEPT !.pc = "starting", !.todo = ConnectChecks(r), !.began = changes]
    <2>2. replica'[r] = n
      BY <1>2
    <2> HIDE DEF d
    <2>3. /\ DOMAIN n = Fields /\ n.pc = "starting" /\ n.todo = ConnectChecks(r) /\ n.began = changes
          /\ n.probe = d.probe /\ n.answer = d.answer /\ n.seen = d.seen
      BY <2>1 DEF Fields
    <2> QED BY <2>1, <2>2, <2>3
  <1>4. Busy(r)' /\ LookingAt(r)' = ConnectSet(r)
    BY <1>3 DEF Busy, LookingAt
  <1>5. /\ Elems(replica'[r].todo) = ConnectSet(r) /\ replica'[r].todo \in Seq(AnyCheck)
        /\ Late(replica'[r].todo)
    BY <1>3, ConnectLooksAt DEF LooksAt
  <1>6. {Check("constraints", NoC), Check("indexes", NoC)} \subseteq ConnectSet(r)
    BY DEF ConnectSet, VerifySet
  <1>7. changes <= changes
    BY SMT, <1>1
  <1>8. ReplicaTypes(r)'
    BY <1>1, <1>2, <1>3, <1>4, <1>7 DEF ReplicaTypes
  <1>9. LookHolds(r)'
    BY <1>4, <1>5, <1>6 DEF LookHolds
  <1> QED BY <1>2, <1>3, <1>8, <1>9 DEF ReplicaHolds, ServesAccepted

(* A readiness probe begins. *)
LEMMA ProbeBeginsHolds ==
    ASSUME ControlsAreKnown, SchemaInv, NEW r \in Replica, Probe(r)
    PROVE  /\ ReplicaHolds(r)' /\ DOMAIN replica' = Replica
           /\ \A x \in Replica : x # r => replica'[x] = replica[x]
  <1>1. ReplicaTypes(r) /\ ServesAccepted(r) /\ DOMAIN replica = Replica /\ changes \in Nat
    BY DEF SchemaInv, ReplicaHolds, CatalogTypes
  <1>2. replica[r].pc = "serving" /\ changes' = changes
    BY DEF Probe
  <1>3. /\ DOMAIN replica' = Replica /\ \A x \in Replica : x # r => replica'[x] = replica[x]
        /\ DOMAIN replica'[r] = Fields /\ replica'[r].pc = "serving"
        /\ replica'[r].todo = ReadyChecks(r) /\ replica'[r].began = changes
        /\ replica'[r].probe = "asked" /\ replica'[r].answer = "none"
        /\ replica'[r].seen = replica[r].seen /\ replica'[r].expected = replica[r].expected
        /\ replica'[r].quiet = replica[r].quiet
    BY <1>1, <1>2 DEF Probe, ReplicaTypes, Fields
  <1>4. Busy(r)' /\ LookingAt(r)' = ReadySet(r)
    BY <1>3 DEF Busy, LookingAt
  <1>5. /\ Elems(replica'[r].todo) = ReadySet(r) /\ replica'[r].todo \in Seq(AnyCheck)
        /\ Late(replica'[r].todo)
    BY <1>3, ReadyLooksAt DEF LooksAt
  <1>6. {Check("constraints", NoC), Check("indexes", NoC)} \subseteq ReadySet(r)
    BY DEF ReadySet, VerifySet
  <1>7. changes <= changes
    BY SMT, <1>1
  <1>8. ReplicaTypes(r)'
    BY <1>1, <1>2, <1>3, <1>4, <1>7 DEF ReplicaTypes
  <1>9. LookHolds(r)'
    BY <1>4, <1>5, <1>6 DEF LookHolds
  <1>10. ServesAccepted(r)'
    <2>1. replica'[r].expected = replica[r].expected /\ replica'[r].quiet = replica[r].quiet
      BY <1>3
    <2> QED BY <1>1, <1>2, <2>1 DEF ServesAccepted, Accepts
  <1> QED BY <1>3, <1>8, <1>9, <1>10 DEF ReplicaHolds

(* What a check that holds reads. *)
ReadsFrom(r, name, f) ==
  /\ DOMAIN f = Expressions(r)
  /\ \A c \in Expressions(r) : f[c] = control[c] \/ f[c] = replica[r].seen[c]
  /\ name = "constraints" => \A c \in Checks(r) : f[c] = control[c]
  /\ name = "indexes" => \A c \in Of({"index"}, r) : f[c] = control[c]

(* Fingerprints: what the two listings return is the catalog's.            *)
LEMMA ReadsTheCatalog ==
    ASSUME NEW r, NEW name, NEW f, f = Fingerprints(r, name)
    PROVE  ReadsFrom(r, name, f)
  <1> DEFINE E == Expressions(r)
             read == IF name = "constraints" THEN Checks(r)
                     ELSE IF name = "indexes" THEN Of({"index"}, r) ELSE {}
  <1>1. Checks(r) \subseteq E /\ Of({"index"}, r) \subseteq E
    BY DEF Expressions
  <1>2. f = [c \in E |-> IF c \in read THEN control[c] ELSE replica[r].seen[c]]
    BY DEF Fingerprints
  <1>3. name = "constraints" => read = Checks(r)
    OBVIOUS
  <1>4. name = "indexes" => read = Of({"index"}, r)
    OBVIOUS
  <1> HIDE DEF E, read
  <1>5. DOMAIN f = E /\ \A c \in E : f[c] = IF c \in read THEN control[c] ELSE replica[r].seen[c]
    BY <1>2
  <1>6. /\ DOMAIN f = E /\ \A c \in E : f[c] = control[c] \/ f[c] = replica[r].seen[c]
        /\ \A c \in E : c \in read => f[c] = control[c]
    BY <1>5
  <1> QED BY <1>1, <1>3, <1>4, <1>6 DEF E, ReadsFrom

(* A check holds. *)
LEMMA CheckHolds ==
    ASSUME ControlsAreKnown, SchemaInv, NEW r \in Replica, Busy(r), replica[r].todo # <<>>,
           Holds(r, Head(replica[r].todo)),
           replica' = [replica EXCEPT ![r].todo = Tail(@),
                                      ![r].seen = Fingerprints(r, Head(replica[r].todo).name)],
           UNCHANGED <<applied, control, granted, changes>>
    PROVE  /\ ReplicaHolds(r)' /\ DOMAIN replica' = Replica
           /\ \A x \in Replica : x # r => replica'[x] = replica[x]
           /\ replica'[r].pc = replica[r].pc /\ replica'[r].answer = replica[r].answer
  <1> DEFINE todo == replica[r].todo
             k == Head(todo)
             f == Fingerprints(r, k.name)
  <1>1. ReplicaTypes(r) /\ LookHolds(r) /\ ServesAccepted(r) /\ DOMAIN replica = Replica
    BY DEF SchemaInv, ReplicaHolds
  <1>2. todo \in Seq(AnyCheck) /\ todo # <<>> /\ Late(todo) /\ Elems(todo) \subseteq LookingAt(r)
    BY <1>1 DEF LookHolds
  <1>3. /\ Tail(todo) \in Seq(AnyCheck) /\ k \in Elems(todo) /\ Elems(todo) = {k} \cup Elems(Tail(todo))
        /\ Late(Tail(todo))
        /\ k.name = "fingerprints" => \A x \in Elems(todo) : x.name \notin {"constraints", "indexes"}
    <2> HIDE DEF todo
    <2>1. /\ Tail(todo) \in Seq(AnyCheck) /\ Head(todo) \in Elems(todo)
          /\ Elems(todo) = {Head(todo)} \cup Elems(Tail(todo))
      BY <1>2, RestHas
    <2>2. /\ Late(Tail(todo))
          /\ Head(todo).name = "fingerprints" => \A x \in Elems(todo) : x.name \notin {"constraints", "indexes"}
      BY <1>2, LateRest
    <2> QED BY <2>1, <2>2
  <1>4. /\ DOMAIN f = Expressions(r)
        /\ \A c \in Expressions(r) : f[c] = control[c] \/ f[c] = replica[r].seen[c]
        /\ k.name = "constraints" => \A c \in Checks(r) : f[c] = control[c]
        /\ k.name = "indexes" => \A c \in Of({"index"}, r) : f[c] = control[c]
    <2>1. f = Fingerprints(r, k.name)
      OBVIOUS
    <2> HIDE DEF k, f
    <2>2. ReadsFrom(r, k.name, f)
      BY <2>1, ReadsTheCatalog
    <2> QED BY <2>2 DEF ReadsFrom
  <1>5. /\ DOMAIN replica' = Replica /\ \A x \in Replica : x # r => replica'[x] = replica[x]
        /\ DOMAIN replica'[r] = Fields /\ replica'[r].todo = Tail(todo) /\ replica'[r].seen = f
        /\ replica'[r].pc = replica[r].pc /\ replica'[r].probe = replica[r].probe
        /\ replica'[r].answer = replica[r].answer /\ replica'[r].began = replica[r].began
        /\ replica'[r].expected = replica[r].expected /\ replica'[r].quiet = replica[r].quiet
    <2> DEFINE g == Fingerprints(r, Head(replica[r].todo).name)
    <2>1. replica' = [replica EXCEPT ![r].todo = Tail(@), ![r].seen = g] /\ f = g
      OBVIOUS
    <2> HIDE DEF g, f
    <2> DEFINE n == [replica[r] EXCEPT !.todo = Tail(@), !.seen = g]
    <2>2. replica' = [replica EXCEPT ![r] = n]
      BY <1>1, <2>1
    <2>3. DOMAIN replica[r] = Fields
      BY <1>1 DEF ReplicaTypes
    <2>4. /\ DOMAIN n = Fields /\ n.todo = Tail(todo) /\ n.seen = g /\ n.pc = replica[r].pc
          /\ n.probe = replica[r].probe /\ n.answer = replica[r].answer /\ n.began = replica[r].began
          /\ n.expected = replica[r].expected /\ n.quiet = replica[r].quiet
      BY <2>3 DEF Fields
    <2> HIDE DEF n
    <2> QED BY <1>1, <2>1, <2>2, <2>4
  <1> HIDE DEF todo, k, f
  <1>6. Busy(r)' /\ LookingAt(r)' = LookingAt(r)
    BY <1>5 DEF Busy, LookingAt
  <1>7. ReplicaTypes(r)'
    BY <1>1, <1>4, <1>5, <1>6 DEF ReplicaTypes
  <1>8. ServesAccepted(r)'
    BY <1>1, <1>5 DEF ServesAccepted, Accepts
  <1>9. LookHolds(r)'
    <2>1. Elems(Tail(todo)) \subseteq LookingAt(r)
      BY <1>2, <1>3
    <2>2. CASE replica[r].began # changes
      BY <1>3, <1>5, <1>6, <2>1, <2>2 DEF LookHolds
    <2>3. CASE replica[r].began = changes
      <3>1. /\ \A x \in LookingAt(r) : x \in Elems(todo) \/ Stands(r, x)
            /\ Check("constraints", NoC) \in Elems(todo)
               \/ \A c \in Checks(r) : replica[r].seen[c] = control[c]
            /\ Check("indexes", NoC) \in Elems(todo)
               \/ \A c \in Of({"index"}, r) : replica[r].seen[c] = control[c]
        BY <1>1, <2>3 DEF LookHolds, todo
      <3>2. Check("constraints", NoC) \in Elems(Tail(todo))
               \/ \A c \in Checks(r) : f[c] = control[c]
        <4>1. CASE Check("constraints", NoC) = k
          BY <1>4, <4>1, Named
        <4>2. CASE Check("constraints", NoC) # k
          <5>1. Checks(r) \subseteq Expressions(r)
            BY DEF Expressions
          <5> QED BY <1>3, <1>4, <3>1, <4>2, <5>1
        <4> QED BY <4>1, <4>2
      <3>3. Check("indexes", NoC) \in Elems(Tail(todo))
               \/ \A c \in Of({"index"}, r) : f[c] = control[c]
        <4>1. CASE Check("indexes", NoC) = k
          BY <1>4, <4>1, Named
        <4>2. CASE Check("indexes", NoC) # k
          <5>1. Of({"index"}, r) \subseteq Expressions(r)
            BY DEF Expressions
          <5> QED BY <1>3, <1>4, <3>1, <4>2, <5>1
        <4> QED BY <4>1, <4>2
      <3>4. Stands(r, k)
        <4>1. CASE k.name # "fingerprints"
          BY <4>1 DEF Stands, k, todo
        <4>2. CASE k.name = "fingerprints"
          <5>1. /\ Check("constraints", NoC) \notin Elems(todo)
                /\ Check("indexes", NoC) \notin Elems(todo)
            <6>1. /\ Check("constraints", NoC).name = "constraints"
                  /\ Check("indexes", NoC).name = "indexes"
              BY Named
            <6> QED BY <1>3, <4>2, <6>1
          <5>2. \A c \in Expressions(r) : replica[r].seen[c] = control[c]
            BY <3>1, <5>1 DEF Expressions
          <5>3. Holds(r, k)
            BY DEF k, todo
          <5>4. replica[r].expected = replica[r].seen
            BY <4>2, <5>3, HoldsMeans DEF FingerprintsHold
          <5> QED BY <4>2, <5>2, <5>4 DEF Stands
        <4> QED BY <4>1, <4>2
      <3>5. \A x \in LookingAt(r) : Stands(r, x)' <=> Stands(r, x)
        <4>1. \A x \in LookingAt(r) : x.name \in CheckName
          BY KnownNames DEF LookingAt
        <4> QED BY <1>5, <4>1, StandsKept
      <3>6. \A x \in LookingAt(r) : x \in Elems(Tail(todo)) \/ Stands(r, x)'
        BY <1>3, <3>1, <3>4, <3>5
      <3> QED BY <1>3, <1>5, <1>6, <2>1, <3>2, <3>3, <3>6 DEF LookHolds
    <2> QED BY <2>2, <2>3
  <1> QED BY <1>5, <1>7, <1>8, <1>9 DEF ReplicaHolds

(* The kinds of control there are. *)
LEMMA KindsOfControl ==
    ASSUME ControlsAreKnown, CatalogTypes, NEW r, NEW c \in Control, Since[c] <= Required[r]
    PROVE  /\ \/ c \in Of({"trigger"}, r) /\ Kind[c] = "trigger"
              \/ c \in Of({"function"}, r) /\ Kind[c] = "function"
              \/ c \in Of({"key"}, r) /\ Kind[c] = "key"
              \/ c \in Checks(r) /\ Kind[c] \in {"check", "address"}
              \/ c \in Of({"index"}, r) /\ Kind[c] = "index"
              \/ c \in Of({"not null"}, r) /\ Kind[c] = "not null"
           /\ Kind[c] = "address" => c \in Of({"address"}, r)
           /\ control[c] = "hollow" => Kind[c] = "address"
           /\ control[c] = "copied" => Kind[c] = "key"
           /\ control[c] = "reworded" => Kind[c] \in {"check", "address"}
  <1>1. Kind[c] \in {"trigger", "function", "key", "check", "address", "index", "not null"}
    BY DEF ControlsAreKnown, Kinds
  <1>2. control[c] \in States(Kind[c]) \cup {"absent"}
    BY DEF CatalogTypes
  <1>3. \A kind : /\ "hollow" \in States(kind) => kind = "address"
                  /\ "copied" \in States(kind) => kind = "key"
                  /\ "reworded" \in States(kind) => kind \in {"check", "address"}
    <2> SUFFICES ASSUME NEW kind
                 PROVE  /\ "hollow" \in States(kind) => kind = "address"
                        /\ "copied" \in States(kind) => kind = "key"
                        /\ "reworded" \in States(kind) => kind \in {"check", "address"}
      OBVIOUS
    <2> DEFINE more == CASE kind = "key" -> {"copied"}
                         [] kind \in {"check", "address"} -> {"reworded"}
                         [] OTHER -> {}
               hollow == IF kind = "address" THEN {"hollow"} ELSE {}
    <2>1. States(kind) = {"intact", "gone", "off", "weaker"} \cup more \cup hollow
      BY DEF States
    <2>2. CASE kind = "key"
      <3>1. more = {"copied"} /\ hollow = {}
        BY <2>2
      <3> HIDE DEF more, hollow
      <3> QED BY <2>1, <2>2, <3>1
    <2>3. CASE kind = "check"
      <3>1. more = {"reworded"} /\ hollow = {}
        BY <2>3
      <3> HIDE DEF more, hollow
      <3> QED BY <2>1, <2>3, <3>1
    <2>4. CASE kind = "address"
      <3>1. more = {"reworded"} /\ hollow = {"hollow"}
        BY <2>4
      <3> HIDE DEF more, hollow
      <3> QED BY <2>1, <2>4, <3>1
    <2>5. CASE kind \notin {"key", "check", "address"}
      <3>1. more = {} /\ hollow = {}
        BY <2>5
      <3> HIDE DEF more, hollow
      <3> QED BY <2>1, <3>1
    <2> QED BY <2>2, <2>3, <2>4, <2>5
  <1>4. \A kinds : Kind[c] \in kinds => c \in Of(kinds, r)
    BY DEF Of
  <1>5. control[c] \in {"hollow", "copied", "reworded"} => control[c] \in States(Kind[c])
    BY <1>2
  <1> QED BY <1>1, <1>3, <1>4, <1>5 DEF Checks

(* The checks that both looks make, and the expressions start-up accepts,   *)
(* leave no part of the schema out.                                         *)
LEMMA NothingLeftOut ==
    ASSUME ControlsAreKnown, CatalogTypes, NEW r \in Replica,
           \A k \in VerifySet(r) : Holds(r, k), Accepts(r, control)
    PROVE  SchemaIntact(r)
  <1>1. /\ MetadataHolds(r) /\ ConstraintsHold(r) /\ IndexesHold(r)
        /\ NotNullHolds(r)
    <2>1. /\ Check("metadata", NoC) \in VerifySet(r) /\ Check("constraints", NoC) \in VerifySet(r)
          /\ Check("indexes", NoC) \in VerifySet(r) /\ Check("not null", NoC) \in VerifySet(r)
      BY DEF VerifySet
    <2>2. Holds(r, Check("metadata", NoC)) => MetadataHolds(r)
      BY Named, HoldsMeans
    <2>3. Holds(r, Check("constraints", NoC)) => ConstraintsHold(r)
      BY Named, HoldsMeans
    <2>4. Holds(r, Check("indexes", NoC)) => IndexesHold(r)
      BY Named, HoldsMeans
    <2>5. Holds(r, Check("not null", NoC)) => NotNullHolds(r)
      BY Named, HoldsMeans
    <2> QED BY <2>1, <2>2, <2>3, <2>4, <2>5
  <1>2. ASSUME NEW c \in Of({"trigger"}, r) PROVE control[c] = "intact"
    <2>1. Check("trigger", c) \in VerifySet(r)
      BY <1>2 DEF VerifySet, ChecksOf
    <2>2. Check("trigger", c).name = "trigger" /\ Check("trigger", c).on = c
      BY Named
    <2>3. Holds(r, Check("trigger", c))
      BY <2>1
    <2> QED BY <2>2, <2>3, HoldsMeans DEF TriggerHolds
  <1>3. ASSUME NEW c \in Of({"function"}, r) PROVE control[c] = "intact"
    <2>1. Check("function", c) \in VerifySet(r)
      BY <1>3 DEF VerifySet, ChecksOf
    <2>2. Check("function", c).name = "function" /\ Check("function", c).on = c
      BY Named
    <2>3. Holds(r, Check("function", c))
      BY <2>1
    <2> QED BY <2>2, <2>3, HoldsMeans DEF FunctionHolds
  <1>4. ASSUME NEW c \in Control, Since[c] <= Required[r]
        PROVE  Enforced(c) \/ (Identity[r] = "projector" /\ control[c] = "hollow")
    <2>1. CASE c \in Of({"trigger"}, r) \cup Of({"function"}, r)
      BY <1>2, <1>3, <2>1 DEF Enforced
    <2>2. CASE c \in Of({"key"}, r)
      BY <1>1, <2>2 DEF ConstraintsHold, Enforced
    <2>3. CASE c \in Of({"not null"}, r)
      BY <1>1, <2>3 DEF NotNullHolds, Enforced
    <2>4. CASE c \in Expressions(r)
      <3>1. /\ control[c] \in {"intact", "reworded", "hollow"}
            /\ Identity[r] = "runtime" /\ Kind[c] = "address" => control[c] \in {"intact", "reworded"}
        BY <2>4 DEF Accepts
      <3>2. control[c] = "hollow" => Kind[c] = "address"
        BY <1>4, KindsOfControl
      <3>3. Identity[r] \in {"runtime", "projector"}
        BY DEF ControlsAreKnown
      <3> QED BY <3>1, <3>2, <3>3 DEF Enforced
    <2>5. \/ c \in Of({"trigger"}, r) \/ c \in Of({"function"}, r)
          \/ c \in Of({"key"}, r) \/ c \in Of({"not null"}, r)
          \/ c \in Checks(r) \/ c \in Of({"index"}, r)
      BY <1>4, KindsOfControl
    <2> QED BY <2>1, <2>2, <2>3, <2>4, <2>5 DEF Expressions
  <1>5. \A v \in 1 .. Level : applied[v] = IF v <= Required[r] THEN "ok" ELSE "absent"
    <2>1. DOMAIN applied = 1 .. Level
      BY DEF CatalogTypes
    <2> QED BY <1>1, <2>1 DEF MetadataHolds
  <1> QED BY <1>4, <1>5 DEF SchemaIntact

(* Start-up leaves no part out. *)
LEMMA AllHeld ==
    ASSUME ControlsAreKnown, CatalogTypes, NEW r \in Replica,
           \A k \in ConnectSet(r) : Holds(r, k)
    PROVE  Compatible(r) /\ Accepts(r, control)
  <1>1. ASSUME NEW c \in Expressions(r) PROVE control[c] \in {"intact", "reworded", "hollow"}
    <2>1. Check("definition", c) \in ConnectSet(r)
      BY <1>1 DEF ConnectSet, ChecksOf
    <2>2. Check("definition", c).name = "definition" /\ Check("definition", c).on = c
      BY Named
    <2>3. Holds(r, Check("definition", c))
      BY <2>1
    <2> QED BY <2>2, <2>3, HoldsMeans DEF DefinitionHolds
  <1>2. ASSUME NEW c \in Expressions(r), Identity[r] = "runtime", Kind[c] = "address"
        PROVE  control[c] \in {"intact", "reworded"}
    <2>1. c \in Of({"address"}, r)
      BY <1>2 DEF Expressions, Checks, Of
    <2>2. Check("probe", c) \in ConnectSet(r)
      BY <1>2, <2>1 DEF ConnectSet, ChecksOf
    <2>3. Check("probe", c).name = "probe" /\ Check("probe", c).on = c
      BY Named
    <2>4. Holds(r, Check("probe", c))
      BY <2>2
    <2> QED BY <2>3, <2>4, HoldsMeans DEF ProbeHolds
  <1>3. Accepts(r, control)
    BY <1>1, <1>2 DEF Accepts
  <1>4. \A k \in VerifySet(r) : Holds(r, k)
    BY DEF ConnectSet
  <1>5. SchemaIntact(r)
    BY <1>3, <1>4, NothingLeftOut
  <1>6. IdentityHolds(r)
    <2>1. Check("identity", NoC) \in ConnectSet(r)
      BY DEF ConnectSet
    <2>2. Check("identity", NoC).name = "identity"
      BY Named
    <2>3. Holds(r, Check("identity", NoC))
      BY <2>1
    <2> QED BY <2>2, <2>3, HoldsMeans
  <1> QED BY <1>3, <1>5, <1>6 DEF Compatible, IdentityHolds

(* Over the schema of its build start-up refuses nothing. *)
LEMMA NothingRefused ==
    ASSUME ControlsAreKnown, CatalogTypes, NEW r \in Replica, Compatible(r), NEW k \in ConnectSet(r)
    PROVE  Holds(r, k)
  <1>1. /\ \A v \in 1 .. Level : applied[v] = IF v <= Required[r] THEN "ok" ELSE "absent"
        /\ \A c \in Control : Since[c] <= Required[r] =>
              Enforced(c) \/ (Identity[r] = "projector" /\ control[c] = "hollow")
        /\ granted[Identity[r]] = "exact"
    BY DEF Compatible, SchemaIntact
  <1>2. \A kinds : \A c \in Of(kinds, r) : c \in Control /\ Kind[c] \in kinds /\ Since[c] <= Required[r]
    BY DEF Of
  <1>3. ASSUME NEW kinds, NEW c \in Of(kinds, r)
        PROVE  /\ control[c] \in {"intact", "copied", "reworded"} \/ (Identity[r] = "projector" /\ control[c] = "hollow")
               /\ control[c] = "hollow" => Kind[c] = "address"
               /\ control[c] = "copied" => Kind[c] = "key"
               /\ control[c] = "reworded" => Kind[c] \in {"check", "address"}
    <2>1. c \in Control /\ Since[c] <= Required[r]
      BY <1>2, <1>3
    <2> QED BY <1>1, <2>1, KindsOfControl DEF Enforced
  <1>4. ASSUME NEW kind \in {"trigger", "function", "not null", "index"}, NEW c \in Of({kind}, r)
        PROVE  control[c] = "intact"
    <2>1. Kind[c] = kind
      BY <1>4 DEF Of
    <2>2. /\ control[c] \in {"intact", "copied", "reworded"} \/ control[c] = "hollow"
          /\ control[c] = "hollow" => Kind[c] = "address"
          /\ control[c] = "copied" => Kind[c] = "key"
          /\ control[c] = "reworded" => Kind[c] \in {"check", "address"}
      BY <1>3, <1>4
    <2>3. Kind[c] \notin {"key", "check", "address"}
      BY <1>4, <2>1
    <2> QED BY <2>2, <2>3
  <1>5. ASSUME NEW c \in Checks(r)
        PROVE  control[c] \in {"intact", "reworded", "hollow"} /\ (control[c] = "hollow" => Identity[r] = "projector")
    <2>1. c \in Of({"check", "address"}, r) /\ Kind[c] \in {"check", "address"}
      BY <1>2, <1>5 DEF Checks
    <2> QED BY <1>3, <2>1
  <1>6. CASE k = Check("metadata", NoC)
    <2>1. k.name = "metadata"
      BY <1>6, Named
    <2>2. DOMAIN applied = 1 .. Level
      BY DEF CatalogTypes
    <2>3. MetadataHolds(r)
      BY <1>1, <2>2 DEF MetadataHolds
    <2> QED BY <2>1, <2>3, HoldsMeans
  <1>7. CASE k \in ChecksOf("trigger", Of({"trigger"}, r))
    <2>1. k.name = "trigger" /\ k.on \in Of({"trigger"}, r)
      BY <1>7, NamedEach
    <2> QED BY <1>4, <2>1, HoldsMeans DEF TriggerHolds
  <1>8. CASE k \in ChecksOf("function", Of({"function"}, r))
    <2>1. k.name = "function" /\ k.on \in Of({"function"}, r)
      BY <1>8, NamedEach
    <2> QED BY <1>4, <2>1, HoldsMeans DEF FunctionHolds
  <1>9. CASE k = Check("constraints", NoC)
    <2>1. k.name = "constraints"
      BY <1>9, Named
    <2>2. \A c \in Of({"key"}, r) : control[c] \in {"intact", "copied"}
      <3> SUFFICES ASSUME NEW c \in Of({"key"}, r) PROVE control[c] \in {"intact", "copied"}
        OBVIOUS
      <3>1. Kind[c] = "key"
        BY DEF Of
      <3>2. /\ control[c] \in {"intact", "copied", "reworded"} \/ control[c] = "hollow"
            /\ control[c] = "hollow" => Kind[c] = "address"
            /\ control[c] = "reworded" => Kind[c] \in {"check", "address"}
        BY <1>3
      <3> QED BY <3>1, <3>2
    <2>3. \A c \in Checks(r) : control[c] \notin {"absent", "gone", "off"}
      BY <1>5
    <2>4. ConstraintsHold(r)
      BY <2>2, <2>3 DEF ConstraintsHold
    <2> QED BY <2>1, <2>4, HoldsMeans
  <1>10. CASE k = Check("indexes", NoC)
    <2>1. k.name = "indexes"
      BY <1>10, Named
    <2>2. IndexesHold(r)
      BY <1>4 DEF IndexesHold
    <2> QED BY <2>1, <2>2, HoldsMeans
  <1>11. CASE k = Check("not null", NoC)
    <2>1. k.name = "not null"
      BY <1>11, Named
    <2>2. NotNullHolds(r)
      BY <1>4 DEF NotNullHolds
    <2> QED BY <2>1, <2>2, HoldsMeans
  <1>12. CASE k = Check("identity", NoC)
    <2>1. k.name = "identity"
      BY <1>12, Named
    <2> QED BY <1>1, <2>1, HoldsMeans DEF IdentityHolds
  <1>13. CASE k \in ChecksOf("definition", Expressions(r))
    <2>1. k.name = "definition" /\ k.on \in Expressions(r)
      BY <1>13, NamedEach
    <2>2. control[k.on] \in {"intact", "reworded", "hollow"}
      BY <1>4, <1>5, <2>1 DEF Expressions
    <2> QED BY <2>1, <2>2, HoldsMeans DEF DefinitionHolds
  <1>14. CASE Identity[r] = "runtime" /\ k \in ChecksOf("probe", Of({"address"}, r))
    <2>1. k.name = "probe" /\ k.on \in Of({"address"}, r)
      BY <1>14, NamedEach
    <2>2. k.on \in Checks(r)
      BY <2>1 DEF Checks, Of
    <2>3. control[k.on] \in {"intact", "reworded"}
      BY <1>5, <1>14, <2>2
    <2> QED BY <2>1, <2>3, HoldsMeans DEF ProbeHolds
  <1> QED BY <1>6, <1>7, <1>8, <1>9, <1>10, <1>11, <1>12, <1>13, <1>14 DEF ConnectSet, VerifySet

(* A look that is over, undisturbed. *)
LEMMA LookOver ==
    ASSUME SchemaInv, NEW r \in Replica, Busy(r), replica[r].todo = <<>>, replica[r].began = changes
    PROVE  /\ \A k \in LookingAt(r) : Stands(r, k)
           /\ \A c \in Expressions(r) : replica[r].seen[c] = control[c]
  <1>1. Elems(replica[r].todo) = {}
    BY NothingLooked DEF LooksAt
  <1>2. LookHolds(r)
    BY DEF SchemaInv, ReplicaHolds
  <1> QED BY <1>1, <1>2 DEF LookHolds, Expressions

(* Start-up that passed undisturbed. *)
LEMMA StartedRight ==
    ASSUME ControlsAreKnown, SchemaInv, NEW r \in Replica, replica[r].pc = "starting",
           replica[r].todo = <<>>, replica[r].began = changes
    PROVE  Compatible(r) /\ Accepts(r, replica[r].seen)
  <1>1. \A k \in ConnectSet(r) : Stands(r, k)
    BY LookOver DEF LookingAt, Busy
  <1>2. \A k \in ConnectSet(r) : Holds(r, k)
    BY <1>1, NoneCompared DEF Stands
  <1>3. Compatible(r) /\ Accepts(r, control)
    BY <1>2, AllHeld DEF SchemaInv
  <1>4. \A c \in Expressions(r) : replica[r].seen[c] = control[c]
    BY LookOver DEF Busy
  <1> QED BY <1>3, <1>4 DEF Accepts

(* A probe that passed undisturbed. *)
LEMMA ReadyRight ==
    ASSUME ControlsAreKnown, SchemaInv, NEW r \in Replica, replica[r].probe = "asked",
           replica[r].todo = <<>>, replica[r].began = changes, replica[r].quiet
    PROVE  SchemaIntact(r) /\ (Identity[r] = "projector" => Compatible(r))
  <1>1. replica[r].pc = "serving" /\ Accepts(r, replica[r].expected)
    BY DEF SchemaInv, ReplicaHolds, ReplicaTypes, ServesAccepted
  <1>2. \A k \in ReadySet(r) : Stands(r, k)
    BY <1>1, LookOver DEF LookingAt, Busy
  <1>3. \A k \in VerifySet(r) : Holds(r, k)
    BY <1>2, NoneCompared DEF Stands, ReadySet
  <1>4. \A c \in Expressions(r) : replica[r].expected[c] = control[c]
    <2>1. Check("fingerprints", NoC) \in ReadySet(r)
      BY DEF ReadySet
    <2>2. Check("fingerprints", NoC).name = "fingerprints"
      BY Named
    <2> QED BY <1>2, <2>1, <2>2 DEF Stands
  <1>5. Accepts(r, control)
    BY <1>1, <1>4 DEF Accepts
  <1>6. SchemaIntact(r)
    BY <1>3, <1>5, NothingLeftOut DEF SchemaInv
  <1>7. ASSUME Identity[r] = "projector" PROVE granted[Identity[r]] = "exact"
    <2>1. Check("identity", NoC) \in ReadySet(r)
      BY <1>7 DEF ReadySet
    <2>2. Check("identity", NoC).name = "identity"
      BY Named
    <2>3. Holds(r, Check("identity", NoC))
      BY <1>2, <2>1, <2>2 DEF Stands
    <2> QED BY <2>2, <2>3, HoldsMeans DEF IdentityHolds
  <1> QED BY <1>6, <1>7 DEF Compatible

(* Every check held. *)
LEMMA PassHolds ==
    ASSUME ControlsAreKnown, SchemaInv, NEW r \in Replica, Pass(r)
    PROVE  /\ ReplicaHolds(r)' /\ DOMAIN replica' = Replica
           /\ \A x \in Replica : x # r => replica'[x] = replica[x]
           /\ replica'[r].pc = "serving"
  <1>1. ReplicaTypes(r) /\ ServesAccepted(r) /\ DOMAIN replica = Replica
    BY DEF SchemaInv, ReplicaHolds
  <1>2. Busy(r) /\ replica[r].todo = <<>> /\ changes' = changes
    BY DEF Pass
  <1>3. /\ DOMAIN replica' = Replica /\ \A x \in Replica : x # r => replica'[x] = replica[x]
        /\ replica'[r] = IF replica[r].pc = "starting"
             THEN [replica[r] EXCEPT !.pc = "serving", !.expected = replica[r].seen,
                                     !.quiet = (replica[r].began = changes)]
             ELSE [replica[r] EXCEPT !.probe = "none", !.answer = "ready"]
    BY <1>1 DEF Pass
  <1>4. CASE replica[r].pc = "starting"
    <2> DEFINE q == (replica[r].began = changes)
               n == [replica[r] EXCEPT !.pc = "serving", !.expected = replica[r].seen, !.quiet = q]
    <2>1. replica'[r] = n
      BY <1>3, <1>4
    <2>2. q => Accepts(r, replica[r].seen)
      BY <1>2, <1>4, StartedRight
    <2> HIDE DEF q
    <2>3. /\ DOMAIN n = Fields /\ n.pc = "serving" /\ n.expected = replica[r].seen /\ n.quiet = q
          /\ n.todo = replica[r].todo /\ n.seen = replica[r].seen /\ n.began = replica[r].began
          /\ n.probe = replica[r].probe /\ n.answer = replica[r].answer
      BY <1>1 DEF ReplicaTypes, Fields
    <2> HIDE DEF n
    <2>4. /\ DOMAIN replica'[r] = Fields /\ replica'[r].pc = "serving" /\ replica'[r].expected = replica[r].seen
          /\ replica'[r].quiet = q /\ replica'[r].todo = <<>> /\ replica'[r].seen = replica[r].seen
          /\ replica'[r].began = replica[r].began /\ replica'[r].probe = replica[r].probe
          /\ replica'[r].answer = replica[r].answer
      BY <1>2, <2>1, <2>3
    <2>5. replica[r].probe # "asked"
      BY <1>1, <1>4 DEF ReplicaTypes
    <2>6. ~Busy(r)'
      BY <2>4, <2>5 DEF Busy
    <2>7. ReplicaTypes(r)'
      BY <1>1, <1>2, <2>4, <2>5 DEF ReplicaTypes
    <2>8. ServesAccepted(r)'
      <3>1. q => Accepts(r, replica'[r].expected)
        BY <2>2, <2>4
      <3> QED BY <2>4, <3>1 DEF ServesAccepted, Accepts
    <2> QED BY <1>3, <2>4, <2>6, <2>7, <2>8 DEF ReplicaHolds, LookHolds
  <1>5. CASE replica[r].pc # "starting"
    <2>1. /\ DOMAIN replica'[r] = Fields /\ replica'[r].probe = "none" /\ replica'[r].answer = "ready"
          /\ replica'[r].pc = replica[r].pc /\ replica'[r].todo = replica[r].todo
          /\ replica'[r].began = replica[r].began /\ replica'[r].seen = replica[r].seen
          /\ replica'[r].expected = replica[r].expected /\ replica'[r].quiet = replica[r].quiet
      BY <1>1, <1>3, <1>5 DEF ReplicaTypes, Fields
    <2>2. replica[r].pc = "serving"
      BY <1>1, <1>2, <1>5 DEF ReplicaTypes, Busy
    <2>3. ~Busy(r)'
      BY <1>5, <2>1 DEF Busy
    <2>4. ReplicaTypes(r)'
      BY <1>1, <1>2, <2>1 DEF ReplicaTypes
    <2>5. ServesAccepted(r)'
      BY <1>1, <2>1 DEF ServesAccepted, Accepts
    <2> QED BY <1>3, <2>1, <2>2, <2>3, <2>4, <2>5 DEF ReplicaHolds, LookHolds
  <1> QED BY <1>4, <1>5

(* One process takes a step of its own. *)
OwnStep(r) == ReplicaStep(r) \/ Unreachable(r) \/ Stop(r)

(* A step of one process leaves the catalog alone. *)
LEMMA OwnStepKeeps ==
    ASSUME NEW r, OwnStep(r)
    PROVE  UNCHANGED <<applied, control, granted, changes>>
  BY DEF OwnStep, ReplicaStep, Start, Probe, NextCheck, Pass,
         Unreachable, Stop, catalog

(* A step of one process, and what it leaves of that process and of the     *)
(* others.                                                                  *)
LEMMA OwnStepHolds ==
    ASSUME ControlsAreKnown, SchemaInv, NEW r \in Replica, OwnStep(r)
    PROVE  /\ ReplicaHolds(r)' /\ DOMAIN replica' = Replica
           /\ \A x \in Replica : x # r => replica'[x] = replica[x]
  <1>1. UNCHANGED <<applied, control, granted, changes>>
    BY OwnStepKeeps
  <1>2. CASE Start(r)
    BY <1>2, StartHolds
  <1>3. CASE Probe(r)
    BY <1>3, ProbeBeginsHolds
  <1>4. CASE NextCheck(r)
    <2>1. CASE Holds(r, Head(replica[r].todo))
      <3>1. /\ Busy(r) /\ replica[r].todo # <<>>
            /\ replica' = [replica EXCEPT ![r].todo = Tail(@),
                              ![r].seen = Fingerprints(r, Head(replica[r].todo).name)]
        BY <1>4, <2>1 DEF NextCheck
      <3> QED BY <1>1, <2>1, <3>1, CheckHolds
    <2>2. CASE ~Holds(r, Head(replica[r].todo))
      <3>1. Refuse(r)
        BY <1>4, <2>2 DEF NextCheck
      <3> QED BY <1>1, <3>1, RefusalHolds
    <2> QED BY <2>1, <2>2
  <1>5. CASE Pass(r)
    BY <1>5, PassHolds
  <1>6. CASE Unreachable(r)
    <2>1. Refuse(r)
      BY <1>6 DEF Unreachable
    <2> QED BY <1>1, <2>1, RefusalHolds
  <1>7. CASE Stop(r)
    <2>1. /\ replica'[r] = Down(r) /\ DOMAIN replica' = Replica
          /\ \A x \in Replica : x # r => replica'[x] = replica[x]
      BY <1>7 DEF Stop, SchemaInv
    <2> QED BY <1>1, <2>1, DownHolds
  <1> QED BY <1>2, <1>3, <1>4, <1>5, <1>6, <1>7 DEF OwnStep, ReplicaStep

(* The bounds of the model are numbers. *)
BoundsAreNumbers == MaxChanges \in Nat /\ MaxFaults \in Nat /\ Level \in Nat

(* The owner's statements leave a catalog. *)
LEMMA OwnerKeepsTypes ==
    ASSUME ControlsAreKnown, BoundsAreNumbers, CatalogTypes, Owner
    PROVE  CatalogTypes' /\ replica' = replica /\ changes' = changes + 1
  <1>1. Change
    BY DEF Owner, Migrate, Grant, Alter
  <1>2. replica' = replica /\ changes' = changes + 1 /\ faults' = faults
    BY <1>1 DEF Change
  <1>3. /\ changes' \in Nat /\ changes' <= MaxChanges
        /\ faults' \in Nat /\ faults' <= MaxFaults
    BY SMT, <1>1, <1>2 DEF Change, CatalogTypes, BoundsAreNumbers
  <1>4. \A kind : {"intact", "gone", "off", "weaker"} \subseteq States(kind)
    BY DEF States
  <1>5. /\ applied' \in [1 .. Level -> RowStates]
        /\ DOMAIN control' = Control
        /\ \A c \in Control : control'[c] \in States(Kind[c]) \cup {"absent"}
        /\ granted' \in [{"runtime", "projector"} -> GrantStates]
    <2>1. CASE Migrate
      <3>1. PICK v \in 1 .. Level :
              /\ applied' = [applied EXCEPT ![v] = "ok"]
              /\ control' = [c \in Control |-> IF Since[c] = v THEN "intact" ELSE control[c]]
        BY <2>1 DEF Migrate
      <3>2. granted' = [i \in DOMAIN granted |-> IF granted[i] = "none" THEN "none" ELSE "short"]
        BY <2>1 DEF Migrate
      <3>3. applied' \in [1 .. Level -> RowStates]
        BY <3>1 DEF CatalogTypes, RowStates
      <3>4. DOMAIN control' = Control
        BY <3>1
      <3>5. ASSUME NEW c \in Control PROVE control'[c] \in States(Kind[c]) \cup {"absent"}
        <4>1. control'[c] = IF Since[c] = v THEN "intact" ELSE control[c]
          BY <3>1
        <4>2. control[c] \in States(Kind[c]) \cup {"absent"}
          BY DEF CatalogTypes
        <4> QED BY <1>4, <4>1, <4>2
      <3>6. granted' \in [{"runtime", "projector"} -> GrantStates]
        BY <3>2 DEF CatalogTypes, GrantStates
      <3> QED BY <3>3, <3>4, <3>5, <3>6
    <2>2. ASSUME NEW i \in DOMAIN granted, Grant(i)
          PROVE  /\ granted' \in [{"runtime", "projector"} -> GrantStates]
                 /\ applied' = applied /\ control' = control
      BY <2>2 DEF Grant, CatalogTypes, GrantStates
    <2>3. CASE Alter
      <3>1. CASE \E c \in Control : /\ \E s \in States(Kind[c]) \ {control[c]} : control' = [control EXCEPT ![c] = s]
                                    /\ UNCHANGED <<applied, granted>>
        <4>0. PICK c \in Control : \E s \in States(Kind[c]) : control' = [control EXCEPT ![c] = s]
          BY <3>1
        <4>1. PICK s \in States(Kind[c]) : control' = [control EXCEPT ![c] = s]
          BY <4>0
        <4>2. DOMAIN control = Control /\ \A x \in Control : control[x] \in States(Kind[x]) \cup {"absent"}
          BY DEF CatalogTypes
        <4>3. DOMAIN control' = Control /\ \A x \in Control : control'[x] = IF x = c THEN s ELSE control[x]
          BY <4>1, <4>2
        <4>4. \A x \in Control : control'[x] \in States(Kind[x]) \cup {"absent"}
          BY <4>1, <4>2, <4>3
        <4>5. applied' = applied /\ granted' = granted
          BY <3>1
        <4> QED BY <4>3, <4>4, <4>5 DEF CatalogTypes
      <3>2. CASE \E v \in 1 .. Level : /\ \E s \in RowStates \ {applied[v]} : applied' = [applied EXCEPT ![v] = s]
                                       /\ UNCHANGED <<control, granted>>
        <4>1. PICK v \in 1 .. Level, s \in RowStates : applied' = [applied EXCEPT ![v] = s]
          BY <3>2
        <4>2. applied' \in [1 .. Level -> RowStates]
          BY <4>1 DEF CatalogTypes
        <4>3. control' = control /\ granted' = granted
          BY <3>2
        <4> QED BY <4>2, <4>3 DEF CatalogTypes
      <3>3. CASE \E i \in DOMAIN granted : /\ \E s \in GrantStates \ {granted[i]} : granted' = [granted EXCEPT ![i] = s]
                                           /\ UNCHANGED <<applied, control>>
        <4>1. PICK i \in DOMAIN granted, s \in GrantStates : granted' = [granted EXCEPT ![i] = s]
          BY <3>3
        <4>2. granted' \in [{"runtime", "projector"} -> GrantStates]
          BY <4>1 DEF CatalogTypes
        <4>3. applied' = applied /\ control' = control
          BY <3>3
        <4> QED BY <4>2, <4>3 DEF CatalogTypes
      <3> QED BY <2>3, <3>1, <3>2, <3>3 DEF Alter
    <2>4. CASE \E i \in DOMAIN granted : Grant(i)
      BY <2>2, <2>4 DEF CatalogTypes
    <2> QED BY <2>1, <2>3, <2>4 DEF Owner
  <1> QED BY <1>2, <1>3, <1>5 DEF CatalogTypes

(* At the start every process is down. *)
LEMMA SchemaInitial == ControlsAreKnown /\ BoundsAreNumbers /\ Init => SchemaInv
  <1> SUFFICES ASSUME ControlsAreKnown, BoundsAreNumbers, Init PROVE SchemaInv
    OBVIOUS
  <1>1. PICK n \in 0 .. Level :
          /\ applied = [v \in 1 .. Level |-> IF v <= n THEN "ok" ELSE "absent"]
          /\ control = [c \in Control |-> IF Since[c] <= n THEN "intact" ELSE "absent"]
          /\ \E g \in IF n = 0 THEN {"none"} ELSE {"none", "exact"} :
                granted = [i \in {"runtime", "projector"} |-> g]
    BY DEF Init
  <1>2. changes = 0 /\ faults = 0 /\ replica = [r \in Replica |-> Down(r)]
    BY DEF Init
  <1>3. CatalogTypes
    <2>1. applied \in [1 .. Level -> RowStates]
      BY <1>1 DEF RowStates
    <2>2. ASSUME NEW c \in Control PROVE control[c] \in States(Kind[c]) \cup {"absent"}
      <3>1. control[c] = IF Since[c] <= n THEN "intact" ELSE "absent"
        BY <1>1
      <3> QED BY <3>1 DEF States
    <2>3. DOMAIN control = Control
      BY <1>1
    <2>4. PICK g \in {"none", "exact"} : granted = [i \in {"runtime", "projector"} |-> g]
      BY <1>1
    <2>5. granted \in [{"runtime", "projector"} -> GrantStates]
      BY <2>4 DEF GrantStates
    <2>6. /\ changes \in Nat /\ changes <= MaxChanges /\ faults \in Nat /\ faults <= MaxFaults
      BY SMT, <1>2 DEF BoundsAreNumbers
    <2> QED BY <2>1, <2>2, <2>3, <2>5, <2>6 DEF CatalogTypes
  <1>4. ASSUME NEW r \in Replica PROVE ReplicaHolds(r)
    <2>1. replica[r] = Down(r)
      BY <1>2
    <2>2. /\ DOMAIN replica[r] = Fields /\ replica[r].pc = "down" /\ replica[r].todo = <<>>
          /\ replica[r].probe = "none" /\ replica[r].answer = "none" /\ replica[r].began = 0
          /\ DOMAIN replica[r].seen = Expressions(r)
      BY <2>1, DownIs
    <2>3. ~Busy(r)
      BY <2>2 DEF Busy
    <2>4. 0 \in Nat /\ 0 <= 0
      BY SMT
    <2>5. ReplicaTypes(r)
      BY <1>2, <2>2, <2>4 DEF ReplicaTypes
    <2> QED BY <2>2, <2>3, <2>5 DEF ReplicaHolds, LookHolds, ServesAccepted
  <1> QED BY <1>2, <1>3, <1>4 DEF SchemaInv

(* A step is the owner's or one process's own. *)
LEMMA WhoseStep == Next => Owner \/ \E r \in Replica : OwnStep(r)
  BY DEF Next, OwnStep

(* No statement of the owner and no step of a process disturbs it. *)
LEMMA SchemaInductive ==
    ControlsAreKnown /\ BoundsAreNumbers /\ SchemaInv /\ [Next]_(vars) => SchemaInv'
  <1> SUFFICES ASSUME ControlsAreKnown, BoundsAreNumbers, SchemaInv, [Next]_(vars)
               PROVE  SchemaInv'
    OBVIOUS
  <1>1. CASE Owner
    <2>1. CatalogTypes' /\ replica' = replica /\ changes' = changes + 1
      BY <1>1, OwnerKeepsTypes DEF SchemaInv
    <2>2. \A r \in Replica : ReplicaHolds(r)'
      BY <2>1, OwnerInterferes
    <2> QED BY <2>1, <2>2 DEF SchemaInv
  <1>2. ASSUME NEW r \in Replica, OwnStep(r) PROVE SchemaInv'
    <2>1. UNCHANGED <<applied, control, granted, changes>>
      BY <1>2, OwnStepKeeps
    <2>2. /\ ReplicaHolds(r)' /\ DOMAIN replica' = Replica
          /\ \A x \in Replica : x # r => replica'[x] = replica[x]
      BY <1>2, OwnStepHolds
    <2>3. \A x \in Replica : ReplicaHolds(x)'
      BY <2>1, <2>2, LeftAlone
    <2>4. faults' = faults \/ (faults < MaxFaults /\ faults' = faults + 1)
      BY <1>2 DEF OwnStep, ReplicaStep, Start, Probe, NextCheck, Pass,
                  Unreachable, Stop, Fault
    <2>5. faults' \in Nat /\ faults' <= MaxFaults
      BY SMT, <2>4 DEF SchemaInv, CatalogTypes, BoundsAreNumbers
    <2>6. CatalogTypes'
      BY <2>1, <2>5 DEF SchemaInv, CatalogTypes
    <2> QED BY <2>2, <2>3, <2>6 DEF SchemaInv
  <1>3. CASE UNCHANGED vars
    <2>1. /\ UNCHANGED <<applied, control, granted, changes>> /\ faults' = faults /\ replica' = replica
      BY <1>3 DEF vars
    <2>2. \A x \in Replica : ReplicaHolds(x)'
      BY <2>1, LeftAlone
    <2>3. CatalogTypes'
      BY <2>1 DEF SchemaInv, CatalogTypes
    <2> QED BY <2>1, <2>2, <2>3 DEF SchemaInv
  <1> QED BY <1>1, <1>2, <1>3, WhoseStep

(* Only checks that all held let a process serve, or say that it is ready.  *)
LEMMA OnlyByPassing ==
    ASSUME ControlsAreKnown, SchemaInv, NEW r \in Replica, Next,
           \/ replica[r].pc = "starting" /\ replica'[r].pc = "serving"
           \/ replica[r].probe = "asked" /\ replica'[r].answer = "ready"
    PROVE  Pass(r)
  <1>1. ReplicaTypes(r) /\ DOMAIN replica = Replica
    BY DEF SchemaInv, ReplicaHolds
  <1>2. replica[r].probe = "asked" => replica[r].pc = "serving" /\ replica[r].answer = "none"
    BY <1>1 DEF ReplicaTypes
  <1>3. replica'[r] # replica[r]
    BY <1>2
  <1>4. ~Owner
    BY <1>3 DEF Owner, Migrate, Grant, Alter, Change
  <1>5. OwnStep(r)
    <2>1. PICK x \in Replica : OwnStep(x)
      BY <1>4, WhoseStep
    <2>2. x = r
      BY <1>3, <2>1, OwnStepHolds
    <2> QED BY <2>1, <2>2
  <1>6. changes' = changes
    BY <1>5, OwnStepKeeps
  <1>7. ~Refuse(r)
    BY <1>2, <1>6, RefusalHolds
  <1>8. ~Start(r) /\ ~Probe(r)
    <2>1. ~Start(r)
      BY <1>2 DEF Start
    <2>2. ~Probe(r)
      BY DEF Probe
    <2> QED BY <2>1, <2>2
  <1>9. ~NextCheck(r)
    <2> SUFFICES ASSUME NextCheck(r) PROVE FALSE
      OBVIOUS
    <2>1. Holds(r, Head(replica[r].todo))
      BY <1>7 DEF NextCheck
    <2>2. /\ Busy(r) /\ replica[r].todo # <<>>
          /\ replica' = [replica EXCEPT ![r].todo = Tail(@),
                            ![r].seen = Fingerprints(r, Head(replica[r].todo).name)]
      BY <2>1 DEF NextCheck
    <2>3. UNCHANGED <<applied, control, granted, changes>>
      BY <1>5, OwnStepKeeps
    <2>4. replica'[r].pc = replica[r].pc /\ replica'[r].answer = replica[r].answer
      BY <2>1, <2>2, <2>3, CheckHolds
    <2> QED BY <1>2, <2>4
  <1>10. ~Unreachable(r)
    BY <1>7 DEF Unreachable
  <1>11. ~Stop(r)
    <2> SUFFICES ASSUME Stop(r) PROVE FALSE
      OBVIOUS
    <2>1. replica'[r] = Down(r)
      BY <1>1 DEF Stop
    <2>2. replica'[r].pc = "down" /\ replica'[r].answer = "none"
      BY <2>1, DownIs
    <2> QED BY <2>2
  <1> QED BY <1>5, <1>8, <1>9, <1>10, <1>11 DEF OwnStep, ReplicaStep

(* Start-up refuses only what is wrong. *)
LEMMA RefusesOnlyWrong ==
    ASSUME ControlsAreKnown, SchemaInv, NEW r \in Replica, NextCheck(r),
           replica[r].pc = "starting", replica'[r].pc = "down"
    PROVE  ~Compatible(r)
  <1> SUFFICES ASSUME Compatible(r) PROVE FALSE
    OBVIOUS
  <1> DEFINE k == Head(replica[r].todo)
  <1>1. Busy(r) /\ replica[r].todo # <<>> /\ UNCHANGED <<applied, control, granted, changes>>
    BY DEF NextCheck, catalog
  <1>2. LookHolds(r)
    BY DEF SchemaInv, ReplicaHolds
  <1>3. replica[r].todo \in Seq(AnyCheck) /\ Elems(replica[r].todo) \subseteq ConnectSet(r)
    BY <1>1, <1>2 DEF LookHolds, LookingAt
  <1>4. k \in Elems(replica[r].todo)
    BY <1>1, <1>3, RestHas
  <1>5. Holds(r, k)
    BY <1>3, <1>4, NothingRefused DEF SchemaInv
  <1>6. replica' = [replica EXCEPT ![r].todo = Tail(@), ![r].seen = Fingerprints(r, k.name)]
    BY <1>5 DEF NextCheck
  <1>7. replica'[r].pc = replica[r].pc
    BY <1>1, <1>5, <1>6, CheckHolds
  <1> QED BY <1>7

(* The invariant, in every state. *)
LEMMA SchemaAlways ==
    ASSUME ControlsAreKnown, BoundsAreNumbers
    PROVE  Spec => []SchemaInv
  <1>1. Init => SchemaInv
    BY SchemaInitial
  <1>2. SchemaInv /\ [Next]_(vars) => SchemaInv'
    BY SchemaInductive
  <1> QED BY <1>1, <1>2, PTL DEF Spec

(* schema.rs, connect_with, ready: whatever the owner does, the catalog is  *)
(* one the checks know of, and a process that is not looking at it has      *)
(* nothing left to look at.                                                 *)
THEOREM SchemaAlwaysTyped ==
    ASSUME ControlsAreKnown, BoundsAreNumbers
    PROVE  Spec => []TypeOK
  <1>1. SchemaInv => TypeOK
    <2> SUFFICES ASSUME SchemaInv PROVE TypeOK
      OBVIOUS
    <2>1. changes \in 0 .. MaxChanges /\ faults \in 0 .. MaxFaults
      BY SMT DEF SchemaInv, CatalogTypes, BoundsAreNumbers
    <2>2. \A r \in Replica : /\ replica[r].pc \in {"down", "starting", "serving"}
                             /\ replica[r].answer \in {"none", "ready", "not ready"}
                             /\ ~Busy(r) => replica[r].todo = <<>>
      BY DEF SchemaInv, ReplicaHolds, ReplicaTypes
    <2> DEFINE A == applied \in [1 .. Level -> RowStates]
               G == granted \in [{"runtime", "projector"} -> GrantStates]
               C == \A c \in Control : control[c] \in States(Kind[c]) \cup {"absent"}
               B == changes \in 0 .. MaxChanges /\ faults \in 0 .. MaxFaults
               R == \A r \in Replica : /\ replica[r].pc \in {"down", "starting", "serving"}
                                       /\ replica[r].answer \in {"none", "ready", "not ready"}
                                       /\ ~Busy(r) => replica[r].todo = <<>>
    <2>3. A /\ C /\ G /\ B /\ R
      <3>1. A
        BY DEF SchemaInv, CatalogTypes
      <3>2. C
        BY DEF SchemaInv, CatalogTypes
      <3>3. G
        BY DEF SchemaInv, CatalogTypes
      <3>4. B
        BY <2>1
      <3>5. R
        BY <2>2
      <3> HIDE DEF A, C, G, B, R
      <3> QED BY <3>1, <3>2, <3>3, <3>4, <3>5
    <2>4. TypeOK <=> A /\ C /\ G /\ B /\ R
      BY SMT DEF TypeOK
    <2> HIDE DEF A, C, G, B, R
    <2> QED BY <2>3, <2>4
  <1> QED BY <1>1, SchemaAlways, PTL

(* connect_with: a start-up that the owner does not disturb serves exactly  *)
(* when every migration, guard, constraint and privilege is what its build  *)
(* requires, however many controls there are and whichever process it is.   *)
THEOREM StartUpAlwaysExact ==
    ASSUME ControlsAreKnown, BoundsAreNumbers
    PROVE  Spec => [][StartUpIsExact]_(vars)
  <1>1. SchemaInv /\ [Next]_(vars) => [StartUpIsExact]_(vars)
    <2> SUFFICES ASSUME SchemaInv, Next PROVE StartUpIsExact
      OBVIOUS
    <2> SUFFICES ASSUME NEW r \in Replica, replica[r].pc = "starting", replica[r].began = changes
                 PROVE  /\ replica'[r].pc = "serving" => Compatible(r)
                        /\ NextCheck(r) /\ replica'[r].pc = "down" => ~Compatible(r)
      BY DEF StartUpIsExact, Undisturbed
    <2>1. ASSUME replica'[r].pc = "serving" PROVE Compatible(r)
      <3>1. Pass(r)
        BY <2>1, OnlyByPassing
      <3>2. replica[r].todo = <<>>
        BY <3>1 DEF Pass
      <3> QED BY <3>2, StartedRight
    <2>2. ASSUME NextCheck(r), replica'[r].pc = "down" PROVE ~Compatible(r)
      BY <2>2, RefusesOnlyWrong
    <2> QED BY <2>1, <2>2
  <1> QED BY <1>1, SchemaAlways, PTL DEF Spec

(* ready: a process that started undisturbed says that it is ready only     *)
(* over the schema its build requires, though a probe reads no definition:  *)
(* the fingerprints stand for the definitions that start-up validated.      *)
THEOREM ReadyAlwaysSound ==
    ASSUME ControlsAreKnown, BoundsAreNumbers
    PROVE  Spec => [][ReadyIsSound]_(vars)
  <1>1. SchemaInv /\ [Next]_(vars) => [ReadyIsSound]_(vars)
    <2> SUFFICES ASSUME SchemaInv, Next PROVE ReadyIsSound
      OBVIOUS
    <2> SUFFICES ASSUME NEW r \in Replica, replica[r].probe = "asked", replica'[r].answer = "ready",
                        replica[r].began = changes, replica[r].quiet
                 PROVE  SchemaIntact(r) /\ (Identity[r] = "projector" => Compatible(r))
      BY DEF ReadyIsSound, Answers, Undisturbed
    <2>1. Pass(r)
      BY OnlyByPassing
    <2>2. replica[r].todo = <<>>
      BY <2>1 DEF Pass
    <2> QED BY <2>2, ReadyRight
  <1> QED BY <1>1, SchemaAlways, PTL DEF Spec
=============================================================================

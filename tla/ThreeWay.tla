-------------------------------- MODULE ThreeWay --------------------------------
(***************************************************************************)
(* The three-way structural merge (crates/ledger-merge/src/lib.rs):        *)
(* three_way_reported takes the slots in key order, one step a slot.  The  *)
(* report of the conflicts is in ConflictReport.                           *)
(***************************************************************************)
EXTENDS Naturals

CONSTANTS Quad, Key, KeyOf

(* Every quad has a structural key; keys are ordered.                       *)
ASSUME KeyAssumption == Key \subseteq Nat /\ KeyOf \in [Quad -> Key]

Strategy == {"abort", "take-target", "take-source", "union"}

VARIABLES base, target, source, strategy,  \* the arguments
          slots,                           \* keys not yet merged
          merged,
          conflicting                      \* keys counted in conflict_count

mergeVars == <<base, target, source, strategy, slots, merged, conflicting>>

Slot(state, k) == {q \in state : KeyOf[q] = k}

(* Both sides changed the slot, differently.                                *)
Conflicts(b, t, s, k) ==
    /\ Slot(t, k) # Slot(b, k)
    /\ Slot(t, k) # Slot(s, k)
    /\ Slot(s, k) # Slot(b, k)

Resolve(t, s, k, how) ==
    CASE how = "abort" -> {}
      [] how = "take-target" -> Slot(t, k)
      [] how = "take-source" -> Slot(s, k)
      [] how = "union" -> Slot(t, k) \cup Slot(s, k)

UnionOfChanges(b, t, s, k, how) ==
    IF Slot(s, k) = Slot(b, k) THEN Slot(t, k) ELSE Slot(t, k) \cup Slot(s, k)
SlotResult(b, t, s, k, how) ==
    IF Slot(t, k) = Slot(b, k) \/ Slot(t, k) = Slot(s, k) THEN Slot(s, k)
    ELSE IF Slot(s, k) = Slot(b, k) THEN Slot(t, k)
    ELSE Resolve(t, s, k, how)

MergeInit == /\ base \in SUBSET Quad /\ target \in SUBSET Quad /\ source \in SUBSET Quad
        /\ strategy \in Strategy
        /\ slots = {KeyOf[q] : q \in base \cup target \cup source}
        /\ merged = {}
        /\ conflicting = {}

MergeSlot(k) ==
    /\ k \in slots
    /\ \A j \in slots : k <= j
    /\ slots' = slots \ {k}
    /\ merged' = merged \cup SlotResult(base, target, source, k, strategy)
    /\ conflicting' = IF Conflicts(base, target, source, k) THEN conflicting \cup {k} ELSE conflicting
    /\ UNCHANGED <<base, target, source, strategy>>

MergeNext == \E k \in slots : MergeSlot(k)

MergeSpec == MergeInit /\ [][MergeNext]_mergeVars

Done == slots = {}

(* The merged state is returned unless the strategy is abort and something  *)
(* conflicts.                                                               *)
Returned == Done /\ (strategy # "abort" \/ conflicting = {})

(* creates_nothing: diff(target, merged) and diff(base, source) are empty.  *)
IsNoChange(t, result) == t \ result = {} /\ result \ t = {}
CreatesNothing(b, t, s, result) == IsNoChange(t, result) /\ b \ s = {} /\ s \ b = {}

-----------------------------------------------------------------------------
(* A merge without conflicts is the target with both sides' changes: what   *)
(* the source removed is gone, what it added is there.  Exchanging source   *)
(* and target does not change it.                                           *)
CleanMergeIsBothChanges ==
    Done /\ conflicting = {} =>
        /\ merged = (target \ (base \ source)) \cup (source \ base)
        /\ merged = (source \ (base \ target)) \cup (target \ base)

(* Whatever the strategy, a returned state keeps what both sides have and   *)
(* holds nothing that neither has: a merge neither loses agreement nor      *)
(* resurrects what both removed.                                            *)
BetweenTheSides ==
    Returned => target \cap source \subseteq merged /\ merged \subseteq target \cup source

(* A merge creates nothing exactly when the source changed nothing, so a    *)
(* source that was merged (and is the base from then on) merges to nothing; *)
(* and a merge from the target's own state is the source, without conflict. *)
RepeatCreatesNothing ==
    Done => /\ CreatesNothing(base, target, source, merged) <=> source = base
            /\ base = target => conflicting = {} /\ merged = source

(* three_way_reported and creates_nothing: what a merge returns is exactly  *)
(* what the two sides changed, whatever slots it visits in whatever order.  *)
MergeIsExact == CleanMergeIsBothChanges /\ BetweenTheSides /\ RepeatCreatesNothing
=================================================================================

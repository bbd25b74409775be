------------------------------- MODULE StateDelta -------------------------------
(***************************************************************************)
(* RDF states and patches (crates/ledger-rdf/src): Patch::new, apply_patch,*)
(* effective_delta, diff and to_patch.  A state is a set of quads; a patch *)
(* is a set of operations, the sorted vector of the code without its order.*)
(***************************************************************************)
EXTENDS FiniteSets

CONSTANT Quad

Operation == [kind : {"add", "delete"}, quad : Quad]
Add(q) == [kind |-> "add", quad |-> q]
Delete(q) == [kind |-> "delete", quad |-> q]

Adds(patch) == {q \in Quad : Add(q) \in patch}
Deletes(patch) == {q \in Quad : Delete(q) \in patch}

(* Patch::new refuses a quad that is both added and deleted; repetitions of *)
(* an operation are dropped.                                                *)
IsPatch(patch) == patch \subseteq Operation /\ Adds(patch) \cap Deletes(patch) = {}

(* apply_patch: the operations in their order, all adds before all deletes. *)
Apply(start, patch) == (start \cup Adds(patch)) \ Deletes(patch)

(* effective_delta keeps the operations that change the base.               *)
KeepAdds(start, patch) == {Add(q) : q \in Adds(patch) \ start}
Effective(start, patch) ==
    {Add(q) : q \in Adds(patch) \ start} \cup {Delete(q) : q \in Deletes(patch) \cap start}

(* What it answers: an error, or the patch that is persisted.               *)
EffectiveDelta(start, patch, rule) ==
    IF rule = "strict" /\ ~(Deletes(patch) \subseteq start)
    THEN [error |-> "base mismatch", patch |-> {}]
    ELSE IF Effective(start, patch) = {}
    THEN [error |-> "no effective change", patch |-> {}]
    ELSE [error |-> "none", patch |-> Effective(start, patch)]

(* diff(a, b) and StateDiff::to_patch.                                      *)
DiffToPatch(a, b) == {Delete(q) : q \in a \ b} \cup {Add(q) : q \in b \ a}

-----------------------------------------------------------------------------
(* A request against a base, reduced, persisted and replayed.               *)
VARIABLES base, requested, policy, answer, state

vars == <<base, requested, policy, answer, state>>

Unanswered == [error |-> "pending", patch |-> {}]

Init == /\ base \in SUBSET Quad
        /\ \E added, deleted \in SUBSET Quad :
              /\ added \cap deleted = {}
              /\ requested = {Add(q) : q \in added} \cup {Delete(q) : q \in deleted}
        /\ policy \in {"strict", "permissive"}
        /\ answer = Unanswered
        /\ state = base

Reduce == /\ answer = Unanswered
          /\ answer' = EffectiveDelta(base, requested, policy)
          /\ UNCHANGED <<base, requested, policy, state>>

(* Reconstruction replays what was persisted, any number of times.          *)
Replay == /\ answer.error = "none"
          /\ state' = Apply(state, answer.patch)
          /\ UNCHANGED <<base, requested, policy, answer>>

Next == Reduce \/ Replay

Spec == Init /\ [][Next]_vars

(* The persisted patch means what was requested: from the base it leads to  *)
(* the state the request describes, and replaying it again changes nothing. *)
DeltaMeansTheRequest ==
    answer.error = "none" => state \in {base, Apply(base, requested)}

(* What becomes history is a normalized patch of real changes only, every   *)
(* operation of it, so an accepted commit never repeats its parent's state; *)
(* a strict request is persisted as it stands but for adds already there.   *)
HistoryIsEffective ==
    answer.error = "none" =>
        /\ IsPatch(answer.patch)
        /\ answer.patch # {}
        /\ Adds(answer.patch) \cap base = {} /\ Deletes(answer.patch) \subseteq base
        /\ Apply(base, answer.patch) # base
        /\ policy = "strict" => Deletes(answer.patch) = Deletes(requested)

(* The patch of a diff leads exactly from one state to the other, and the   *)
(* strict policy accepts it unchanged (diff, to_patch; merges persist it).  *)
DiffIsExact ==
    LET goal == Apply(base, requested)
        patch == DiffToPatch(base, goal)
    IN /\ Apply(base, patch) = goal
       /\ IsPatch(patch)
       /\ goal # base => EffectiveDelta(base, patch, "strict") = [error |-> "none", patch |-> patch]
=================================================================================

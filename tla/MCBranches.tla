------------------------------- MODULE MCBranches -------------------------------
(***************************************************************************)
(* `main' and one more branch name.  In one instance create, delete and     *)
(* restore race prepare and accept (MCBranches.cfg).  In the other the      *)
(* branch requires a validated acceptance, and validation records, by a     *)
(* trusted and another service in two environments, race the decisions that *)
(* cite them (MCValidation.cfg).                                            *)
(***************************************************************************)
EXTENDS Verify, TLC

CONSTANTS t1, t2, p1, p2, a1, a2, c1, c2, d1, d2, v1, r1, alice, sculpin, other, e1, e2

MCActor == {{alice}}

BranchPolicy == {NoPolicy}
BranchKey == [prepare |-> {p1, p2}, accept |-> {a1, a2}, branch_create |-> {c1, c2},
              branch_delete |-> {d1, d2}, branch_restore |-> {r1}]
BranchSymmetry ==
    Permutations(Tx) \cup Permutations(BranchKey.prepare)
    \cup Permutations(BranchKey.accept) \cup Permutations(BranchKey.branch_delete)
    \cup Permutations(BranchKey.branch_create)

ValidatedPolicy == {[NoPolicy EXCEPT !.requireValidation = TRUE]}
ValidationKey == [prepare |-> {p1, p2}, accept |-> {a1, a2}, branch_create |-> {c1},
                  validate |-> {v1}, reject |-> {r1}]
ValidationSymmetry ==
    Permutations(Tx) \cup Permutations(Environment)
    \cup Permutations(ValidationKey.prepare) \cup Permutations(ValidationKey.accept)
=============================================================================

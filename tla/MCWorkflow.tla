------------------------------- MODULE MCWorkflow -------------------------------
(* The decision workflow on `main' alone: every decider races every other,   *)
(* and the owner archives and reactivates the graph.                         *)
EXTENDS Ledger, TLC

CONSTANTS t1, t2, p1, p2, p3, a1, a2, a3, r1, alice

MCActor == {{alice}}
MCKey == [prepare |-> {p1, p2, p3}, accept |-> {a1, a2, a3}, reject |-> {r1}]
Symmetry == Permutations(Tx) \cup Permutations(MCKey.prepare)
            \cup Permutations(MCKey.accept)
=============================================================================

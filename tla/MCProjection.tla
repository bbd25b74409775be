------------------------------ MODULE MCProjection ------------------------------
(* Instances of Projection: two ledger graphs that take turns feeding one   *)
(* cognitive graph (switch); one stream over whatever the target may hold   *)
(* (recovery); one stream and its liveness (progress).                      *)
EXTENDS Projection, TLC

CONSTANTS w1, w2, s1, s2

NoTarget == [marker |-> NoMarker, graph |-> EmptyGraph]

(* Enable one, disable it, enable and rebuild the other. *)
SwitchBudget == [ledger |-> 2, operator |-> 4, disturbance |-> 2]
SwitchFound == {NoTarget}

Foreign(s, v) == [MarkerOf(s, v, NoWriteId) EXCEPT !.commit = OtherCommit,
                                                   !.count = OtherContent]
Malformed(v) == [NoMarker EXCEPT !.shape = "malformed", !.version = v]

(* Nothing, unmarked triples, a malformed marker, and the marker of a       *)
(* ledger this one was restored from; with out-of-band edits, a target that *)
(* loses its data, crashes and operator rebuilds.                           *)
RecoveryBudget == [ledger |-> 2, operator |-> 2, disturbance |-> 3]
RecoveryFound == {NoTarget, [NoTarget EXCEPT !.graph = OtherContent]}
                 \cup {[marker |-> m, graph |-> OtherContent] :
                          m \in {Malformed(0), Malformed(2), Foreign(s1, 2)}}

ProgressBudget == [ledger |-> 2, operator |-> 2, disturbance |-> 2]

Symmetry == Permutations(Worker) \cup Permutations(Stream)
=============================================================================

-------------------------------- MODULE DagMerge --------------------------------
(***************************************************************************)
(* What the merge workflow computes from two recorded ancestries           *)
(* (crates/ledger-dag/src/lib.rs): best_common_ancestors, classify_base,   *)
(* counts and analyze.  An ancestry is a function from every commit        *)
(* reachable from a head to its parents, in commit order.                  *)
(***************************************************************************)
EXTENDS Naturals, Sequences, FiniteSets, SequencesExt

CONSTANT N    \* the size of the histories analyzed

(* The recorded parents of c, none when it is not recorded.                 *)
ParentsIn(ancestry, c) == IF c \in DOMAIN ancestry THEN ToSet(ancestry[c]) ELSE {}

Holds(ancestry, c) == c \in DOMAIN ancestry

(* Ancestry::difference.                                                    *)
Difference(a, b) == DOMAIN a \ DOMAIN b

(* The marking loop: everything the stack reaches through a's edges.        *)
RECURSIVE Mark(_, _, _)
Mark(a, marked, stack) ==
    IF stack = {} THEN marked
    ELSE LET c == CHOOSE d \in stack : TRUE
             rest == stack \ {c}
         IN IF c \in marked THEN Mark(a, marked, rest)
            ELSE Mark(a, marked \cup {c}, rest \cup ParentsIn(a, c))

EveryCommonAncestor(a, b) == {c \in DOMAIN a : Holds(b, c)}
BestCommonAncestors(a, b) ==
    LET common == {c \in DOMAIN a : Holds(b, c)}
        dominated == Mark(a, {}, UNION {ParentsIn(a, c) : c \in common})
    IN common \ dominated

ClassifyBase(best) ==
    CASE best = {} -> [kind |-> "unrelated", commits |-> {}]
      [] Cardinality(best) = 1 -> [kind |-> "unique", commits |-> best]
      [] OTHER -> [kind |-> "ambiguous", commits |-> best]

(* (ahead, behind) of the source relative to the target.                    *)
Counts(t, s) == [ahead |-> Cardinality(Difference(s, t)), behind |-> Cardinality(Difference(t, s))]

(* The relation of a source head to a target head, the tests in order.      *)
RelationOf(target, source, t, s) ==
    CASE target = source -> "equal"
      [] target # source /\ Holds(t, source) -> "source contained"
      [] target # source /\ ~Holds(t, source) /\ Holds(s, target) -> "fast-forward"
      [] OTHER -> "divergent"

AnalyzeWithAncestries(target, source, t, s) ==
    LET relation == RelationOf(target, source, t, s)
        counts == Counts(t, s)
    IN [relation |-> relation, ahead |-> counts.ahead, behind |-> counts.behind,
        base |-> IF relation = "divergent" THEN ClassifyBase(BestCommonAncestors(t, s))
                 ELSE [kind |-> "none", commits |-> {}]]

-----------------------------------------------------------------------------
(* The analysis of every pair of heads of every history of N commits, each  *)
(* with up to two parents among the earlier ones.                           *)
VARIABLES history, target, source, analysis

vars == <<history, target, source, analysis>>

Commits == 1..N
Before(c) == {<<>>} \cup {<<p>> : p \in 1..(c - 1)}
                    \cup {<<p, q>> : p \in 1..(c - 1), q \in 1..(c - 1)}

Pending == [relation |-> "pending", ahead |-> 0, behind |-> 0,
            base |-> [kind |-> "none", commits |-> {}]]

(* One commit at a time is added to the history; then two heads are compared. *)
Init == history = <<>> /\ target = 0 /\ source = 0 /\ analysis = Pending

Grow == /\ Len(history) < N
        /\ \E parents \in Before(Len(history) + 1) :
              /\ Len(parents) = 2 => parents[1] # parents[2]
              /\ history' = Append(history, parents)
        /\ UNCHANGED <<target, source, analysis>>

(* Everything reachable from a head.                                          *)
ReachFrom(head) ==
    LET Up(cs) == cs \cup UNION {ToSet(history[d]) : d \in cs}
        R[n \in 0..N] == IF n = 0 THEN {head} ELSE Up(R[n - 1])
    IN R[N]

AncestryOf(head) == [c \in ReachFrom(head) |-> history[c]]

Analyze == /\ Len(history) = N /\ target = 0
           /\ target' \in Commits /\ source' \in Commits
           /\ analysis' = AnalyzeWithAncestries(target', source', AncestryOf(target'), AncestryOf(source'))
           /\ UNCHANGED history

Next == Grow \/ Analyze

Spec == Init /\ [][Next]_vars

Analyzed == target # 0
Common == ReachFrom(target) \cap ReachFrom(source)

(* The merge bases are exactly the common ancestors that are not a proper   *)
(* ancestor of another one: none is missed, none dominated is offered, and  *)
(* a unique base contains every common ancestor (best_common_ancestors).    *)
BaseIsBest ==
    Analyzed /\ analysis.relation = "divergent" =>
        /\ analysis.base.commits =
              {c \in Common : \A d \in Common \ {c} : c \notin ReachFrom(d)}
        /\ analysis.base.kind = "unrelated" <=> Common = {}
        /\ analysis.base.kind = "unique" =>
              \E b \in analysis.base.commits : Common = ReachFrom(b)

(* The classification is the ancestor order between the heads, and agrees   *)
(* with the counts a client is shown (analyze, ahead_behind).               *)
RelationIsAncestry ==
    Analyzed =>
        /\ analysis.relation = "equal" <=> target = source
        /\ analysis.relation = "source contained" <=>
              target # source /\ source \in ReachFrom(target)
        /\ analysis.relation = "fast-forward" <=>
              target # source /\ target \in ReachFrom(source)
        /\ analysis.relation \in {"equal", "source contained"} <=> analysis.ahead = 0
        /\ analysis.relation \in {"equal", "fast-forward"} <=> analysis.behind = 0
=================================================================================

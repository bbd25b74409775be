------------------------------ MODULE ImportOrder ------------------------------
(***************************************************************************)
(* The order in which the filesystem import publishes commits              *)
(* (topological_order of crates/ledger-store/src/migrate_fs_to_pg.rs): an  *)
(* iterative depth-first search from every listed commit in id order.      *)
(***************************************************************************)
EXTENDS Naturals, Sequences, SequencesExt, FiniteSets

(* The parents of an id as the stack takes them: the last pushed, the last  *)
(* parent of the envelope, is visited first.                                *)
Unfinished(parents, done) == SelectSeq(parents, LAMBDA p : p \notin done)

Aborted(why) == [error |-> why, order |-> <<>>]

(* The loop over one root's stack, one pop at a time.  An entry is an id,   *)
(* first to be expanded and then, under its parents, to be finished.        *)
RECURSIVE Drain(_, _, _, _, _)
Drain(commits, parents, stack, visiting, order) ==
    IF stack = <<>> THEN [error |-> "none", order |-> order]
    ELSE LET top  == Last(stack)
             rest == Front(stack)
             done == ToSet(order)
             next == Unfinished(parents[top.id], done)
         IN CASE top.id \in done -> Drain(commits, parents, rest, visiting, order)
              [] top.id \notin done /\ top.expanded ->
                    Drain(commits, parents, rest, visiting \ {top.id}, Append(order, top.id))
              [] top.id \notin done /\ ~top.expanded /\ top.id \in visiting -> Aborted("cycle")
              [] OTHER ->
                    IF \E p \in ToSet(next) : p \notin commits \/ p \in visiting \cup {top.id}
                    THEN LET bad == SelectInSeq(next, LAMBDA p : p \notin commits
                                                              \/ p \in visiting \cup {top.id})
                         IN Aborted(IF next[bad] \in commits THEN "cycle" ELSE "missing parent")
                    ELSE Drain(commits, parents,
                               Append(rest, [id |-> top.id, expanded |-> TRUE])
                                  \o [n \in DOMAIN next |-> [id |-> next[n], expanded |-> FALSE]],
                               visiting \cup {top.id}, order)

(* Every listed commit in turn is a root, with a fresh visiting set.        *)
RECURSIVE FromRoots(_, _, _, _)
FromRoots(commits, parents, roots, order) ==
    IF roots = <<>> THEN [error |-> "none", order |-> order]
    ELSE LET r == Drain(commits, parents, <<[id |-> Head(roots), expanded |-> FALSE]>>, {}, order)
         IN IF r.error # "none" THEN r
            ELSE FromRoots(commits, parents, Tail(roots), r.order)

(* commits: the listed ids; parents[c]: the parents its envelope names.     *)
TopologicalOrder(commits, parents) ==
    FromRoots(commits, parents, SetToSortSeq(commits, <), <<>>)
================================================================================

----------------------------- MODULE ConflictReport -----------------------------
(***************************************************************************)
(* The bounded conflict report of a merge (Reporter in                     *)
(* crates/ledger-merge/src/lib.rs): conflicts in key order, the quads of a *)
(* side in their order, while the counts and the byte budget allow.        *)
(***************************************************************************)
EXTENDS ThreeWay, Sequences, FiniteSets, FiniteSetsExt, SequencesExt

CONSTANTS KeyBytes, QuadBytes,   \* framing and terms of a key, a quad and its separator
          MaxConflicts, MaxQuadsPerSide, Budgets

VARIABLES maxBytes, remaining, listed, exhausted, incomplete

reportVars == <<maxBytes, remaining, listed, exhausted, incomplete>>
vars == <<mergeVars, reportVars>>

SidesOf(k) == <<Slot(base, k), Slot(target, k), Slot(source, k)>>

(* charge: the cost is taken, or the report is exhausted.                   *)
ChargeAnyway(r, cost) == [r EXCEPT !.remaining = IF cost > @ THEN 0 ELSE @ - cost, !.taken = TRUE]
Charge(r, cost) ==
    IF cost > r.remaining THEN [r EXCEPT !.exhausted = TRUE, !.taken = FALSE]
    ELSE [r EXCEPT !.remaining = @ - cost, !.taken = TRUE]

(* The quads of a side, in order, up to the first that does not fit.        *)
RECURSIVE ListQuads(_, _, _)
ListQuads(r, quads, out) ==
    IF quads = <<>> THEN [r |-> r, quads |-> out]
    ELSE LET charged == Charge(r, QuadBytes[Head(quads)])
         IN IF charged.taken THEN ListQuads(charged, Tail(quads), Append(out, Head(quads)))
            ELSE [r |-> charged, quads |-> out]

(* One side of a conflict, appended to the entry under construction.        *)
Side(r, set) ==
    LET first == SubSeq(SetToSortSeq(set, <), 1, Min({MaxQuadsPerSide, Cardinality(set)}))
        found == IF r.exhausted THEN [r |-> r, quads |-> <<>>] ELSE ListQuads(r, first, <<>>)
        truncated == Len(found.quads) < Cardinality(set)
    IN [found.r EXCEPT !.incomplete = @ \/ truncated,
                       !.sides = Append(@, [quads |-> found.quads, truncated |-> truncated])]

(* offer: the reporter after one conflicting key.                           *)
Offer(r, k) ==
    IF r.exhausted THEN r
    ELSE IF Len(r.listed) = MaxConflicts THEN [r EXCEPT !.exhausted = TRUE]
    ELSE LET charged == Charge(r, KeyBytes[k])
         IN IF ~charged.taken THEN charged
            ELSE LET full == FoldSeq(LAMBDA set, acc : Side(acc, set), charged, Reverse(SidesOf(k)))
                 IN [full EXCEPT !.listed = Append(@, [key |-> k, sides |-> full.sides]), !.sides = <<>>]

Reporter == [remaining |-> remaining, listed |-> listed, exhausted |-> exhausted,
             incomplete |-> incomplete, taken |-> TRUE, sides |-> <<>>]

ReportInit == /\ MergeInit
              /\ maxBytes \in Budgets
              /\ remaining = maxBytes
              /\ listed = <<>>
              /\ exhausted = FALSE
              /\ incomplete = FALSE

MergeAndReport(k) ==
    LET r == IF Conflicts(base, target, source, k) THEN Offer(Reporter, k) ELSE Reporter
    IN /\ MergeSlot(k)
       /\ remaining' = r.remaining
       /\ listed' = r.listed
       /\ exhausted' = r.exhausted
       /\ incomplete' = r.incomplete
       /\ UNCHANGED maxBytes

Step == \E k \in slots : MergeAndReport(k)

Spec == ReportInit /\ [][Step]_vars

ConflictsTruncated == exhausted \/ incomplete

-----------------------------------------------------------------------------
(* What a listed entry costs.                                               *)
SideBytes(side) == FoldSeq(LAMBDA q, sum : sum + QuadBytes[q], 0, side.quads)
EntryBytes(entry) ==
    KeyBytes[entry.key] + FoldSeq(LAMBDA side, sum : sum + SideBytes(side), 0, entry.sides)

(* The report costs what was charged for it, so it never exceeds its budget.*)
ReportFitsBudget ==
    FoldSeq(LAMBDA entry, sum : sum + EntryBytes(entry), 0, listed) + remaining = maxBytes

(* What is listed is a prefix: the first conflicting keys, of each side its *)
(* first quads, and nothing follows an entry that the budget cut short.     *)
IsFirst(quads, set) == quads = SubSeq(SetToSortSeq(set, <), 1, Len(quads))
ReportIsPrefix ==
    /\ [i \in 1..Len(listed) |-> listed[i].key]
           = SubSeq(SetToSortSeq(conflicting, <), 1, Len(listed))
    /\ \A i \in 1..Len(listed), n \in 1..3 :
          /\ IsFirst(listed[i].sides[n].quads, SidesOf(listed[i].key)[n])
          /\ i < Len(listed) => Len(listed[i].sides[n].quads)
                    = Min({MaxQuadsPerSide, Cardinality(SidesOf(listed[i].key)[n])})

(* conflicts_truncated, and the flag of a side, say exactly that something  *)
(* was left out.                                                            *)
TruncationIsExact ==
    /\ \A i \in 1..Len(listed), n \in 1..3 :
          listed[i].sides[n].truncated
              <=> ToSet(listed[i].sides[n].quads) # SidesOf(listed[i].key)[n]
    /\ ConflictsTruncated <=>
          \/ Len(listed) < Cardinality(conflicting)
          \/ \E i \in 1..Len(listed), n \in 1..3 :
                ToSet(listed[i].sides[n].quads) # SidesOf(listed[i].key)[n]
=================================================================================

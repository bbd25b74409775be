----------------------------- MODULE MCStoredStates -----------------------------
(***************************************************************************)
(* What keeps and computes states outside the PostgreSQL workflow: the      *)
(* filesystem store, the import from it, and the algorithms over commits    *)
(* and states.  They share no state, so one run checks them side by side:   *)
(* `subject' says which of them a behaviour is about, and the variables of  *)
(* the others rest.  The state space is the sum of theirs.                  *)
(***************************************************************************)
EXTENDS ThreeWay, ImportOrder, TLC

CONSTANTS w1, w2, p1, p2, p3, Nobody, i1, i2, gA, gB, None,
          N,             \* commits of the histories whose merge bases are computed
          Listed         \* the largest directory whose import order is computed

VARIABLES
    subject,
    commits, files, synced, head, heads, locked, call, acked, losses,      \* FileStore
    directory, tip, objects, index, refs, status, run, reported, stops,    \* Import
    listing, published,                                                    \* ImportOrder
    query, entered, black, prefetched, ramp, stack, calls, outcome,        \* DagWalk
    history, left, right, analysis,                                        \* DagMerge
    start, requested, policy, answer, state,                               \* StateDelta
    maxBytes, remaining, listed, exhausted, incomplete,                    \* ConflictReport
    db, asked, cursor, rows, expected, seen, chain, patches, folded,
    replayed, bytes, verdict                                               \* Reconstruct

storeVars == <<commits, files, synced, head, heads, locked, call, acked, losses>>
importVars == <<directory, tip, objects, index, refs, status, run, reported, stops>>
orderVars == <<listing, published>>
walkVars == <<query, entered, black, prefetched, ramp, stack, calls, outcome>>
basesVars == <<history, left, right, analysis>>
deltaVars == <<start, requested, policy, answer, state>>
reportVars == <<maxBytes, remaining, listed, exhausted, incomplete>>
reconstructVars == <<db, asked, cursor, rows, expected, seen, chain, patches, folded,
                     replayed, bytes, verdict>>

Rest == 0
StoreRests == /\ commits = Rest /\ files = Rest /\ synced = Rest /\ head = Rest /\ heads = Rest
              /\ locked = Rest /\ call = Rest /\ acked = Rest /\ losses = Rest
ImportRests == /\ directory = Rest /\ tip = Rest /\ objects = Rest /\ index = Rest
               /\ refs = Rest /\ status = Rest /\ run = Rest /\ reported = Rest /\ stops = Rest
OrderRests == listing = Rest /\ published = Rest
WalkRests == /\ query = Rest /\ entered = Rest /\ black = Rest /\ prefetched = Rest
             /\ ramp = Rest /\ stack = Rest /\ calls = Rest /\ outcome = Rest
BasesRest == history = Rest /\ left = Rest /\ right = Rest /\ analysis = Rest
DeltaRests == /\ start = Rest /\ requested = Rest /\ policy = Rest /\ answer = Rest
              /\ state = Rest
ThreeWayRests == /\ base = {} /\ target = {} /\ source = {} /\ strategy = "union"
                 /\ slots = {} /\ merged = {} /\ conflicting = {}
ReportRests == /\ maxBytes = Rest /\ remaining = Rest /\ listed = Rest
               /\ exhausted = Rest /\ incomplete = Rest
ReconstructRests == /\ db = Rest /\ asked = Rest /\ cursor = Rest /\ rows = Rest
                    /\ expected = Rest /\ seen = Rest /\ chain = Rest /\ patches = Rest
                    /\ folded = Rest /\ replayed = Rest /\ bytes = Rest /\ verdict = Rest

-----------------------------------------------------------------------------
(* Two writers of a filesystem ledger: with the same patches, any of which  *)
(* may fail or be killed; and with patches of their own, losing power once. *)
Stopped == INSTANCE FileStore WITH
    Writer <- {w1, w2}, Patch <- {p1, p2}, Offers <- [w \in {w1, w2} |-> {p1, p2}],
    Interruptions <- {"stop"}, MaxCommits <- 3, MaxLosses <- 0
PowerLost == INSTANCE FileStore WITH
    Writer <- {"w", "v"}, Patch <- {p1, p2}, Offers <- [w |-> {p1}, v |-> {p2}],
    Interruptions <- {"power"}, MaxCommits <- 3, MaxLosses <- 1

(* Two runs of the import over one directory.  Ids do not follow ancestry:  *)
(* the root is 3, 4 is what an unquiesced writer adds, 5 an envelope of     *)
(* another graph beside it.                                                 *)
Line3 == (3 :> <<>>) @@ (1 :> <<3>>) @@ (4 :> <<1>>)
LinePatch == (3 :> p1) @@ (1 :> p2) @@ (4 :> p3)
OneGraph == [i \in {i1, i2} |-> gA]
Mixed == INSTANCE Import WITH files <- directory, head <- tip,
    Importer <- {i1, i2}, Graph <- {gA, gB}, TargetOf <- OneGraph,
    Parents <- Line3 @@ (5 :> <<1>>), PatchOf <- LinePatch @@ (5 :> p2),
    GraphOf <- [c \in {1, 3, 4, 5} |-> IF c = 5 THEN gB ELSE "no graph"],
    Present <- {1, 3}, Tip <- 1, SharedHead <- FALSE, Activations <- {gA}, MaxStops <- 1
(* The head is kept in the refs table all along. *)
Shared == INSTANCE Import WITH files <- directory, head <- tip,
    Importer <- {i1, i2}, Graph <- {gA, gB}, TargetOf <- OneGraph,
    Parents <- Line3, PatchOf <- LinePatch, GraphOf <- [c \in {1, 3, 4} |-> "no graph"],
    Present <- {1, 3}, Tip <- 1, SharedHead <- TRUE, Activations <- {}, MaxStops <- 1
(* Two roots and a merge of them, bound to two graphs. *)
Contended == INSTANCE Import WITH files <- directory, head <- tip,
    Importer <- {"i", "j"}, Graph <- {gA, gB}, TargetOf <- [i |-> gA, j |-> gB],
    Parents <- (3 :> <<>>) @@ (1 :> <<>>) @@ (2 :> <<3, 1>>),
    PatchOf <- (3 :> p1) @@ (1 :> p2) @@ (2 :> p1), GraphOf <- [c \in {1, 2, 3} |-> "no graph"],
    Present <- {1, 2, 3}, Tip <- 2, SharedHead <- FALSE, Activations <- {}, MaxStops <- 3

(* The import order of every small set of envelopes: up to two parents      *)
(* each, which may be listed, missing from the directory (id 0, except in   *)
(* the largest directories), repeated or in a cycle.                        *)
NotOrdered == [error |-> "none", order |-> <<>>]
Named(ids) == ids \cup (IF ids = Listed THEN {} ELSE {0})
OrderInit == /\ \E ids \in SUBSET Listed :
                  \E parents \in [ids -> UNION {[1..n -> Named(ids)] : n \in 0..2}] :
                     listing = [commits |-> ids, parents |-> parents]
             /\ published = NotOrdered
Order == /\ published = NotOrdered
         /\ published' = TopologicalOrder(listing.commits, listing.parents)
         /\ published' # published
         /\ UNCHANGED listing

(* Every graph of three commits with up to two parents each, which may be   *)
(* unknown (4) or close a cycle; and long chains.                           *)
Query(parents, damaged, mode, goal, max, limit, window) ==
    [parents |-> parents, damaged |-> damaged, start |-> 1, mode |-> mode, goal |-> goal,
     max |-> max, limit |-> limit, window |-> window]
GraphsOf(ids) == [ids -> UNION {[1..n -> ids \cup {4}] : n \in 0..2}]
DamageOf(ids) == {{}} \cup {{c} : c \in ids}
Chain(n) == [c \in 1..n |-> IF c = n THEN <<>> ELSE <<c + 1>>]
SmallGraphs ==
    {Query(g, d, "search", goal, 9, limit, 3) :
        g \in GraphsOf(1..3), d \in DamageOf(1..3), goal \in {2, 4}, limit \in {2, 3}}
Chains ==
    {Query(Chain(n), {}, "first parent", 1, max, limit, w) :
        n \in {1, 2, 5, 6, 7, 8}, max \in 0..7, limit \in {5, 9}, w \in 1..6}
    \cup {Query(Chain(n), {}, "all", 1, 99, 9, 3) : n \in 1..4}
    \cup {Query(g, d, "first parent", 1, max, 9, 3) :
        g \in GraphsOf(1..2), d \in DamageOf(1..2), max \in {2, 4}}
Walk == INSTANCE DagWalk WITH Queries <- SmallGraphs \cup Chains, result <- outcome
Bases == INSTANCE DagMerge WITH target <- left, source <- right

(* Reports: six quads in three slots and two bases; budgets from one too    *)
(* small for any key to one that lists everything.  Merges: five quads.     *)
Slotted == [q \in Quad |-> (q + 1) \div 2]
Report == INSTANCE ConflictReport WITH
    Quad <- 1..6, Key <- 1..3, KeyOf <- [q \in 1..6 |-> (q + 1) \div 2],
    KeyBytes <- [k \in 1..3 |-> IF k = 2 THEN 4 ELSE 3],
    QuadBytes <- [q \in 1..6 |-> IF q = 3 THEN 1 ELSE 2],
    MaxConflicts <- 2, MaxQuadsPerSide <- 1, Budgets <- {2, 3, 8, 9, 14, 40}

(* Requests against every state of three quads. *)
Delta == INSTANCE StateDelta WITH Quad <- {p1, p2, p3}, base <- start

(* Three commits and two patches.  Three families of database: intact bytes *)
(* under any index; damaged bytes under an index with a row missing; a      *)
(* chain with any patches, damaged or at the limits of the state.           *)
Ids == {"a", "b", "c"}
Patches == {"p", "q"}
Broken == [kind : {"missing", "rotten", "foreign", "malformed"}]
Implied(stored) == [c \in Ids |-> IF stored[c].kind # "sound" THEN None ELSE stored[c].parent]

P == [kind |-> "sound", add |-> {"x"}, del |-> {}]
Q == [kind |-> "sound", add |-> {"x", "y"}, del |-> {}]
R == [kind |-> "sound", add |-> {"y"}, del |-> {"x"}]
Sizes == [o \in Ids \cup Patches |-> IF o \in {"a", "p"} THEN 2 ELSE 1]
Lines == [x |-> 1, y |-> 2]
Intact == [p |-> P, q |-> R]
Windows == [objects : {0, 2}, bytes : {0, 3}] \cup {[objects |-> 3, bytes |-> 9]}

(* a is not its own parent; b and c anywhere. *)
Shapes == {f \in [Ids -> [kind : {"sound"}, parent : Ids \cup {None}, patch : Patches]] :
             /\ f["a"].parent # "a" /\ f["a"].patch = "p"
             /\ f["b"].patch = "q" /\ f["c"].patch = "p"}
AnyIndex == [commit : Shapes, hint : [Ids -> Ids \cup {None}], patch : {Intact},
             size : {Sizes}, line : {Lines},
             limits : [depth : {2, 3}, quads : {2}, bytes : {3}], windows : Windows]
DamagedBytes ==
    {[commit |-> [f EXCEPT ![c] = what], hint |-> [Implied(f) EXCEPT ![d] = None],
      patch |-> Intact, size |-> Sizes, line |-> Lines,
      limits |-> [depth |-> 3, quads |-> 2, bytes |-> 3], windows |-> w] :
          f \in Shapes, c \in Ids, what \in Broken, d \in Ids, w \in Windows}
Linear(x, y, z) == [a |-> [kind |-> "sound", parent |-> "b", patch |-> x],
                    b |-> [kind |-> "sound", parent |-> "c", patch |-> y],
                    c |-> [kind |-> "sound", parent |-> None, patch |-> z]]
PatchCases == [commit : {Linear(x, y, z) : x \in Patches, y \in Patches, z \in Patches},
               hint : {Implied(Linear("p", "q", "p"))},
               patch : [Patches -> {P, Q, R} \cup Broken],
               size : {Sizes}, line : {Lines},
               limits : [depth : {3}, quads : {1, 2}, bytes : {2, 3}], windows : Windows]
Reconstruct == INSTANCE Reconstruct WITH
    Databases <- <<AnyIndex, DamagedBytes, PatchCases>>, Heads <- {"a"},
    head <- asked, state <- replayed, result <- verdict

-----------------------------------------------------------------------------
MCInit ==
    \/ /\ \/ subject = "stopped" /\ Stopped!Init
          \/ subject = "power" /\ PowerLost!Init
       /\ ImportRests /\ OrderRests /\ WalkRests /\ BasesRest /\ DeltaRests
       /\ ThreeWayRests /\ ReportRests /\ ReconstructRests
    \/ /\ \/ subject = "mixed" /\ Mixed!Init
          \/ subject = "shared" /\ Shared!Init
          \/ subject = "contended" /\ Contended!Init
       /\ StoreRests /\ OrderRests /\ WalkRests /\ BasesRest /\ DeltaRests
       /\ ThreeWayRests /\ ReportRests /\ ReconstructRests
    \/ /\ subject = "order" /\ OrderInit
       /\ StoreRests /\ ImportRests /\ WalkRests /\ BasesRest /\ DeltaRests
       /\ ThreeWayRests /\ ReportRests /\ ReconstructRests
    \/ /\ subject = "walk" /\ Walk!Init
       /\ StoreRests /\ ImportRests /\ OrderRests /\ BasesRest /\ DeltaRests
       /\ ThreeWayRests /\ ReportRests /\ ReconstructRests
    \/ /\ subject = "bases" /\ Bases!Init
       /\ StoreRests /\ ImportRests /\ OrderRests /\ WalkRests /\ DeltaRests
       /\ ThreeWayRests /\ ReportRests /\ ReconstructRests
    \/ /\ subject = "delta" /\ Delta!Init
       /\ StoreRests /\ ImportRests /\ OrderRests /\ WalkRests /\ BasesRest
       /\ ThreeWayRests /\ ReportRests /\ ReconstructRests
    \/ /\ subject = "three-way" /\ MergeInit
       /\ StoreRests /\ ImportRests /\ OrderRests /\ WalkRests /\ BasesRest
       /\ DeltaRests /\ ReportRests /\ ReconstructRests
    \/ /\ subject = "report"
       /\ base \in {{1, 3, 5}, {2, 5, 6}} /\ strategy = "union" /\ Report!ReportInit
       /\ StoreRests /\ ImportRests /\ OrderRests /\ WalkRests /\ BasesRest
       /\ DeltaRests /\ ReconstructRests
    \/ /\ subject = "reconstruct" /\ Reconstruct!Init
       /\ StoreRests /\ ImportRests /\ OrderRests /\ WalkRests /\ BasesRest
       /\ DeltaRests /\ ThreeWayRests /\ ReportRests

(* Only the subject moves. *)
MCNext ==
    /\ UNCHANGED subject
    /\ \/ /\ \/ subject = "stopped" /\ Stopped!Next
             \/ subject = "power" /\ PowerLost!Next
          /\ UNCHANGED <<importVars, orderVars, walkVars, basesVars, deltaVars, mergeVars,
                         reportVars, reconstructVars>>
       \/ /\ \/ subject = "mixed" /\ Mixed!Next
             \/ subject = "shared" /\ Shared!Next
             \/ subject = "contended" /\ Contended!Next
          /\ UNCHANGED <<storeVars, orderVars, walkVars, basesVars, deltaVars, mergeVars,
                         reportVars, reconstructVars>>
       \/ /\ subject = "order" /\ Order
          /\ UNCHANGED <<storeVars, importVars, walkVars, basesVars, deltaVars, mergeVars,
                         reportVars, reconstructVars>>
       \/ /\ subject = "walk" /\ Walk!Next
          /\ UNCHANGED <<storeVars, importVars, orderVars, basesVars, deltaVars, mergeVars,
                         reportVars, reconstructVars>>
       \/ /\ subject = "bases" /\ Bases!Next
          /\ UNCHANGED <<storeVars, importVars, orderVars, walkVars, deltaVars, mergeVars,
                         reportVars, reconstructVars>>
       \/ /\ subject = "delta" /\ Delta!Next
          /\ UNCHANGED <<storeVars, importVars, orderVars, walkVars, basesVars, mergeVars,
                         reportVars, reconstructVars>>
       \/ /\ subject = "three-way" /\ MergeNext
          /\ UNCHANGED <<storeVars, importVars, orderVars, walkVars, basesVars, deltaVars,
                         reportVars, reconstructVars>>
       \/ /\ subject = "report" /\ Report!Step
          /\ UNCHANGED <<storeVars, importVars, orderVars, walkVars, basesVars, deltaVars,
                         reconstructVars>>
       \/ /\ subject = "reconstruct" /\ Reconstruct!Next
          /\ UNCHANGED <<storeVars, importVars, orderVars, walkVars, basesVars, deltaVars,
                         mergeVars, reportVars>>

allVars == <<subject, storeVars, importVars, orderVars, walkVars, basesVars, deltaVars,
             mergeVars, reportVars, reconstructVars>>
MCSpec == MCInit /\ [][MCNext]_allVars

(* The writers of a store that is only stopped, and the two runs of an      *)
(* import into one graph, are alike; the others have names of their own.    *)
Alike == Permutations({w1, w2}) \cup Permutations({i1, i2})

-----------------------------------------------------------------------------
(* What the file store promises of a state. *)
WordIsKept ==
    /\ subject = "stopped" => Stopped!TypeOK /\ Stopped!AckedIsKept
    /\ subject = "power" => PowerLost!AckedIsKept /\ PowerLost!HeadResolves


(* topological_order publishes every listed commit once, after all of its   *)
(* parents, and aborts exactly on the directories that cannot be imported:  *)
(* a diamond or a repeated parent is no cycle, and an error names its cause.*)
OrderIsExact ==
    published # NotOrdered =>
        LET ParentsOf(c) == ToSet(listing.parents[c])
            order == published.order
            missing == \E c \in listing.commits : ~(ParentsOf(c) \subseteq listing.commits)
            cyclic == \E D \in SUBSET listing.commits \ {{}} :
                         \A c \in D : ParentsOf(c) \cap D # {}
        IN  /\ published.error = "missing parent" => missing
            /\ published.error = "cycle" => cyclic
            /\ published.error = "none" =>
                  /\ ~missing /\ ~cyclic
                  /\ ToSet(order) = listing.commits
                  /\ Len(order) = Cardinality(listing.commits)
                  /\ \A n \in DOMAIN order :
                        ParentsOf(order[n]) \subseteq {order[m] : m \in 1..(n - 1)}

(* `Never a ref pointing at a partially imported or foreign-graph history', *)
(* whatever run of migrate_fs_to_pg installed it and wherever runs stopped; *)
(* a reported success names a complete head that no other run replaces; the *)
(* index agrees with the envelopes at every moment; and the order of        *)
(* publication is exact.                                                    *)
ImportIsComplete ==
    /\ subject = "mixed" => /\ Mixed!TypeOK /\ Mixed!RefsAreComplete /\ Mixed!IndexIsClosed
                            /\ Mixed!VerifiedHeadHolds
    /\ subject = "shared" => Shared!SuccessIsComplete /\ Shared!IndexIsClosed
    /\ subject = "contended" => Contended!RefsAreComplete /\ Contended!IndexIsClosed
    /\ subject = "order" => OrderIsExact

(* `The window is a retrieval hint only': a walk and a reconstruction give  *)
(* the answer, the order, the state or the error of one that reads a commit *)
(* at a time, and what they hold in memory is bounded.  An index row that   *)
(* contradicts the bytes is reported; the provider calls of a first-parent  *)
(* history are window_calls; an answer means what it says of the graph.     *)
WindowsAreHints ==
    /\ subject = "walk" => /\ Walk!WindowIsOnlyAHint /\ Walk!MemoryIsBounded
                           /\ Walk!AnswerIsSound /\ Walk!CallsFollowTheRamp
    /\ subject = "reconstruct" => /\ Reconstruct!SameAsScalar /\ Reconstruct!BytesAreExact
                                  /\ Reconstruct!WindowsAreBounded

(* best_common_ancestors, classify_base and analyze: the bases are exactly  *)
(* the common ancestors that no other one dominates, and the relation is    *)
(* the ancestor order of the heads, which the counts agree with.            *)
BasesAreBest == subject = "bases" => Bases!BaseIsBest /\ Bases!RelationIsAncestry

(* effective_delta and diff: what is persisted means what was requested,    *)
(* holds effective changes only, and replays to the same state any number   *)
(* of times; a diff leads exactly from one state to the other.              *)
DeltasAreExact ==
    subject = "delta" =>
        Delta!DeltaMeansTheRequest /\ Delta!HistoryIsEffective /\ Delta!DiffIsExact

(* The bounded conflict report costs what was charged for it, lists the     *)
(* first conflicts and of each side its first quads, and says that it was   *)
(* truncated exactly when something was left out.                           *)
ReportIsExact ==
    subject = "report" =>
        Report!ReportFitsBudget /\ Report!ReportIsPrefix /\ Report!TruncationIsExact
=============================================================================

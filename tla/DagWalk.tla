-------------------------------- MODULE DagWalk --------------------------------
(***************************************************************************)
(* The bounded walks of the commit DAG (crates/ledger-dag/src/lib.rs):     *)
(* is_ancestor, ancestors / ancestry and first_parent_history, one         *)
(* provider call or one stack step at a time.                              *)
(*                                                                         *)
(* The provider answers a window of parents around the commit it is asked  *)
(* for, of any size its contract allows; the walk keeps what it did not    *)
(* ask for.  The graph may be malformed: parents that are not known,       *)
(* commits whose rows are damaged, cycles.                                 *)
(***************************************************************************)
EXTENDS Naturals, Sequences, FiniteSets, SequencesExt

CONSTANTS Queries      \* the walks: a graph, what is asked of it, the limits

WINDOW_RAMP == 4

(* A query.  parents: the known commits with their parents in order;        *)
(* damaged: those the provider fails on; mode: "search" for goal, "all" or  *)
(* "first parent"; max: entries wanted of a first-parent history; limit:    *)
(* max_visited; window: the provider's own.                                 *)
VARIABLES query,
          entered,     \* the commits entered, in order
          black,       \* those whose ancestors are all finished
          prefetched,  \* commits whose parents a window brought along
          ramp,        \* what the next window may ask for
          stack,       \* of frames: a commit and the position of its next parent
          calls,       \* provider calls
          result       \* "running", an outcome or an error

vars == <<query, entered, black, prefetched, ramp, stack, calls, result>>

Known == DOMAIN query.parents
ParentSet(c) == IF c \in Known THEN ToSet(query.parents[c]) ELSE {}
Visited == ToSet(entered)

Init == /\ query \in Queries
        /\ entered = <<>>
        /\ black = {}
        /\ prefetched = {}
        /\ ramp = 1
        /\ stack = <<>>
        /\ calls = 0
        /\ result = "running"

-----------------------------------------------------------------------------
Least(S) == CHOOSE n \in S : \A m \in S : n <= m

(* Everything reachable from c through known commits, c included.           *)
Reach(c) ==
    LET Up(cs) == cs \cup UNION {ParentSet(d) : d \in cs}
        R[n \in 0..Cardinality(Known)] == IF n = 0 THEN {c} ELSE Up(R[n - 1])
    IN R[Cardinality(Known)]

(* The commits of the first-parent chain above c, as far as the provider    *)
(* can answer and no more than n.                                           *)
RECURSIVE Chain(_, _)
Chain(c, n) ==
    IF n = 0 \/ query.parents[c] = <<>> THEN {}
    ELSE LET first == Head(query.parents[c])
         IN IF first \in Known \ query.damaged THEN {first} \cup Chain(first, n - 1) ELSE {}

(* What a window around c may bring along (ParentProvider::ancestry_window) *)
(* and the walk may keep: commits it has not entered, never more than the   *)
(* visit limit.                                                             *)
Windows(c, max) ==
    LET size == Least({max, query.window}) - 1
        extra == IF query.mode = "first parent" THEN {Chain(c, size)}
                 ELSE {K \in SUBSET (Reach(c) \cap (Known \ query.damaged)) : Cardinality(K) <= size}
    IN {K \in {W \ (Visited \cup {c}) : W \in extra} :
            Cardinality(prefetched \cup K) <= query.limit}

(* Walk::load: the outcomes of fetching the parents of c.                   *)
Failed(why) == [result |-> why, prefetched |-> prefetched, ramp |-> ramp, calls |-> calls]

ChargedLoads(c, wanted) ==
    LET max == Least({query.limit - Len(entered), wanted, ramp})
        Asked == [result |-> "running", prefetched |-> prefetched,
                  ramp |-> ramp * WINDOW_RAMP, calls |-> calls + 1]
    IN CASE Len(entered) + Cardinality(prefetched) >= query.limit -> {Failed("visit limit")}
         [] OTHER ->
               CASE c \notin Known -> {[Asked EXCEPT !.result = "unknown"]}
                 [] c \in query.damaged -> {[Asked EXCEPT !.result = "provider"]}
                 [] OTHER -> {[Asked EXCEPT !.prefetched = @ \cup K] : K \in Windows(c, max)}

Loads(c, wanted) ==
    LET max == Least({query.limit - Len(entered), wanted, ramp})
        Asked == [result |-> "running", prefetched |-> prefetched,
                  ramp |-> ramp * WINDOW_RAMP, calls |-> calls + 1]
    IN CASE Len(entered) >= query.limit -> {Failed("visit limit")}
         [] Len(entered) < query.limit /\ c \in prefetched ->
               {[Failed("running") EXCEPT !.prefetched = @ \ {c}]}
         [] OTHER ->
               CASE c \notin Known -> {[Asked EXCEPT !.result = "unknown"]}
                 [] c \in query.damaged -> {[Asked EXCEPT !.result = "provider"]}
                 [] OTHER -> {[Asked EXCEPT !.prefetched = @ \cup K] : K \in Windows(c, max)}

(* Enter c with what was loaded; `found' is the visitor's stop.             *)
Enter(c, loaded, rest, done) ==
    /\ prefetched' = loaded.prefetched
    /\ ramp' = loaded.ramp
    /\ calls' = loaded.calls
    /\ IF loaded.result = "running"
       THEN /\ entered' = Append(entered, c)
            /\ stack' = Append(rest, [id |-> c, next |-> 1])
            /\ result' = done
       ELSE /\ result' = loaded.result
            /\ UNCHANGED <<entered, stack>>
    /\ UNCHANGED <<query, black>>

Unbounded == Cardinality(Known) + query.limit + 1
Top == Last(stack)

(* What on_enter answers.                                                   *)
Visitor(c) == IF query.mode = "search" /\ c = query.goal THEN "hit" ELSE "running"

-----------------------------------------------------------------------------
(* dfs: the start.                                                          *)
Start ==
    /\ result = "running" /\ query.mode # "first parent" /\ entered = <<>>
    /\ \E loaded \in Loads(query.start, Unbounded) :
          Enter(query.start, loaded, <<>>, Visitor(query.start))

(* dfs: the next parent of the commit on top.  A grey one closes a cycle.   *)
NextParent ==
    /\ result = "running" /\ query.mode # "first parent" /\ stack # <<>>
    /\ Top.next <= Len(query.parents[Top.id])
    /\ LET parent == query.parents[Top.id][Top.next]
           rest   == [stack EXCEPT ![Len(stack)].next = @ + 1]
       IN CASE parent \in Visited \ black ->
                  /\ result' = "cycle"
                  /\ UNCHANGED <<query, entered, black, prefetched, ramp, stack, calls>>
            [] parent \in black ->
                  /\ stack' = rest
                  /\ UNCHANGED <<query, entered, black, prefetched, ramp, calls, result>>
            [] OTHER -> \E loaded \in Loads(parent, Unbounded) :
                           Enter(parent, loaded, rest, Visitor(parent))

(* dfs: all parents done.                                                   *)
Finish ==
    /\ result = "running" /\ query.mode # "first parent" /\ stack # <<>>
    /\ Top.next > Len(query.parents[Top.id])
    /\ black' = black \cup {Top.id}
    /\ stack' = Front(stack)
    /\ result' = IF stack' = <<>> THEN "complete" ELSE result
    /\ UNCHANGED <<query, entered, prefetched, ramp, calls>>

(* first_parent_history: one entry of the chain.  The frames serve as the   *)
(* chain; `complete' is the end of the history or of what was wanted.       *)
FirstParent ==
    /\ result = "running" /\ query.mode = "first parent"
    /\ IF query.max = 0
       THEN result' = "complete" /\ UNCHANGED <<query, entered, black, prefetched, ramp, stack, calls>>
       ELSE LET current == IF entered = <<>> THEN query.start
                           ELSE Head(query.parents[Last(entered)])
                ends == \/ Len(entered) + 1 >= query.max
                        \/ current \in Known /\ query.parents[current] = <<>>
            IN IF current \in Visited
               THEN /\ result' = "cycle"
                    /\ UNCHANGED <<query, entered, black, prefetched, ramp, stack, calls>>
               ELSE \E loaded \in Loads(current, query.max - Len(entered)) :
                       Enter(current, loaded, stack, IF ends THEN "complete" ELSE "running")

(* The deadline is checked around every provider call and before every      *)
(* commit served from a window.                                             *)
Deadline ==
    /\ result = "running"
    /\ result' = "deadline"
    /\ UNCHANGED <<query, entered, black, prefetched, ramp, stack, calls>>

Next == Start \/ NextParent \/ Finish \/ FirstParent \/ Deadline

(* A walk that is polled goes on.                                           *)
Spec == Init /\ [][Next]_vars /\ WF_vars(Start \/ NextParent \/ Finish \/ FirstParent)

-----------------------------------------------------------------------------
(* window_calls: the provider calls that n commits in a row cost.           *)
RECURSIVE CallsFrom(_, _, _, _)
CallsFrom(done, ask, n, window) ==
    IF done >= n THEN 0
    ELSE 1 + CallsFrom(done + Least({ask, window}), ask * WINDOW_RAMP, n, window)
WindowCalls(n, window) == CallsFrom(0, 1, n, window)

-----------------------------------------------------------------------------
(* The walk a provider without windows gives: a depth-first search that     *)
(* asks for one commit at a time.                                           *)
RECURSIVE Explore(_, _, _)
RECURSIVE ExploreAll(_, _, _)
Explore(c, path, walk) ==
    CASE walk.result # "running" -> walk
      [] walk.result = "running" /\ c \in path -> [walk EXCEPT !.result = "cycle"]
      [] walk.result = "running" /\ c \notin path /\ c \in ToSet(walk.order) -> walk
      [] OTHER ->
            CASE Len(walk.order) >= query.limit -> [walk EXCEPT !.result = "visit limit"]
              [] Len(walk.order) < query.limit /\ c \notin Known -> [walk EXCEPT !.result = "unknown"]
              [] Len(walk.order) < query.limit /\ c \in query.damaged ->
                    [walk EXCEPT !.result = "provider"]
              [] OTHER ->
                    ExploreAll(IF query.mode = "first parent"
                               THEN SubSeq(query.parents[c], 1, Least({1, Len(query.parents[c])}))
                               ELSE query.parents[c],
                               path \cup {c},
                               [order  |-> Append(walk.order, c),
                                result |-> IF Len(walk.order) + 1 = query.max
                                           THEN "complete" ELSE Visitor(c)])
ExploreAll(cs, path, walk) ==
    IF cs = <<>> THEN walk
    ELSE ExploreAll(Tail(cs), path, Explore(Head(cs), path, walk))

Scalar ==
    LET walk == IF query.max = 0 THEN [order |-> <<>>, result |-> "complete"]
                ELSE Explore(query.start, {}, [order |-> <<>>, result |-> "running"])
    IN [walk EXCEPT !.result = IF @ = "running" THEN "complete" ELSE @]

Answered == result \notin {"running", "deadline"}

(* The memory a walk needs is bounded by the visit limit, however wide the  *)
(* provider's windows: nothing entered is kept and nothing is entered twice *)
(* (Walk::prefetched).                                                      *)
MemoryIsBounded ==
    /\ prefetched \cap Visited = {}
    /\ Cardinality(prefetched) <= query.limit
    /\ Len(entered) = Cardinality(Visited) /\ Len(entered) <= query.limit

(* `The window is a retrieval hint only': whatever the windows bring along, *)
(* the answer, the order and the error are those of a walk without windows, *)
(* on malformed and damaged graphs too.                                     *)
WindowIsOnlyAHint ==
    Answered => [order |-> entered, result |-> result] = Scalar

Follow(c) == IF query.mode = "first parent"
             THEN (IF c \in Known /\ query.parents[c] # <<>> THEN {Head(query.parents[c])} ELSE {})
             ELSE ParentSet(c)

(* What an answer means in the graph: a hit is reachable; a complete walk   *)
(* entered everything reachable, met no cycle and did not reach the goal;   *)
(* an error has its cause in what is reachable (is_ancestor, ancestors).    *)
AnswerIsSound ==
    LET reach == Reach(query.start)
        cyclic == \E D \in SUBSET reach \ {{}} : \A c \in D : Follow(c) \cap D # {}
    IN /\ result = "hit" => query.goal \in reach
       /\ result = "complete" /\ query.mode # "first parent" =>
             Visited = reach /\ ~cyclic /\ (query.mode = "search" => query.goal \notin reach)
       /\ result = "cycle" => cyclic
       /\ result = "unknown" => ~(reach \subseteq Known)
       /\ result = "provider" => reach \cap query.damaged # {}
       /\ result = "visit limit" => Cardinality(reach) > query.limit

(* A first-parent history of n entries costs window_calls(n) provider       *)
(* calls.                                                                   *)
CallsFollowTheRamp ==
    result = "complete" /\ query.mode = "first parent" /\ query.damaged = {} =>
        calls = WindowCalls(Len(entered), query.window)

(* Every walk ends, on cyclic graphs too.                                   *)
Terminates == <>(result # "running")
================================================================================

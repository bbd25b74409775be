------------------------------- MODULE AuthProofs -------------------------------
(***************************************************************************)
(* Bearer authentication, for any number of concurrent calls, any keys,    *)
(* tokens, claims policy and intervals: a token is accepted only on a key  *)
(* that the issuer published recently, a configured client is no human,    *)
(* fetches are spaced, and a rotation is noticed.                          *)
(*                                                                         *)
(* The properties speak of one answer.  What makes them inductive is what  *)
(* the cache and a fetch under way say of the issuer: a key that is there  *)
(* was published no longer ago than the fetch began, and one that is not   *)
(* has been published for no longer than that.                             *)
(***************************************************************************)
EXTENDS Auth, TLAPS

(* The sentinel is no request, and the intervals are durations; a key is   *)
(* trusted for some time (AuthConfig).                                     *)
Sound == /\ NoRequest \notin Request
         /\ MinInterval \in Nat /\ FetchLimit \in Nat /\ MaxKeyAge \in Nat \ {0}

Call == [pc : {"idle", "lookup", "waiting", "fetching", "received", "refreshed", "throttled"},
         token : SUBSET Token, fetched : SUBSET Key, began : Nat]

(* The clock and the issuer. *)
Times ==
    /\ now \in Nat \ {0} /\ issuer \in JwkSet
    /\ published \in [Key -> Nat] /\ since \in [Key -> Nat]
    /\ \A k \in Key : published[k] <= now
    /\ \A k \in issuer : published[k] = now
    /\ cache \in [loaded : Nat, attempted : Nat, keys : SUBSET Key]
    /\ cache.loaded <= now /\ cache.attempted <= now

(* The calls: one holds the lock while it fetches, and one that need not    *)
(* wait sees no time pass.                                                  *)
CallOK(r) ==
    LET me == request[r]
    IN  /\ me.pc # "idle" => \E t \in Token : me.token = {t}
        /\ Holder(r) <=> flight = r
        /\ Holder(r) => me.began \in 1 .. now /\ now <= me.began + FetchLimit
        /\ me.pc = "received" => /\ \A k \in me.fetched : published[k] >= me.began
                                 /\ \A k \in issuer \ me.fetched : since[k] >= me.began
        /\ me.pc = "refreshed" => cache.loaded = now
        /\ me.pc = "throttled" => /\ flight = NoRequest /\ cache.attempted # Never
                                  /\ now - cache.attempted < MinInterval

Calls == request \in [Request -> Call] /\ \A r \in Request : CallOK(r)

(* The cache. *)
Cached ==
    /\ \A k \in cache.keys : /\ k \in Installed(Key) /\ published[k] >= 1
                             /\ published[k] + FetchLimit >= cache.loaded
    /\ cache.loaded # Never =>
         \A k \in Installed(issuer) \ cache.keys : since[k] + FetchLimit >= cache.loaded
    /\ Reliable /\ flight = NoRequest /\ cache.attempted # Never => cache.loaded >= cache.attempted

AInv == Times /\ Calls /\ Cached

-----------------------------------------------------------------------------
(* What the steps do. *)

(* A call returns, and gives the lock back if it has it. *)
Returns(r) ==
    /\ request' = [request EXCEPT ![r] = Idle] /\ UNCHANGED <<world, cache>>
    /\ flight' = IF flight = r THEN NoRequest ELSE flight
    /\ flight = r => ~Reliable

(* A call goes on without the lock. *)
GoesOn(r, next) ==
    /\ request' = [request EXCEPT ![r] = next] /\ UNCHANGED <<world, cache, flight>>
    /\ next \in Call /\ flight # r
    /\ \E t \in Token : next.token = {t}
    /\ \/ next.pc \in {"lookup", "waiting"}
       \/ /\ next.pc = "throttled" /\ flight = NoRequest
          /\ cache.attempted # Never /\ now - cache.attempted < MinInterval

Starts(r) ==
    /\ At(r, "waiting") /\ flight = NoRequest
    /\ ~(cache.attempted # Never /\ now - cache.attempted < MinInterval)
    /\ cache' = [cache EXCEPT !.attempted = now] /\ flight' = r
    /\ request' = [request EXCEPT ![r].pc = "fetching", ![r].began = now]
    /\ UNCHANGED world

Fetches(r) ==
    /\ At(r, "fetching")
    /\ request' = [request EXCEPT ![r].pc = "received", ![r].fetched = issuer]
    /\ UNCHANGED <<world, cache, flight>>

Installs(r) ==
    /\ At(r, "received") /\ flight' = NoRequest
    /\ cache' = [cache EXCEPT !.keys = Installed(request[r].fetched), !.loaded = now]
    /\ request' = [request EXCEPT ![r].pc = "refreshed", ![r].fetched = {}, ![r].began = 0]
    /\ UNCHANGED world

(* The key a call asks for is its token's. *)
LEMMA KidOfToken ==
  ASSUME NEW r \in Request, NEW t, request[r].token = {t}
  PROVE  Kid(r) = t.kid
  BY DEF Kid

(* A decision is an answer. *)
LEMMA DecideAnswers ==
  ASSUME NEW r, NEW k, Decide(r, k)
  PROVE  request' = [request EXCEPT ![r] = Idle]
  BY DEF Decide, Answer

LEMMA FoundAnswers ==
  ASSUME NEW r, Found(r)
  PROVE  request' = [request EXCEPT ![r] = Idle]
  BY DecideAnswers DEF Found, Answer

(* A call that does not hold the lock. *)
LEMMA NotHolding ==
  ASSUME NEW r \in Request, CallOK(r),
         \/ At(r, "idle") \/ At(r, "lookup") \/ At(r, "waiting")
         \/ At(r, "refreshed") \/ At(r, "throttled")
  PROVE  flight # r
  BY DEF CallOK, Holder, At

(* Every step is one of these. *)
LEMMA StepKinds ==
  ASSUME Calls, [Next]_vars
  PROVE  \/ \E r \in Request : \/ Returns(r) \/ \E next : GoesOn(r, next)
                               \/ Starts(r) \/ Fetches(r) \/ Installs(r)
         \/ Rotate \/ Tick
         \/ UNCHANGED <<world, cache, flight, request>>
<1>0. request \in [Request -> Call] /\ \A r \in Request : CallOK(r) BY DEF Calls
<1>1. ASSUME NEW r \in Request, NEW t \in Token, Arrive(r, t)
      PROVE  (\E next : GoesOn(r, next)) \/ UNCHANGED <<world, cache, flight, request>>
  <2> DEFINE next == [Idle EXCEPT !.pc = "lookup", !.token = {t}]
  <2>1. CASE t.kid = Absent BY <1>1, <2>1 DEF Arrive
  <2>2. CASE t.kid # Absent
    <3>1. next \in Call /\ next.pc = "lookup" /\ next.token = {t} BY Zenon DEF Idle, Call
    <3>2. request' = [request EXCEPT ![r] = next] /\ UNCHANGED <<world, cache, flight>>
      BY <1>1, <2>2 DEF Arrive
    <3>3. flight # r BY <1>0, <1>1, NotHolding DEF Arrive
    <3> HIDE DEF next
    <3>4. GoesOn(r, next) BY <3>1, <3>2, <3>3 DEF GoesOn
    <3> QED BY <3>4
  <2> QED BY <2>1, <2>2
<1>2. ASSUME NEW r \in Request, NEW p \in {"waiting", "throttled"}, Goto(r, p),
             UNCHANGED <<world, cache, flight>>, flight # r, ~At(r, "idle"),
             p = "throttled" => /\ flight = NoRequest
                                /\ cache.attempted # Never /\ now - cache.attempted < MinInterval
      PROVE  \E next : GoesOn(r, next)
  <2> DEFINE next == [request[r] EXCEPT !.pc = p]
  <2>1. request' = [request EXCEPT ![r] = next] BY <1>0, <1>2 DEF Goto
  <2>2. next \in Call /\ next.pc = p /\ next.token = request[r].token BY <1>0 DEF Call
  <2>3. \E t \in Token : request[r].token = {t} BY <1>0, <1>2 DEF CallOK, At
  <2> HIDE DEF next
  <2>4. GoesOn(r, next) BY <1>2, <2>1, <2>2, <2>3 DEF GoesOn
  <2> QED BY <2>4
<1>3. ASSUME NEW r \in Request, Lookup(r) PROVE Returns(r) \/ \E next : GoesOn(r, next)
  <2>1. flight # r /\ ~At(r, "idle") /\ UNCHANGED <<world, cache, flight>>
    BY <1>0, <1>3, NotHolding DEF Lookup, At
  <2>2. CASE \E k \in Find(Kid(r)) : Decide(r, k) BY <2>1, <2>2, DecideAnswers DEF Returns
  <2>3. CASE Goto(r, "waiting") BY <1>2, <2>1, <2>3
  <2> QED BY <1>3, <2>2, <2>3 DEF Lookup
<1>4. ASSUME NEW r \in Request, Begin(r) PROVE Starts(r) \/ \E next : GoesOn(r, next)
  <2>1. flight # r /\ ~At(r, "idle") BY <1>0, <1>4, NotHolding DEF Begin, At
  <2>2. CASE cache.attempted # Never /\ now - cache.attempted < MinInterval
    BY <1>2, <1>4, <2>1, <2>2 DEF Begin
  <2>3. CASE ~(cache.attempted # Never /\ now - cache.attempted < MinInterval)
    BY <1>4, <2>3 DEF Begin, Starts
  <2> QED BY <2>2, <2>3
<1>5. ASSUME NEW r \in Request, Fetch(r) PROVE Fetches(r) BY <1>5 DEF Fetch, Fetches
<1>6. ASSUME NEW r \in Request, Install(r) PROVE Installs(r) BY <1>6 DEF Install, Installs
<1>7. ASSUME NEW r \in Request, FetchFails(r) PROVE Returns(r)
  <2>1. flight = r BY <1>0, <1>7 DEF FetchFails, CallOK
  <2> QED BY <1>7, <2>1 DEF FetchFails, Answer, Returns
<1>8. ASSUME NEW r \in Request, Cancel(r) PROVE Returns(r) BY <1>8 DEF Cancel, Answer, Returns
<1>9. ASSUME NEW r \in Request, Refreshed(r) \/ Throttled(r) PROVE Returns(r)
  <2>1. flight # r BY <1>0, <1>9, NotHolding DEF Refreshed, Throttled
  <2>2. request' = [request EXCEPT ![r] = Idle]
    BY Zenon, <1>9, FoundAnswers DEF Refreshed, Throttled, Answer
  <2> QED BY <1>9, <2>1, <2>2 DEF Refreshed, Throttled, Returns
<1>10. ASSUME NEW r \in Request, Step(r) \/ Cancel(r)
       PROVE  \/ Returns(r) \/ \E next : GoesOn(r, next)
              \/ Starts(r) \/ Fetches(r) \/ Installs(r)
  BY Zenon, <1>3, <1>4, <1>5, <1>6, <1>7, <1>8, <1>9, <1>10 DEF Step
<1> QED BY Zenon, <1>1, <1>10 DEF Next, vars, world

-----------------------------------------------------------------------------
(* The clock and the issuer. *)

LEMMA InitAuth ==
  ASSUME Sound, Init
  PROVE  AInv
<1>1. Times BY DEF Init, Times, Key, Never
<1>2. Calls
  <2>1. Idle \in Call BY DEF Idle, Call
  <2>2. ASSUME NEW r \in Request PROVE CallOK(r)
    <3>1. request[r] = Idle /\ flight = NoRequest /\ flight # r BY DEF Init, Sound
    <3> QED BY <3>1 DEF CallOK, Holder, Idle
  <2> QED BY <2>1, <2>2 DEF Init, Calls
<1>3. Cached BY DEF Init, Cached, Never
<1> QED BY <1>1, <1>2, <1>3 DEF AInv

LEMMA InstalledIsUsable ==
  ASSUME NEW S, NEW k
  PROVE  k \in Installed(S) <=> k \in S /\ k \in Installed({k})
  BY DEF Installed

(* The calls as the steps leave them. *)
LEMMA NextTyped ==
  ASSUME AInv, [Next]_vars
  PROVE  request' \in [Request -> Call] /\ Times'
<1>0. /\ now \in Nat \ {0} /\ issuer \in JwkSet
      /\ published \in [Key -> Nat] /\ since \in [Key -> Nat]
      /\ \A k \in Key : published[k] <= now
      /\ \A k \in issuer : published[k] = now
      /\ cache \in [loaded : Nat, attempted : Nat, keys : SUBSET Key]
      /\ cache.loaded <= now /\ cache.attempted <= now
      /\ Calls /\ request \in [Request -> Call] /\ \A r \in Request : CallOK(r)
  BY DEF AInv, Times, Calls
<1>1. ASSUME UNCHANGED <<world, cache>> PROVE Times'
  BY <1>0, <1>1 DEF Times, world
<1>2. ASSUME NEW r \in Request, Returns(r) PROVE request' \in [Request -> Call] /\ Times'
  <2>1. Idle \in Call BY DEF Idle, Call
  <2> QED BY <1>0, <1>1, <1>2, <2>1 DEF Returns
<1>3. ASSUME NEW r \in Request, NEW next, GoesOn(r, next)
      PROVE  request' \in [Request -> Call] /\ Times'
  BY <1>0, <1>1, <1>3 DEF GoesOn
<1>4. ASSUME NEW r \in Request, Starts(r) PROVE request' \in [Request -> Call] /\ Times'
  <2>1. request' \in [Request -> Call]
    <3> DEFINE next == [request[r] EXCEPT !.pc = "fetching", !.began = now]
    <3>1. now \in Nat /\ request[r] \in Call BY <1>0
    <3>2. next \in Call BY <3>1 DEF Call
    <3>3. request' = [request EXCEPT ![r] = next] BY <1>4 DEF Starts
    <3> HIDE DEF next
    <3> QED BY <1>0, <3>2, <3>3
  <2>2. /\ cache' \in [loaded : Nat, attempted : Nat, keys : SUBSET Key]
        /\ cache'.loaded = cache.loaded /\ cache'.attempted = now
    BY <1>0, <1>4 DEF Starts
  <2>3. UNCHANGED world BY <1>4 DEF Starts
  <2> QED BY <1>0, <2>1, <2>2, <2>3 DEF Times, world
<1>5. ASSUME NEW r \in Request, Fetches(r) PROVE request' \in [Request -> Call] /\ Times'
  <2>1. issuer \subseteq Key BY <1>0 DEF Key
  <2> DEFINE e == [request[r] EXCEPT !.pc = "received", !.fetched = issuer]
  <2>3. e \in Call BY Zenon, <1>0, <2>1 DEF Call
  <2>4. request' = [request EXCEPT ![r] = e] BY Zenon, <1>0, <1>5 DEF Fetches
  <2>2. request' \in [Request -> Call] BY <1>0, <2>3, <2>4
  <2> QED BY <1>1, <1>5, <2>2 DEF Fetches
<1>6. ASSUME NEW r \in Request, Installs(r) PROVE request' \in [Request -> Call] /\ Times'
  <2> DEFINE e == [request[r] EXCEPT !.pc = "refreshed", !.fetched = {}, !.began = 0]
  <2>5. e \in Call BY Zenon, <1>0 DEF Call
  <2>6. request' = [request EXCEPT ![r] = e] BY Zenon, <1>0, <1>6 DEF Installs
  <2>1. request' \in [Request -> Call] BY <1>0, <2>5, <2>6
  <2>2. Installed(request[r].fetched) \subseteq Key BY <1>0 DEF Call, Installed
  <2>3. /\ cache' \in [loaded : Nat, attempted : Nat, keys : SUBSET Key]
        /\ cache'.loaded = now /\ cache'.attempted = cache.attempted
    BY Zenon, <1>0, <1>6, <2>2 DEF Installs
  <2>4. UNCHANGED world BY <1>6 DEF Installs
  <2> QED BY <1>0, <2>1, <2>3, <2>4 DEF Times, world
<1>7. ASSUME Rotate \/ Tick PROVE request' \in [Request -> Call] /\ Times'
  <2>1. issuer \subseteq Key BY <1>0 DEF Key
  <2>2. CASE Rotate
    <3>1. issuer' \in JwkSet /\ issuer' \subseteq Key BY <2>2 DEF Rotate, Key
    <3>2. /\ published' \in [Key -> Nat] /\ since' \in [Key -> Nat]
          /\ \A k \in issuer' : published'[k] = now
          /\ \A k \in Key : published'[k] <= now
      BY <1>0, <2>2, <3>1 DEF Rotate
    <3> QED BY <1>0, <2>2, <3>1, <3>2 DEF Rotate, Times
  <2>3. CASE Tick
    <3>1. now' = now + 1 /\ now' \in Nat \ {0} BY <1>0, <2>3 DEF Tick
    <3>2. /\ published' \in [Key -> Nat] /\ \A k \in issuer : published'[k] = now'
          /\ \A k \in Key : published'[k] <= now'
      BY <1>0, <2>1, <2>3, <3>1 DEF Tick
    <3> QED BY <1>0, <2>3, <3>1, <3>2 DEF Tick, Times
  <2> QED BY <1>7, <2>2, <2>3
<1>8. ASSUME UNCHANGED <<world, cache, flight, request>>
      PROVE  request' \in [Request -> Call] /\ Times'
  BY <1>0, <1>1, <1>8
<1> QED BY Zenon, <1>0, <1>2, <1>3, <1>4, <1>5, <1>6, <1>7, <1>8, StepKinds

(* The clock and the publication times only grow. *)
LEMMA WorldGrows ==
  ASSUME AInv, [Next]_vars
  PROVE  /\ now' >= now
         /\ \A k \in Key : published'[k] >= published[k]
<1>0. /\ now \in Nat /\ issuer \in JwkSet /\ published \in [Key -> Nat] /\ Calls
      /\ \A k \in Key : published[k] <= now
  BY DEF AInv, Times
<1>1. CASE Rotate
  <2>1. ASSUME NEW k \in Key PROVE published'[k] >= published[k]
    BY <1>0, <1>1 DEF Rotate
  <2> QED BY <1>0, <1>1, <2>1 DEF Rotate
<1>2. CASE Tick BY <1>0, <1>2 DEF Tick
<1>3. CASE UNCHANGED world BY <1>0, <1>3 DEF world
<1> QED BY Zenon, <1>0, <1>1, <1>2, <1>3, StepKinds DEF Returns, GoesOn, Starts, Fetches, Installs

(* A call that is not this step's, when the world and the cache stay. *)
LEMMA OtherCalls ==
  ASSUME NEW q \in Request, CallOK(q), UNCHANGED <<world, cache>>, request'[q] = request[q],
         flight' = q <=> flight = q,
         At(q, "throttled") => flight' = NoRequest
  PROVE  CallOK(q)'
  BY DEF CallOK, Holder, At, world

(* CallOK: one holder, within its limit, and what it fetched. *)
LEMMA NextCalls ==
  ASSUME Sound, AInv, [Next]_vars
  PROVE  Calls'
<1>0. /\ now \in Nat \ {0} /\ issuer \in JwkSet /\ issuer \subseteq Key
      /\ published \in [Key -> Nat] /\ since \in [Key -> Nat]
      /\ \A k \in issuer : published[k] = now
      /\ cache \in [loaded : Nat, attempted : Nat, keys : SUBSET Key]
      /\ Calls /\ request \in [Request -> Call] /\ \A r \in Request : CallOK(r)
      /\ FetchLimit \in Nat /\ NoRequest \notin Request /\ MinInterval \in Nat
  BY DEF AInv, Times, Calls, Sound, Key
<1>1. request' \in [Request -> Call] BY NextTyped
<1> SUFFICES ASSUME NEW q \in Request PROVE CallOK(q)' BY <1>1 DEF Calls
<1>2. CallOK(q) /\ request[q] \in Call /\ request'[q] \in Call BY <1>0, <1>1
<1>3. ASSUME NEW r \in Request, Returns(r) PROVE CallOK(q)'
  <2>1. CASE q = r
    <3>1. request'[q] = Idle /\ flight' # q BY <1>0, <1>3, <2>1 DEF Returns
    <3> QED BY <3>1 DEF CallOK, Holder, Idle
  <2>2. CASE q # r
    <3>1. request'[q] = request[q] /\ UNCHANGED <<world, cache>> BY <1>0, <1>3, <2>2 DEF Returns
    <3>2. flight' = q <=> flight = q BY <1>0, <1>3, <2>2 DEF Returns
    <3>3. At(q, "throttled") => flight' = NoRequest BY <1>2, <1>3 DEF Returns, CallOK, At
    <3> QED BY <1>2, <3>1, <3>2, <3>3, OtherCalls
  <2> QED BY <2>1, <2>2
<1>4. ASSUME NEW r \in Request, NEW next, GoesOn(r, next) PROVE CallOK(q)'
  <2>1. CASE q = r
    <3>1. request'[q] = next /\ flight' # q BY <1>0, <1>4, <2>1 DEF GoesOn
    <3> QED BY <1>4, <3>1 DEF CallOK, Holder, GoesOn, world
  <2>2. CASE q # r
    <3>1. request'[q] = request[q] /\ UNCHANGED <<world, cache, flight>>
      BY <1>0, <1>4, <2>2 DEF GoesOn
    <3>2. At(q, "throttled") => flight' = NoRequest BY <1>2, <3>1 DEF CallOK, At
    <3> QED BY <1>2, <3>1, <3>2, OtherCalls
  <2> QED BY <2>1, <2>2
<1>5. ASSUME NEW r \in Request, Starts(r) PROVE CallOK(q)'
  <2>0. UNCHANGED world /\ cache'.loaded = cache.loaded /\ flight = NoRequest /\ flight' = r
    BY <1>0, <1>5 DEF Starts
  <2>1. CASE q = r
    <3>1. /\ request'[q].pc = "fetching" /\ request'[q].began = now
          /\ request'[q].token = request[q].token
      BY <1>0, <1>5, <2>1 DEF Starts, Call
    <3>2. \E t \in Token : request[q].token = {t} BY <1>2, <1>5, <2>1 DEF Starts, At, CallOK
    <3> QED BY <1>0, <2>0, <2>1, <3>1, <3>2 DEF CallOK, Holder, world
  <2>2. CASE q # r
    <3>1. request'[q] = request[q] BY <1>0, <1>5, <2>2 DEF Starts
    <3>2. ~At(q, "throttled")
      BY <1>0, <1>2, <1>5 DEF CallOK, At, Starts
    <3>3. ~Holder(q) BY <1>0, <1>2, <2>0 DEF CallOK
    <3> QED BY <1>0, <1>2, <2>0, <2>2, <3>1, <3>2, <3>3 DEF CallOK, Holder, At, world
  <2> QED BY <2>1, <2>2
<1>6. ASSUME NEW r \in Request, Fetches(r) PROVE CallOK(q)'
  <2>0. UNCHANGED <<world, cache, flight>> /\ At(r, "fetching") BY <1>6 DEF Fetches
  <2>1. CASE q = r
    <3>1. /\ request'[q].pc = "received" /\ request'[q].began = request[q].began
          /\ request'[q].token = request[q].token /\ request'[q].fetched = issuer
      BY <1>0, <1>6, <2>1 DEF Fetches, Call
    <3>2. /\ \E t \in Token : request[q].token = {t}
          /\ flight = q /\ request[q].began \in 1 .. now /\ now <= request[q].began + FetchLimit
      BY <1>2, <2>0, <2>1 DEF At, CallOK, Holder
    <3>3. \A k \in issuer : published[k] >= request[q].began BY <1>0, <3>2
    <3> QED BY <2>0, <3>1, <3>2, <3>3 DEF CallOK, Holder, world
  <2>2. CASE q # r
    <3>1. request'[q] = request[q] BY <1>0, <1>6, <2>2 DEF Fetches
    <3>2. At(q, "throttled") => flight' = NoRequest BY <1>2, <2>0 DEF CallOK, At
    <3> QED BY <1>2, <2>0, <3>1, <3>2, OtherCalls
  <2> QED BY <2>1, <2>2
<1>7. ASSUME NEW r \in Request, Installs(r) PROVE CallOK(q)'
  <2>0. /\ UNCHANGED world /\ flight' = NoRequest /\ At(r, "received") /\ flight = r
        /\ cache'.loaded = now /\ cache'.attempted = cache.attempted
    BY <1>0, <1>7 DEF Installs, CallOK, Holder, At
  <2>1. CASE q = r
    <3>1. request'[q].pc = "refreshed" /\ request'[q].token = request[q].token
      BY <1>0, <1>7, <2>1 DEF Installs, Call
    <3>2. \E t \in Token : request[q].token = {t} BY <1>2, <2>0, <2>1 DEF At, CallOK
    <3> QED BY <1>0, <2>0, <3>1, <3>2 DEF CallOK, Holder, world
  <2>2. CASE q # r
    <3>1. request'[q] = request[q] BY <1>0, <1>7, <2>2 DEF Installs
    <3>2. ~Holder(q) /\ ~At(q, "throttled") BY <1>0, <1>2, <2>0, <2>2 DEF CallOK, At
    <3> QED BY <1>0, <1>2, <2>0, <3>1, <3>2 DEF CallOK, Holder, At, world
  <2> QED BY <2>1, <2>2
<1>8. CASE Rotate
  <2>0. UNCHANGED <<now, cache, flight, request>> BY <1>8 DEF Rotate
  <2>1. ASSUME request[q].pc = "received"
        PROVE  /\ \A k \in request[q].fetched : published'[k] >= request[q].began
               /\ \A k \in issuer' \ request[q].fetched : since'[k] >= request[q].began
    <3>1. /\ request[q].fetched \subseteq Key /\ request[q].began \in 1 .. now
          /\ \A k \in request[q].fetched : published[k] >= request[q].began
          /\ \A k \in issuer \ request[q].fetched : since[k] >= request[q].began
      BY <1>2, <2>1 DEF CallOK, Holder, Call
    <3>2. ASSUME NEW k \in request[q].fetched PROVE published'[k] >= request[q].began
      <4>1. published'[k] >= published[k] BY <3>1, WorldGrows
      <4>2. published'[k] \in Nat /\ published[k] \in Nat BY <1>0, <3>1, NextTyped DEF Times
      <4> QED BY <3>1, <4>1, <4>2
    <3>3. ASSUME NEW k \in issuer' \ request[q].fetched PROVE since'[k] >= request[q].began
      <4>1. k \in Key BY <1>8 DEF Rotate, Key
      <4> QED BY <1>0, <1>8, <3>1, <4>1 DEF Rotate
    <3> QED BY <3>2, <3>3
  <2> QED BY <1>2, <2>0, <2>1 DEF CallOK, Holder
<1>9. CASE Tick
  <2>0. UNCHANGED <<issuer, since, cache, flight, request>> /\ now' = now + 1 BY <1>9 DEF Tick
  <2>1. \/ At(q, "idle") \/ At(q, "waiting")
        \/ Holder(q) /\ now - request[q].began < FetchLimit
    BY <1>9 DEF Tick
  <2>2. CASE At(q, "idle") \/ At(q, "waiting") BY <1>2, <2>0, <2>2 DEF CallOK, Holder, At
  <2>3. CASE Holder(q) /\ now - request[q].began < FetchLimit
    <3>1. request[q].began \in 1 .. now' /\ now' <= request[q].began + FetchLimit
      BY <1>0, <1>2, <2>0, <2>3 DEF CallOK
    <3>2. ASSUME request[q].pc = "received", NEW k \in request[q].fetched
          PROVE  published'[k] >= request[q].began
      <4>1. k \in Key /\ published[k] >= request[q].began BY <1>2, <3>2 DEF CallOK, Call
      <4>2. published'[k] >= published[k] BY <4>1, WorldGrows
      <4>3. published'[k] \in Nat /\ published[k] \in Nat BY <1>0, <4>1, NextTyped DEF Times
      <4> QED BY <3>1, <4>1, <4>2, <4>3
    <3> QED BY <1>2, <2>0, <2>3, <3>1, <3>2 DEF CallOK, Holder
  <2> QED BY <2>1, <2>2, <2>3
<1>10. CASE UNCHANGED <<world, cache, flight, request>>
  BY <1>2, <1>10 DEF CallOK, Holder, world
<1> QED BY Zenon, <1>0, <1>3, <1>4, <1>5, <1>6, <1>7, <1>8, <1>9, <1>10, StepKinds

-----------------------------------------------------------------------------
(* The cache. *)

LEMMA NextCached ==
  ASSUME Sound, AInv, [Next]_vars
  PROVE  Cached'
<1>0. /\ now \in Nat \ {0} /\ issuer \in JwkSet /\ issuer \subseteq Key
      /\ published \in [Key -> Nat] /\ since \in [Key -> Nat]
      /\ cache \in [loaded : Nat, attempted : Nat, keys : SUBSET Key]
      /\ cache.loaded <= now /\ cache.attempted <= now
      /\ Calls /\ request \in [Request -> Call] /\ \A r \in Request : CallOK(r)
      /\ FetchLimit \in Nat /\ NoRequest \notin Request /\ Cached
  BY DEF AInv, Times, Calls, Sound, Key
<1>1. ASSUME UNCHANGED <<world, cache>>, Reliable /\ flight' = NoRequest => flight = NoRequest
      PROVE  Cached'
  BY <1>0, <1>1 DEF Cached, Installed, world
<1>2. ASSUME NEW r \in Request,
             Returns(r) \/ (\E next : GoesOn(r, next)) \/ Fetches(r)
      PROVE  Cached'
  BY <1>1, <1>2 DEF Returns, GoesOn, Fetches
<1>3. ASSUME NEW r \in Request, Starts(r) PROVE Cached'
  <2>1. /\ UNCHANGED world /\ flight' # NoRequest
        /\ cache'.keys = cache.keys /\ cache'.loaded = cache.loaded
    BY <1>0, <1>3 DEF Starts
  <2> QED BY <1>0, <2>1 DEF Cached, Installed, world
<1>4. ASSUME NEW r \in Request, Installs(r) PROVE Cached'
  <2> DEFINE F == request[r].fetched
  <2>1. /\ UNCHANGED world /\ cache'.keys = Installed(F)
        /\ cache'.loaded = now /\ cache'.attempted = cache.attempted
    BY <1>0, <1>4 DEF Installs
  <2>2. /\ request[r].began \in 1 .. now /\ now <= request[r].began + FetchLimit
        /\ \A k \in F : published[k] >= request[r].began
        /\ \A k \in issuer \ F : since[k] >= request[r].began
        /\ F \subseteq Key
    BY <1>0, <1>4 DEF Installs, CallOK, Holder, At, Call
  <2>3. ASSUME NEW k \in Installed(F)
        PROVE  k \in Installed(Key) /\ published[k] >= 1 /\ published[k] + FetchLimit >= now
    BY <1>0, <2>2 DEF Installed
  <2>4. ASSUME NEW k \in Installed(issuer) \ Installed(F) PROVE since[k] + FetchLimit >= now
    <3>1. k \in issuer \ F /\ k \in Key BY <1>0, <2>4 DEF Installed
    <3> QED BY <1>0, <2>2, <3>1
  <2>5. published' = published /\ since' = since /\ issuer' = issuer BY <2>1 DEF world
  <2>6. Installed(Key)' = Installed(Key) /\ Installed(issuer)' = Installed(issuer)
    BY <2>5 DEF Installed
  <2> HIDE DEF F
  <2> QED BY <1>0, <2>1, <2>3, <2>4, <2>5, <2>6 DEF Cached
<1>5. CASE Rotate \/ Tick
  <2>1. UNCHANGED <<cache, flight>> BY <1>5 DEF Rotate, Tick
  <2>2. ASSUME NEW k \in cache.keys
        PROVE  /\ k \in Installed(Key) /\ published'[k] >= 1
               /\ published'[k] + FetchLimit >= cache.loaded
    <3>1. k \in Key /\ published'[k] >= published[k] BY <1>0, WorldGrows
    <3>2. published'[k] \in Nat /\ published[k] \in Nat BY <1>0, <3>1, NextTyped DEF Times
    <3>3. k \in Installed(Key) /\ published[k] >= 1 /\ published[k] + FetchLimit >= cache.loaded
      BY <1>0 DEF Cached
    <3> QED BY <1>0, <3>1, <3>2, <3>3
  <2>3. ASSUME cache.loaded # Never, NEW k \in Installed(issuer') \ cache.keys
        PROVE  since'[k] + FetchLimit >= cache.loaded
    <3>1. issuer' \subseteq Key /\ k \in issuer' /\ k \in Key
      BY <1>0, <1>5, <2>3 DEF Rotate, Tick, Key, Installed
    <3>2. CASE k \in issuer
      <4>1. since'[k] = since[k] BY <1>0, <1>5, <3>1, <3>2 DEF Rotate, Tick
      <4>2. k \in Installed(issuer) BY <2>3, <3>2 DEF Installed
      <4> QED BY <1>0, <2>3, <4>1, <4>2 DEF Cached
    <3>3. CASE k \notin issuer
      <4>1. since'[k] = now BY <1>0, <1>5, <3>1, <3>3 DEF Rotate, Tick
      <4> QED BY <1>0, <4>1
    <3> QED BY <3>2, <3>3
  <2>4. Installed(Key)' = Installed(Key) BY DEF Installed, Key, verification_algorithm
  <2>5. Installed(issuer)' = Installed(issuer') BY DEF Installed
  <2> QED BY <1>0, <2>1, <2>2, <2>3, <2>4, <2>5 DEF Cached
<1>6. CASE UNCHANGED <<world, cache, flight, request>> BY <1>1, <1>6
<1> QED BY Zenon, <1>0, <1>2, <1>3, <1>4, <1>5, <1>6, StepKinds

LEMMA NextAuth ==
  ASSUME Sound, AInv, [Next]_vars
  PROVE  AInv'
  BY NextTyped, NextCalls, NextCached DEF AInv

-----------------------------------------------------------------------------
(* The answers. *)

(* A token is accepted on a key of a cache that is fresh. *)
LEMMA Accepts ==
  ASSUME Sound, AInv, Next, answered'.answer = "accepted"
  PROVE  \E r \in Request, t \in Token, k \in cache.keys :
            /\ answered'.token = {t} /\ UNCHANGED world
            /\ k.kid = t.kid /\ t.signer = k /\ t.alg = verification_algorithm(k)
            /\ cache.loaded # Never /\ now - cache.loaded < MaxKeyAge
<1>0. /\ now \in Nat \ {0} /\ MaxKeyAge \in Nat \ {0}
      /\ request \in [Request -> Call] /\ \A r \in Request : CallOK(r)
  BY DEF AInv, Times, Calls, Sound
<1>1. ASSUME NEW r \in Request, NEW k \in Find(Kid(r)), Decide(r, k), ~At(r, "idle"),
             UNCHANGED world, cache.loaded # Never, now - cache.loaded < MaxKeyAge
      PROVE  \E t \in Token, c \in cache.keys :
                /\ answered'.token = {t} /\ UNCHANGED world
                /\ c.kid = t.kid /\ t.signer = c /\ t.alg = verification_algorithm(c)
                /\ cache.loaded # Never /\ now - cache.loaded < MaxKeyAge
  <2>1. PICK t \in Token : request[r].token = {t} BY <1>0, <1>1 DEF CallOK, At
  <2>2. k \in cache.keys /\ k.kid = t.kid BY <1>1, <2>1, KidOfToken DEF Find
  <2>3. answered'.token = {t} /\ t.signer = k /\ t.alg = verification_algorithm(k)
    BY <1>1, <2>1 DEF Decide, Answer
  <2> QED BY <1>1, <2>2, <2>3
<1>2. ASSUME NEW r \in Request, Lookup(r)
      PROVE  \E k \in Find(Kid(r)) :
                /\ Decide(r, k) /\ ~At(r, "idle") /\ UNCHANGED world
                /\ cache.loaded # Never /\ now - cache.loaded < MaxKeyAge
  BY <1>2 DEF Lookup, At, Goto, NoAnswer, cache_is_fresh
<1>9. ASSUME NEW r \in Request, Found(r) PROVE \E k \in Find(Kid(r)) : Decide(r, k)
  <2>1. ~Answer(r, "unknown_key") BY DEF Answer
  <2> QED BY <1>9, <2>1 DEF Found
<1>3. ASSUME NEW r \in Request, Refreshed(r)
      PROVE  \E k \in Find(Kid(r)) :
                /\ Decide(r, k) /\ ~At(r, "idle") /\ UNCHANGED world
                /\ cache.loaded # Never /\ now - cache.loaded < MaxKeyAge
  <2>1. cache.loaded = now BY <1>0, <1>3 DEF Refreshed, CallOK, At
  <2>2. cache.loaded # Never /\ now - cache.loaded < MaxKeyAge BY <1>0, <2>1 DEF Never
  <2>3. Found(r) /\ ~At(r, "idle") /\ UNCHANGED world BY <1>3 DEF Refreshed, At
  <2> QED BY <1>9, <2>2, <2>3
<1>4. ASSUME NEW r \in Request, Throttled(r)
      PROVE  \E k \in Find(Kid(r)) :
                /\ Decide(r, k) /\ ~At(r, "idle") /\ UNCHANGED world
                /\ cache.loaded # Never /\ now - cache.loaded < MaxKeyAge
  <2>1. ~Answer(r, "unavailable") BY DEF Answer
  <2>2. Found(r) /\ ~At(r, "idle") /\ UNCHANGED world /\ cache_is_fresh
    BY <1>4, <2>1 DEF Throttled, At
  <2> QED BY <1>9, <2>2 DEF cache_is_fresh
<1>5. ASSUME NEW r \in Request,
             \/ Begin(r) \/ Fetch(r) \/ FetchFails(r) \/ Install(r) \/ Cancel(r)
             \/ \E t \in Token : Arrive(r, t)
      PROVE  FALSE
  <2>1. answered' # NoAnswer BY DEF NoAnswer
  <2>2. ~Answer(r, "unavailable") /\ ~Answer(r, "cancelled") BY DEF Answer
  <2>3. ~Begin(r) /\ ~Fetch(r) /\ ~Install(r) BY <2>1 DEF Begin, Goto, Fetch, Install
  <2>4. ~FetchFails(r) /\ ~Cancel(r) BY <2>2 DEF FetchFails, Cancel
  <2>5. ASSUME NEW t \in Token, Arrive(r, t) PROVE FALSE BY <2>1, <2>5 DEF Arrive
  <2> QED BY <1>5, <2>3, <2>4, <2>5
<1>6. ~Rotate /\ ~Tick BY DEF Rotate, Tick, NoAnswer
<1>7. PICK r \in Request : Lookup(r) \/ Refreshed(r) \/ Throttled(r)
  BY Zenon, <1>5, <1>6 DEF Next, Step
<1>8. PICK k \in Find(Kid(r)) : /\ Decide(r, k) /\ ~At(r, "idle") /\ UNCHANGED world
                                /\ cache.loaded # Never /\ now - cache.loaded < MaxKeyAge
  BY Zenon, <1>2, <1>3, <1>4, <1>7
<1> QED BY Zenon, <1>1, <1>8

LEMMA NextVouched ==
  ASSUME Sound, AInv, AcceptedIsVouchedFor, [Next]_vars
  PROVE  AcceptedIsVouchedFor'
<1>0. /\ now \in Nat \ {0} /\ FetchLimit \in Nat /\ MaxKeyAge \in Nat
      /\ cache \in [loaded : Nat, attempted : Nat, keys : SUBSET Key] /\ Cached
      /\ published \in [Key -> Nat]
  BY DEF AInv, Times, Sound
<1>1. CASE UNCHANGED vars
  BY <1>1 DEF vars, AcceptedIsVouchedFor, Key, Family
<1>2. CASE Next
  <2> SUFFICES ASSUME answered'.answer = "accepted", NEW t \in answered'.token
               PROVE  /\ t.signer \in Key /\ t.signer.kid = t.kid
                      /\ t.alg = Family(t.signer.family) /\ t.signer.use # "enc"
                      /\ published'[t.signer] # Never
                      /\ now' - published'[t.signer] < MaxKeyAge + FetchLimit
    BY DEF AcceptedIsVouchedFor, Key, Family
  <2>1. PICK r \in Request, u \in Token, k \in cache.keys :
            /\ answered'.token = {u} /\ UNCHANGED world
            /\ k.kid = u.kid /\ u.signer = k /\ u.alg = verification_algorithm(k)
            /\ cache.loaded # Never /\ now - cache.loaded < MaxKeyAge
    BY <1>2, Accepts
  <2>2. u = t BY <2>1
  <2>3. /\ k \in Installed(Key) /\ published[k] >= 1 /\ k \in Key
        /\ published[k] + FetchLimit >= cache.loaded
    BY <1>0 DEF Cached
  <2>4. t.alg = Family(k.family) /\ k.use # "enc"
    BY <2>1, <2>2, <2>3 DEF Installed, verification_algorithm, Absent
  <2>5. published[k] # Never /\ now - published[k] < MaxKeyAge + FetchLimit
    BY <1>0, <2>1, <2>3 DEF Never
  <2> QED BY <2>1, <2>2, <2>3, <2>4, <2>5 DEF world
<1> QED BY <1>1, <1>2

(* A token is refused for its key only when the cache, read lately, lacks it.*)
LEMMA Unknowns ==
  ASSUME Sound, AInv, Next, answered'.answer = "unknown_key"
  PROVE  \E r \in Request, t \in Token :
            /\ answered'.token = {t} /\ UNCHANGED world
            /\ \A k \in cache.keys : k.kid # t.kid
            /\ cache.loaded # Never
            /\ \/ cache.loaded = now
               \/ /\ flight = NoRequest /\ cache.attempted # Never
                  /\ now - cache.attempted < MinInterval
<1>0. /\ now \in Nat \ {0}
      /\ request \in [Request -> Call] /\ \A r \in Request : CallOK(r)
  BY DEF AInv, Times, Calls
<1>1. ASSUME NEW r \in Request, Found(r), ~At(r, "idle")
      PROVE  \E t \in Token : answered'.token = {t} /\ \A k \in cache.keys : k.kid # t.kid
  <2>1. PICK t \in Token : request[r].token = {t} BY <1>0, <1>1 DEF CallOK, At
  <2>2. ~\E k \in Find(Kid(r)) : Decide(r, k) BY DEF Decide, Answer
  <2>3. Find(Kid(r)) = {} /\ Answer(r, "unknown_key") BY <1>1, <2>2 DEF Found
  <2>4. answered'.token = {t} BY <2>1, <2>3 DEF Answer
  <2>5. Find(t.kid) = {} BY <2>1, <2>3, KidOfToken
  <2> QED BY <2>4, <2>5 DEF Find
<1>2. ASSUME NEW r \in Request,
             \/ Lookup(r) \/ Begin(r) \/ Fetch(r) \/ FetchFails(r) \/ Install(r) \/ Cancel(r)
             \/ \E t \in Token : Arrive(r, t)
      PROVE  FALSE
  <2>1. answered' # NoAnswer BY DEF NoAnswer
  <2>2. ~Answer(r, "unavailable") /\ ~Answer(r, "cancelled") BY DEF Answer
  <2>3. ~Begin(r) /\ ~Fetch(r) /\ ~Install(r) BY <2>1 DEF Begin, Goto, Fetch, Install
  <2>4. ~FetchFails(r) /\ ~Cancel(r) BY <2>2 DEF FetchFails, Cancel
  <2>5. ASSUME NEW t \in Token, Arrive(r, t) PROVE FALSE BY <2>1, <2>5 DEF Arrive
  <2>6. ~\E k \in Find(Kid(r)) : Decide(r, k) BY DEF Decide, Answer
  <2>7. ~Lookup(r) BY <2>1, <2>6 DEF Lookup, Goto
  <2> QED BY <1>2, <2>3, <2>4, <2>5, <2>7
<1>3. ~Rotate /\ ~Tick BY DEF Rotate, Tick, NoAnswer
<1>4. PICK r \in Request : Refreshed(r) \/ Throttled(r) BY Zenon, <1>2, <1>3 DEF Next, Step
<1>5. CASE Refreshed(r)
  <2>1. /\ Found(r) /\ ~At(r, "idle") /\ UNCHANGED world
        /\ cache.loaded = now /\ cache.loaded # Never
    BY <1>0, <1>5 DEF Refreshed, At, CallOK, Never
  <2> QED BY <1>1, <2>1
<1>6. CASE Throttled(r)
  <2>1. ~Answer(r, "unavailable") BY DEF Answer
  <2>2. Found(r) /\ cache_is_fresh /\ ~At(r, "idle") /\ UNCHANGED world
    BY <1>6, <2>1 DEF Throttled, At
  <2>3. /\ flight = NoRequest /\ cache.attempted # Never
        /\ now - cache.attempted < MinInterval
    BY <1>0, <1>6 DEF Throttled, CallOK, At
  <2> QED BY <1>1, <2>2, <2>3 DEF cache_is_fresh
<1> QED BY <1>4, <1>5, <1>6

LEMMA NextNoticed ==
  ASSUME Sound, AInv, Reliable, RotationIsNoticed, [Next]_vars
  PROVE  RotationIsNoticed'
<1>0. /\ now \in Nat \ {0} /\ FetchLimit \in Nat /\ MinInterval \in Nat
      /\ cache \in [loaded : Nat, attempted : Nat, keys : SUBSET Key] /\ Cached
      /\ cache.attempted <= now /\ cache.loaded <= now
      /\ since \in [Key -> Nat] /\ issuer \subseteq Key
  BY DEF AInv, Times, Sound, Key
<1>1. CASE UNCHANGED vars
  BY <1>1 DEF vars, RotationIsNoticed, Installed
<1>2. CASE Next
  <2>1. ASSUME answered'.answer = "unknown_key", NEW t \in answered'.token,
               NEW k \in Installed(issuer'), k.kid = t.kid
        PROVE  now' - since'[k] <= MinInterval + FetchLimit
    <3>1. PICK r \in Request, u \in Token :
            /\ answered'.token = {u} /\ UNCHANGED world
            /\ \A c \in cache.keys : c.kid # u.kid
            /\ cache.loaded # Never
            /\ \/ cache.loaded = now
               \/ /\ flight = NoRequest /\ cache.attempted # Never
                  /\ now - cache.attempted < MinInterval
      BY <1>2, <2>1, Unknowns
    <3>2. /\ u = t /\ k \notin cache.keys /\ k \in Installed(issuer)
          /\ now' = now /\ since' = since
      BY <2>1, <3>1 DEF world
    <3>3. since[k] + FetchLimit >= cache.loaded /\ since[k] \in Nat
      BY <1>0, <3>1, <3>2 DEF Cached, Installed
    <3>4. CASE cache.loaded = now BY <1>0, <3>2, <3>3, <3>4
    <3>5. CASE /\ flight = NoRequest /\ cache.attempted # Never
               /\ now - cache.attempted < MinInterval
      <4>1. cache.loaded >= cache.attempted BY <1>0, <3>5 DEF Cached
      <4> QED BY <1>0, <3>2, <3>3, <3>5, <4>1
    <3> QED BY <3>1, <3>4, <3>5
  <2>2. Installed(issuer)' = Installed(issuer') BY DEF Installed
  <2> QED BY <2>1, <2>2 DEF RotationIsNoticed
<1> QED BY <1>1, <1>2

-----------------------------------------------------------------------------
(* A cached key is never trusted beyond its age: whatever the number of     *)
(* calls, and however refreshes, failures, cancellations and rotations      *)
(* interleave, authenticate accepts a token only on a key of its algorithm  *)
(* that the issuer published within max_key_age and one fetch.              *)
THEOREM AcceptedOnlyVouched ==
  ASSUME Sound
  PROVE  Spec => []AcceptedIsVouchedFor
<1>1. Init => AInv /\ AcceptedIsVouchedFor
  BY InitAuth DEF Init, AcceptedIsVouchedFor, NoAnswer
<1>2. AInv /\ AcceptedIsVouchedFor /\ [Next]_vars => (AInv /\ AcceptedIsVouchedFor)'
  BY NextAuth, NextVouched
<1> QED BY <1>1, <1>2, PTL DEF Spec

(* While the issuer answers and no client leaves, the throttle that an      *)
(* unknown key starts hides a rotation from key_for's other callers for no  *)
(* longer than the minimum interval and a fetch.                            *)
THEOREM RotationsAreNoticed ==
  ASSUME Sound, Reliable
  PROVE  Spec => []RotationIsNoticed
<1>1. Init => AInv /\ RotationIsNoticed
  BY InitAuth DEF Init, RotationIsNoticed, NoAnswer
<1>2. AInv /\ RotationIsNoticed /\ [Next]_vars => (AInv /\ RotationIsNoticed)'
  BY NextAuth, NextNoticed
<1> QED BY <1>1, <1>2, PTL DEF Spec

(* However a fetch ends, refresh_keys starts the next one no sooner than    *)
(* the minimum interval after it began, and only one at a time.             *)
THEOREM FetchesAlwaysSpaced ==
  ASSUME Sound
  PROVE  Spec => [][FetchesAreSpaced]_vars
<1>1. Init => AInv BY InitAuth
<1>2. AInv /\ [Next]_vars => AInv' BY NextAuth
<1>3. AInv /\ [Next]_vars => [FetchesAreSpaced]_vars
  <2> SUFFICES ASSUME AInv, [Next]_vars, NEW q \in Request,
                      ~At(q, "fetching"), request'[q].pc = "fetching"
               PROVE  /\ \A r \in Request : ~Holder(r)
                      /\ cache.attempted # Never => now - cache.attempted >= MinInterval
    BY DEF FetchesAreSpaced
  <2>0. /\ now \in Nat \ {0} /\ MinInterval \in Nat /\ NoRequest \notin Request
        /\ cache \in [loaded : Nat, attempted : Nat, keys : SUBSET Key]
        /\ Calls /\ request \in [Request -> Call] /\ \A r \in Request : CallOK(r)
    BY DEF AInv, Times, Calls, Sound
  <2>1. ASSUME NEW r \in Request,
               Returns(r) \/ (\E next : GoesOn(r, next)) \/ Fetches(r) \/ Installs(r)
        PROVE  FALSE
    BY <2>0, <2>1 DEF Returns, GoesOn, Fetches, Installs, Idle, At, Call
  <2>2. ~Rotate /\ ~Tick /\ ~UNCHANGED <<world, cache, flight, request>>
    BY DEF Rotate, Tick, At
  <2>3. PICK r \in Request : Starts(r) BY Zenon, <2>0, <2>1, <2>2, StepKinds
  <2>4. flight = NoRequest /\ ~(cache.attempted # Never /\ now - cache.attempted < MinInterval)
    BY <2>3 DEF Starts
  <2>5. \A p \in Request : ~Holder(p) BY <2>0, <2>4 DEF CallOK
  <2> QED BY <2>0, <2>4, <2>5
<1> QED BY <1>1, <1>2, <1>3, PTL DEF Spec

(* Whatever claims a token carries, principal_type takes none that names a  *)
(* configured client for a human.                                           *)
THEOREM ClientsAreNeverHuman == Spec => []NoClientIsHuman
<1>1. ASSUME NEW c, {c.azp, c.appid} \cap (Agents \cup Services) # {}
      PROVE  principal_type(c) # "human"
  <2>1. \A client : /\ Configured(client) \in {"agent", "service", Absent}
                    /\ client \in Agents \cup Services => Configured(client) # Absent
    BY DEF Configured, Absent
  <2>2. CASE c.azp \in Agents \cup Services BY <2>1, <2>2 DEF principal_type, Absent
  <2>3. CASE c.azp \notin Agents \cup Services
    <3>1. c.appid \in Agents \cup Services BY <1>1, <2>3
    <3> QED BY <2>1, <3>1 DEF principal_type, Absent
  <2> QED BY <2>2, <2>3
<1>2. ASSUME NEW c, NEW i \in identity_from(c) PROVE i.principal[1] = principal_type(c)
  BY DEF identity_from
<1>3. NoClientIsHuman BY <1>1, <1>2 DEF NoClientIsHuman
<1> QED BY <1>3, PTL

=============================================================================

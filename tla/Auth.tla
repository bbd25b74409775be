---------------------------------- MODULE Auth ----------------------------------
(***************************************************************************)
(* Bearer authentication (crates/ledger-api/src/auth.rs): requests that     *)
(* share OidcAuthenticator's cache of signing keys, refreshed from an       *)
(* issuer that rotates its keys and is sometimes down, and the identity     *)
(* ClaimsPolicy derives from the claims of a token.                         *)
(*                                                                         *)
(* Signatures are not modelled: a token names the key that signed it, and   *)
(* verifies under that key only.                                            *)
(***************************************************************************)
EXTENDS Naturals, FiniteSets

CONSTANTS
    Request,       \* concurrent requests
    Token,         \* the tokens clients hold
    JwkSet,        \* what the issuer may publish: sets of JWKs
    Agents,        \* agent_client_ids
    Services,      \* service_client_ids
    RoleMap,       \* RoleMap[role]: the capability it stands for
    MinInterval,   \* min_refresh_interval
    MaxKeyAge,     \* max_key_age
    FetchLimit,    \* the HTTP client's time limit
    Leeway,        \* of the token's own times
    Reliable,      \* whether every fetch succeeds and no client leaves
    MaxTime        \* bound on the clock

VARIABLES
    now,         \* the clock
    issuer,      \* the JWKs the issuer publishes
    published,   \* published[k]: when k was last among them
    since,       \* since[k]: since when k has been
    cache,       \* KeyCache
    flight,      \* the request that holds the refresh lock, or NoRequest
    request,     \* request[r]: where its call of authenticate is
    answered     \* what the last step answered, and to whom

vars == <<now, issuer, published, since, cache, flight, request, answered>>
world == <<now, issuer, published, since>>

Key == UNION JwkSet
NoRequest == "none"
Never == 0      \* the clock starts at 1
NoAnswer == [to |-> NoRequest, token |-> {}, answer |-> "none"]

-----------------------------------------------------------------------------
(* ClaimsPolicy. *)

Absent == "absent"

(* principal_type: the first client id that is configured decides, and the  *)
(* explicit claim must agree with it.                                       *)
Configured(client) == CASE client \in Agents -> "agent"
                        [] client \in Services -> "service"
                        [] OTHER -> Absent

principal_type(c) ==
    LET configured == IF Configured(c.azp) # Absent THEN Configured(c.azp)
                      ELSE Configured(c.appid)
    IN  CASE c.type \notin {Absent, "human", "agent", "service"}              -> "refused"
          [] c.type # Absent /\ configured # Absent /\ c.type # configured    -> "refused"
          [] c.type # Absent                                                  -> c.type
          [] configured # Absent                                              -> configured
          [] OTHER                                                            -> "refused"

capabilities(c) == {RoleMap[r] : r \in c.roles \cap DOMAIN RoleMap}

(* identity_from; its principal id is the type and the subject. *)
identity_from(c) ==
    IF \/ c.tenant = Absent \/ c.subject = Absent
       \/ principal_type(c) = "refused" \/ capabilities(c) = {}
    THEN {}
    ELSE {[tenant |-> c.tenant, principal |-> <<principal_type(c), c.subject>>,
           on_behalf_of |-> IF c.behalf = Absent THEN <<>> ELSE <<"human", c.behalf>>,
           capabilities |-> capabilities(c)]}

-----------------------------------------------------------------------------
(* verification_algorithm: the one algorithm of a key's family, or none.    *)
Family(family) == CASE family = "RSA" -> "RS256" [] family = "P-256" -> "ES256"
                    [] OTHER -> "none"

verification_algorithm(k) ==
    IF \/ k.use \notin {Absent, "sig"}
       \/ \E ops \in k.ops : "verify" \notin ops   \* {}: the member is absent
       \/ k.alg \notin {Absent, Family(k.family)}
    THEN "none" ELSE Family(k.family)

(* What a fetched set installs: by key id, the last of its usable keys.     *)
Installed(set) == {k \in set : k.kid # Absent /\ verification_algorithm(k) # "none"}

cache_is_fresh == cache.loaded # Never /\ now - cache.loaded < MaxKeyAge

Find(kid) == {k \in cache.keys : k.kid = kid}

-----------------------------------------------------------------------------
Idle == [pc |-> "idle", token |-> {}, fetched |-> {}, began |-> 0]

Init ==
    /\ now = 1
    /\ issuer \in JwkSet
    /\ published = [k \in Key |-> IF k \in issuer THEN 1 ELSE Never]
    /\ since = published
    /\ cache = [loaded |-> Never, attempted |-> Never, keys |-> {}]
    /\ flight = NoRequest
    /\ request = [r \in Request |-> Idle]
    /\ answered = NoAnswer

At(r, pc) == request[r].pc = pc

Kid(r) == (CHOOSE t \in request[r].token : TRUE).kid

Goto(r, pc) == request' = [request EXCEPT ![r].pc = pc] /\ answered' = NoAnswer

Answer(r, answer) ==
    /\ request' = [request EXCEPT ![r] = Idle]
    /\ answered' = [to |-> r, token |-> request[r].token, answer |-> answer]

(* validation: what the library checks of a token besides its signature.    *)
validation(t) == t.issued /\ t.exp + Leeway >= now /\ t.nbf <= now + Leeway

(* authenticate, once the key is found. *)
Decide(r, k) == \E t \in request[r].token :
    IF /\ t.alg = verification_algorithm(k)
       /\ t.signer = k /\ validation(t)
       /\ identity_from(t.claims) # {}
    THEN Answer(r, "accepted")
    ELSE Answer(r, "unauthenticated")

(* A token without a key id is refused at once. *)
Arrive(r, t) ==
    /\ At(r, "idle")
    /\ IF t.kid = Absent
       THEN /\ answered' = [to |-> r, token |-> {t}, answer |-> "unauthenticated"]
            /\ UNCHANGED request
       ELSE /\ request' = [request EXCEPT ![r] = [Idle EXCEPT !.pc = "lookup", !.token = {t}]]
            /\ answered' = NoAnswer
    /\ UNCHANGED <<world, cache, flight>>

(* Mutant: a known key is good for ever. *)
LookupStale(r) ==
    /\ At(r, "lookup")
    /\ IF Find(Kid(r)) # {}
       THEN \E k \in Find(Kid(r)) : Decide(r, k)
       ELSE Goto(r, "waiting")
    /\ UNCHANGED <<world, cache, flight>>

(* key_for: a fresh cache that has the key. *)
Lookup(r) ==
    /\ At(r, "lookup")
    /\ IF cache_is_fresh /\ Find(Kid(r)) # {}
       THEN \E k \in Find(Kid(r)) : Decide(r, k)
       ELSE Goto(r, "waiting")
    /\ UNCHANGED <<world, cache, flight>>

(* refresh_keys: one at a time, and not too soon after the last attempt.    *)
Begin(r) ==
    /\ At(r, "waiting") /\ flight = NoRequest
    /\ IF cache.attempted # Never /\ now - cache.attempted < MinInterval
       THEN Goto(r, "throttled") /\ UNCHANGED <<cache, flight>>
       ELSE /\ cache' = [cache EXCEPT !.attempted = now]
            /\ flight' = r
            /\ request' = [request EXCEPT ![r].pc = "fetching", ![r].began = now]
            /\ answered' = NoAnswer
    /\ UNCHANGED world

(* fetch_jwks: the document as it leaves the issuer. *)
Fetch(r) ==
    /\ At(r, "fetching")
    /\ request' = [request EXCEPT ![r].pc = "received", ![r].fetched = issuer]
    /\ answered' = NoAnswer
    /\ UNCHANGED <<world, cache, flight>>

Holder(r) == request[r].pc \in {"fetching", "received"}

(* No answer in time, an error status, or a document too large or malformed. *)
FetchFails(r) ==
    /\ Holder(r) /\ ~Reliable
    /\ flight' = NoRequest
    /\ Answer(r, "unavailable")
    /\ UNCHANGED <<world, cache>>

Install(r) ==
    /\ At(r, "received")
    /\ cache' = [cache EXCEPT !.keys = Installed(request[r].fetched), !.loaded = now]
    /\ flight' = NoRequest
    /\ request' = [request EXCEPT ![r].pc = "refreshed", ![r].fetched = {}, ![r].began = 0]
    /\ answered' = NoAnswer
    /\ UNCHANGED world

(* The second half of key_for. *)
Found(r) == IF Find(Kid(r)) = {} THEN Answer(r, "unknown_key")
            ELSE \E k \in Find(Kid(r)) : Decide(r, k)

Refreshed(r) == At(r, "refreshed") /\ Found(r) /\ UNCHANGED <<world, cache, flight>>

Throttled(r) ==
    /\ At(r, "throttled")
    /\ IF cache_is_fresh THEN Found(r) ELSE Answer(r, "unavailable")
    /\ UNCHANGED <<world, cache, flight>>

(* The edge timeout drops the call, and its lock with it. *)
Cancel(r) ==
    /\ (At(r, "waiting") \/ Holder(r)) /\ ~Reliable
    /\ flight' = IF flight = r THEN NoRequest ELSE flight
    /\ Answer(r, "cancelled")
    /\ UNCHANGED <<world, cache>>

-----------------------------------------------------------------------------
(* The issuer and the clock.  A fetch ends within its limit, and a call     *)
(* that waits for nothing takes no time.                                    *)
Rotate ==
    /\ issuer' \in JwkSet \ {issuer}
    /\ published' = [k \in Key |-> IF k \in issuer' THEN now ELSE published[k]]
    /\ since' = [k \in Key |-> IF k \in issuer' \ issuer THEN now ELSE since[k]]
    /\ answered' = NoAnswer
    /\ UNCHANGED <<now, cache, flight, request>>

Tick ==
    /\ now < MaxTime
    /\ \A r \in Request : \/ At(r, "idle")
                          \/ At(r, "waiting") /\ flight # NoRequest
                          \/ Holder(r) /\ now - request[r].began < FetchLimit
    /\ now' = now + 1
    /\ published' = [k \in Key |-> IF k \in issuer THEN now' ELSE published[k]]
    /\ answered' = NoAnswer
    /\ UNCHANGED <<issuer, since, cache, flight, request>>

Step(r) == Lookup(r) \/ Begin(r) \/ Fetch(r) \/ FetchFails(r) \/ Install(r)
           \/ Refreshed(r) \/ Throttled(r)

Next == \/ \E r \in Request : Step(r) \/ Cancel(r) \/ \E t \in Token : Arrive(r, t)
        \/ Rotate \/ Tick

(* A call that can move moves. *)
Fairness == \A r \in Request : WF_vars(Step(r))

Spec == Init /\ [][Next]_vars /\ Fairness

-----------------------------------------------------------------------------
TypeOK ==
    /\ now \in 1 .. MaxTime
    /\ issuer \in JwkSet
    /\ cache.loaded \in 0 .. now /\ cache.attempted \in 0 .. now /\ cache.keys \subseteq Key
    /\ \A r \in Request : Holder(r) <=> flight = r

(* "A cached key is never trusted beyond max_key_age": a request is         *)
(* accepted only on the signature of a key that the issuer published for    *)
(* verification with that algorithm, no longer ago than the age limit and   *)
(* the time a fetch may take, however refreshes, failures, cancellations    *)
(* and rotations interleave.                                                *)
AcceptedIsVouchedFor == answered.answer = "accepted" => \A t \in answered.token :
    /\ t.signer \in Key /\ t.signer.kid = t.kid
    /\ t.alg = Family(t.signer.family) /\ t.signer.use # "enc"
    /\ published[t.signer] # Never
    /\ now - published[t.signer] < MaxKeyAge + FetchLimit

(* The issuer is not hammered: whatever ends a fetch, the next one starts   *)
(* no sooner than the minimum interval after it started, and never while it *)
(* runs (refresh_keys: attempted_at, the single-flight lock).               *)
FetchesAreSpaced == \A r \in Request :
    ~At(r, "fetching") /\ request'[r].pc = "fetching" =>
        /\ \A q \in Request : ~Holder(q)
        /\ cache.attempted # Never => now - cache.attempted >= MinInterval

(* A configured client, agent or service, is never taken for a human, in    *)
(* whichever claim it names itself and whatever type it claims              *)
(* (principal_type).                                                        *)
NoClientIsHuman == answered.answer = "accepted" => \A t \in answered.token :
    {t.claims.azp, t.claims.appid} \cap (Agents \cup Services) # {} =>
        \A i \in identity_from(t.claims) : i.principal[1] # "human"

(* While the issuer answers, a token of a key that it has published for     *)
(* longer than the minimum interval and a fetch is not refused as unknown:  *)
(* the throttle that one caller's unknown key starts never hides a rotation *)
(* from the others for longer (key_for).                                    *)
RotationIsNoticed == answered.answer = "unknown_key" => \A t \in answered.token :
    \A k \in Installed(issuer) : k.kid = t.kid => now - since[k] <= MinInterval + FetchLimit

(* Every call returns: no failure or cancellation keeps the refresh lock. *)
CallsReturn == \A r \in Request : ~At(r, "idle") ~> At(r, "idle")
=============================================================================

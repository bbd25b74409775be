------------------------------ MODULE MCProcesses ------------------------------
(***************************************************************************)
(* The processes around the ledger: the server's requests, authentication,  *)
(* start-up and shutdown, its view of the database's schema and roles, and  *)
(* the projector's process.  They share no state, so one run checks them    *)
(* side by side: `subject' says which of them a behaviour is about, and the *)
(* variables of the others rest.  The state space is the sum of theirs.     *)
(***************************************************************************)
EXTENDS ProjectorProcess, TLC

CONSTANTS None, a1, a2, b, p1, p2

VARIABLES
    subject,
    st, durable, commits,                                                  \* Api
    now, issuer, published, since, cache, flight, request, answered,       \* Auth
    applied, control, granted, replica, changes, faults,                   \* Serving
    holds, attrs, member, drift, acting, verified,                         \* RolePrivileges
    env, proc, server, handlers, clients, signalled, draining, timer       \* ServerProcess

apiVars == <<st, durable, commits>>
authVars == <<now, issuer, published, since, cache, flight, request, answered>>
servingVars == <<applied, control, granted, replica, changes, faults>>
roleVars == <<holds, attrs, member, drift, acting, verified>>
serverVars == <<env, proc, server, handlers, clients, signalled, draining, timer>>

Rest == 0
ApiRests == st = Rest /\ durable = Rest /\ commits = Rest
AuthRests == /\ now = Rest /\ issuer = Rest /\ published = Rest /\ since = Rest
             /\ cache = Rest /\ flight = Rest /\ request = Rest /\ answered = Rest
ServingRests == /\ applied = Rest /\ control = Rest /\ granted = Rest
                /\ replica = Rest /\ changes = Rest /\ faults = Rest
RolesRest == /\ holds = Rest /\ attrs = Rest /\ member = Rest
             /\ drift = Rest /\ acting = Rest /\ verified = Rest
ServerRests == /\ env = Rest /\ proc = Rest /\ server = Rest /\ handlers = Rest
               /\ clients = Rest /\ signalled = Rest /\ draining = Rest /\ timer = Rest

-----------------------------------------------------------------------------
(* Three requests that share keys, connections and permits: retries, a      *)
(* changed body under the same key, a request the store refuses; and one    *)
(* request of every route, served, refused before the store and refused by  *)
(* it.                                                                      *)
Sent(op, key, digest, wrong) == [op |-> op, key |-> key, digest |-> digest, faults |-> wrong]
Mutations == INSTANCE Api WITH
    Slots <- {a1, a2, b}, Connections <- 2, MaxExpensive <- 1, MaxValidations <- 1,
    Requests <- {Sent("validate", "k", "d1", {}), Sent("validate", "k", "d2", {}),
                 Sent("prepare", "k", "d1", {"HeadChanged"})}
Routes == INSTANCE Api WITH
    Slots <- {a1, a2}, Connections <- 1, MaxExpensive <- 3, MaxValidations <- 1,
    Requests <- {Sent(op, "k", "d1", wrong) :
                   op \in DOMAIN Mutations!router,
                   wrong \in {{}, {"graph_id", "commit_id", "route"}, {"BranchDeleted", "context"}}}
                \cup {Sent("validate", "k", "d1", {"no_validator"}), Sent("prepare", "k", "d1", {"graph"})}

(* An issuer that rotates from one key to another by way of both, with a    *)
(* key that is not for verification beside them.                            *)
Jwk(kid, family, use, ops, alg) ==
    [kid |-> kid, family |-> family, use |-> use, ops |-> ops, alg |-> alg]
Absent == "absent"
old == Jwk("a", "RSA", "sig", {{"verify"}}, "RS256")
new == Jwk("b", "P-256", Absent, {}, Absent)
sealed == Jwk("c", "RSA", "enc", {}, Absent)
unnamed == Jwk(Absent, "RSA", "sig", {}, Absent)
signing == Jwk("d", "P-256", "sig", {{"sign"}}, Absent)
restated == Jwk("e", "RSA", Absent, {}, "RS512")
Claims(type, azp, appid, roles) ==
    [tenant |-> "t", subject |-> "s", type |-> type, azp |-> azp, appid |-> appid,
     behalf |-> Absent, roles |-> roles]
Signed(k, alg, claims) ==
    [kid |-> k.kid, signer |-> k, alg |-> alg, issued |-> TRUE, nbf |-> 0, exp |-> 99,
     claims |-> claims]
Person == Claims("human", "portal", Absent, {"ledger.read"})
OldPerson == Signed(old, "RS256", Person)
Persons == {OldPerson, Signed(new, "ES256", Person)}
Rotating == {{old, sealed}, {old, new}, {new}}
Roles == [r \in {"ledger.read", "ledger.review"} |-> r]

(* Every way a token can be wrong, and every mixture of claims. *)
AnyToken ==
    {OldPerson, [OldPerson EXCEPT !.kid = Absent], [OldPerson EXCEPT !.kid = "b"],
     [OldPerson EXCEPT !.alg = "ES256"], [OldPerson EXCEPT !.issued = FALSE],
     [OldPerson EXCEPT !.exp = 1], [OldPerson EXCEPT !.nbf = 3],
     [OldPerson EXCEPT !.claims.tenant = Absent], [OldPerson EXCEPT !.claims.behalf = "u"]}
    \cup {Signed(k, "RS256", Person) : k \in {sealed, unnamed, restated}}
    \cup {Signed(signing, "ES256", Person)}
    \cup {Signed(new, "ES256", Claims(type, azp, appid, roles)) :
             type \in {Absent, "human", "agent", "robot"},
             azp \in {Absent, "portal", "bot"}, appid \in {Absent, "bot", "batch"},
             roles \in {{"ledger.read", "other"}}}

(* Two calls, with fetches that fail and clients that leave; two calls and  *)
(* an issuer that always answers; one call with any token.                  *)
Fetching == INSTANCE Auth WITH
    Request <- {a1, a2}, Token <- Persons, JwkSet <- Rotating, Agents <- {"bot"},
    Services <- {"batch"}, RoleMap <- Roles, MinInterval <- 2, MaxKeyAge <- 2,
    FetchLimit <- 1, Leeway <- 1, Reliable <- FALSE, MaxTime <- 4
Rotation == INSTANCE Auth WITH
    Request <- {a1, a2}, Token <- Persons, JwkSet <- Rotating, Agents <- {"bot"},
    Services <- {"batch"}, RoleMap <- Roles, MinInterval <- 1, MaxKeyAge <- 3,
    FetchLimit <- 1, Leeway <- 1, Reliable <- TRUE, MaxTime <- 4
Claimed == INSTANCE Auth WITH
    Request <- {b}, Token <- AnyToken,
    JwkSet <- {{old, sealed, unnamed, signing, restated}, {new}}, Agents <- {"bot"},
    Services <- {"batch"}, RoleMap <- Roles, MinInterval <- 1, MaxKeyAge <- 2,
    FetchLimit <- 1, Leeway <- 1, Reliable <- TRUE, MaxTime <- 4

(* A database with two migrations; the second adds the CHECKs, the partial  *)
(* index and the NOT NULL column.  A third is not yet required.             *)
Controls == {"trigger", "function", "key", "check", "address", "index", "not null"}
Installed == [c \in Controls |-> IF c \in {"trigger", "key"} THEN 1 ELSE 2]
Serves == INSTANCE Serving WITH
    Replica <- {"S"}, Identity <- [r \in {"S"} |-> "runtime"], Required <- [r \in {"S"} |-> 2],
    Level <- 3, Control <- Controls, Kind <- [c \in Controls |-> c], Since <- Installed,
    MaxChanges <- 2, MaxFaults <- 1
Projects == INSTANCE Serving WITH
    Replica <- {"S"}, Identity <- [r \in {"S"} |-> "projector"], Required <- [r \in {"S"} |-> 2],
    Level <- 3, Control <- Controls, Kind <- [c \in Controls |-> c], Since <- Installed,
    MaxChanges <- 2, MaxFaults <- 1

(* A process's role and two others, with statements enough for a chain of   *)
(* memberships that ends in a privilege.                                    *)
Privileges == INSTANCE RolePrivileges WITH
    Role <- {a1, a2, b}, who <- b, Tables <- {"SELECT", "INSERT columns"},
    Sequences <- {"USAGE"}, MaxDrift <- 3

(* Every value start-up tells apart: of the settings about who may connect, *)
(* of those about the validator; and one environment that serves, for the   *)
(* connections of a running process.                                        *)
Exposure == [s \in {"addr", "database", "backend", "mode", "credentials", "insecure", "unvalidated",
                    "validator url", "validator id", "token file", "limits"} |->
    CASE s = "addr"        -> {"everywhere"}
      [] s = "database"    -> {"", "postgres://"}
      [] s = "backend"     -> {"filesystem", "postgres"}
      [] s = "mode"        -> {"oidc", "dev-hs256"}
      [] s = "credentials" -> {"oidc", "dev-hs256"}
      [] s \in {"insecure", "unvalidated"} -> {"switch"}
      [] s = "validator url" -> {"https"}
      [] s = "validator id"  -> {"A"}
      [] s = "token file"    -> {"readable"}
      [] s = "limits"        -> {"validator outlasts request"}]
Validator == [s \in DOMAIN Exposure |->
    CASE s = "unvalidated"   -> {"switch", "other"}
      [] s = "validator url" -> {"https", "http loopback"}
      [] s = "validator id"  -> {"A", "not a token"}
      [] s = "token file"    -> {"", "readable", "unreadable"}
      [] s = "limits"        -> {"validator outlasts request"}
      [] s \in {"mode", "credentials"} -> {"oidc", "dev-hs256"}
      [] s = "backend"       -> {"postgres"}
      [] s = "database"      -> {"postgres://"}
      [] s \in {"addr", "insecure"} -> {}]
Configured == INSTANCE ServerProcess WITH
    open <- clients, Value <- Exposure, Client <- {}, DrainTimeout <- 1
Validated == INSTANCE ServerProcess WITH
    open <- clients, Value <- Validator, Client <- {}, DrainTimeout <- 1
Draining == INSTANCE ServerProcess WITH
    open <- clients, Value <- [s \in DOMAIN Exposure |-> {}], Client <- {a1, a2, b},
    DrainTimeout <- 3

(* The projector: two processes in environments with different target ids,  *)
(* over datasets bound to nothing, to either id or to both; one process     *)
(* probing any kind of dataset; and every environment that decides.         *)
Base == [development |-> Unset, username |-> Unset, password |-> Unset, token |-> "visible",
         timeout |-> Unset, lease |-> Unset, interval |-> Unset, state |-> Unset, request |-> Unset,
         target |-> "blue", database |-> "set", query |-> "https", update |-> "https"]
TwoTargets == {Base, [Base EXCEPT !.target = "green"]}
Credential == {[Base EXCEPT !.development = d, !.username = u, !.password = s, !.token = t] :
                 d \in {Unset, "switch", "other"}, u \in {Unset, "user", "user:name"},
                 s \in {Unset, "spaced", "unreadable"}, t \in {Unset, "visible", "spaced", "unreadable"}}
Endpoint == {[Base EXCEPT !.development = d, !.query = q, !.update = u] :
               d \in {Unset, "switch"},
               q \in {Unset, "https", "http loopback", "http elsewhere", "other"},
               u \in {Unset, "https", "http loopback", "http elsewhere", "other"}}
Times == {[Base EXCEPT !.timeout = t, !.lease = l] :
            t \in {Unset, Garbage, 0, 50, 58, 64, 65}, l \in {Unset, Garbage, 29, 30, 149, 150, 230, 256}}
Others == {[Base EXCEPT !.interval = i] : i \in {Garbage, 0, 1}}
          \cup {[Base EXCEPT !.state = n, !.request = m] : n \in {Unset, Garbage, 64}, m \in {Unset, 65, 48}}
          \cup {[Base EXCEPT !.target = t] : t \in {Unset, "bad id"}}
          \cup {[Base EXCEPT !.database = Unset]}
Healthy == [kind |-> "transactional", union |-> FALSE, bound |-> {}, probe |-> FALSE]
Bindings == {[Healthy EXCEPT !.bound = ids] : ids \in SUBSET {"blue", "green"}}
            \cup {[Healthy EXCEPT !.union = TRUE]}
Kinds == {"transactional", "not transactional", "lax"}
Starts(m, n) == (p1 :> m) @@ (p2 :> n)
Restarted == Starts(2, 1)
ProbesAny == INSTANCE ProjectorProcess WITH
    MaxStart <- Starts(2, 0), Worker <- {a1, a2}, Environment <- {Base},
    Dataset <- {[Healthy EXCEPT !.kind = k, !.probe = left] :
                  k \in {"transactional", "lax"}, left \in BOOLEAN},
    Kind <- Kinds, Lingering <- {"probe"}, MaxTrouble <- 1, MaxDeploy <- 2
AnySettings == INSTANCE ProjectorProcess WITH
    MaxStart <- Starts(1, 0), Worker <- {b}, Environment <- Credential \cup Endpoint \cup Times \cup Others,
    Dataset <- {Healthy}, Lingering <- {}, MaxTrouble <- 0, MaxDeploy <- 0

-----------------------------------------------------------------------------
ProjectorRests == Init /\ dataset = Healthy
MCInit ==
    \/ /\ \/ subject = "mutations" /\ Mutations!Init
          \/ subject = "routes" /\ Routes!Init
       /\ AuthRests /\ ServingRests /\ RolesRest /\ ServerRests /\ ProjectorRests
    \/ /\ \/ subject = "fetching" /\ Fetching!Init
          \/ subject = "rotation" /\ Rotation!Init
          \/ subject = "claims" /\ Claimed!Init
       /\ ApiRests /\ ServingRests /\ RolesRest /\ ServerRests /\ ProjectorRests
    \/ /\ \/ subject = "serves" /\ Serves!Init
          \/ subject = "projects" /\ Projects!Init
       /\ ApiRests /\ AuthRests /\ RolesRest /\ ServerRests /\ ProjectorRests
    \/ /\ subject = "roles" /\ Privileges!Init
       /\ ApiRests /\ AuthRests /\ ServingRests /\ ServerRests /\ ProjectorRests
    \/ /\ \/ subject = "configured" /\ Configured!Init
          \/ subject = "validated" /\ Validated!Init
          \/ subject = "draining" /\ Draining!Init
       /\ ApiRests /\ AuthRests /\ ServingRests /\ RolesRest /\ ProjectorRests
    \/ /\ \/ subject = "binding" /\ Init
          \/ subject = "probing" /\ ProbesAny!Init
          \/ subject = "settings" /\ AnySettings!Init
       /\ ApiRests /\ AuthRests /\ ServingRests /\ RolesRest /\ ServerRests

(* Only the subject moves. *)
MCNext ==
    /\ UNCHANGED subject
    /\ \/ /\ \/ subject = "mutations" /\ Mutations!Next
             \/ subject = "routes" /\ Routes!Next
          /\ UNCHANGED <<authVars, servingVars, roleVars, serverVars, vars>>
       \/ /\ \/ subject = "fetching" /\ Fetching!Next
             \/ subject = "rotation" /\ Rotation!Next
             \/ subject = "claims" /\ Claimed!Next
          /\ UNCHANGED <<apiVars, servingVars, roleVars, serverVars, vars>>
       \/ /\ \/ subject = "serves" /\ Serves!Next
             \/ subject = "projects" /\ Projects!Next
          /\ UNCHANGED <<apiVars, authVars, roleVars, serverVars, vars>>
       \/ /\ subject = "roles" /\ Privileges!Next
          /\ UNCHANGED <<apiVars, authVars, servingVars, serverVars, vars>>
       \/ /\ \/ subject = "configured" /\ Configured!Next
             \/ subject = "validated" /\ Validated!Next
             \/ subject = "draining" /\ Draining!Next
          /\ UNCHANGED <<apiVars, authVars, servingVars, roleVars, vars>>
       \/ /\ \/ subject = "binding" /\ Next
             \/ subject = "probing" /\ ProbesAny!Next
             \/ subject = "settings" /\ AnySettings!Next
          /\ UNCHANGED <<apiVars, authVars, servingVars, roleVars, serverVars>>

allVars == <<subject, apiVars, authVars, servingVars, roleVars, serverVars, vars>>
MCSpec == MCInit /\ [][MCNext]_allVars

(* Requests, clients, workers and the roles other than the process's own:   *)
(* a1 and a2 are alike everywhere.                                          *)
Alike == Permutations({a1, a2})

-----------------------------------------------------------------------------
(* A request that succeeds has the one result of its key, whichever copy    *)
(* committed it and whether or not admission turned another copy away; a    *)
(* request that is refused did nothing; a retry of what is durable is       *)
(* answered without a permit; while the validator is called nothing but the *)
(* request's own permit is held; and admission comes after every check that *)
(* needs none.                                                              *)
RequestsAreExact ==
    /\ subject = "mutations" =>
          /\ Mutations!OneResultPerScope /\ Mutations!RefusedDidNothing
          /\ Mutations!ReplayNeedsNoAdmission /\ Mutations!CallHoldsOnlyItsSlot
          /\ Mutations!ChecksBeforeAdmission
    /\ subject = "routes" => Routes!RefusedDidNothing /\ Routes!ChecksBeforeAdmission

(* authenticate accepts a token only if a key the issuer published within   *)
(* max_key_age vouches for it, whatever fetch fails or is cancelled; a      *)
(* rotation is noticed once the interval is over; no client of the          *)
(* configured lists is ever taken for a human.                              *)
TokensAreVouchedFor ==
    /\ subject = "fetching" => Fetching!TypeOK /\ Fetching!AcceptedIsVouchedFor
    /\ subject = "rotation" => Rotation!RotationIsNoticed
    /\ subject = "claims" => Claimed!AcceptedIsVouchedFor /\ Claimed!NoClientIsHuman

(* verify_identity bounds what a session can ever do and refuses nothing    *)
(* else; a server that answers beyond the loopback interface authenticates; *)
(* connections open when a signal arrives are served until they end or the  *)
(* deadline.                                                                *)
ServingIsBounded ==
    /\ subject = "roles" => Privileges!VerifiedSessionIsBounded /\ Privileges!ModelIsAccepted
    /\ subject = "serves" => Serves!TypeOK
    /\ subject = "configured" => Configured!ExposureIsAuthenticated
    /\ subject = "validated" => Validated!ExposureIsAuthenticated
    /\ subject = "draining" => Draining!TypeOK /\ Draining!OpenConnectionsDrain

(* A process starts on exactly the databases its build can serve, and says  *)
(* ready only of one; migrate repairs what verify_identity refuses of the   *)
(* role's own grants; a setting that is removed never broadens what is      *)
(* served; calls together fetch keys no more often than                     *)
(* min_refresh_interval.                                                    *)
ChecksAreExact ==
    [][/\ subject = "serves" => Serves!StartUpIsExact /\ Serves!ReadyIsSound
       /\ subject = "projects" => Projects!StartUpIsExact /\ Projects!ReadyIsSound
       /\ subject = "roles" => Privileges!RegrantRepairs
       /\ subject = "configured" => Configured!MissingNeverBroadens
       /\ subject = "validated" => Validated!MissingNeverBroadens
       /\ subject = "fetching" => Fetching!FetchesAreSpaced]_allVars

=============================================================================

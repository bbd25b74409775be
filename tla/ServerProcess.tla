----------------------------- MODULE ServerProcess -----------------------------
(***************************************************************************)
(* The ledger-server process, apps/ledger-server/src/main.rs: what its      *)
(* environment makes it serve, or refuse to, and how it stops.              *)
(*                                                                         *)
(* An environment is a function from its settings to values; NotSet is a    *)
(* variable that is not present.  Issuer, audience, JWKS URL and secret are *)
(* one setting, credentials, which is what the mode requires of them.  An   *)
(* address resolves the same way when it is checked and when it is bound.   *)
(***************************************************************************)
EXTENDS Naturals, FiniteSets

CONSTANTS
    Value,         \* Value[s]: the values of setting s, beside NotSet
    Client,        \* client connections
    DrainTimeout   \* DRAIN_TIMEOUT, in ticks

NotSet == "unset"
Setting == {"addr", "database", "backend", "mode", "credentials", "insecure", "unvalidated",
            "validator url", "validator id", "token file", "limits"}
Settings == {e \in [Setting -> (UNION {Value[s] : s \in Setting}) \cup {NotSet}] :
                  \A s \in Setting : e[s] \in Value[s] \cup {NotSet}}

VARIABLES
    env,         \* the environment the next start will see
    proc,        \* "down", "serving", "exited"
    server,      \* what the running process serves
    handlers,    \* signals whose handler could be registered
    open,        \* connections
    signalled,   \* the watch channel
    draining,    \* axum has seen it and accepts no more
    timer        \* ticks the deadline has slept

vars == <<env, proc, server, handlers, open, signalled, draining, timer>>

-----------------------------------------------------------------------------
(* Start-up: each step gives a value or refuses. *)

Refused == "refused"
RefusedSettings == [ok |-> FALSE, trust |-> {}, callable |-> FALSE]
NoServer == [backend |-> "none", auth |-> "none", wide |-> FALSE,
             acceptance |-> "none", trust |-> {}, callable |-> FALSE]
NonEmpty(v) == v \notin {NotSet, ""}

select_backend(e) ==
    CASE e["database"] = ""                                            -> Refused
      [] e["database"] = NotSet /\ e["backend"] \in {NotSet, "filesystem"} -> "filesystem"
      [] NonEmpty(e["database"]) /\ e["backend"] \in {NotSet, "postgres"} -> "postgres"
      [] OTHER                                                         -> Refused

is_loopback_bind(e) == e["addr"] \in {NotSet, "loopback"}

(* Which authenticator; only oidc is_production_grade. *)
authenticator_from(e) ==
    IF e["mode"] \in {"oidc", "dev-hs256"} /\ e["credentials"] = e["mode"] THEN e["mode"]
    ELSE Refused

ProductionAuth(e) == authenticator_from(e) = "oidc"

(* A listener beyond the loopback interface requires production             *)
(* authentication, unless the operator says otherwise.                      *)
check_binding(e) == \/ is_loopback_bind(e) \/ ProductionAuth(e)
                    \/ e["insecure"] = "switch"

acceptance_policy(e) ==
    CASE e["unvalidated"] \in {NotSet, ""} -> "require validation"
      [] e["unvalidated"] = "switch"      -> "allow unvalidated"
      [] OTHER                            -> Refused

check_acceptance(e) == ~(acceptance_policy(e) = "allow unvalidated" /\ ProductionAuth(e))

(* check_endpoint: plain http only to loopback, only in development. *)
check_endpoint(e) == \/ e["validator url"] = "https"
                     \/ e["validator url"] = "http loopback" /\ ~ProductionAuth(e)

(* validator_settings: the trusted services and whether one can be called. *)
validator_settings(e) ==
    IF \/ ProductionAuth(e) /\ e["token file"] = ""
       \/ e["validator id"] = "not a token"
       \/ ~NonEmpty(e["validator id"]) /\ (NonEmpty(e["validator url"]) \/ ProductionAuth(e))
       \/ NonEmpty(e["token file"]) /\ ~NonEmpty(e["validator url"])
    THEN RefusedSettings
    ELSE [ok |-> TRUE, trust |-> IF NonEmpty(e["validator id"]) THEN {e["validator id"]} ELSE {},
          callable |-> NonEmpty(e["validator url"])]

(* validation_service: the client of the service that is trusted. *)
validation_service(e) ==
    LET settings == validator_settings(e)
    IN  IF ~settings.ok THEN RefusedSettings
        ELSE IF ~settings.callable \/ settings.trust = {} THEN [settings EXCEPT !.callable = FALSE]
        ELSE IF \/ e["token file"] = "unreadable"
                \/ e["limits"] = "validator outlasts request"
                \/ ~check_endpoint(e)
             THEN RefusedSettings
        ELSE settings

Filesystem(e) == IF ~is_loopback_bind(e) THEN NoServer
                 ELSE [backend |-> "filesystem", auth |-> "none", wide |-> FALSE,
                       acceptance |-> "read only", trust |-> {}, callable |-> FALSE]

SharedPostgres(e) ==
    IF \/ authenticator_from(e) = Refused \/ ~check_binding(e)
       \/ acceptance_policy(e) = Refused \/ ~check_acceptance(e)
       \/ ~validation_service(e).ok
    THEN NoServer
    ELSE [backend |-> "postgres", auth |-> authenticator_from(e), wide |-> ~is_loopback_bind(e),
          acceptance |-> acceptance_policy(e), trust |-> validation_service(e).trust,
          callable |-> validation_service(e).callable]

(* main, up to the listener.  The schema's own refusals are module Serving. *)
Outcome(e) == CASE select_backend(e) = "filesystem" -> Filesystem(e)
                [] select_backend(e) = "postgres"   -> SharedPostgres(e)
                [] OTHER                            -> NoServer

-----------------------------------------------------------------------------
Init ==
    /\ env = [s \in Setting |-> NotSet]
    /\ proc = "down" /\ server = NoServer
    /\ handlers = {} /\ open = {} /\ signalled = FALSE /\ draining = FALSE /\ timer = 0

lifecycle == <<handlers, open, signalled, draining, timer>>

(* The operator edits the environment of the next start. *)
Set(s) == /\ proc = "down" /\ env[s] = NotSet
          /\ \E v \in Value[s] : env' = [env EXCEPT ![s] = v]
          /\ UNCHANGED <<proc, server, lifecycle>>

Remove(s) == /\ proc = "down" /\ env[s] # NotSet
             /\ env' = [env EXCEPT ![s] = NotSet]
             /\ UNCHANGED <<proc, server, lifecycle>>

(* A handler that cannot be registered waits for ever. *)
Start ==
    /\ proc = "down" /\ Outcome(env) # NoServer
    /\ proc' = "serving" /\ server' = Outcome(env)
    /\ handlers' \in SUBSET {"SIGINT", "SIGTERM"}
    /\ UNCHANGED <<env, open, signalled, draining, timer>>

Accept(c) == /\ proc = "serving" /\ ~draining /\ c \notin open
             /\ open' = open \cup {c}
             /\ UNCHANGED <<env, proc, server, handlers, signalled, draining, timer>>

(* A client may also hold its connection for ever. *)
Close(c) == /\ proc = "serving" /\ c \in open
            /\ open' = open \ {c}
            /\ UNCHANGED <<env, proc, server, handlers, signalled, draining, timer>>

Signal(s) == /\ proc = "serving" /\ s \in handlers /\ ~signalled
             /\ signalled' = TRUE
             /\ UNCHANGED <<env, proc, server, handlers, open, draining, timer>>

(* with_graceful_shutdown's future. *)
Drain == /\ proc = "serving" /\ signalled /\ ~draining
         /\ draining' = TRUE
         /\ UNCHANGED <<env, proc, server, handlers, open, signalled, timer>>

(* The deadline future: it waits for the signal, then sleeps. *)
Deadline == /\ proc = "serving" /\ signalled
            /\ timer' = timer + 1
            /\ timer' <= DrainTimeout
            /\ UNCHANGED <<env, proc, server, handlers, open, signalled, draining>>

(* select!: whichever of the two ends first. *)
Exit == /\ proc = "serving"
        /\ (draining /\ open = {}) \/ timer = DrainTimeout
        /\ proc' = "exited"
        /\ UNCHANGED <<env, server, lifecycle>>

Next == \/ \E s \in Setting : Set(s) \/ Remove(s)
        \/ Start
        \/ \E c \in Client : Accept(c) \/ Close(c)
        \/ \E s \in {"SIGINT", "SIGTERM"} : Signal(s)
        \/ Drain \/ Deadline \/ Exit

(* The runtime polls its futures and time passes; clients owe nothing.      *)
Fairness == WF_vars(Drain) /\ WF_vars(Deadline) /\ WF_vars(Exit)

Spec == Init /\ [][Next]_vars /\ Fairness

-----------------------------------------------------------------------------
TypeOK ==
    /\ env \in Settings
    /\ proc \in {"down", "serving", "exited"}
    /\ (proc = "down") = (server = NoServer)
    /\ open \subseteq Client
    /\ draining => signalled
    /\ timer \in 0 .. DrainTimeout /\ (timer > 0 => signalled)

(* A listener beyond loopback authenticates in production grade, or the     *)
(* operator set the switch that says otherwise; filesystem mode, which has  *)
(* no authentication, has no such switch.                                   *)
ExposureIsAuthenticated ==
    proc = "serving" /\ server.wide => server.auth = "oidc"
        \/ (server.auth = "dev-hs256" /\ env["insecure"] = "switch")

(* What acceptance lets through: validations of the trusted services, and   *)
(* with the development switch changes nobody validated.                    *)
Trusts(s) == s.trust \cup (IF s.acceptance = "allow unvalidated" THEN {"unvalidated"} ELSE {})

(* "a missing or partial configuration never broadens which validations     *)
(* acceptance trusts": whichever setting is removed from an environment     *)
(* that serves, what is left is refused, or trusts no more and is reachable *)
(* from nowhere new; and a production server always names whom it trusts.   *)
MissingNeverBroadens == \A s \in Setting :
    /\ Remove(s) /\ Outcome(env) # NoServer /\ Outcome(env') # NoServer =>
          /\ Trusts(Outcome(env')) \subseteq Trusts(Outcome(env))
          /\ Outcome(env').wide => Outcome(env).wide
    /\ Start /\ server'.auth = "oidc" =>
          Cardinality(Trusts(server')) = 1 /\ "unvalidated" \notin Trusts(server')

(* A caller is never cut off before the deadline. *)
OpenConnectionsDrain == proc = "exited" /\ open # {} => timer = DrainTimeout

(* A signal the process can hear ends it, even when a client never closes   *)
(* its connection: the deadline does not wait for the drain.                *)
ShutdownEnds == signalled ~> proc = "exited"
=============================================================================

------------------------------ MODULE MCProgress ------------------------------
(***************************************************************************)
(* What must eventually happen outside the ledger's transactions and the    *)
(* projection: calls and requests end, imports complete, processes settle   *)
(* and stop.  The components share no state: `subject' says which of them a *)
(* behaviour is about, and the others stay where they start.  Fairness is   *)
(* each component's own, of the subject only.                               *)
(***************************************************************************)
EXTENDS Import, TLC

CONSTANTS w1, w2, p1, p2, Nobody, None, Unset, Garbage

VARIABLES
    subject,
    written, disk, synced, ref, heads, locked, call, acked, losses,      \* FileStore
    query, entered, black, prefetched, ramp, frames, calls, outcome,        \* DagWalk
    st, durable, committed,                                                \* Api
    now, issuer, published, since, cache, flight, request, answered,       \* Auth
    pc, delivery, sent, resolved, ready, tx, contexts, virtualRows, records,
    violationRows, results, active, clock, arrivals, told,                 \* ValidatorCall
    applied, control, granted, replica, changes, faults,                   \* Serving
    env, proc, server, handlers, clients, signalled, draining, timer,      \* ServerProcess
    dataset, late, main, config, seen, probe, witness, paused, work, extra,
    open, stop, starts, trouble, deploys                                   \* ProjectorProcess

storeVars == <<written, disk, synced, ref, heads, locked, call, acked, losses>>
walkVars == <<query, entered, black, prefetched, ramp, frames, calls, outcome>>
apiVars == <<st, durable, committed>>
authVars == <<now, issuer, published, since, cache, flight, request, answered>>
validatorVars == <<pc, delivery, sent, resolved, ready, tx, contexts, virtualRows, records,
                   violationRows, results, active, clock, arrivals, told>>
servingVars == <<applied, control, granted, replica, changes, faults>>
serverVars == <<env, proc, server, handlers, clients, signalled, draining, timer>>
projectorVars == <<dataset, late, main, config, seen, probe, witness, paused, work, extra,
                   open, stop, starts, trouble, deploys>>

-----------------------------------------------------------------------------
(* Two writers with the same patch, either of which may be killed. *)
Store == INSTANCE FileStore WITH
    commits <- written, files <- disk, head <- ref, Writer <- {w1, w2}, Patch <- {p1},
    Offers <- [w \in {w1, w2} |-> {p1}], Interruptions <- {"stop"}, MaxCommits <- 2,
    MaxLosses <- 0

(* Two runs of Import, over a directory of two roots and a merge of them,   *)
(* into two graphs.                                                         *)
Targets == (w1 :> p1) @@ (w2 :> p2)
Forked == (3 :> <<>>) @@ (1 :> <<>>) @@ (2 :> <<3, 1>>)
ForkedPatch == (3 :> p1) @@ (1 :> p2) @@ (2 :> p1)
NoGraphs == [c \in 1 .. 3 |-> "no graph"]

(* Every graph of two commits, cycles included. *)
Search(parents) == [parents |-> parents, damaged |-> {}, start |-> 1, mode |-> "search",
                    goal |-> 3, max |-> 9, limit |-> 3, window |-> 2]
Line(parents) == [Search(parents) EXCEPT !.mode = "first parent", !.max = 4]
Graphs == [1 .. 2 -> UNION {[1 .. n -> 1 .. 3] : n \in 0 .. 2}]
Walk == INSTANCE DagWalk WITH
    result <- outcome, stack <- frames,
    Queries <- {Search(g) : g \in Graphs} \cup {Line(g) : g \in Graphs}
Root == Line([c \in 1 .. 2 |-> <<>>])

(* Two requests for one connection. *)
Sent(op, digest) == [op |-> op, key |-> "k", digest |-> digest, faults |-> {}]
Routes == INSTANCE Api WITH
    commits <- committed, Slots <- {w1, w2}, Connections <- 1, MaxExpensive <- 3,
    MaxValidations <- 1,
    Requests <- {Sent("validate", "d1"), Sent("validate", "d2"), Sent("prepare", "d1"),
                 Sent("merge_apply", "d1"), Sent("merge_preview", "d1"), Sent("read_state", "d1")}

(* Two calls and an issuer that changes its key; fetches fail, and clients  *)
(* leave.                                                                   *)
Key(kid) == [kid |-> kid, family |-> "RSA", use |-> "sig", ops |-> {}, alg |-> "RS256"]
Bearer(kid) == [kid |-> kid, signer |-> Key(kid), alg |-> "RS256", issued |-> TRUE,
               nbf |-> 0, exp |-> 99,
               claims |-> [tenant |-> "t", subject |-> "s", type |-> "human", azp |-> "portal",
                           appid |-> "absent", behalf |-> "absent", roles |-> {"ledger.read"}]]
Authentication == INSTANCE Auth WITH
    Request <- {w1, w2}, Token <- {Bearer("a"), Bearer("b")},
    JwkSet <- {{Key("a")}, {Key("b")}}, Agents <- {}, Services <- {},
    RoleMap <- [r \in {"ledger.read"} |-> r], MinInterval <- 1, MaxKeyAge <- 2,
    FetchLimit <- 1, Leeway <- 1, Reliable <- FALSE, MaxTime <- 2

(* Two deliveries of one validation. *)
NoHints == [base_kb |-> {}, ontology |-> {}, shapes |-> {}, profile |-> {}, sources |-> {}]
Verdict == [protocol |-> TRUE, candidate |-> <<2, 1>>, state |-> <<2, 9>>,
    kb |-> <<1>>, revision |-> <<1>>, ontology |-> {}, shapes |-> <<1>>, shapes_version |-> <<1>>,
    reasoning |-> {}, sources |-> {}, virtuals |-> <<>>, service_version |-> <<1>>,
    configuration |-> <<1>>, kind |-> 0, count |-> 0, violations |-> <<>>, report |-> <<2, 1>>,
    reference |-> {}]
Validator == INSTANCE ValidatorCall WITH
    MAX_IDENTIFIER_BYTES <- 2, MAX_GRAPH_ID_BYTES <- 1, MAX_MESSAGE_BYTES <- 2,
    MAX_EVIDENCE_REFS <- 2, MAX_OBJECT_REFS <- 2, MAX_VIRTUAL_CONTEXTS <- 2,
    MAX_VIOLATION_SUMMARY <- 2, MAX_SEVERITY_BYTES <- 1, MAX_VIOLATION_MESSAGE_BYTES <- 2,
    MAX_REPORT_REFERENCE_BYTES <- 2, LastYear <- 2,
    call <- delivery, Delivery <- {w1, w2}, ServiceOf <- [d \in {w1, w2} |-> {<<1>>}],
    StateOf <- [c \in {<<2, 1>>} |-> <<2, 9>>], Prepared <- {<<2, 1>>}, Oversized <- {},
    Calls <- {[key |-> "k", candidate |-> <<2, 1>>, hints |-> NoHints]},
    Answers <- {Verdict, [Verdict EXCEPT !.revision = <<2>>]},
    Responses <- {[status |-> "success", json |-> TRUE, declared |-> {}, chunks |-> <<2, 1>>,
                   broken |-> FALSE, shape |-> TRUE]},
    MaxBody <- 3, MaxStorable <- 5, MaxCalls <- 3, MaxTime <- 2

(* A server's build that requires the second of three migrations. *)
Controls == {"trigger", "check"}
Serves == INSTANCE Serving WITH
    Replica <- {w1}, Identity <- [r \in {w1} |-> "runtime"], Required <- [r \in {w1} |-> 2],
    Level <- 3, Control <- Controls, Kind <- [c \in Controls |-> c],
    Since <- [c \in Controls |-> IF c = "trigger" THEN 1 ELSE 2], MaxChanges <- 2, MaxFaults <- 1

(* A server that runs, with clients. *)
Server == INSTANCE ServerProcess WITH
    open <- clients, Client <- {w1, w2, p1}, DrainTimeout <- 3,
    Value <- [s \in {"addr", "database", "backend", "mode", "credentials", "insecure",
                     "unvalidated", "validator url", "validator id", "token file", "limits"} |-> {}]

(* A projector over a dataset that is replaced twice. *)
Healthy == [kind |-> "transactional", union |-> FALSE, bound |-> {}, probe |-> FALSE]
Projector == INSTANCE ProjectorProcess WITH
    Process <- {w1}, Worker <- {w2}, Dataset <- {Healthy},
    Environment <-
        {[development |-> Unset, username |-> Unset, password |-> Unset, token |-> "visible",
          timeout |-> Unset, lease |-> Unset, interval |-> Unset, state |-> Unset,
          request |-> Unset, target |-> "blue", database |-> "set", query |-> "https",
          update |-> "https"]},
    Kind <- {"transactional", "not transactional", "lax"}, MaxSeconds <- 255, StepMargin <- 30,
    Lingering <- {"probe", "cleanup"}, MaxStart <- [p \in {w1} |-> 1], MaxTrouble <- 1,
    MaxDeploy <- 2

-----------------------------------------------------------------------------
MCInit ==
    /\ subject \in {"store", "import", "walk", "api", "auth", "validator", "serving", "server",
                    "projector"}
    /\ Store!Init /\ Init /\ Routes!Init /\ Validator!Init /\ Server!Init
    /\ Projector!Init
    /\ Walk!Init /\ (subject # "walk" => query = Root)
    /\ Authentication!Init /\ (subject # "auth" => issuer = {Key("a")})
    /\ Serves!Init /\ (subject # "serving" => applied[1] = "absent")

(* Only the subject moves. *)
MCNext ==
    /\ UNCHANGED subject
    /\ \/ /\ subject = "store" /\ Store!Next
          /\ UNCHANGED <<vars, walkVars, apiVars, authVars, validatorVars, servingVars,
                         serverVars, projectorVars>>
       \/ /\ subject = "import" /\ Next
          /\ UNCHANGED <<storeVars, walkVars, apiVars, authVars, validatorVars, servingVars,
                         serverVars, projectorVars>>
       \/ /\ subject = "walk" /\ Walk!Next
          /\ UNCHANGED <<storeVars, vars, apiVars, authVars, validatorVars, servingVars,
                         serverVars, projectorVars>>
       \/ /\ subject = "api" /\ Routes!Next
          /\ UNCHANGED <<storeVars, vars, walkVars, authVars, validatorVars, servingVars,
                         serverVars, projectorVars>>
       \/ /\ subject = "auth" /\ Authentication!Next
          /\ UNCHANGED <<storeVars, vars, walkVars, apiVars, validatorVars, servingVars,
                         serverVars, projectorVars>>
       \/ /\ subject = "validator" /\ Validator!Next
          /\ UNCHANGED <<storeVars, vars, walkVars, apiVars, authVars, servingVars,
                         serverVars, projectorVars>>
       \/ /\ subject = "serving" /\ Serves!Next
          /\ UNCHANGED <<storeVars, vars, walkVars, apiVars, authVars, validatorVars,
                         serverVars, projectorVars>>
       \/ /\ subject = "server" /\ Server!Next
          /\ UNCHANGED <<storeVars, vars, walkVars, apiVars, authVars, validatorVars,
                         servingVars, projectorVars>>
       \/ /\ subject = "projector" /\ Projector!Next
          /\ UNCHANGED <<storeVars, vars, walkVars, apiVars, authVars, validatorVars,
                         servingVars, serverVars>>

(* The fairness of each component's specification. *)
Fairness ==
    /\ \A w \in {w1, w2} :
          /\ WF_storeVars(subject = "store" /\ Store!Step(w))
          /\ WF_vars(subject = "import" /\ (Begin(w) \/ Step(w)))
          /\ WF_apiVars(subject = "api" /\ Routes!EdgeTimeout(w))
          /\ WF_apiVars(subject = "api" /\ Routes!CommitEnds(w))
          /\ WF_apiVars(subject = "api" /\ Routes!OrphanEnds(w))
          /\ WF_authVars(subject = "auth" /\ Authentication!Step(w))
          /\ WF_validatorVars(subject = "validator" /\ Validator!Handler(w))
    /\ WF_walkVars(subject = "walk" /\ (Walk!Start \/ Walk!NextParent \/ Walk!Finish \/ Walk!FirstParent))
    /\ WF_servingVars(subject = "serving" /\ Serves!ReplicaStep(w1))
    /\ WF_serverVars(subject = "server" /\ Server!Drain)
    /\ WF_serverVars(subject = "server" /\ Server!Deadline)
    /\ WF_serverVars(subject = "server" /\ Server!Exit)
    /\ WF_projectorVars(subject = "projector" /\ Projector!StartUp(w1))
    /\ WF_projectorVars(subject = "projector" /\ Projector!Probing(w1))
    /\ WF_projectorVars(subject = "projector" /\ Projector!Exit(w1))
    /\ WF_projectorVars(subject = "projector" /\ Projector!Working(w1, w2))

allVars == <<subject, storeVars, vars, walkVars, apiVars, authVars, validatorVars,
             servingVars, serverVars, projectorVars>>
MCSpec == MCInit /\ [][MCNext]_allVars /\ Fairness

-----------------------------------------------------------------------------
(* Whatever fails, is killed or gives up: nobody keeps refs/main.lock, the  *)
(* refresh lock, a permit, a connection or a key's row, so every call and   *)
(* request ends; a walk ends on any graph, cyclic ones included; and of     *)
(* contending imports that are rerun one completes.                         *)
RequestsEnd ==
    /\ Store!CallsReturn
    /\ Routes!AllIsGivenBack
    /\ Authentication!CallsReturn
    /\ Validator!CallsEnd
    /\ subject = "walk" => Walk!Terminates
    /\ subject = "import" => SomeRunCompletes

(* A server's readiness follows its database and a projector's its target,  *)
(* in both directions; and after a signal both processes end.               *)
ProcessesSettle ==
    /\ subject = "serving" => Serves!DriftIsNoticed /\ Serves!ServesOnceCompatible
    /\ Server!ShutdownEnds
    /\ Projector!ResumesWhenTargetHeals /\ Projector!PausesWhenTargetBreaks
    /\ Projector!ShutdownEnds
=============================================================================

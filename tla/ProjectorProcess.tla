--------------------------- MODULE ProjectorProcess ---------------------------
(***************************************************************************)
(* The ledger-projector process, apps/ledger-projector/src/main.rs with the *)
(* run loop of lib.rs and the start-up requests of ledger-projection-fuseki: *)
(* what its environment makes it do, how it proves that the dataset rolls a *)
(* failed update back and serves its target id alone, when it stops         *)
(* claiming, and how it shuts down.  What one claimed step does to a stream *)
(* is Projection's; here it is a step a worker is inside.                   *)
(*                                                                         *)
(* Every process is pointed at one dataset.  A request is one step: the     *)
(* target executes it and the answer arrives, or the client sees a failure  *)
(* (no connection, a timeout, an error status, an answer it cannot use) and *)
(* the target has not executed it, or executes it later.                    *)
(***************************************************************************)
EXTENDS Naturals, FiniteSets

CONSTANTS
    Process,       \* ledger-projector processes
    Worker,        \* the claiming tasks of a process
    Environment,   \* the environments a process may be started in
    Dataset,       \* the datasets they may find at first
    Kind,          \* the kinds of dataset an operator may deploy in its place
    Unset,         \* a variable that is not present
    Garbage,       \* text that is no number
    MaxSeconds,    \* the largest Duration, in seconds
    Lingering,     \* the updates ("probe", "cleanup", "bind") that may be executed late
    StepMargin,    \* what a lease has beyond four requests, in seconds
    MaxStart,      \* MaxStart[p], bound: starts of process p
    MaxTrouble,    \* bound: requests that fail
    MaxDeploy      \* bound: changes of the dataset's kind

ASSUME ProcessAssumption ==
    /\ {MaxSeconds, StepMargin, MaxTrouble, MaxDeploy} \subseteq Nat
    /\ MaxStart \in [Process -> Nat]
    /\ StepMargin <= MaxSeconds
    /\ Lingering \subseteq {"probe", "cleanup", "bind"}

ASSUME DatasetAssumption ==
    \A d \in Dataset : d = [kind |-> d.kind, union |-> d.union, bound |-> d.bound, probe |-> d.probe]

VARIABLES
    dataset,    \* its kind, whether its default graph is a union, its bindings, its probe graph
    late,       \* updates a client gave up on and the target may still execute
    main,       \* main[p]: where real_main is
    config,     \* config[p]: the Settings and the command it runs with
    seen,       \* seen[p]: the bindings bind_target read back
    probe,      \* probe[p]: where probe_transactional is
    witness,    \* witness[p]: the dataset was transactional at some time during the probe
    paused,     \* paused[p]
    work,       \* work[p][w]: where a worker is
    extra,      \* extra[p][w]: claims it made since claiming was paused
    open,       \* open[p]: a client connection is open
    stop,       \* stop[p]: the watch channel
    starts, trouble, deploys

process == <<main, config, seen, stop, starts>>
probing == <<probe, witness, paused>>
working == <<work, extra>>
target == <<dataset, late>>
vars == <<target, process, probing, working, open, trouble, deploys>>

-----------------------------------------------------------------------------
(* Settings. *)

Refused == "refused"

(* A number setting, or its default; at_least adds a lower bound. *)
number(v, default) == IF v = Unset THEN default ELSE v
at_least(v, default, minimum) ==
    LET n == number(v, default) IN IF n = Garbage THEN FALSE ELSE n >= minimum

(* What a secret file holds.  "unreadable" stands for a path that is missing, *)
(* not a regular file, over the size cap, not UTF-8, or empty but for one line *)
(* ending. *)
secret_file(v) == IF v = "unreadable" THEN Refused ELSE v

development(e) == e.development = "switch"

credentials(e) ==
    LET password == secret_file(e.password)
        token    == secret_file(e.token)
    IN  CASE Refused \in {password, token} -> Refused
          [] e.username # Unset /\ password # Unset /\ token = Unset -> "basic"
          [] e.username = Unset /\ password = Unset /\ token # Unset -> "bearer"
          [] {e.username, password, token} = {Unset} /\ development(e) -> "none"
          [] OTHER -> Refused

(* checked_mul and checked_add: no minimum beyond the largest Duration. *)
lease_covers_a_step(e) ==
    LET timeout == number(e.timeout, 30)
        lease   == number(e.lease, 180)
    IN  /\ Garbage \notin {timeout, lease}
        /\ 4 * timeout + StepMargin <= MaxSeconds
        /\ lease >= 4 * timeout + StepMargin

state_fits_request(e) ==
    LET state   == number(e.state, 48)
        request == number(e.request, 64)
    IN  Garbage \notin {state, request} /\ state < request

(* settings accepts; e.interval stands for the numbers with a minimum. *)
settings(e) ==
    /\ e.development \in {Unset, "switch"}
    /\ credentials(e) # Refused
    /\ lease_covers_a_step(e)
    /\ at_least(e.interval, 300, 1)
    /\ state_fits_request(e)
    /\ Unset \notin {e.target, e.database, e.query, e.update}

(* "http loopback", "http elsewhere", and "other" for what is no bare URL. *)
check_endpoint(url, allow) == \/ url = "https"
                              \/ url = "http loopback" /\ allow

(* FusekiClient::new: both endpoints, and credentials a header can carry.    *)
new_client(e) ==
    /\ check_endpoint(e.query, development(e))
    /\ check_endpoint(e.update, development(e))
    /\ credentials(e) = "bearer" => e.token = "visible"
    /\ credentials(e) = "basic" => e.username = "user"

Command == {"run", "rebuild", "verify"}

(* The command line: rebuild and verify need a graph. *)
parse(line) == IF line = "no graph" THEN Refused ELSE line
CommandLine == Command \cup {"no graph"}

NotStarted == [target |-> Unset, command |-> "none", environment |-> Unset]

-----------------------------------------------------------------------------
(* The dataset. *)

Transactional == dataset.kind = "transactional"

(* The probe's INSERT DATA ; LOAD.  A transactional dataset keeps nothing of it, *)
(* another keeps the insert; a lax one also answers success. *)
Probed(d) == IF d.kind = "transactional" THEN d ELSE [d EXCEPT !.probe = TRUE]
Cleaned(d) == [d EXCEPT !.probe = FALSE]

(* Mutant: the insert is not conditional on the absence of a binding. *)
BindAnyway(d, id) == [d EXCEPT !.bound = {id}]

bind_target_update(d, id) == IF d.bound = {} THEN [d EXCEPT !.bound = {id}] ELSE d

(* The target executes update u. *)
Execute(d, u) ==
    CASE u.op = "probe"   -> Probed(d)
      [] u.op = "cleanup" -> Cleaned(d)
      [] u.op = "bind"    -> bind_target_update(d, u.target)

(* The update is executed and its answer arrives. *)
Answered(u) == dataset' = Execute(dataset, u) /\ UNCHANGED <<late, trouble>>

(* A request fails.  An update may yet be executed. *)
Trouble == trouble < MaxTrouble /\ trouble' = trouble + 1 /\ UNCHANGED dataset
Linger(updates) == late' \in {late, late \cup {u \in updates : u.op \in Lingering}}
UpdateFails(u) == Trouble /\ Linger({u})
QueryFails == Trouble /\ UNCHANGED late
Reads == UNCHANGED <<dataset, late, trouble>>

ProbeUpdate == [op |-> "probe", target |-> Unset]
CleanupUpdate == [op |-> "cleanup", target |-> Unset]
BindUpdate(id) == [op |-> "bind", target |-> id]

Update == {ProbeUpdate, CleanupUpdate} \cup {BindUpdate(e.target) : e \in Environment}

Init ==
    /\ dataset \in Dataset
    /\ late = {}
    /\ main = [p \in Process |-> "down"]
    /\ config = [p \in Process |-> NotStarted]
    /\ seen = [p \in Process |-> {}]
    /\ probe = [p \in Process |-> "none"]
    /\ witness = [p \in Process |-> FALSE]
    /\ paused = [p \in Process |-> FALSE]
    /\ work = [p \in Process |-> [w \in Worker |-> "none"]]
    /\ extra = [p \in Process |-> [w \in Worker |-> 0]]
    /\ open = [p \in Process |-> FALSE]
    /\ stop = [p \in Process |-> FALSE]
    /\ starts = [p \in Process |-> 0]
    /\ trouble = 0
    /\ deploys = 0

-----------------------------------------------------------------------------
(* Start-up. *)

Goto(p, place) == main' = [main EXCEPT ![p] = place]

(* settings, parse, connect, FusekiClient::new; verify reads and exits, the *)
(* other commands write the target and probe it first. *)
Start(p, e, line) ==
    /\ main[p] \in {"down", "refused", "exited"}
    /\ starts[p] < MaxStart[p]
    /\ starts' = [starts EXCEPT ![p] = @ + 1]
    /\ paused' = [paused EXCEPT ![p] = FALSE]
    /\ stop' = [stop EXCEPT ![p] = FALSE]
    /\ seen' = [seen EXCEPT ![p] = {}]
    /\ extra' = [extra EXCEPT ![p] = [w \in Worker |-> 0]]
    /\ work' = [work EXCEPT ![p] = [w \in Worker |-> "none"]]
    /\ \/ /\ ~(settings(e) /\ parse(line) # Refused /\ new_client(e))
          /\ Goto(p, "refused")
          /\ config' = [config EXCEPT ![p] = NotStarted]
          /\ UNCHANGED <<probe, witness>>
       \/ /\ settings(e) /\ parse(line) # Refused /\ new_client(e)
          /\ config' = [config EXCEPT ![p] =
                           [target |-> e.target, command |-> parse(line), environment |-> e]]
          /\ IF line = "verify"
             THEN Goto(p, "exited") /\ UNCHANGED <<probe, witness>>
             ELSE /\ Goto(p, "probe")
                  /\ probe' = [probe EXCEPT ![p] = "update"]
                  /\ witness' = [witness EXCEPT ![p] = Transactional]
    /\ UNCHANGED <<target, open, trouble, deploys>>

(* Where a writing process goes once its dataset is proven and bound. *)
Admitted(p) == IF config[p].command = "rebuild" THEN "rebuild" ELSE "listen"

(* bind_target, first request: a target id with a refused character is never sent. *)
BindTarget(p) ==
    /\ main[p] = "bind"
    /\ LET u == BindUpdate(config[p].target)
       IN  \/ config[p].target # "bad id" /\ Answered(u) /\ Goto(p, "read binding")
           \/ config[p].target # "bad id" /\ UpdateFails(u) /\ Goto(p, "refused")
           \/ config[p].target = "bad id" /\ Reads /\ Goto(p, "refused")
    /\ UNCHANGED <<config, seen, stop, starts, probing, working, open, deploys>>

ReadBinding(p) ==
    /\ main[p] = "read binding"
    /\ \/ Reads /\ seen' = [seen EXCEPT ![p] = dataset.bound] /\ Goto(p, "ask union")
       \/ QueryFails /\ UNCHANGED seen /\ Goto(p, "refused")
    /\ UNCHANGED <<config, stop, starts, probing, working, open, deploys>>

BoundToThis(p) == seen[p] = {config[p].target}

(* The binding visible in the default graph is a union default graph. *)
AskUnion(p) ==
    /\ main[p] = "ask union"
    /\ \/ /\ Reads
          /\ IF ~(dataset.union /\ dataset.bound # {}) /\ BoundToThis(p)
             THEN Goto(p, Admitted(p)) ELSE Goto(p, "refused")
       \/ QueryFails /\ Goto(p, "refused")
    /\ UNCHANGED <<config, seen, stop, starts, probing, working, open, deploys>>

(* One claimed step, or none: the stream is leased or disabled. *)
Rebuild(p) ==
    /\ main[p] = "rebuild"
    /\ Goto(p, "exited")
    /\ UNCHANGED <<target, config, seen, stop, starts, probing, working, open, trouble, deploys>>

(* The listener is bound before any worker starts; an address in use refuses. *)
Listen(p) ==
    /\ main[p] = "listen"
    /\ \/ /\ Goto(p, "running")
          /\ work' = [work EXCEPT ![p] = [w \in Worker |-> "loop"]]
          /\ probe' = [probe EXCEPT ![p] = "sleep"]
          /\ UNCHANGED trouble
       \/ /\ Trouble
          /\ Goto(p, "refused")
          /\ UNCHANGED <<work, probe>>
    /\ UNCHANGED <<target, config, seen, stop, starts, witness, paused, extra, open, deploys>>

-----------------------------------------------------------------------------
(* probe_transactional, at start-up and from the probe task. *)

(* The probe ends: start-up goes on or refuses; the task pauses or resumes claiming. *)
ProbeEnds(p, passed) ==
    IF main[p] = "probe"
    THEN /\ Goto(p, IF passed THEN "bind" ELSE "refused")
         /\ probe' = [probe EXCEPT ![p] = IF passed THEN "passed" ELSE "failed"]
         /\ UNCHANGED <<paused, extra>>
    ELSE /\ paused' = [paused EXCEPT ![p] = ~passed]
         /\ extra' = [extra EXCEPT ![p] = IF paused[p] THEN @ ELSE [w \in Worker |-> 0]]
         /\ probe' = [probe EXCEPT ![p] = IF passed THEN "passed" ELSE "sleep"]
         /\ UNCHANGED main

ProbeGoesOn(p, place) == probe' = [probe EXCEPT ![p] = place] /\ UNCHANGED <<main, paused, extra>>

Unprobed(p) == UNCHANGED <<config, seen, stop, starts, witness, work, open, deploys>>

(* Only an HTTP 500 naming the LOAD shows that the request ran and aborted;  *)
(* success is cleaned up and refused, any other answer proves nothing. *)
ProbeRequest(p) ==
    /\ probe[p] = "update"
    /\ \/ Answered(ProbeUpdate) /\ ProbeGoesOn(p, IF dataset.kind = "lax" THEN "cleanup" ELSE "ask")
       \/ UpdateFails(ProbeUpdate) /\ ProbeEnds(p, FALSE)
    /\ Unprobed(p)


ProbeAsk(p) ==
    /\ probe[p] = "ask"
    /\ \/ Reads /\ dataset.probe /\ ProbeGoesOn(p, "cleanup")
       \/ Reads /\ ~dataset.probe /\ ProbeEnds(p, TRUE)
       \/ QueryFails /\ ProbeEnds(p, FALSE)
    /\ Unprobed(p)

(* The clean-up's own result is ignored. *)
ProbeCleanup(p) ==
    /\ probe[p] = "cleanup"
    /\ Answered(CleanupUpdate) \/ UpdateFails(CleanupUpdate)
    /\ ProbeEnds(p, FALSE)
    /\ Unprobed(p)

(* The probe task wakes, on its interval or on the channel, which it reads first. *)
ProbeTask(p) ==
    /\ main[p] = "running" /\ probe[p] \in {"sleep", "passed"}
    /\ IF stop[p] THEN probe' = [probe EXCEPT ![p] = "done"] /\ UNCHANGED witness
       ELSE /\ probe' = [probe EXCEPT ![p] = "update"]
            /\ witness' = [witness EXCEPT ![p] = Transactional]
    /\ UNCHANGED <<target, process, paused, working, open, trouble, deploys>>

-----------------------------------------------------------------------------
(* The workers. *)

WorkerGoesOn(p, w, place) ==
    /\ work' = [work EXCEPT ![p][w] = place]
    /\ UNCHANGED <<target, process, probing, open, trouble, deploys>>

(* A claim: nothing is due or the database fails, or a stream is claimed. *)
Claim(p, w, otherwise) ==
    \/ WorkerGoesOn(p, w, otherwise) /\ UNCHANGED extra
    \/ /\ WorkerGoesOn(p, w, "step")
       /\ extra' = [extra EXCEPT ![p][w] = IF paused[p] THEN @ + 1 ELSE @]

(* Mutant: a worker does not look at the channel between steps. *)
LoopUnstoppable(p, w) ==
    /\ work[p][w] = "loop"
    /\ WorkerGoesOn(p, w, IF paused[p] THEN "idle" ELSE "claim")
    /\ UNCHANGED extra

(* The channel, then step's pause check. *)
Loop(p, w) ==
    /\ work[p][w] = "loop"
    /\ WorkerGoesOn(p, w, CASE stop[p] -> "done" [] paused[p] -> "idle" [] OTHER -> "claim")
    /\ UNCHANGED extra

ClaimPending(p, w) == work[p][w] = "claim" /\ Claim(p, w, "idle")

(* reconcile_step's pause check. *)
Idle(p, w) ==
    /\ work[p][w] = "idle"
    /\ WorkerGoesOn(p, w, IF paused[p] THEN "sleep" ELSE "claim idle")
    /\ UNCHANGED extra

ClaimReconcile(p, w) == work[p][w] = "claim idle" /\ Claim(p, w, "sleep")

(* The step ends, or the poll interval or the channel ends the sleep. *)
Return(p, w) ==
    /\ work[p][w] \in {"step", "sleep"}
    /\ WorkerGoesOn(p, w, "loop")
    /\ UNCHANGED extra

-----------------------------------------------------------------------------
(* Shutdown and the world outside. *)

Signal(p) ==
    /\ main[p] = "running" /\ ~stop[p]
    /\ stop' = [stop EXCEPT ![p] = TRUE]
    /\ UNCHANGED <<target, main, config, seen, starts, probing, working, open, trouble, deploys>>

WorkDone(p) == probe[p] = "done" /\ \A w \in Worker : work[p][w] = "done"

(* Workers are awaited first, then the server, which waits for its connections. *)
Exit(p) ==
    /\ main[p] = "running" /\ stop[p] /\ WorkDone(p) /\ ~open[p]
    /\ Goto(p, "exited")
    /\ UNCHANGED <<target, config, seen, stop, starts, probing, working, open, trouble, deploys>>

Sending(p) == CASE probe[p] = "update"  -> {ProbeUpdate}
                [] probe[p] = "cleanup" -> {CleanupUpdate}
                [] main[p] = "bind"     -> {BindUpdate(config[p].target)}
                [] OTHER                -> {}

(* The process is killed; an update it was sending may still be executed. *)
Crash(p) ==
    /\ main[p] \notin {"down", "refused", "exited"}
    /\ starts[p] < MaxStart[p]
    /\ Goto(p, "down")
    /\ open' = [open EXCEPT ![p] = FALSE]
    /\ probe' = [probe EXCEPT ![p] = "none"]
    /\ work' = [work EXCEPT ![p] = [w \in Worker |-> "none"]]
    /\ Linger(Sending(p))
    /\ UNCHANGED <<dataset, config, seen, stop, starts, witness, paused, extra, trouble, deploys>>

(* A connection opens while the listener accepts, or ends. *)
Connection(p) ==
    /\ main[p] = "running"
    /\ open[p] \/ ~stop[p]
    /\ open' = [open EXCEPT ![p] = ~@]
    /\ UNCHANGED <<target, process, probing, working, trouble, deploys>>

(* The target executes an update its client gave up on. *)
LateUpdate(u) ==
    /\ u \in late
    /\ late' = late \ {u}
    /\ dataset' = Execute(dataset, u)
    /\ UNCHANGED <<process, probing, working, open, trouble, deploys>>

(* An operator deploys another kind of dataset over the same graphs. *)
Deploy(k) ==
    /\ deploys < MaxDeploy /\ k # dataset.kind
    /\ deploys' = deploys + 1
    /\ dataset' = [dataset EXCEPT !.kind = k]
    /\ witness' = [p \in Process |-> witness[p] \/ k = "transactional"]
    /\ UNCHANGED <<late, process, probe, paused, working, open, trouble>>

-----------------------------------------------------------------------------
StartUp(p) == BindTarget(p) \/ ReadBinding(p) \/ AskUnion(p) \/ Rebuild(p) \/ Listen(p)
Probing(p) == ProbeRequest(p) \/ ProbeAsk(p) \/ ProbeCleanup(p) \/ ProbeTask(p)
Working(p, w) == \/ Loop(p, w) \/ ClaimPending(p, w) \/ Idle(p, w)
                 \/ ClaimReconcile(p, w) \/ Return(p, w)

Next ==
    \/ \E p \in Process, e \in Environment, line \in CommandLine : Start(p, e, line)
    \/ \E p \in Process : StartUp(p) \/ Probing(p) \/ Signal(p) \/ Exit(p) \/ Crash(p) \/ Connection(p)
    \/ \E p \in Process, w \in Worker : Working(p, w)
    \/ \E u \in late : LateUpdate(u)
    \/ \E k \in Kind : Deploy(k)

(* A process runs its tasks: every request ends within its timeout and every *)
(* sleep within its interval.  Nothing is assumed of starts, signals, crashes, *)
(* clients or late updates. *)
Fairness ==
    /\ \A p \in Process : WF_vars(StartUp(p)) /\ WF_vars(Probing(p)) /\ WF_vars(Exit(p))
    /\ \A p \in Process, w \in Worker : WF_vars(Working(p, w))

Spec == Init /\ [][Next]_vars /\ Fairness

-----------------------------------------------------------------------------
(* The types, and that a task exists only in a process whose health, readiness *)
(* and metrics endpoints are bound.                                           *)
TypeOK ==
    /\ DOMAIN dataset = {"kind", "union", "bound", "probe"}
    /\ late \subseteq Update
    /\ main \in [Process -> {"down", "refused", "exited", "probe", "bind", "read binding",
                             "ask union", "rebuild", "listen", "running"}]
    /\ probe \in [Process -> {"none", "update", "ask", "cleanup", "passed", "failed", "sleep", "done"}]
    /\ work \in [Process -> [Worker -> {"none", "loop", "claim", "idle", "claim idle", "step",
                                        "sleep", "done"}]]
    /\ {paused, open, stop, witness} \subseteq [Process -> BOOLEAN]
    /\ \A p \in Process : main[p] # "running" => \A w \in Worker : work[p][w] \in {"none", "done"}

(* A process that may write the target. *)
Writes(p) == main[p] \in {"rebuild", "listen", "running"}

(* bind_target: whatever the order of the start-ups, their failures and the   *)
(* binds that are executed late, two processes with different target ids      *)
(* never both write one dataset, and none writes one whose default graph is a *)
(* union.                                                                     *)
OneTargetPerDataset ==
    \A p \in Process : Writes(p) =>
        /\ ~dataset.union
        /\ \A q \in Process : Writes(q) => config[p].target = config[q].target

(* probe_transactional: a probe that passes ran, at least in part, against a  *)
(* dataset that rolls a failed update back.                                   *)
ProbeProves == \A p \in Process : probe[p] = "passed" => witness[p]

(* is_paused is read at the start of step and of reconcile_step: a worker that *)
(* had already read it claims at most one more stream after a probe failed,   *)
(* however long the target stays that way.                                    *)
AtMostOneClaimAfterPause == \A p \in Process, w \in Worker : extra[p][w] <= 1

(* settings: the lease of a process that writes covers the four requests of a *)
(* step and the margin, in unbounded arithmetic, for every timeout.           *)
LeaseCoversAStep ==
    \A p \in Process : Writes(p) =>
        LET e == config[p].environment
        IN  number(e.lease, 180) >= 4 * number(e.timeout, 30) + StepMargin

(* settings, check_endpoint and FusekiClient::new together: without the       *)
(* development switch a process that writes has credentials and sends them    *)
(* over https alone.                                                          *)
PlainHttpOnlyInDevelopment ==
    \A p \in Process : Writes(p) /\ ~development(config[p].environment) =>
        LET e == config[p].environment
        IN  e.query = "https" /\ e.update = "https" /\ credentials(e) \in {"basic", "bearer"}

(* /ready, with a database that answers. *)
ready(p) == main[p] = "running" /\ ~paused[p]

(* The probe task: once the dataset stays transactional a running projector   *)
(* is ready again and stays so, even with a probe triple left from before.    *)
ResumesWhenTargetHeals ==
    \A p \in Process : <>[]Transactional => <>[](main[p] = "running" /\ ~stop[p] => ready(p))

(* The probe task: once the dataset stays non-transactional a running         *)
(* projector is not ready, and stays so.                                      *)
PausesWhenTargetBreaks ==
    \A p \in Process : <>[]~Transactional => <>[](main[p] = "running" /\ ~stop[p] => ~ready(p))

(* run and real_main: after the signal every task ends, and so does the       *)
(* process, unless it is killed or a client keeps its connection.             *)
ShutdownEnds ==
    \A p \in Process : stop[p] /\ main[p] = "running" ~> main[p] # "running" \/ (WorkDone(p) /\ open[p])
=============================================================================

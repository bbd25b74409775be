----------------------------- MODULE ProcessProofs -----------------------------
(***************************************************************************)
(* What the processes keep to, for every number of processes, workers,      *)
(* environments, starts, failures and late updates.                         *)
(*                                                                         *)
(* A projector process: one dataset is written under one target id; a lease *)
(* covers a step and plain HTTP stays in development; a pause lets each     *)
(* worker start at most one more claim; and, where one projector probes, a  *)
(* probe that passes met a transactional dataset.  None of these is         *)
(* inductive.  OneTargetPerDataset says nothing of a process that is        *)
(* between its bind and its check: BindingHolds adds that a binding, once   *)
(* there, never changes (BindLemma), so what was read back is still what    *)
(* the dataset holds.  SettingsHold ties the configuration of a process to  *)
(* the environment settings accepted, PauseHolds says where a worker may be *)
(* after its one claim, and ProbeHolds what a probe that has met no         *)
(* transactional dataset will find when it asks.                            *)
(*                                                                         *)
(* The server process: what it serves is what its environment gives         *)
(* (ServesItsEnvironment), so a property of the start-up function is one of *)
(* the running process.                                                     *)
(*                                                                         *)
(* The role either connects as: a session that was verified acts as a role  *)
(* that was looked at (SessionInv), because the roles it can become are     *)
(* closed under membership (Closed, Least).                                 *)
(***************************************************************************)
EXTENDS ProjectorProcess, FiniteSetTheorems, TLAPS

IsDataset(d) == d = [kind |-> d.kind, union |-> d.union, bound |-> d.bound, probe |-> d.probe]
IsUpdate(u) == u.op \in {"probe", "cleanup", "bind"}
PerProcess(f) == f = [p \in Process |-> f[p]]

(* A process whose bind was executed. *)
Bound(p) == main[p] \in {"read binding", "ask union"} \/ Writes(p)

(* The inductive invariant. *)
BindingHolds ==
    /\ IsDataset(dataset)
    /\ \A u \in late : IsUpdate(u)
    /\ PerProcess(main) /\ PerProcess(seen) /\ PerProcess(config)
    /\ \A p \in Process :
        /\ Bound(p) => dataset.bound # {}
        /\ main[p] = "ask union" => seen[p] = dataset.bound
        /\ Writes(p) => ~dataset.union /\ dataset.bound = {config[p].target}

(* Execute: no update of the projector changes whether the default graph is   *)
(* a union, or a binding that is there.                                       *)
LEMMA BindLemma ==
    ASSUME NEW d, NEW u, IsDataset(d), IsUpdate(u)
    PROVE  /\ IsDataset(Execute(d, u))
           /\ Execute(d, u).union = d.union
           /\ d.bound # {} => Execute(d, u).bound = d.bound
           /\ u.op = "bind" => Execute(d, u).bound # {}
<1>1. CASE u.op = "probe"
  BY Zenon, <1>1 DEF Execute, Probed, IsDataset
<1>2. CASE u.op = "cleanup"
  BY Zenon, <1>2 DEF Execute, Cleaned, IsDataset
<1>3. CASE u.op = "bind"
  BY <1>3 DEF Execute, bind_target_update, IsDataset
<1> QED
  BY <1>1, <1>2, <1>3 DEF IsUpdate

(* A step that leaves the processes alone and executes at most one update, or *)
(* changes the kind of the dataset, keeps the invariant.                      *)
LEMMA TargetLemma ==
    ASSUME BindingHolds,
           UNCHANGED <<main, seen, config>>,
           IsDataset(dataset)', dataset'.union = dataset.union,
           dataset.bound # {} => dataset'.bound = dataset.bound,
           \A u \in late' : IsUpdate(u)
    PROVE  BindingHolds'
  BY Zenon DEF BindingHolds, Bound, Writes, PerProcess, IsDataset

(* The same for a step that also takes p somewhere it neither writes nor      *)
(* relies on a binding, with any settings.                                    *)
LEMMA LeaveLemma ==
    ASSUME BindingHolds, NEW p \in Process, NEW place,
           main' = [main EXCEPT ![p] = place],
           place \notin {"read binding", "ask union", "rebuild", "listen", "running"},
           PerProcess(seen'), PerProcess(config'),
           \A q \in Process \ {p} : seen'[q] = seen[q] /\ config'[q] = config[q],
           IsDataset(dataset)', dataset'.union = dataset.union,
           dataset.bound # {} => dataset'.bound = dataset.bound,
           \A u \in late' : IsUpdate(u)
    PROVE  BindingHolds'
<1>1. main'[p] = place /\ PerProcess(main')
  BY Zenon DEF BindingHolds, PerProcess
<1>2. \A q \in Process \ {p} : main'[q] = main[q]
  BY Zenon DEF BindingHolds, PerProcess
<1> QED
  BY Zenon, <1>1, <1>2 DEF BindingHolds, Bound, Writes, PerProcess, IsDataset

(* The invariant where start-up begins. *)
LEMMA InitBinding == Init => BindingHolds
<1> SUFFICES ASSUME Init PROVE BindingHolds
  OBVIOUS
<1>1. IsDataset(dataset)
  BY DatasetAssumption DEF Init, IsDataset
<1>2. PerProcess(main) /\ PerProcess(seen) /\ PerProcess(config)
  BY DEF Init, PerProcess
<1>3. \A p \in Process : main[p] = "down"
  BY DEF Init
<1> QED
  BY <1>1, <1>2, <1>3 DEF Init, BindingHolds, Bound, Writes

(* What the two answers to an update leave of the dataset and of what may     *)
(* still be executed.                                                         *)
LEMMA UpdateLemma ==
    ASSUME BindingHolds, NEW u, IsUpdate(u), Answered(u) \/ UpdateFails(u)
    PROVE  /\ IsDataset(dataset)' /\ dataset'.union = dataset.union
           /\ dataset.bound # {} => dataset'.bound = dataset.bound
           /\ \A v \in late' : IsUpdate(v)
           /\ Answered(u) /\ u.op = "bind" => dataset'.bound # {}
<1>0. IsDataset(dataset) /\ \A v \in late : IsUpdate(v)
  BY Zenon DEF BindingHolds
<1>1. CASE Answered(u)
  <2>1. dataset' = Execute(dataset, u) /\ late' = late
    BY <1>1 DEF Answered
  <2>2. IsDataset(dataset)'
    BY <1>0, <2>1, BindLemma DEF IsDataset
  <2> QED
    BY <1>0, <2>1, <2>2, BindLemma
<1>2. CASE UpdateFails(u)
  <2>1. dataset' = dataset /\ late' \in {late, late \cup {v \in {u} : v.op \in Lingering}}
    BY <1>2 DEF UpdateFails, Trouble, Linger
  <2>2. \A v \in late' : IsUpdate(v)
    BY <1>0, <2>1
  <2>3. IsDataset(dataset)'
    BY <1>0, <2>1 DEF IsDataset
  <2>4. Answered(u) /\ u.op = "bind" => dataset'.bound # {}
    BY <1>0, BindLemma DEF Answered
  <2> QED
    BY <2>1, <2>2, <2>3, <2>4
<1> QED
  BY <1>1, <1>2

(* The three updates the projector sends. *)
LEMMA UpdatesAre ==
    /\ IsUpdate(ProbeUpdate) /\ IsUpdate(CleanupUpdate)
    /\ \A t : IsUpdate(BindUpdate(t)) /\ BindUpdate(t).op = "bind"
  BY DEF IsUpdate, ProbeUpdate, CleanupUpdate, BindUpdate

(* A request that reads changes nothing of the target. *)
LEMMA ReadLemma ==
    ASSUME BindingHolds, UNCHANGED target \/ Reads \/ QueryFails
    PROVE  /\ IsDataset(dataset)' /\ dataset' = dataset
           /\ \A v \in late' : IsUpdate(v)
  BY Zenon DEF BindingHolds, target, Reads, QueryFails, Trouble, IsDataset

(* The end of a probe: start-up binds next or refuses, a running process goes on. *)
LEMMA ProbeLemma ==
    ASSUME BindingHolds, NEW p \in Process, NEW passed, ProbeEnds(p, passed),
           UNCHANGED <<seen, config>>,
           IsDataset(dataset)', dataset'.union = dataset.union,
           dataset.bound # {} => dataset'.bound = dataset.bound,
           \A u \in late' : IsUpdate(u)
    PROVE  BindingHolds'
<1>0. PerProcess(seen') /\ PerProcess(config')
  BY Zenon DEF BindingHolds, PerProcess
<1>1. CASE main[p] = "probe" /\ passed
  <2>1. main' = [main EXCEPT ![p] = "bind"]
    BY <1>1 DEF ProbeEnds, Goto
  <2> QED
    BY Zenon, <1>0, <2>1, LeaveLemma
<1>2. CASE main[p] = "probe" /\ ~passed
  <2>1. main' = [main EXCEPT ![p] = "refused"]
    BY <1>2 DEF ProbeEnds, Goto
  <2> QED
    BY Zenon, <1>0, <2>1, LeaveLemma
<1>3. CASE main[p] # "probe"
  <2>1. UNCHANGED main
    BY <1>3 DEF ProbeEnds
  <2> QED
    BY <2>1, TargetLemma
<1> QED
  BY <1>1, <1>2, <1>3

(* Every start: the process is refused, has exited, or probes first. *)
LEMMA StartBinding ==
    ASSUME BindingHolds, NEW p \in Process, NEW e, NEW line, Start(p, e, line)
    PROVE  BindingHolds'
<1>1. PICK place \in {"refused", "exited", "probe"} : main' = [main EXCEPT ![p] = place]
  BY DEF Start, Goto
<1>2. PICK c : config' = [config EXCEPT ![p] = c]
  BY DEF Start
<1>3. seen' = [seen EXCEPT ![p] = {}]
  BY DEF Start
<1>4. /\ PerProcess(seen') /\ PerProcess(config')
      /\ \A q \in Process \ {p} : seen'[q] = seen[q] /\ config'[q] = config[q]
  BY Zenon, <1>2, <1>3 DEF BindingHolds, PerProcess
<1>5. UNCHANGED target
  BY DEF Start
<1>6. IsDataset(dataset)' /\ dataset' = dataset /\ \A u \in late' : IsUpdate(u)
  BY <1>5, ReadLemma
<1> QED
  BY Zenon, <1>1, <1>4, <1>6, LeaveLemma

(* bind_target and what follows it. *)
LEMMA StartUpBinding ==
    ASSUME BindingHolds, NEW p \in Process, StartUp(p)
    PROVE  BindingHolds'
<1>0. PerProcess(main) /\ PerProcess(seen) /\ PerProcess(config) /\ IsDataset(dataset)
  BY Zenon DEF BindingHolds
<1>1. CASE BindTarget(p)
  <2>0. UNCHANGED <<seen, config>> /\ PerProcess(seen') /\ PerProcess(config')
    BY Zenon, <1>0, <1>1 DEF BindTarget, PerProcess
  <2> DEFINE u == BindUpdate(config[p].target)
  <2>u. IsUpdate(u) /\ u.op = "bind"
    BY UpdatesAre
  <2>1. CASE Answered(u) /\ Goto(p, "read binding")
    <3>1. /\ IsDataset(dataset)' /\ dataset'.union = dataset.union
          /\ dataset.bound # {} => dataset'.bound = dataset.bound
          /\ \A v \in late' : IsUpdate(v)
          /\ dataset'.bound # {}
      BY Zenon, <2>1, <2>u, UpdateLemma
    <3>2. PerProcess(main') /\ main'[p] = "read binding" /\ \A q \in Process \ {p} : main'[q] = main[q]
      BY Zenon, <1>0, <2>1 DEF Goto, PerProcess
    <3> QED
      BY Zenon, <2>0, <3>1, <3>2 DEF BindingHolds, Bound, Writes, IsDataset
  <2>2. CASE UpdateFails(u) /\ Goto(p, "refused")
    BY Zenon, <2>0, <2>2, <2>u, UpdateLemma, LeaveLemma DEF Goto
  <2>3. CASE Reads /\ Goto(p, "refused")
    BY Zenon, <2>0, <2>3, ReadLemma, LeaveLemma DEF Goto
  <2> QED
    BY Zenon, <1>1, <2>1, <2>2, <2>3 DEF BindTarget
<1>2. CASE ReadBinding(p)
  <2>0. UNCHANGED config /\ PerProcess(config')
    BY Zenon, <1>0, <1>2 DEF ReadBinding, PerProcess
  <2>1. CASE Reads /\ seen' = [seen EXCEPT ![p] = dataset.bound] /\ Goto(p, "ask union")
    <3>1. IsDataset(dataset)' /\ dataset' = dataset /\ \A v \in late' : IsUpdate(v)
      BY Zenon, <2>1, ReadLemma
    <3>2. PerProcess(main') /\ main'[p] = "ask union" /\ \A q \in Process \ {p} : main'[q] = main[q]
      BY Zenon, <1>0, <2>1 DEF Goto, PerProcess
    <3>3. PerProcess(seen') /\ seen'[p] = dataset.bound /\ \A q \in Process \ {p} : seen'[q] = seen[q]
      BY Zenon, <1>0, <2>1 DEF PerProcess
    <3>4. dataset.bound # {}
      BY Zenon, <1>2 DEF BindingHolds, Bound, ReadBinding
    <3> QED
      BY Zenon, <2>0, <3>1, <3>2, <3>3, <3>4 DEF BindingHolds, Bound, Writes, IsDataset
  <2>2. CASE QueryFails /\ UNCHANGED seen /\ Goto(p, "refused")
    <3>1. PerProcess(seen')
      BY <1>0, <2>2 DEF PerProcess
    <3> QED
      BY Zenon, <2>0, <2>2, <3>1, ReadLemma, LeaveLemma DEF Goto
  <2> QED
    BY Zenon, <1>2, <2>1, <2>2 DEF ReadBinding
<1>3. CASE AskUnion(p)
  <2>0. UNCHANGED <<seen, config>> /\ PerProcess(seen') /\ PerProcess(config')
    BY Zenon, <1>0, <1>3 DEF AskUnion, PerProcess
  <2>1. IsDataset(dataset)' /\ dataset' = dataset /\ \A v \in late' : IsUpdate(v)
    BY Zenon, <1>3, ReadLemma DEF AskUnion
  <2>2. CASE Goto(p, "refused")
    BY Zenon, <2>0, <2>1, <2>2, LeaveLemma DEF Goto
  <2>3. CASE /\ ~(dataset.union /\ dataset.bound # {}) /\ BoundToThis(p)
             /\ Goto(p, Admitted(p))
    <3>1. seen[p] = dataset.bound /\ dataset.bound # {}
      BY Zenon, <1>3 DEF BindingHolds, Bound, AskUnion
    <3>2. ~dataset.union /\ dataset.bound = {config[p].target}
      BY <2>3, <3>1 DEF BoundToThis
    <3>3. PerProcess(main') /\ main'[p] \in {"rebuild", "listen"}
      BY <1>0, <2>3 DEF Goto, PerProcess, Admitted
    <3>4. \A q \in Process \ {p} : main'[q] = main[q]
      BY <1>0, <2>3 DEF Goto, PerProcess
    <3> QED
      BY Zenon, <2>0, <2>1, <3>1, <3>2, <3>3, <3>4 DEF BindingHolds, Bound, Writes, IsDataset
  <2> QED
    BY Zenon, <1>3, <2>2, <2>3 DEF AskUnion
<1>4. CASE Rebuild(p)
  <2>1. /\ main' = [main EXCEPT ![p] = "exited"] /\ UNCHANGED <<seen, config, target>>
        /\ PerProcess(seen') /\ PerProcess(config')
    BY <1>0, <1>4 DEF Rebuild, Goto, PerProcess
  <2> QED
    BY Zenon, <2>1, ReadLemma, LeaveLemma
<1>5. CASE Listen(p)
  <2>0. UNCHANGED <<seen, config, target>> /\ PerProcess(seen') /\ PerProcess(config')
    BY <1>0, <1>5 DEF Listen, PerProcess
  <2>1. IsDataset(dataset)' /\ dataset' = dataset /\ \A v \in late' : IsUpdate(v)
    BY <2>0, ReadLemma
  <2>2. CASE Goto(p, "running")
    <3>1. PerProcess(main') /\ main'[p] = "running" /\ \A q \in Process \ {p} : main'[q] = main[q]
      BY <1>0, <2>2 DEF Goto, PerProcess
    <3> QED
      BY Zenon, <1>5, <2>0, <2>1, <3>1 DEF BindingHolds, Bound, Writes, IsDataset, Listen
  <2>3. CASE Goto(p, "refused")
    BY Zenon, <2>0, <2>1, <2>3, LeaveLemma DEF Goto
  <2> QED
    BY <1>5, <2>2, <2>3 DEF Listen
<1> QED
  BY <1>1, <1>2, <1>3, <1>4, <1>5 DEF StartUp

(* The probe, at start-up and later. *)
LEMMA ProbingBinding ==
    ASSUME BindingHolds, NEW p \in Process, Probing(p)
    PROVE  BindingHolds'
<1>1. CASE ProbeTask(p)
  BY <1>1, ReadLemma, TargetLemma DEF ProbeTask, process
<1>2. CASE ProbeRequest(p)
  <2>0. UNCHANGED <<seen, config>>
    BY <1>2 DEF ProbeRequest, Unprobed
  <2>1. Answered(ProbeUpdate) \/ UpdateFails(ProbeUpdate)
    BY Zenon, <1>2 DEF ProbeRequest
  <2>2. UNCHANGED main \/ ProbeEnds(p, FALSE)
    BY Zenon, <1>2 DEF ProbeRequest, ProbeGoesOn
  <2> QED
    BY Zenon, <2>0, <2>1, <2>2, UpdatesAre, UpdateLemma, TargetLemma, ProbeLemma
<1>3. CASE ProbeAsk(p)
  <2>0. UNCHANGED <<seen, config>>
    BY <1>3 DEF ProbeAsk, Unprobed
  <2>1. Reads \/ QueryFails
    BY Zenon, <1>3 DEF ProbeAsk
  <2>2. UNCHANGED main \/ ProbeEnds(p, FALSE) \/ ProbeEnds(p, TRUE)
    BY Zenon, <1>3 DEF ProbeAsk, ProbeGoesOn
  <2> QED
    BY Zenon, <2>0, <2>1, <2>2, ReadLemma, TargetLemma, ProbeLemma
<1>4. CASE ProbeCleanup(p)
  <2>0. UNCHANGED <<seen, config>>
    BY <1>4 DEF ProbeCleanup, Unprobed
  <2>1. Answered(CleanupUpdate) \/ UpdateFails(CleanupUpdate)
    BY <1>4 DEF ProbeCleanup
  <2>2. ProbeEnds(p, FALSE)
    BY Zenon, <1>4 DEF ProbeCleanup
  <2> QED
    BY Zenon, <2>0, <2>1, <2>2, UpdatesAre, UpdateLemma, ProbeLemma
<1> QED
  BY <1>1, <1>2, <1>3, <1>4 DEF Probing

(* Killing a process, a late update and a new deployment. *)
LEMMA WorldBinding ==
    ASSUME BindingHolds,
           \/ \E p \in Process : Exit(p) \/ Crash(p)
           \/ \E u \in late : LateUpdate(u)
           \/ \E k \in Kind : Deploy(k)
    PROVE  BindingHolds'
<1>0. /\ PerProcess(seen) /\ PerProcess(config) /\ IsDataset(dataset)
      /\ \A u \in late : IsUpdate(u)
  BY Zenon DEF BindingHolds
<1>1. ASSUME NEW p \in Process, Exit(p)
      PROVE  BindingHolds'
  <2>1. /\ main' = [main EXCEPT ![p] = "exited"] /\ UNCHANGED <<seen, config, target>>
        /\ PerProcess(seen') /\ PerProcess(config')
    BY <1>0, <1>1 DEF Exit, Goto, PerProcess
  <2> QED
    BY Zenon, <2>1, ReadLemma, LeaveLemma
<1>2. ASSUME NEW p \in Process, Crash(p)
      PROVE  BindingHolds'
  <2>1. /\ main' = [main EXCEPT ![p] = "down"] /\ UNCHANGED <<seen, config, dataset>>
        /\ PerProcess(seen') /\ PerProcess(config')
    BY <1>0, <1>2 DEF Crash, Goto, PerProcess
  <2>2. \A u \in Sending(p) : IsUpdate(u)
    BY UpdatesAre DEF Sending
  <2>3. \A u \in late' : IsUpdate(u)
    BY <1>0, <1>2, <2>2 DEF Crash, Linger
  <2>4. IsDataset(dataset)'
    BY <1>0, <2>1 DEF IsDataset
  <2> QED
    BY Zenon, <2>1, <2>3, <2>4, LeaveLemma
<1>3. ASSUME NEW u \in late, LateUpdate(u)
      PROVE  BindingHolds'
  <2>1. /\ dataset' = Execute(dataset, u) /\ late' = late \ {u}
        /\ UNCHANGED <<main, seen, config>>
    BY <1>3 DEF LateUpdate, process
  <2>2. IsDataset(dataset)'
    BY <1>0, <2>1, BindLemma DEF IsDataset
  <2> QED
    BY <1>0, <2>1, <2>2, BindLemma, TargetLemma
<1>4. ASSUME NEW k \in Kind, Deploy(k)
      PROVE  BindingHolds'
  <2>1. /\ dataset' = [dataset EXCEPT !.kind = k] /\ late' = late
        /\ UNCHANGED <<main, seen, config>>
    BY <1>4 DEF Deploy, process
  <2>2. IsDataset(dataset)' /\ dataset'.union = dataset.union /\ dataset'.bound = dataset.bound
    BY <1>0, <2>1 DEF IsDataset
  <2> QED
    BY <1>0, <2>1, <2>2, TargetLemma
<1> QED
  BY <1>1, <1>2, <1>3, <1>4

(* Every step keeps the invariant. *)
LEMMA NextBinding == BindingHolds /\ [Next]_vars => BindingHolds'
<1> SUFFICES ASSUME BindingHolds, [Next]_vars PROVE BindingHolds'
  OBVIOUS
<1>1. ASSUME NEW p \in Process, NEW e \in Environment, NEW line \in CommandLine, Start(p, e, line)
      PROVE  BindingHolds'
  BY <1>1, StartBinding
<1>2. ASSUME NEW p \in Process, StartUp(p) PROVE BindingHolds'
  BY <1>2, StartUpBinding
<1>3. ASSUME NEW p \in Process, Probing(p) PROVE BindingHolds'
  BY <1>3, ProbingBinding
<1>4. ASSUME NEW p \in Process, Signal(p) \/ Connection(p) PROVE BindingHolds'
  <2>1. UNCHANGED <<target, main, seen, config>>
    BY <1>4 DEF Signal, Connection, process
  <2> QED
    BY <2>1, ReadLemma, TargetLemma
<1>5. ASSUME NEW p \in Process, NEW w \in Worker, Working(p, w) PROVE BindingHolds'
  <2>1. UNCHANGED <<target, process>>
    BY Zenon, <1>5 DEF Working, Loop, ClaimPending, Idle, ClaimReconcile, Return, Claim, WorkerGoesOn
  <2> QED
    BY <2>1, ReadLemma, TargetLemma DEF process
<1>6. CASE UNCHANGED vars
  BY <1>6, ReadLemma, TargetLemma DEF vars, process, target
<1> QED
  BY <1>1, <1>2, <1>3, <1>4, <1>5, <1>6, WorldBinding DEF Next

(* bind_target: however many processes start, fail, are killed and are started *)
(* again, and whatever updates are executed late, no two that write the        *)
(* dataset have different target ids, and none writes one with a union default *)
(* graph.                                                                      *)
THEOREM OneTarget == Spec => []OneTargetPerDataset
<1>1. BindingHolds => OneTargetPerDataset
  <2> SUFFICES ASSUME BindingHolds, NEW p \in Process, Writes(p)
               PROVE  /\ ~dataset.union
                      /\ \A q \in Process : Writes(q) => config[p].target = config[q].target
    BY DEF OneTargetPerDataset
  <2>1. \A q \in Process : Writes(q) => ~dataset.union /\ dataset.bound = {config[q].target}
    BY Zenon DEF BindingHolds
  <2> QED
    BY <2>1
<1> QED
  BY <1>1, InitBinding, NextBinding, PTL DEF Spec
-----------------------------------------------------------------------------
(* Settings. *)

Active(p) == main[p] \notin {"down", "refused", "exited"}
Accepted(e) == settings(e) /\ new_client(e)

(* Whoever got past start-up did so with settings that were accepted. *)
SettingsHold ==
    /\ PerProcess(main) /\ PerProcess(config)
    /\ \A p \in Process : Active(p) => Accepted(config[p].environment)

(* Only a start sets a configuration, and only a start wakes a process. *)
LEMMA MainMoves ==
    [Next]_vars =>
        \/ \E p \in Process, e \in Environment, line \in CommandLine : Start(p, e, line)
        \/ UNCHANGED <<main, config>>
        \/ /\ UNCHANGED config
           /\ \E p \in Process : Active(p) /\ \E place : main' = [main EXCEPT ![p] = place]
<1> DEFINE Moves == \/ UNCHANGED <<main, config>>
                    \/ /\ UNCHANGED config
                       /\ \E p \in Process : Active(p) /\ \E place : main' = [main EXCEPT ![p] = place]
<1>1. ASSUME NEW p \in Process, StartUp(p) PROVE Moves
  BY Zenon, <1>1 DEF StartUp, BindTarget, ReadBinding, AskUnion, Rebuild, Listen, Goto, Active
<1>2. ASSUME NEW p \in Process, Probing(p) PROVE Moves
  <2>1. ASSUME NEW passed, ProbeEnds(p, passed), UNCHANGED config PROVE Moves
    BY Zenon, <2>1 DEF ProbeEnds, Goto, Active
  <2>2. CASE ProbeTask(p) BY Zenon, <2>2 DEF ProbeTask, process
  <2>3. CASE ProbeRequest(p) BY Zenon, <2>1, <2>3 DEF ProbeRequest, ProbeGoesOn, Unprobed
  <2>4. CASE ProbeAsk(p) BY Zenon, <2>1, <2>4 DEF ProbeAsk, ProbeGoesOn, Unprobed
  <2>5. CASE ProbeCleanup(p) BY Zenon, <2>1, <2>5 DEF ProbeCleanup, Unprobed
  <2> QED BY Zenon, <1>2, <2>2, <2>3, <2>4, <2>5 DEF Probing
<1>3. ASSUME NEW p \in Process, Signal(p) \/ Exit(p) \/ Crash(p) \/ Connection(p) PROVE Moves
  BY Zenon, <1>3 DEF Signal, Exit, Crash, Connection, Goto, Active, process
<1>4. ASSUME NEW p \in Process, NEW w \in Worker, Working(p, w) PROVE Moves
  BY Zenon, <1>4 DEF Working, Loop, ClaimPending, Idle, ClaimReconcile, Return, Claim, WorkerGoesOn,
     process
<1>5. ASSUME NEW u, LateUpdate(u) PROVE Moves BY Zenon, <1>5 DEF LateUpdate, process
<1>6. ASSUME NEW k, Deploy(k) PROVE Moves BY Zenon, <1>6 DEF Deploy, process
<1>7. CASE UNCHANGED vars BY Zenon, <1>7 DEF vars, process
<1> HIDE DEF Moves
<1>8. ASSUME Next
      PROVE  Moves \/ \E p \in Process, e \in Environment, line \in CommandLine : Start(p, e, line)
  BY <1>1, <1>2, <1>3, <1>4, <1>5, <1>6, <1>8 DEF Next
<1> QED BY Zenon, <1>7, <1>8 DEF Moves

(* Every step keeps the invariant. *)
LEMMA SettingsStep == SettingsHold /\ [Next]_vars => SettingsHold'
<1> SUFFICES ASSUME SettingsHold, [Next]_vars PROVE SettingsHold'
  BY Zenon
<1>1. CASE UNCHANGED <<main, config>>
  BY Zenon, <1>1 DEF SettingsHold, PerProcess, Active
<1>2. ASSUME NEW p \in Process, Active(p), NEW place, main' = [main EXCEPT ![p] = place],
             UNCHANGED config
      PROVE  SettingsHold'
  <2>1. PerProcess(main') /\ \A q \in Process \ {p} : main'[q] = main[q]
    BY Zenon, <1>2 DEF SettingsHold, PerProcess
  <2> QED BY Zenon, <1>2, <2>1 DEF SettingsHold, PerProcess, Active
<1>3. ASSUME NEW p \in Process, NEW e, NEW line, Start(p, e, line) PROVE SettingsHold'
  <2>1. /\ PerProcess(main') /\ PerProcess(config')
        /\ \A q \in Process \ {p} : main'[q] = main[q] /\ config'[q] = config[q]
    BY Zenon, <1>3 DEF Start, Goto, SettingsHold, PerProcess
  <2>2. main'[p] = "refused" \/ (Accepted(e) /\ config'[p].environment = e)
    <3>1. CASE main' = [main EXCEPT ![p] = "refused"]
      BY Zenon, <3>1 DEF SettingsHold, PerProcess
    <3>2. CASE /\ Accepted(e)
               /\ config' = [config EXCEPT ![p] =
                               [target |-> e.target, command |-> parse(line), environment |-> e]]
      <4>1. config'[p] = [target |-> e.target, command |-> parse(line), environment |-> e]
        BY Zenon, <3>2 DEF SettingsHold, PerProcess
      <4> QED BY <3>2, <4>1
    <3> QED BY Zenon, <1>3, <3>1, <3>2 DEF Start, Goto, Accepted
  <2> QED BY Zenon, <2>1, <2>2 DEF SettingsHold, Active
<1> QED BY Zenon, <1>1, <1>2, <1>3, MainMoves

(* The invariant holds in every reachable state. *)
LEMMA SettingsInvariance == Spec => []SettingsHold
<1>1. Init => SettingsHold
  BY Zenon DEF Init, SettingsHold, PerProcess, Active
<1> QED BY <1>1, SettingsStep, PTL DEF Spec

(* settings: whatever the environment says, the lease of a process that       *)
(* writes covers the four requests of a step and the margin.                  *)
THEOREM LeaseAlwaysCovers == Spec => []LeaseCoversAStep
<1>1. SettingsHold => LeaseCoversAStep
  <2> SUFFICES ASSUME SettingsHold, NEW p \in Process, Writes(p)
               PROVE  LET e == config[p].environment
                      IN  number(e.lease, 180) >= 4 * number(e.timeout, 30) + StepMargin
    BY Zenon DEF LeaseCoversAStep
  <2>1. Active(p) BY Zenon DEF Writes, Active
  <2>2. lease_covers_a_step(config[p].environment)
    BY Zenon, <2>1 DEF SettingsHold, Accepted, settings
  <2> QED BY Zenon, <2>2 DEF lease_covers_a_step
<1> QED BY <1>1, SettingsInvariance, PTL

(* settings, check_endpoint and FusekiClient::new: whoever writes without the *)
(* development switch has credentials and sends them over https alone.        *)
THEOREM PlainHttpNeverOutside == Spec => []PlainHttpOnlyInDevelopment
<1>1. SettingsHold => PlainHttpOnlyInDevelopment
  <2> SUFFICES ASSUME SettingsHold, NEW p \in Process, Writes(p),
                      ~development(config[p].environment)
               PROVE  LET e == config[p].environment
                      IN  /\ e.query = "https" /\ e.update = "https"
                          /\ credentials(e) \in {"basic", "bearer"}
    BY Zenon DEF PlainHttpOnlyInDevelopment
  <2> DEFINE e == config[p].environment
  <2>1. Active(p) BY Zenon DEF Writes, Active
  <2>2. settings(e) /\ new_client(e) BY Zenon, <2>1 DEF SettingsHold, Accepted
  <2>3. e.query = "https" /\ e.update = "https"
    BY Zenon, <2>2 DEF new_client, check_endpoint
  <2>4. credentials(e) # Refused BY Zenon, <2>2 DEF settings
  <2>5. credentials(e) \in {"basic", "bearer", Refused}
    BY SMT DEF credentials
  <2> QED BY Zenon, <2>3, <2>4, <2>5
<1> QED BY <1>1, SettingsInvariance, PTL

-----------------------------------------------------------------------------
(* Pausing. *)

Claiming(p, w) == work[p][w] \in {"claim", "claim idle"}

(* A worker that read `not paused' before the pause has claimed nothing since; *)
(* one that reads `paused' does not go on to claim.                           *)
FewClaims(p, w) ==
    /\ extra[p][w] \in {0, 1}
    /\ paused[p] /\ Claiming(p, w) => extra[p][w] = 0

PauseHolds ==
    /\ DOMAIN paused = Process
    /\ DOMAIN work = Process /\ \A p \in Process : DOMAIN work[p] = Worker
    /\ DOMAIN extra = Process /\ \A p \in Process : DOMAIN extra[p] = Worker
    /\ \A p \in Process, w \in Worker : FewClaims(p, w)

(* A step that leaves the pause alone and does not take a worker to a claim. *)
LEMMA PauseKept ==
    ASSUME PauseHolds, UNCHANGED <<paused, extra>>,
           DOMAIN work' = Process, \A p \in Process : DOMAIN work'[p] = Worker,
           \A p \in Process, w \in Worker :
              work'[p][w] = work[p][w] \/ ~Claiming(p, w)' \/ ~paused[p]
    PROVE  PauseHolds'
  BY Zenon DEF PauseHolds, FewClaims, Claiming

(* A probe that ends: claims are counted from the moment of the pause. *)
LEMMA ProbeEndsPause ==
    ASSUME PauseHolds, NEW p \in Process, NEW passed, ProbeEnds(p, passed), UNCHANGED work
    PROVE  PauseHolds'
<1>1. CASE main[p] = "probe"
  BY Zenon, <1>1, PauseKept DEF ProbeEnds, PauseHolds
<1>2. CASE main[p] # "probe"
  <2>1. /\ paused' = [paused EXCEPT ![p] = ~passed]
        /\ extra' = [extra EXCEPT ![p] = IF paused[p] THEN @ ELSE [w \in Worker |-> 0]]
    BY Zenon, <1>2 DEF ProbeEnds
  <2>2. /\ DOMAIN paused' = Process /\ DOMAIN extra' = Process
        /\ \A q \in Process \ {p} : paused'[q] = paused[q] /\ extra'[q] = extra[q]
        /\ extra'[p] = IF paused[p] THEN extra[p] ELSE [w \in Worker |-> 0]
    BY Zenon, <2>1 DEF PauseHolds
  <2>3. \A w \in Worker : ~paused[p] => extra'[p][w] = 0
    BY Zenon, <2>2
  <2>4. DOMAIN extra'[p] = Worker
    BY Zenon, <2>2 DEF PauseHolds
  <2>5. ASSUME NEW q \in Process, NEW w \in Worker PROVE FewClaims(q, w)'
    <3>0. FewClaims(q, w) BY Zenon DEF PauseHolds
    <3>1. CASE q # p BY Zenon, <2>2, <3>0, <3>1 DEF FewClaims, Claiming
    <3>2. CASE q = p /\ paused[p] BY Zenon, <2>2, <3>0, <3>2 DEF FewClaims, Claiming
    <3>3. CASE q = p /\ ~paused[p] BY Zenon, <2>3, <3>3 DEF FewClaims, Claiming
    <3> QED BY Zenon, <3>1, <3>2, <3>3
  <2>6. \A q \in Process : DOMAIN extra'[q] = Worker BY Zenon, <2>2, <2>4 DEF PauseHolds
  <2> QED BY Zenon, <2>2, <2>5, <2>6 DEF PauseHolds
<1> QED BY Zenon, <1>1, <1>2

(* A worker goes on: it claims only where it had not read the pause. *)
LEMMA WorkerPause ==
    ASSUME PauseHolds, NEW p \in Process, NEW w \in Worker, Working(p, w)
    PROVE  PauseHolds'
<1>1. ASSUME NEW place, WorkerGoesOn(p, w, place)
      PROVE  /\ UNCHANGED paused /\ DOMAIN work' = Process /\ work'[p][w] = place
             /\ \A q \in Process : DOMAIN work'[q] = Worker
             /\ \A q \in Process, v \in Worker : q # p \/ v # w => work'[q][v] = work[q][v]
  <2>1. UNCHANGED paused /\ work' = [work EXCEPT ![p][w] = place]
    BY Zenon, <1>1 DEF WorkerGoesOn, probing
  <2>2. /\ DOMAIN work' = Process /\ work'[p] = [work[p] EXCEPT ![w] = place]
        /\ \A q \in Process : q # p => work'[q] = work[q]
    BY Zenon, <2>1 DEF PauseHolds
  <2> QED BY Zenon, <2>1, <2>2 DEF PauseHolds
<1>2. ASSUME NEW place, WorkerGoesOn(p, w, place), UNCHANGED extra,
             place \notin {"claim", "claim idle"} \/ ~paused[p]
      PROVE  PauseHolds'
  BY Zenon, <1>1, <1>2, PauseKept DEF Claiming
<1>3. ASSUME Claiming(p, w), NEW place, place \in {"idle", "sleep"}, Claim(p, w, place)
      PROVE  PauseHolds'
  <2>1. CASE WorkerGoesOn(p, w, place) /\ UNCHANGED extra
    BY Zenon, <1>2, <1>3, <2>1
  <2>2. CASE /\ WorkerGoesOn(p, w, "step")
             /\ extra' = [extra EXCEPT ![p][w] = IF paused[p] THEN @ + 1 ELSE @]
    <3>1. /\ DOMAIN extra' = Process
          /\ extra'[p] = [extra[p] EXCEPT ![w] = IF paused[p] THEN extra[p][w] + 1 ELSE extra[p][w]]
          /\ \A q \in Process : q # p => extra'[q] = extra[q]
      BY Zenon, <2>2 DEF PauseHolds
    <3>2. /\ extra'[p][w] = IF paused[p] THEN extra[p][w] + 1 ELSE extra[p][w]
          /\ \A v \in Worker : v # w => extra'[p][v] = extra[p][v]
          /\ \A q \in Process : DOMAIN extra'[q] = Worker
      BY Zenon, <3>1 DEF PauseHolds
    <3>3. paused[p] => extra[p][w] = 0 BY Zenon, <1>3 DEF PauseHolds, FewClaims
    <3>4. extra[p][w] \in {0, 1} BY Zenon DEF PauseHolds, FewClaims
    <3>5. extra'[p][w] \in {0, 1} BY SMT, <3>2, <3>3, <3>4
    <3>6. work'[p][w] = "step" BY Zenon, <1>1, <2>2
    <3>7. ASSUME NEW q \in Process, NEW v \in Worker PROVE FewClaims(q, v)'
      <4>0. FewClaims(q, v) BY Zenon DEF PauseHolds
      <4>1. CASE q = p /\ v = w BY Zenon, <3>5, <3>6, <4>1 DEF FewClaims, Claiming
      <4>2. CASE q # p \/ v # w
        <5>1. work'[q][v] = work[q][v] /\ paused'[q] = paused[q] BY Zenon, <1>1, <2>2, <4>2
        <5>2. extra'[q][v] = extra[q][v] BY Zenon, <3>1, <3>2, <4>2
        <5> QED BY Zenon, <4>0, <5>1, <5>2 DEF FewClaims, Claiming
      <4> QED BY Zenon, <4>1, <4>2
    <3> QED BY Zenon, <1>1, <2>2, <3>1, <3>2, <3>7 DEF PauseHolds
  <2> QED BY Zenon, <1>3, <2>1, <2>2 DEF Claim
<1>4. CASE Loop(p, w)
  <2>1. CASE stop[p] BY Zenon, <1>2, <1>4, <2>1 DEF Loop
  <2>2. CASE ~stop[p] /\ paused[p] BY Zenon, <1>2, <1>4, <2>2 DEF Loop
  <2>3. CASE ~stop[p] /\ ~paused[p] BY Zenon, <1>2, <1>4, <2>3 DEF Loop
  <2> QED BY Zenon, <2>1, <2>2, <2>3
<1>5. CASE ClaimPending(p, w) BY Zenon, <1>3, <1>5 DEF ClaimPending, Claiming
<1>6. CASE Idle(p, w)
  <2>1. CASE paused[p] BY Zenon, <1>2, <1>6, <2>1 DEF Idle
  <2>2. CASE ~paused[p] BY Zenon, <1>2, <1>6, <2>2 DEF Idle
  <2> QED BY Zenon, <2>1, <2>2
<1>7. CASE ClaimReconcile(p, w) BY Zenon, <1>3, <1>7 DEF ClaimReconcile, Claiming
<1>8. CASE Return(p, w) BY Zenon, <1>2, <1>8 DEF Return
<1> QED BY Zenon, <1>4, <1>5, <1>6, <1>7, <1>8 DEF Working

(* Every step keeps the invariant. *)
LEMMA PauseStep == PauseHolds /\ [Next]_vars => PauseHolds'
<1> SUFFICES ASSUME PauseHolds, [Next]_vars PROVE PauseHolds'
  BY Zenon
<1>0. DOMAIN work = Process /\ \A p \in Process : DOMAIN work[p] = Worker
  BY Zenon DEF PauseHolds
<1>1. CASE UNCHANGED <<work, paused, extra>> BY Zenon, <1>0, <1>1, PauseKept
<1>2. ASSUME NEW p \in Process, NEW place \in {"none", "loop"}, UNCHANGED <<paused, extra>>,
             work' = [work EXCEPT ![p] = [w \in Worker |-> place]]
      PROVE  PauseHolds'
  <2>1. /\ DOMAIN work' = Process /\ \A q \in Process : q # p => work'[q] = work[q]
        /\ DOMAIN work'[p] = Worker /\ \A w \in Worker : work'[p][w] = place
    BY Zenon, <1>0, <1>2
  <2> QED BY Zenon, <1>0, <1>2, <2>1, PauseKept DEF Claiming
<1>3. ASSUME NEW p \in Process, NEW e, NEW line, Start(p, e, line) PROVE PauseHolds'
  <2>1. /\ paused' = [paused EXCEPT ![p] = FALSE]
        /\ extra' = [extra EXCEPT ![p] = [w \in Worker |-> 0]]
        /\ work' = [work EXCEPT ![p] = [w \in Worker |-> "none"]]
    BY Zenon, <1>3 DEF Start
  <2>2. /\ DOMAIN paused' = Process /\ DOMAIN extra' = Process /\ DOMAIN work' = Process
        /\ DOMAIN extra'[p] = Worker /\ DOMAIN work'[p] = Worker
        /\ \A q \in Process : q # p =>
             paused'[q] = paused[q] /\ extra'[q] = extra[q] /\ work'[q] = work[q]
    BY Zenon, <2>1 DEF PauseHolds
  <2>3. ~paused'[p] /\ \A w \in Worker : extra'[p][w] = 0
    BY Zenon, <2>1 DEF PauseHolds
  <2>4. ASSUME NEW q \in Process, NEW w \in Worker PROVE FewClaims(q, w)'
    <3>0. FewClaims(q, w) BY Zenon DEF PauseHolds
    <3> QED BY Zenon, <2>2, <2>3, <3>0 DEF FewClaims, Claiming
  <2> QED BY Zenon, <2>2, <2>4 DEF PauseHolds
<1>4. ASSUME NEW p \in Process, StartUp(p) PROVE PauseHolds'
  <2>1. CASE Listen(p)
    BY Zenon, <1>1, <1>2, <2>1 DEF Listen
  <2>2. CASE BindTarget(p) \/ ReadBinding(p) \/ AskUnion(p) \/ Rebuild(p)
    BY Zenon, <1>1, <2>2 DEF BindTarget, ReadBinding, AskUnion, Rebuild, probing, working
  <2> QED BY Zenon, <1>4, <2>1, <2>2 DEF StartUp
<1>5. ASSUME NEW p \in Process, Probing(p) PROVE PauseHolds'
  <2>1. CASE ProbeTask(p) BY Zenon, <1>1, <2>1 DEF ProbeTask, working
  <2>2. CASE ProbeRequest(p)
    BY Zenon, <1>1, <2>2, ProbeEndsPause DEF ProbeRequest, ProbeGoesOn, Unprobed
  <2>3. CASE ProbeAsk(p)
    BY Zenon, <1>1, <2>3, ProbeEndsPause DEF ProbeAsk, ProbeGoesOn, Unprobed
  <2>4. CASE ProbeCleanup(p) BY Zenon, <2>4, ProbeEndsPause DEF ProbeCleanup, Unprobed
  <2> QED BY Zenon, <1>5, <2>1, <2>2, <2>3, <2>4 DEF Probing
<1>6. ASSUME NEW p \in Process, Signal(p) \/ Exit(p) \/ Connection(p) PROVE PauseHolds'
  BY Zenon, <1>1, <1>6 DEF Signal, Exit, Connection, probing, working
<1>7. ASSUME NEW p \in Process, Crash(p) PROVE PauseHolds'
  BY Zenon, <1>2, <1>7 DEF Crash
<1>8. ASSUME NEW u, LateUpdate(u) PROVE PauseHolds'
  BY Zenon, <1>1, <1>8 DEF LateUpdate, probing, working
<1>9. ASSUME NEW k, Deploy(k) PROVE PauseHolds' BY Zenon, <1>1, <1>9 DEF Deploy, working
<1>10. CASE UNCHANGED vars BY Zenon, <1>1, <1>10 DEF vars, probing, working
<1>11. ASSUME Next PROVE PauseHolds'
  BY <1>3, <1>4, <1>5, <1>6, <1>7, <1>8, <1>9, <1>11, WorkerPause DEF Next
<1> QED BY Zenon, <1>10, <1>11

(* is_paused: a worker that had read it before a probe failed claims one more *)
(* stream at most, in any number of processes and however long the target     *)
(* stays that way.                                                            *)
THEOREM FewClaimsAfterPause == Spec => []AtMostOneClaimAfterPause
<1>1. ASSUME Init PROVE PauseHolds
  <2>1. \A p \in Process, w \in Worker : ~paused[p] /\ extra[p][w] = 0
    BY Zenon, <1>1 DEF Init
  <2> QED BY Zenon, <1>1, <2>1 DEF Init, PauseHolds, FewClaims
<1>2. PauseHolds => AtMostOneClaimAfterPause
  <2> SUFFICES ASSUME PauseHolds, NEW p \in Process, NEW w \in Worker PROVE extra[p][w] <= 1
    BY Zenon DEF AtMostOneClaimAfterPause
  <2>1. extra[p][w] \in {0, 1} BY Zenon DEF PauseHolds, FewClaims
  <2> QED BY SMT, <2>1
<1> QED BY <1>1, <1>2, PauseStep, PTL DEF Spec

-----------------------------------------------------------------------------
(* The probe. *)

(* The probe graph is one, so what a probe finds in it is its own only in a   *)
(* deployment of one projector whose clean-ups are not executed late.         *)
ProbesAlone == (\E p : Process = {p}) /\ "cleanup" \notin Lingering

(* While a probe has seen no transactional dataset, what its update inserted  *)
(* stays where it will ask for it.                                            *)
ProbeTells(p) ==
    ~witness[p] => /\ probe[p] # "passed"
                   /\ probe[p] \in {"update", "ask"} => dataset.kind # "transactional"
                   /\ probe[p] = "ask" => dataset.probe

ProbeHolds ==
    /\ IsDataset(dataset)
    /\ \A u \in late : IsUpdate(u) /\ u.op # "cleanup"
    /\ PerProcess(probe) /\ PerProcess(witness)
    /\ \A p \in Process : ProbeTells(p)

(* Execute: only a clean-up removes the probe's triple. *)
LEMMA ProbeStays ==
    ASSUME NEW d, NEW u, IsDataset(d), IsUpdate(u)
    PROVE  /\ IsDataset(Execute(d, u)) /\ Execute(d, u).kind = d.kind
           /\ u.op # "cleanup" /\ d.probe => Execute(d, u).probe
           /\ u.op = "probe" /\ d.kind # "transactional" => Execute(d, u).probe
<1>0. IsDataset(Execute(d, u)) BY Zenon, BindLemma
<1>1. CASE u.op = "probe"
  <2>1. Execute(d, u) = Probed(d) BY Zenon, <1>1 DEF Execute
  <2> QED BY <1>0, <1>1, <2>1 DEF Probed, IsDataset
<1>2. CASE u.op = "cleanup"
  <2>1. Execute(d, u) = Cleaned(d) BY Zenon, <1>2 DEF Execute
  <2> QED BY <1>0, <1>2, <2>1 DEF Cleaned, IsDataset
<1>3. CASE u.op = "bind"
  <2>1. Execute(d, u) = bind_target_update(d, u.target) BY Zenon, <1>3 DEF Execute
  <2> QED BY <1>0, <1>3, <2>1 DEF bind_target_update, IsDataset
<1> QED BY Zenon, <1>1, <1>2, <1>3, <1>0 DEF IsUpdate

(* A step that executes no clean-up and leaves the probes as they are. *)
LEMMA ProbeKept ==
    ASSUME ProbeHolds, UNCHANGED <<probe, witness>>,
           IsDataset(dataset)', dataset'.kind = dataset.kind, dataset.probe => dataset'.probe,
           \A u \in late' : IsUpdate(u) /\ u.op # "cleanup"
    PROVE  ProbeHolds'
  BY Zenon DEF ProbeHolds, ProbeTells, IsDataset, PerProcess

(* A step of p alone that takes its probe somewhere. *)
LEMMA ProbeMoves ==
    ASSUME ProbeHolds, NEW p, Process = {p}, ProbeTells(p)',
           PerProcess(probe'), PerProcess(witness'), IsDataset(dataset)',
           \A u \in late' : IsUpdate(u) /\ u.op # "cleanup"
    PROVE  ProbeHolds'
  BY Zenon DEF ProbeHolds

(* What is sent and not answered is no clean-up that may yet be executed. *)
LEMMA NoLateCleanup ==
    ASSUME ProbeHolds, "cleanup" \notin Lingering, NEW S, \A u \in S : IsUpdate(u), Linger(S)
    PROVE  \A u \in late' : IsUpdate(u) /\ u.op # "cleanup"
  BY Zenon DEF ProbeHolds, Linger

(* A probe begins on the dataset as it is. *)
LEMMA ProbeBegins ==
    ASSUME ProbeHolds, NEW p, Process = {p}, UNCHANGED <<dataset, late>>,
           probe' = [probe EXCEPT ![p] = "update"],
           witness' = [witness EXCEPT ![p] = Transactional]
    PROVE  ProbeHolds'
<1>1. /\ PerProcess(probe') /\ PerProcess(witness')
      /\ probe'[p] = "update" /\ witness'[p] = Transactional
  BY Zenon DEF ProbeHolds, PerProcess
<1>2. ProbeTells(p)' BY Zenon, <1>1 DEF ProbeTells, Transactional
<1> QED BY Zenon, <1>1, <1>2, ProbeMoves DEF ProbeHolds, IsDataset

(* A probe stops, or ends without a proof. *)
LEMMA ProbeRests ==
    ASSUME ProbeHolds, NEW p, Process = {p}, IsDataset(dataset)',
           \A u \in late' : IsUpdate(u) /\ u.op # "cleanup", UNCHANGED witness,
           NEW place, place \notin {"passed", "update", "ask"}, probe' = [probe EXCEPT ![p] = place]
    PROVE  ProbeHolds'
<1>1. PerProcess(probe') /\ PerProcess(witness') /\ probe'[p] = place
  BY Zenon DEF ProbeHolds, PerProcess
<1>2. ProbeTells(p)' BY Zenon, <1>1 DEF ProbeTells
<1> QED BY Zenon, <1>1, <1>2, ProbeMoves

(* A probe that ends without a proof rests. *)
LEMMA ProbeFails ==
    ASSUME NEW p, ProbeEnds(p, FALSE)
    PROVE  \E place : place \notin {"passed", "update", "ask"} /\ probe' = [probe EXCEPT ![p] = place]
<1>1. CASE main[p] = "probe" BY Zenon, <1>1 DEF ProbeEnds
<1>2. CASE main[p] # "probe" BY Zenon, <1>2 DEF ProbeEnds
<1> QED BY Zenon, <1>1, <1>2

(* The requests of a probe. *)
LEMMA ProbingTells ==
    ASSUME ProbeHolds, NEW p, Process = {p}, "cleanup" \notin Lingering, Probing(p)
    PROVE  ProbeHolds'
<1>0. /\ IsDataset(dataset) /\ PerProcess(probe) /\ PerProcess(witness) /\ ProbeTells(p)
      /\ \A u \in late : IsUpdate(u) /\ u.op # "cleanup"
  BY Zenon DEF ProbeHolds
<1>1. CASE ProbeTask(p)
  <2>1. UNCHANGED <<dataset, late>> BY Zenon, <1>1 DEF ProbeTask, target
  <2>2. CASE stop[p]
    BY Zenon, <1>0, <1>1, <2>1, <2>2, ProbeRests DEF ProbeTask, IsDataset
  <2>3. CASE ~stop[p]
    BY Zenon, <1>1, <2>1, <2>3, ProbeBegins DEF ProbeTask
  <2> QED BY Zenon, <2>2, <2>3
<1>2. CASE ProbeRequest(p)
  <2>0. probe[p] = "update" /\ UNCHANGED witness BY Zenon, <1>2 DEF ProbeRequest, Unprobed
  <2>1. CASE UpdateFails(ProbeUpdate) /\ ProbeEnds(p, FALSE)
    <3>1. dataset' = dataset /\ \A u \in late' : IsUpdate(u) /\ u.op # "cleanup"
      BY Zenon, <2>1, UpdatesAre, NoLateCleanup DEF UpdateFails, Trouble
    <3> QED BY Zenon, <1>0, <2>0, <2>1, <3>1, ProbeFails, ProbeRests DEF IsDataset
  <2>2. CASE /\ Answered(ProbeUpdate)
             /\ ProbeGoesOn(p, IF dataset.kind = "lax" THEN "cleanup" ELSE "ask")
    <3>1. dataset' = Execute(dataset, ProbeUpdate) /\ UNCHANGED late
      BY Zenon, <2>2 DEF Answered
    <3>2. IsUpdate(ProbeUpdate) /\ ProbeUpdate.op = "probe" BY DEF ProbeUpdate, IsUpdate
    <3>3. /\ IsDataset(dataset') /\ dataset'.kind = dataset.kind
          /\ dataset.kind # "transactional" => dataset'.probe
      BY Zenon, <1>0, <3>1, <3>2, ProbeStays
    <3>4. PICK place \in {"cleanup", "ask"} : probe' = [probe EXCEPT ![p] = place]
      BY Zenon, <2>2 DEF ProbeGoesOn
    <3>5. PerProcess(probe') /\ PerProcess(witness') /\ probe'[p] = place
      BY Zenon, <1>0, <2>0, <3>4 DEF PerProcess
    <3>6. ProbeTells(p)' BY Zenon, <1>0, <2>0, <3>3, <3>5 DEF ProbeTells
    <3> QED BY Zenon, <1>0, <3>1, <3>3, <3>5, <3>6, ProbeMoves DEF IsDataset
  <2> QED BY Zenon, <1>2, <2>1, <2>2 DEF ProbeRequest
<1>3. CASE ProbeAsk(p)
  <2>0. probe[p] = "ask" /\ UNCHANGED <<witness, dataset, late>>
    BY Zenon, <1>3 DEF ProbeAsk, Unprobed, Reads, QueryFails, Trouble
  <2>1. CASE dataset.probe /\ ProbeGoesOn(p, "cleanup")
    BY Zenon, <1>0, <2>0, <2>1, ProbeRests DEF ProbeGoesOn, IsDataset
  <2>2. CASE ~dataset.probe /\ ProbeEnds(p, TRUE)
    <3>1. witness[p] BY Zenon, <1>0, <2>0, <2>2 DEF ProbeTells
    <3>2. probe' = [probe EXCEPT ![p] = "passed"] BY Zenon, <2>2 DEF ProbeEnds
    <3>3. PerProcess(probe') /\ PerProcess(witness') /\ ProbeTells(p)'
      BY Zenon, <1>0, <2>0, <3>1, <3>2 DEF PerProcess, ProbeTells
    <3> QED BY Zenon, <1>0, <2>0, <3>3, ProbeMoves DEF IsDataset
  <2>3. CASE ProbeEnds(p, FALSE)
    BY Zenon, <1>0, <2>0, <2>3, ProbeFails, ProbeRests DEF IsDataset
  <2> QED BY Zenon, <1>3, <2>1, <2>2, <2>3 DEF ProbeAsk
<1>4. CASE ProbeCleanup(p)
  <2>0. ProbeEnds(p, FALSE) /\ UNCHANGED witness BY Zenon, <1>4 DEF ProbeCleanup, Unprobed
  <2>1. IsUpdate(CleanupUpdate) BY Zenon, UpdatesAre
  <2>2. IsDataset(dataset') /\ \A u \in late' : IsUpdate(u) /\ u.op # "cleanup"
    <3>1. CASE Answered(CleanupUpdate) BY Zenon, <1>0, <2>1, <3>1, ProbeStays DEF Answered
    <3>2. CASE UpdateFails(CleanupUpdate)
      BY Zenon, <1>0, <2>1, <3>2, NoLateCleanup DEF UpdateFails, Trouble
    <3> QED BY Zenon, <1>4, <3>1, <3>2 DEF ProbeCleanup
  <2> QED BY Zenon, <2>0, <2>2, ProbeFails, ProbeRests DEF IsDataset
<1> QED BY Zenon, <1>1, <1>2, <1>3, <1>4 DEF Probing

(* Every other step of the one process, of the target and of the operator. *)
LEMMA ProbeStep == ProbesAlone /\ ProbeHolds /\ [Next]_vars => ProbeHolds'
<1> SUFFICES ASSUME ProbesAlone, ProbeHolds, [Next]_vars PROVE ProbeHolds'
  BY Zenon
<1>0. PICK p : Process = {p} BY Zenon DEF ProbesAlone
<1>1. /\ IsDataset(dataset) /\ "cleanup" \notin Lingering
      /\ \A u \in late : IsUpdate(u) /\ u.op # "cleanup"
  BY Zenon DEF ProbeHolds, ProbesAlone
<1>2. CASE UNCHANGED <<dataset, late, probe, witness>>
  BY Zenon, <1>1, <1>2, ProbeKept DEF IsDataset
<1>3. ASSUME NEW e, NEW line, Start(p, e, line) PROVE ProbeHolds'
  <2>1. UNCHANGED <<dataset, late>> BY Zenon, <1>3 DEF Start, target
  <2>2. \/ UNCHANGED <<probe, witness>>
        \/ /\ probe' = [probe EXCEPT ![p] = "update"]
           /\ witness' = [witness EXCEPT ![p] = Transactional]
    BY Zenon, <1>3 DEF Start
  <2> QED BY Zenon, <1>0, <1>2, <2>1, <2>2, ProbeBegins
<1>4. ASSUME StartUp(p) PROVE ProbeHolds'
  <2>1. CASE BindTarget(p)
    <3> DEFINE u == BindUpdate(config[p].target)
    <3>1. UNCHANGED <<probe, witness>> /\ (Answered(u) \/ UpdateFails(u) \/ Reads)
      BY Zenon, <2>1 DEF BindTarget, probing
    <3>2. IsUpdate(u) /\ u.op # "cleanup" BY UpdatesAre
    <3> HIDE DEF u
    <3>3. CASE Answered(u)
      BY Zenon, <1>1, <3>1, <3>2, <3>3, ProbeStays, ProbeKept DEF Answered
    <3>4. CASE UpdateFails(u)
      <4>1. dataset' = dataset /\ \A v \in late' : IsUpdate(v) /\ v.op # "cleanup"
        BY Zenon, <1>1, <3>2, <3>4, NoLateCleanup DEF UpdateFails, Trouble
      <4> QED BY Zenon, <1>1, <3>1, <4>1, ProbeKept DEF IsDataset
    <3>5. CASE Reads BY Zenon, <1>2, <3>1, <3>5 DEF Reads
    <3> QED BY Zenon, <3>1, <3>3, <3>4, <3>5
  <2>2. CASE ReadBinding(p) \/ AskUnion(p)
    BY Zenon, <1>2, <2>2 DEF ReadBinding, AskUnion, Reads, QueryFails, Trouble, probing
  <2>3. CASE Rebuild(p) BY Zenon, <1>2, <2>3 DEF Rebuild, target, probing
  <2>4. CASE Listen(p)
    <3>1. UNCHANGED <<dataset, late, witness>> BY Zenon, <2>4 DEF Listen, target
    <3>2. UNCHANGED probe \/ probe' = [probe EXCEPT ![p] = "sleep"] BY Zenon, <2>4 DEF Listen
    <3> QED BY Zenon, <1>0, <1>1, <1>2, <3>1, <3>2, ProbeRests DEF IsDataset
  <2> QED BY Zenon, <1>4, <2>1, <2>2, <2>3, <2>4 DEF StartUp
<1>5. ASSUME Signal(p) \/ Exit(p) \/ Connection(p) PROVE ProbeHolds'
  BY Zenon, <1>2, <1>5 DEF Signal, Exit, Connection, target, probing
<1>6. ASSUME Crash(p) PROVE ProbeHolds'
  <2>1. \A u \in Sending(p) : IsUpdate(u) BY UpdatesAre DEF Sending
  <2>2. /\ dataset' = dataset /\ witness' = witness /\ probe' = [probe EXCEPT ![p] = "none"]
        /\ \A u \in late' : IsUpdate(u) /\ u.op # "cleanup"
    BY Zenon, <1>1, <1>6, <2>1, NoLateCleanup DEF Crash
  <2> QED BY Zenon, <1>0, <1>1, <2>2, ProbeRests DEF IsDataset
<1>7. ASSUME NEW w, Working(p, w) PROVE ProbeHolds'
  BY Zenon, <1>2, <1>7 DEF Working, Loop, ClaimPending, Idle, ClaimReconcile, Return, Claim,
     WorkerGoesOn, target, probing
<1>8. ASSUME NEW u \in late, LateUpdate(u) PROVE ProbeHolds'
  BY Zenon, <1>1, <1>8, ProbeStays, ProbeKept DEF LateUpdate, probing
<1>9. ASSUME NEW k, Deploy(k) PROVE ProbeHolds'
  <2>1. /\ dataset' = [dataset EXCEPT !.kind = k] /\ UNCHANGED <<late, probe>>
        /\ witness' = [q \in Process |-> witness[q] \/ k = "transactional"]
    BY Zenon, <1>9 DEF Deploy
  <2>2. IsDataset(dataset') /\ dataset'.kind = k /\ dataset'.probe = dataset.probe
    BY <1>1, <2>1 DEF IsDataset
  <2>3. PerProcess(witness') /\ witness'[p] = (witness[p] \/ k = "transactional")
    BY Zenon, <1>0, <2>1 DEF PerProcess
  <2>4. ProbeTells(p)'
    BY Zenon, <1>0, <2>1, <2>2, <2>3 DEF ProbeHolds, ProbeTells
  <2> QED BY Zenon, <1>0, <1>1, <2>1, <2>2, <2>3, <2>4, ProbeMoves DEF ProbeHolds, IsDataset, PerProcess
<1>10. CASE UNCHANGED vars BY Zenon, <1>2, <1>10 DEF vars, target, probing
<1>11. ASSUME Next PROVE ProbeHolds'
  <2>1. \A q \in Process : q = p BY Zenon, <1>0
  <2>2. Probing(p) => ProbeHolds' BY Zenon, <1>0, <1>1, ProbingTells
  <2> QED BY <1>3, <1>4, <1>5, <1>6, <1>7, <1>8, <1>9, <1>11, <2>1, <2>2 DEF Next
<1> QED BY Zenon, <1>10, <1>11

(* probe_transactional: where one projector probes, a probe that passes ran,  *)
(* at least in part, against a dataset that rolls a failed update back,       *)
(* whatever fails, is executed late or is deployed meanwhile.                 *)
THEOREM ProbeAlwaysProves ==
    ASSUME ProbesAlone
    PROVE  Spec => []ProbeProves
<1>1. ASSUME Init PROVE ProbeHolds
  <2>1. IsDataset(dataset) BY <1>1, DatasetAssumption DEF Init, IsDataset
  <2>2. \A p \in Process : probe[p] = "none" BY Zenon, <1>1 DEF Init
  <2> QED BY Zenon, <1>1, <2>1, <2>2 DEF Init, ProbeHolds, PerProcess, ProbeTells
<1>2. ProbeHolds => ProbeProves
  BY Zenon DEF ProbeHolds, ProbeTells, ProbeProves
<1>3. ProbeHolds /\ [Next]_vars => ProbeHolds' BY Zenon, ProbeStep
<1> QED BY <1>1, <1>2, <1>3, PTL DEF Spec

-----------------------------------------------------------------------------
(* Types. *)

Mains == {"down", "refused", "exited", "probe", "bind", "read binding", "ask union", "rebuild",
          "listen", "running"}
Probes == {"none", "update", "ask", "cleanup", "passed", "failed", "sleep", "done"}
Works == {"none", "loop", "claim", "idle", "claim idle", "step", "sleep", "done"}
Rest == {"none", "done"}
Targets == {e.target : e \in Environment}

(* A process that is going to bind has the target id of an environment. *)
Types ==
    /\ IsDataset(dataset)
    /\ late \subseteq Update
    /\ main \in [Process -> Mains]
    /\ probe \in [Process -> Probes]
    /\ work \in [Process -> [Worker -> Works]]
    /\ paused \in [Process -> BOOLEAN] /\ open \in [Process -> BOOLEAN]
    /\ stop \in [Process -> BOOLEAN] /\ witness \in [Process -> BOOLEAN]
    /\ PerProcess(config)
    /\ \A p \in Process : main[p] # "running" => work[p] \in [Worker -> Rest]
    /\ \A p \in Process : main[p] \in {"probe", "bind"} => config[p].target \in Targets

(* EXCEPT. *)
LEMMA Excepted ==
    ASSUME NEW P, NEW S, NEW f \in [P -> S], NEW p \in P, NEW v \in S
    PROVE  /\ [f EXCEPT ![p] = v] \in [P -> S]
           /\ [f EXCEPT ![p] = v][p] = v
           /\ \A q \in P \ {p} : [f EXCEPT ![p] = v][q] = f[q]
  BY Zenon

(* What Answered, a failure, and the end of a process leave of the target. *)
LEMMA TargetTyped ==
    ASSUME IsDataset(dataset), late \subseteq Update
    PROVE  /\ \A u \in Update : Answered(u) \/ UpdateFails(u) => IsDataset(dataset)' /\ late' \subseteq Update
           /\ \A U \in SUBSET Update : Linger(U) => late' \subseteq Update
<1>1. ASSUME NEW U \in SUBSET Update, Linger(U) PROVE late' \subseteq Update
  BY Zenon, <1>1 DEF Linger
<1>2. ASSUME NEW u \in Update, Answered(u) \/ UpdateFails(u)
      PROVE  IsDataset(dataset)' /\ late' \subseteq Update
  <2>1. CASE Answered(u)
    <3>1. IsUpdate(u) BY <1>2 DEF Update, ProbeUpdate, CleanupUpdate, BindUpdate, IsUpdate
    <3> QED BY Zenon, <2>1, <3>1, BindLemma DEF Answered
  <2>2. CASE UpdateFails(u)
    <3>1. {u} \in SUBSET Update BY Zenon, <1>2
    <3>2. dataset' = dataset /\ Linger({u}) BY Zenon, <2>2 DEF UpdateFails, Trouble
    <3> QED BY Zenon, <1>1, <3>1, <3>2 DEF IsDataset
  <2> QED BY Zenon, <1>2, <2>1, <2>2
<1> QED BY Zenon, <1>1, <1>2

(* A step of process p that leaves its workers, or puts them all to rest, and *)
(* takes it nowhere new without a target id.                                  *)
LEMMA MainTyped ==
    ASSUME Types, NEW p \in Process, NEW place \in Mains, Goto(p, place), UNCHANGED <<work, config>>,
           place = "running" \/ main[p] # "running" \/ work[p] \in [Worker -> Rest],
           place \in {"probe", "bind"} => main[p] \in {"probe", "bind"}
    PROVE  /\ main' \in [Process -> Mains] /\ work' \in [Process -> [Worker -> Works]]
           /\ PerProcess(config')
           /\ \A q \in Process : main'[q] # "running" => work'[q] \in [Worker -> Rest]
           /\ \A q \in Process : main'[q] \in {"probe", "bind"} => config'[q].target \in Targets
<1>1. /\ main' \in [Process -> Mains] /\ main'[p] = place
      /\ \A q \in Process \ {p} : main'[q] = main[q]
  BY Zenon, Excepted DEF Goto, Types
<1> QED BY Zenon, <1>1 DEF Types, PerProcess

(* The start of a process. *)
LEMMA StartTyped ==
    ASSUME Types, NEW p \in Process, NEW e \in Environment, NEW line, Start(p, e, line)
    PROVE  Types'
<1>1. /\ paused' \in [Process -> BOOLEAN] /\ stop' \in [Process -> BOOLEAN]
      /\ open' \in [Process -> BOOLEAN] /\ IsDataset(dataset)' /\ late' \subseteq Update
  BY Zenon DEF Start, Types, target, IsDataset
<1>2. probe' \in [Process -> Probes] /\ witness' \in [Process -> BOOLEAN]
  <2>1. "update" \in Probes BY Zenon DEF Probes
  <2>2. [witness EXCEPT ![p] = Transactional] \in [Process -> BOOLEAN]
    BY SMT DEF Types, Transactional
  <2>3. \/ UNCHANGED <<probe, witness>>
        \/ /\ probe' = [probe EXCEPT ![p] = "update"]
           /\ witness' = [witness EXCEPT ![p] = Transactional]
    BY Zenon DEF Start
  <2>4. [probe EXCEPT ![p] = "update"] \in [Process -> Probes] BY Zenon, <2>1, Excepted DEF Types
  <2> QED BY Zenon, <2>2, <2>3, <2>4 DEF Types
<1>3. /\ work' \in [Process -> [Worker -> Works]] /\ work'[p] \in [Worker -> Rest]
      /\ \A q \in Process \ {p} : work'[q] = work[q]
  <2>1. "none" \in Works /\ "none" \in Rest BY Zenon DEF Works, Rest
  <2>2. [w \in Worker |-> "none"] \in [Worker -> Works] BY Zenon, <2>1
  <2> QED BY Zenon, <2>1, <2>2, Excepted DEF Start, Types
<1>4. PICK place \in Mains : main' = [main EXCEPT ![p] = place]
  BY Zenon DEF Start, Goto, Mains
<1>5. main' \in [Process -> Mains] /\ \A q \in Process \ {p} : main'[q] = main[q]
  BY Zenon, <1>4, Excepted DEF Types
<1>6. PerProcess(config') /\ \A q \in Process \ {p} : config'[q] = config[q]
  BY Zenon DEF Start, Types, PerProcess
<1>7. main'[p] \in {"probe", "bind"} => config'[p].target \in Targets
  <2>1. CASE Goto(p, "refused")
    BY Zenon, <2>1 DEF Goto, Types
  <2>2. CASE config' = [config EXCEPT ![p] =
                          [target |-> e.target, command |-> parse(line), environment |-> e]]
    <3>1. config'[p] = [target |-> e.target, command |-> parse(line), environment |-> e]
      BY Zenon, <2>2 DEF Types, PerProcess
    <3>2. config'[p].target = e.target BY <3>1
    <3> QED BY Zenon, <3>2 DEF Targets
  <2> QED BY Zenon, <2>1, <2>2 DEF Start
<1> QED BY Zenon, <1>1, <1>2, <1>3, <1>5, <1>6, <1>7 DEF Types

(* The rest of start-up. *)
LEMMA StartUpTyped == ASSUME Types, NEW p \in Process, StartUp(p) PROVE Types'
<1>1. /\ UNCHANGED <<stop, witness, paused, open, config>>
      /\ paused' \in [Process -> BOOLEAN] /\ stop' \in [Process -> BOOLEAN]
      /\ open' \in [Process -> BOOLEAN] /\ witness' \in [Process -> BOOLEAN]
  BY Zenon DEF StartUp, BindTarget, ReadBinding, AskUnion, Rebuild, Listen, Types, probing
<1>2. CASE /\ UNCHANGED <<work, probe>> /\ IsDataset(dataset)' /\ late' \subseteq Update
           /\ main[p] # "running" /\ \E place \in Mains \ {"probe", "bind"} : Goto(p, place)
  <2>1. PICK place \in Mains \ {"probe", "bind"} : Goto(p, place) BY Zenon, <1>2
  <2>2. place \in Mains BY Zenon
  <2>3. probe' \in [Process -> Probes] BY Zenon, <1>2 DEF Types
  <2> QED BY Zenon, <1>1, <1>2, <2>1, <2>2, <2>3, MainTyped DEF Types
<1>3. CASE BindTarget(p)
  <2> DEFINE u == BindUpdate(config[p].target)
  <2>1. u \in Update
    <3>1. PICK e \in Environment : config[p].target = e.target
      BY Zenon, <1>3 DEF BindTarget, Types, Targets
    <3> QED BY Zenon, <3>1 DEF Update
  <2>2. Answered(u) \/ UpdateFails(u) \/ Reads BY Zenon, <1>3 DEF BindTarget
  <2>3. IsDataset(dataset)' /\ late' \subseteq Update
    <3> HIDE DEF u
    <3> QED BY Zenon, <2>1, <2>2, TargetTyped DEF Types, Reads, IsDataset
  <2>4. main[p] # "running" /\ \E place \in Mains \ {"probe", "bind"} : Goto(p, place)
    BY Zenon, <1>3 DEF BindTarget, Mains
  <2> QED BY Zenon, <1>2, <1>3, <2>3, <2>4 DEF BindTarget, probing, working
<1>4. CASE ReadBinding(p) \/ AskUnion(p) \/ Rebuild(p) \/ (Listen(p) /\ UNCHANGED <<work, probe>>)
  <2>1. UNCHANGED <<dataset, late, work, probe>>
    BY Zenon, <1>4 DEF ReadBinding, AskUnion, Rebuild, Listen, Reads, QueryFails, Trouble, target,
       probing, working
  <2>2. main[p] # "running" BY Zenon, <1>4 DEF ReadBinding, AskUnion, Rebuild, Listen
  <2>3. Admitted(p) \in {"rebuild", "listen"} BY Zenon DEF Admitted
  <2>4. \E place \in {"ask union", "refused", "rebuild", "listen", "exited", "running"} : Goto(p, place)
    BY Zenon, <1>4, <2>3 DEF ReadBinding, AskUnion, Rebuild, Listen
  <2>5. \E place \in Mains \ {"probe", "bind"} : Goto(p, place) BY Zenon, <2>4 DEF Mains
  <2> QED BY Zenon, <1>2, <2>1, <2>2, <2>5 DEF Types, IsDataset
<1>5. CASE /\ Goto(p, "running") /\ UNCHANGED <<dataset, late>>
           /\ work' = [work EXCEPT ![p] = [w \in Worker |-> "loop"]]
           /\ probe' = [probe EXCEPT ![p] = "sleep"]
  <2>1. "running" \in Mains /\ "loop" \in Works /\ "sleep" \in Probes BY Zenon DEF Mains, Works, Probes
  <2>2. [w \in Worker |-> "loop"] \in [Worker -> Works] BY Zenon, <2>1
  <2>3. /\ work' \in [Process -> [Worker -> Works]]
        /\ \A q \in Process \ {p} : work'[q] = work[q]
    BY Zenon, <1>5, <2>2, Excepted DEF Types
  <2>4. probe' \in [Process -> Probes] BY Zenon, <1>5, <2>1, Excepted DEF Types
  <2>5. /\ main' \in [Process -> Mains] /\ main'[p] = "running"
        /\ \A q \in Process \ {p} : main'[q] = main[q]
    BY Zenon, <1>5, <2>1, Excepted DEF Types, Goto
  <2> QED BY Zenon, <1>1, <1>5, <2>3, <2>4, <2>5 DEF Types, PerProcess, IsDataset
<1>6. ASSUME Listen(p) PROVE Types'
  BY Zenon, <1>4, <1>5, <1>6 DEF Listen, target
<1> QED BY Zenon, <1>3, <1>4, <1>6 DEF StartUp

(* A step of a probe. *)
LEMMA ProbingTyped == ASSUME Types, NEW p \in Process, Probing(p) PROVE Types'
<1>1. UNCHANGED <<config, stop, work, open>>
  BY Zenon DEF Probing, ProbeRequest, ProbeAsk, ProbeCleanup, ProbeTask, Unprobed, process, working
<1>2. IsDataset(dataset)' /\ late' \subseteq Update
  <2>1. ProbeUpdate \in Update /\ CleanupUpdate \in Update BY Zenon DEF Update
  <2>2. \/ Answered(ProbeUpdate) \/ UpdateFails(ProbeUpdate)
        \/ Answered(CleanupUpdate) \/ UpdateFails(CleanupUpdate) \/ UNCHANGED <<dataset, late>>
    BY Zenon DEF Probing, ProbeRequest, ProbeAsk, ProbeCleanup, ProbeTask, Reads, QueryFails, Trouble,
       target
  <2> QED BY Zenon, <2>1, <2>2, TargetTyped DEF Types, IsDataset
<1>3. witness' \in [Process -> BOOLEAN]
  <2>1. [witness EXCEPT ![p] = Transactional] \in [Process -> BOOLEAN]
    BY SMT DEF Types, Transactional
  <2>2. UNCHANGED witness \/ witness' = [witness EXCEPT ![p] = Transactional]
    BY Zenon DEF Probing, ProbeRequest, ProbeAsk, ProbeCleanup, ProbeTask, Unprobed
  <2> QED BY Zenon, <2>1, <2>2 DEF Types
<1>4. \/ ProbeEnds(p, TRUE) \/ ProbeEnds(p, FALSE)
      \/ \E place \in Probes : probe' = [probe EXCEPT ![p] = place] /\ UNCHANGED <<main, paused>>
  BY Zenon DEF Probing, ProbeRequest, ProbeAsk, ProbeCleanup, ProbeTask, ProbeGoesOn, Probes, process
<1>5. CASE UNCHANGED <<main, paused>> /\ \E place \in Probes : probe' = [probe EXCEPT ![p] = place]
  <2>0. PICK place \in Probes : probe' = [probe EXCEPT ![p] = place] BY Zenon, <1>5
  <2>1. probe' \in [Process -> Probes] BY Zenon, <2>0, Excepted DEF Types
  <2> QED BY Zenon, <1>1, <1>2, <1>3, <1>5, <2>1 DEF Types, PerProcess
<1>6. ASSUME NEW passed \in BOOLEAN, ProbeEnds(p, passed) PROVE Types'
  <2>1. PICK place \in Probes : probe' = [probe EXCEPT ![p] = place]
    BY Zenon, <1>6 DEF ProbeEnds, Probes
  <2>2. probe' \in [Process -> Probes] BY Zenon, <2>1, Excepted DEF Types
  <2>3. CASE main[p] = "probe"
    <3>1. UNCHANGED paused /\ \E m \in Mains \ {"probe", "running"} : Goto(p, m)
      BY Zenon, <1>6, <2>3 DEF ProbeEnds, Mains
    <3>2. PICK m \in Mains : Goto(p, m) BY Zenon, <3>1
    <3> QED BY Zenon, <1>1, <1>2, <1>3, <2>2, <2>3, <3>1, <3>2, MainTyped DEF Types
  <2>4. CASE main[p] # "probe"
    <3>1. UNCHANGED main /\ paused' = [paused EXCEPT ![p] = ~passed] BY Zenon, <1>6, <2>4 DEF ProbeEnds
    <3>2. paused' \in [Process -> BOOLEAN] BY Zenon, <3>1, Excepted DEF Types
    <3> QED BY Zenon, <1>1, <1>2, <1>3, <2>2, <3>1, <3>2 DEF Types, PerProcess
  <2> QED BY Zenon, <2>3, <2>4
<1> QED BY Zenon, <1>4, <1>5, <1>6

(* A step of a worker. *)
LEMMA WorkingTyped == ASSUME Types, NEW p \in Process, NEW w \in Worker, Working(p, w) PROVE Types'
<1>1. UNCHANGED <<dataset, late, main, config, stop, probe, witness, paused, open>>
  BY Zenon DEF Working, Loop, ClaimPending, Idle, ClaimReconcile, Return, Claim, WorkerGoesOn, target,
     process, probing
<1>2. main[p] = "running"
  <2>1. work[p][w] \notin Rest
    BY Zenon DEF Working, Loop, ClaimPending, Idle, ClaimReconcile, Return, Rest
  <2> QED BY Zenon, <2>1 DEF Types
<1>3. PICK place \in Works : work' = [work EXCEPT ![p][w] = place]
  <2>1. ASSUME Loop(p, w) PROVE \E place \in Works : work' = [work EXCEPT ![p][w] = place]
    <3>1. (CASE stop[p] -> "done" [] paused[p] -> "idle" [] OTHER -> "claim") \in Works
      BY DEF Works
    <3> QED BY Zenon, <2>1, <3>1 DEF Loop, WorkerGoesOn
  <2> QED BY Zenon, <2>1 DEF Working, ClaimPending, Idle, ClaimReconcile, Return, Claim, WorkerGoesOn, Works
<1>4. /\ work' \in [Process -> [Worker -> Works]]
      /\ \A q \in Process \ {p} : work'[q] = work[q]
  BY SMT, <1>3 DEF Types
<1> QED BY Zenon, <1>1, <1>2, <1>4 DEF Types, PerProcess, IsDataset

(* Signals, ends and connections of a process. *)
LEMMA ProcessTyped ==
    ASSUME Types, NEW p \in Process, Signal(p) \/ Exit(p) \/ Crash(p) \/ Connection(p)
    PROVE  Types'
<1>1. ASSUME Signal(p) \/ Connection(p) PROVE Types'
  <2>1. UNCHANGED <<dataset, late, main, config, work, probe, witness, paused>>
    BY Zenon, <1>1 DEF Signal, Connection, target, process, probing, working
  <2>2. stop' \in [Process -> BOOLEAN] /\ open' \in [Process -> BOOLEAN]
    <3>1. stop \in [Process -> BOOLEAN] /\ open \in [Process -> BOOLEAN] BY Zenon DEF Types
    <3>2. CASE Signal(p) BY Zenon, <3>1, <3>2 DEF Signal
    <3>3. CASE Connection(p)
      <4>1. stop' = stop /\ open' = [open EXCEPT ![p] = ~open[p]] BY Zenon, <3>3 DEF Connection, process
      <4> QED BY SMT, <3>1, <4>1
    <3> QED BY Zenon, <1>1, <3>2, <3>3
  <2> QED BY Zenon, <2>1, <2>2 DEF Types, PerProcess, IsDataset
<1>2. ASSUME Exit(p) PROVE Types'
  <2>1. UNCHANGED <<dataset, late, config, work, stop, probe, witness, paused, open>>
    BY Zenon, <1>2 DEF Exit, target, probing, working
  <2>2. work[p] \in [Worker -> Rest] BY Zenon, <1>2 DEF Exit, WorkDone, Types, Rest
  <2>3. "exited" \in Mains /\ Goto(p, "exited") BY Zenon, <1>2 DEF Exit, Mains
  <2> QED BY Zenon, <2>1, <2>2, <2>3, MainTyped DEF Types, IsDataset
<1>3. ASSUME Crash(p) PROVE Types'
  <2>1. UNCHANGED <<dataset, config, stop, witness, paused>> BY Zenon, <1>3 DEF Crash
  <2>2. open' \in [Process -> BOOLEAN] BY Zenon, <1>3 DEF Crash, Types
  <2>3. late' \subseteq Update
    <3>1. Sending(p) \subseteq Update
      <4>1. ASSUME main[p] = "bind" PROVE BindUpdate(config[p].target) \in Update
        <5>1. PICK e \in Environment : config[p].target = e.target
          BY Zenon, <4>1 DEF Types, Targets
        <5> QED BY Zenon, <5>1 DEF Update
      <4>2. ProbeUpdate \in Update /\ CleanupUpdate \in Update BY Zenon DEF Update
      <4> QED BY <4>1, <4>2 DEF Sending
    <3>2. Linger(Sending(p)) BY Zenon, <1>3 DEF Crash
    <3> QED BY Zenon, <3>1, <3>2, TargetTyped DEF Types
  <2>4. "none" \in Works /\ "none" \in Rest /\ "none" \in Probes /\ "down" \in Mains
    BY Zenon DEF Works, Rest, Probes, Mains
  <2>5. [w \in Worker |-> "none"] \in [Worker -> Works] BY Zenon, <2>4
  <2>6. /\ work' \in [Process -> [Worker -> Works]] /\ work'[p] = [w \in Worker |-> "none"]
        /\ \A q \in Process \ {p} : work'[q] = work[q]
    BY Zenon, <1>3, <2>5, Excepted DEF Crash, Types
  <2>7. probe' \in [Process -> Probes] BY Zenon, <1>3, <2>4, Excepted DEF Crash, Types
  <2>8. /\ main' \in [Process -> Mains] /\ main'[p] = "down"
        /\ \A q \in Process \ {p} : main'[q] = main[q]
    BY Zenon, <1>3, <2>4, Excepted DEF Crash, Goto, Types
  <2>9. work'[p] \in [Worker -> Rest] BY Zenon, <2>4, <2>6
  <2> QED BY Zenon, <2>1, <2>2, <2>3, <2>6, <2>7, <2>8, <2>9 DEF Types, PerProcess, IsDataset
<1> QED BY Zenon, <1>1, <1>2, <1>3

(* The target and the operator. *)
LEMMA TargetStepTyped ==
    ASSUME Types, (\E u \in late : LateUpdate(u)) \/ (\E k \in Kind : Deploy(k))
    PROVE  Types'
<1>1. ASSUME NEW u \in late, LateUpdate(u) PROVE Types'
  <2>1. UNCHANGED <<main, config, work, stop, probe, witness, paused, open>> /\ late' \subseteq Update
    BY Zenon, <1>1 DEF LateUpdate, process, probing, working, Types
  <2>2. IsUpdate(u)
    BY <1>1 DEF Types, Update, ProbeUpdate, CleanupUpdate, BindUpdate, IsUpdate
  <2>3. IsDataset(dataset)' BY Zenon, <1>1, <2>2, BindLemma DEF LateUpdate, Types
  <2> QED BY Zenon, <2>1, <2>3 DEF Types, PerProcess
<1>2. ASSUME NEW k \in Kind, Deploy(k) PROVE Types'
  <2>1. UNCHANGED <<main, config, work, stop, probe, paused, open, late>>
    BY Zenon, <1>2 DEF Deploy, process, working
  <2>2. IsDataset(dataset)' BY <1>2 DEF Deploy, Types, IsDataset
  <2>3. witness' \in [Process -> BOOLEAN] BY SMT, <1>2 DEF Deploy, Types
  <2> QED BY Zenon, <2>1, <2>2, <2>3 DEF Types, PerProcess
<1> QED BY Zenon, <1>1, <1>2

(* Every variable of a projector process keeps its type, and no worker task   *)
(* outlives real_main or starts before the listener is bound.                 *)
THEOREM TypesAlways == Spec => []TypeOK
<1>1. ASSUME Init PROVE Types
  <2>1. IsDataset(dataset) BY <1>1, DatasetAssumption DEF Init, IsDataset
  <2>2. "none" \in Works /\ "none" \in Rest /\ "none" \in Probes /\ "down" \in Mains
    BY Zenon DEF Works, Rest, Probes, Mains
  <2> QED BY Zenon, <1>1, <2>1, <2>2 DEF Init, Types, PerProcess
<1>2. Types /\ [Next]_vars => Types'
  <2> SUFFICES ASSUME Types, [Next]_vars PROVE Types' BY Zenon
  <2>1. CASE UNCHANGED vars
    BY Zenon, <2>1 DEF vars, target, process, probing, working, Types, IsDataset, PerProcess
  <2>2. ASSUME Next PROVE Types'
    BY Zenon, <2>2, StartTyped, StartUpTyped, ProbingTyped, WorkingTyped, ProcessTyped,
       TargetStepTyped DEF Next
  <2> QED BY Zenon, <2>1, <2>2
<1>3. Types => TypeOK
  <2> SUFFICES ASSUME Types PROVE TypeOK BY Zenon
  <2>1. DOMAIN dataset = {"kind", "union", "bound", "probe"} BY DEF Types, IsDataset
  <2> QED BY Zenon, <2>1 DEF Types, TypeOK, Mains, Probes, Works, Rest
<1> QED BY <1>1, <1>2, <1>3, PTL DEF Spec

-----------------------------------------------------------------------------
(* The server process. *)

USE Zenon

CONSTANTS Value, Client, DrainTimeout
VARIABLES env, proc, server, handlers, clients, signalled, draining, timer

Server == INSTANCE ServerProcess WITH open <- clients

(* A process that was started serves what its environment gave, and the     *)
(* environment stays as it was then.                                        *)
ServesItsEnvironment ==
  /\ DOMAIN env = Server!Setting
  /\ \A s \in Server!Setting : env[s] \in Value[s] \cup {Server!NotSet}
  /\ proc \in {"down", "serving", "exited"}
  /\ proc # "down" => server = Server!Outcome(env) /\ server # Server!NoServer

(* What start-up makes of an environment: nothing, a file store on the      *)
(* loopback interface, or a database behind an authenticator.               *)
LEMMA Outcomes ==
    ASSUME NEW e
    PROVE  LET o == Server!Outcome(e)
           IN  \/ o = Server!NoServer
               \/ Server!select_backend(e) = "filesystem" /\ o = Server!Filesystem(e)
               \/ Server!select_backend(e) = "postgres" /\ o = Server!SharedPostgres(e)
  <1>1. CASE Server!select_backend(e) = "filesystem"
    BY <1>1 DEF Server!Outcome
  <1>2. CASE Server!select_backend(e) = "postgres"
    BY <1>2 DEF Server!Outcome
  <1>3. CASE Server!select_backend(e) \notin {"filesystem", "postgres"}
    BY <1>3 DEF Server!Outcome
  <1> QED BY <1>1, <1>2, <1>3

(* A file store is never exposed and accepts nothing.                       *)
LEMMA FileServer ==
    ASSUME NEW e, NEW o, o = Server!Filesystem(e), o # Server!NoServer
    PROVE  o.wide = FALSE /\ o.auth = "none" /\ o.trust = {} /\ o.acceptance = "read only"
  BY DEF Server!Filesystem

(* A database is served behind the checks.                                  *)
LEMMA DatabaseServer ==
    ASSUME NEW e, NEW o, o = Server!SharedPostgres(e), o # Server!NoServer
    PROVE  /\ o.auth = Server!authenticator_from(e) /\ o.auth \in {"oidc", "dev-hs256"}
           /\ o.wide = ~Server!is_loopback_bind(e) /\ Server!check_binding(e)
           /\ o.acceptance = Server!acceptance_policy(e) /\ Server!check_acceptance(e)
           /\ Server!acceptance_policy(e) # Server!Refused
           /\ o.trust = Server!validation_service(e).trust /\ Server!validation_service(e).ok
  <1>1. /\ Server!authenticator_from(e) # Server!Refused /\ Server!check_binding(e)
        /\ Server!acceptance_policy(e) # Server!Refused /\ Server!check_acceptance(e)
        /\ Server!validation_service(e).ok
    BY DEF Server!SharedPostgres
  <1> DEFINE auth == Server!authenticator_from(e)
             wide == ~Server!is_loopback_bind(e)
             policy == Server!acceptance_policy(e)
             service == Server!validation_service(e)
  <1>2. o = [backend |-> "postgres", auth |-> auth, wide |-> wide, acceptance |-> policy,
             trust |-> service.trust, callable |-> service.callable]
    BY <1>1 DEF Server!SharedPostgres
  <1>3. auth \in {"oidc", "dev-hs256"}
    BY <1>1 DEF Server!authenticator_from
  <1>4. o.auth = auth /\ o.wide = wide /\ o.acceptance = policy /\ o.trust = service.trust
    <2> HIDE DEF auth, wide, policy, service
    <2> QED BY SMT, <1>2
  <1> QED BY <1>1, <1>3, <1>4

(* Whom a database server trusts: the service it names, if any.             *)
LEMMA TrustedService ==
    ASSUME NEW e, Server!validation_service(e).ok
    PROVE  /\ Server!validation_service(e).trust =
                IF Server!NonEmpty(e["validator id"]) THEN {e["validator id"]} ELSE {}
           /\ Server!ProductionAuth(e) => Server!NonEmpty(e["validator id"])
  <1> DEFINE found == Server!validator_settings(e)
             named == IF Server!NonEmpty(e["validator id"]) THEN {e["validator id"]} ELSE {}
             refused == \/ Server!ProductionAuth(e) /\ e["token file"] = ""
                        \/ e["validator id"] = "not a token"
                        \/ ~Server!NonEmpty(e["validator id"])
                           /\ (Server!NonEmpty(e["validator url"]) \/ Server!ProductionAuth(e))
                        \/ Server!NonEmpty(e["token file"]) /\ ~Server!NonEmpty(e["validator url"])
  <1>1. Server!RefusedSettings.ok = FALSE
    BY DEF Server!RefusedSettings
  <1>2. found.ok
    BY <1>1 DEF Server!validation_service
  <1>3. ~refused
    <2>1. refused => found = Server!RefusedSettings
      BY DEF Server!validator_settings
    <2> QED BY <1>1, <1>2, <2>1
  <1>4. found = [ok |-> TRUE, trust |-> named, callable |-> Server!NonEmpty(e["validator url"])]
    BY <1>3 DEF Server!validator_settings
  <1>5. found.trust = named
    <2> HIDE DEF found, named
    <2> QED BY <1>4
  <1>6. Server!validation_service(e).trust = found.trust
    <2>1. \/ Server!validation_service(e) = found
          \/ Server!validation_service(e) = [found EXCEPT !.callable = FALSE]
      BY <1>1, <1>2 DEF Server!validation_service
    <2>2. [found EXCEPT !.callable = FALSE].trust = found.trust
      <3> HIDE DEF found, named
      <3> QED BY <1>4
    <2> QED BY <2>1, <2>2
  <1> QED BY <1>3, <1>5, <1>6

(* It holds initially. *)
LEMMA ServerInitially == Server!Init => ServesItsEnvironment
  BY DEF Server!Init, ServesItsEnvironment

(* An environment is edited only while the process is down. *)
LEMMA ServerInductive == ServesItsEnvironment /\ [Server!Next]_(Server!vars) => ServesItsEnvironment'
  <1> SUFFICES ASSUME ServesItsEnvironment, [Server!Next]_(Server!vars) PROVE ServesItsEnvironment'
    OBVIOUS
  <1>1. ASSUME NEW s \in Server!Setting, Server!Set(s) PROVE ServesItsEnvironment'
    <2>1. proc = "down" /\ proc' = proc
      BY <1>1 DEF Server!Set
    <2>2. PICK v \in Value[s] : env' = [env EXCEPT ![s] = v]
      BY <1>1 DEF Server!Set
    <2>3. DOMAIN env' = Server!Setting /\ env'[s] = v
          /\ \A x \in Server!Setting : x # s => env'[x] = env[x]
      BY <2>2 DEF ServesItsEnvironment
    <2>4. \A x \in Server!Setting : env'[x] \in Value[x] \cup {Server!NotSet}
      BY <2>2, <2>3 DEF ServesItsEnvironment
    <2> QED BY <2>1, <2>3, <2>4 DEF ServesItsEnvironment
  <1>2. ASSUME NEW s \in Server!Setting, Server!Remove(s) PROVE ServesItsEnvironment'
    <2>1. proc = "down" /\ proc' = proc
      BY <1>2 DEF Server!Remove
    <2>2. env' = [env EXCEPT ![s] = Server!NotSet]
      BY <1>2 DEF Server!Remove
    <2>3. DOMAIN env' = Server!Setting /\ env'[s] = Server!NotSet
          /\ \A x \in Server!Setting : x # s => env'[x] = env[x]
      BY <2>2 DEF ServesItsEnvironment
    <2>4. \A x \in Server!Setting : env'[x] \in Value[x] \cup {Server!NotSet}
      BY <2>3 DEF ServesItsEnvironment
    <2> QED BY <2>1, <2>3, <2>4 DEF ServesItsEnvironment
  <1>3. CASE Server!Start
    <2>1. env' = env /\ proc' = "serving" /\ server' = Server!Outcome(env) /\ server' # Server!NoServer
      BY <1>3 DEF Server!Start
    <2> QED BY <2>1 DEF ServesItsEnvironment
  <1>4. CASE UNCHANGED <<env, server>> /\ (proc' = proc \/ (proc = "serving" /\ proc' = "exited"))
    BY <1>4 DEF ServesItsEnvironment
  <1>5. CASE UNCHANGED Server!vars
    BY <1>4, <1>5 DEF Server!vars
  <1> QED BY <1>1, <1>2, <1>3, <1>4, <1>5 DEF Server!Next, Server!Accept, Server!Close, Server!Signal,
             Server!Drain, Server!Deadline, Server!Exit

(* check_binding and check_filesystem_binding: a process that serves beyond *)
(* the loopback interface authenticates in production grade, or was told    *)
(* otherwise by the operator's switch.                                      *)
THEOREM ExposureAlwaysAuthenticated == Server!Spec => []Server!ExposureIsAuthenticated
  <1>1. ServesItsEnvironment => Server!ExposureIsAuthenticated
    <2> SUFFICES ASSUME ServesItsEnvironment, proc = "serving", server.wide
                 PROVE  server.auth = "oidc" \/ (server.auth = "dev-hs256" /\ env["insecure"] = "switch")
      BY DEF Server!ExposureIsAuthenticated
    <2>1. server = Server!Outcome(env) /\ server # Server!NoServer
      BY DEF ServesItsEnvironment
    <2>2. server = Server!SharedPostgres(env)
      BY <2>1, Outcomes, FileServer
    <2>3. /\ server.auth = Server!authenticator_from(env) /\ server.auth \in {"oidc", "dev-hs256"}
          /\ ~Server!is_loopback_bind(env) /\ Server!check_binding(env)
      BY <2>1, <2>2, DatabaseServer
    <2> QED BY <2>3 DEF Server!check_binding, Server!ProductionAuth
  <1> QED BY <1>1, ServerInitially, ServerInductive, PTL DEF Server!Spec

(* main's select!: whoever is still connected when the process exits had    *)
(* the whole of DRAIN_TIMEOUT to finish.                                    *)
THEOREM OpenConnectionsAlwaysDrain == Server!Spec => []Server!OpenConnectionsDrain
  <1>1. Server!Init => Server!OpenConnectionsDrain
    BY DEF Server!Init, Server!OpenConnectionsDrain
  <1>2. Server!OpenConnectionsDrain /\ [Server!Next]_(Server!vars) => Server!OpenConnectionsDrain'
    BY DEF Server!OpenConnectionsDrain, Server!Next, Server!vars, Server!Set, Server!Remove,
           Server!Start, Server!Accept, Server!Close, Server!Signal, Server!Drain, Server!Deadline,
           Server!Exit, Server!lifecycle
  <1> QED BY <1>1, <1>2, PTL DEF Server!Spec

(* The settings, the connections and the clock of a draining server. *)
ServerTypes ==
  /\ env \in Server!Settings
  /\ proc = "down" => server = Server!NoServer
  /\ clients \subseteq Client
  /\ draining => signalled
  /\ timer \in 0 .. DrainTimeout /\ (timer > 0 => signalled)

(* Whichever setting is edited, the others stay what they may be. *)
LEMMA EditedSettings ==
    ASSUME env \in Server!Settings, NEW s \in Server!Setting, NEW v \in Value[s] \cup {Server!NotSet},
           env' = [env EXCEPT ![s] = v]
    PROVE  env' \in Server!Settings
  <1> DEFINE S == Server!Setting
             u == Server!NotSet
             U == (UNION {Value[x] : x \in S}) \cup {u}
  <1>1. Server!Settings = {e \in [S -> U] : \A x \in S : e[x] \in Value[x] \cup {u}}
    BY DEF Server!Settings
  <1>0. v \in Value[s] \cup {u} /\ s \in S
    OBVIOUS
  <1> HIDE DEF S, u
  <1>2. v \in U /\ v \in Value[s] \cup {u} /\ s \in S
    <2>1. Value[s] \in {Value[x] : x \in S}
      BY <1>0
    <2>2. v \in Value[s] => v \in UNION {Value[x] : x \in S}
      BY <2>1
    <2>3. v \in Value[s] \/ v = u
      BY <1>0
    <2> QED BY <1>0, <2>2, <2>3
  <1> HIDE DEF U
  <1>3. env \in [S -> U] /\ \A x \in S : env[x] \in Value[x] \cup {u}
    BY <1>1
  <1>4. env' \in [S -> U]
    BY SMT, <1>2, <1>3
  <1>5. ASSUME NEW x \in S PROVE env'[x] \in Value[x] \cup {u}
    BY SMT, <1>2, <1>3, <1>5
  <1> QED BY <1>1, <1>4, <1>5

(* main, with_graceful_shutdown and the deadline beside it: whatever the    *)
(* operator sets and whoever connects, a process that is down serves        *)
(* nothing, one that drains was told to stop, and the deadline is kept.     *)
THEOREM ServerAlwaysTyped ==
    ASSUME DrainTimeout \in Nat
    PROVE  Server!Spec => []Server!TypeOK
  <1>1. Server!Init => ServerTypes
    <2> SUFFICES ASSUME Server!Init PROVE ServerTypes
      OBVIOUS
    <2>1. env \in Server!Settings
      <3> DEFINE S == Server!Setting
                 u == Server!NotSet
                 U == (UNION {Value[x] : x \in S}) \cup {u}
      <3>1. Server!Settings = {e \in [S -> U] : \A x \in S : e[x] \in Value[x] \cup {u}}
        BY DEF Server!Settings
      <3>2. env = [x \in S |-> u]
        BY DEF Server!Init
      <3> HIDE DEF S, u
      <3>3. u \in U
        OBVIOUS
      <3> HIDE DEF U
      <3>4. env \in [S -> U] /\ \A x \in S : env[x] \in Value[x] \cup {u}
        BY SMT, <3>2, <3>3
      <3> QED BY <3>1, <3>4
    <2>2. timer \in 0 .. DrainTimeout /\ ~(timer > 0)
      BY SMT DEF Server!Init
    <2> QED BY <2>1, <2>2 DEF Server!Init, ServerTypes
  <1>2. ServerTypes /\ [Server!Next]_(Server!vars) => ServerTypes'
    <2> SUFFICES ASSUME ServerTypes, [Server!Next]_(Server!vars) PROVE ServerTypes'
      OBVIOUS
    <2>1. ASSUME NEW s \in Server!Setting, Server!Set(s) \/ Server!Remove(s) PROVE ServerTypes'
      <3>1. PICK v \in Value[s] \cup {Server!NotSet} : env' = [env EXCEPT ![s] = v]
        BY <2>1 DEF Server!Set, Server!Remove
      <3>2. env' \in Server!Settings
        BY <3>1, EditedSettings DEF ServerTypes
      <3>3. UNCHANGED <<proc, server, clients, draining, signalled, timer>>
        BY <2>1 DEF Server!Set, Server!Remove, Server!lifecycle
      <3> QED BY <3>2, <3>3 DEF ServerTypes
    <2>2. CASE Server!Start
      <3>1. /\ UNCHANGED <<env, clients, draining, signalled, timer>> /\ proc' = "serving"
        BY <2>2 DEF Server!Start
      <3> QED BY <3>1 DEF ServerTypes
    <2>3. ASSUME NEW c \in Client, Server!Accept(c) \/ Server!Close(c) PROVE ServerTypes'
      <3>1. UNCHANGED <<env, proc, server, draining, signalled, timer>> /\ clients' \subseteq clients \cup {c}
        BY <2>3 DEF Server!Accept, Server!Close
      <3>2. clients' \subseteq Client
        BY <3>1 DEF ServerTypes
      <3> QED BY <3>1, <3>2 DEF ServerTypes
    <2>4. CASE Server!Drain \/ \E s \in {"SIGINT", "SIGTERM"} : Server!Signal(s)
      <3>1. UNCHANGED <<env, proc, server, clients, timer>>
        BY <2>4 DEF Server!Drain, Server!Signal
      <3>2. signalled'
        <4>1. CASE Server!Drain
          <5>1. signalled /\ signalled' = signalled
            BY <4>1 DEF Server!Drain
          <5> QED BY <5>1
        <4>2. CASE \E s \in {"SIGINT", "SIGTERM"} : Server!Signal(s)
          BY <4>2 DEF Server!Signal
        <4> QED BY <2>4, <4>1, <4>2
      <3> QED BY <3>1, <3>2 DEF ServerTypes
    <2>5. CASE Server!Deadline
      <3>1. /\ UNCHANGED <<env, proc, server, clients, draining, signalled>> /\ signalled
            /\ timer' = timer + 1 /\ timer' <= DrainTimeout
        BY <2>5 DEF Server!Deadline
      <3>2. timer' \in 0 .. DrainTimeout
        BY SMT, <3>1 DEF ServerTypes
      <3> QED BY <3>1, <3>2 DEF ServerTypes
    <2>6. CASE Server!Exit
      <3>1. UNCHANGED <<env, server, clients, draining, signalled, timer>> /\ proc' = "exited"
        BY <2>6 DEF Server!Exit, Server!lifecycle
      <3> QED BY <3>1 DEF ServerTypes
    <2>7. CASE UNCHANGED Server!vars
      <3>1. UNCHANGED <<env, proc, server, clients, draining, signalled, timer>>
        BY <2>7 DEF Server!vars
      <3> QED BY <3>1 DEF ServerTypes
    <2> QED BY <2>1, <2>2, <2>3, <2>4, <2>5, <2>6, <2>7 DEF Server!Next
  <1>3. ServesItsEnvironment /\ ServerTypes => Server!TypeOK
    <2> SUFFICES ASSUME ServesItsEnvironment, ServerTypes PROVE Server!TypeOK
      OBVIOUS
    <2>1. (proc = "down") = (server = Server!NoServer)
      <3>1. proc = "down" <=> server = Server!NoServer
        BY DEF ServesItsEnvironment, ServerTypes
      <3> QED BY SMT, <3>1
    <2>2. proc \in {"down", "serving", "exited"}
      BY DEF ServesItsEnvironment
    <2> QED BY <2>1, <2>2 DEF ServerTypes, Server!TypeOK
  <1> QED BY <1>1, <1>2, <1>3, ServerInitially, ServerInductive, PTL DEF Server!Spec

(* The model's mark for a change nobody validated is not the name of a      *)
(* validation service.                                                      *)
ServicesAreNamed == "unvalidated" \notin Value["validator id"]

(* Whatever a file store accepts, it trusts nobody; a database server       *)
(* trusts the service it names and, with the switch, what nobody validated. *)
LEMMA WhomItTrusts ==
    ASSUME NEW e, NEW o, o # Server!NoServer
    PROVE  /\ o = Server!Filesystem(e) => Server!Trusts(o) = {}
           /\ o = Server!SharedPostgres(e) =>
                Server!Trusts(o) =
                  (IF Server!NonEmpty(e["validator id"]) THEN {e["validator id"]} ELSE {})
                    \cup (IF e["unvalidated"] = "switch" THEN {"unvalidated"} ELSE {})
  <1>1. ASSUME o = Server!Filesystem(e) PROVE Server!Trusts(o) = {}
    BY <1>1, FileServer DEF Server!Trusts
  <1>2. ASSUME o = Server!SharedPostgres(e)
        PROVE  Server!Trusts(o) =
                  (IF Server!NonEmpty(e["validator id"]) THEN {e["validator id"]} ELSE {})
                    \cup (IF e["unvalidated"] = "switch" THEN {"unvalidated"} ELSE {})
    <2>1. /\ o.acceptance = Server!acceptance_policy(e) /\ o.trust = Server!validation_service(e).trust
          /\ Server!validation_service(e).ok
      BY <1>2, DatabaseServer
    <2>2. Server!acceptance_policy(e) = "allow unvalidated" <=> e["unvalidated"] = "switch"
      <3>1. CASE e["unvalidated"] = "switch"
        BY <3>1 DEF Server!acceptance_policy, Server!NotSet
      <3>2. CASE e["unvalidated"] \in {Server!NotSet, ""}
        BY <3>2 DEF Server!acceptance_policy, Server!NotSet
      <3>3. CASE e["unvalidated"] \notin {Server!NotSet, "", "switch"}
        BY <3>3 DEF Server!acceptance_policy, Server!Refused
      <3> QED BY <3>1, <3>2, <3>3
    <2>3. o.trust = IF Server!NonEmpty(e["validator id"]) THEN {e["validator id"]} ELSE {}
      BY <2>1, TrustedService
    <2> QED BY <2>1, <2>2, <2>3 DEF Server!Trusts
  <1> QED BY <1>1, <1>2

(* Which backend a setting that is there selects.                           *)
LEMMA Backends ==
    ASSUME NEW e
    PROVE  /\ Server!select_backend(e) = "postgres" => e["database"] # Server!NotSet
           /\ Server!select_backend(e) = "filesystem" => e["database"] = Server!NotSet
  <1>1. CASE e["database"] = ""
    BY <1>1 DEF Server!select_backend, Server!NotSet, Server!NonEmpty, Server!Refused
  <1>2. CASE e["database"] = Server!NotSet /\ e["backend"] \in {Server!NotSet, "filesystem"}
    BY <1>2 DEF Server!select_backend, Server!NotSet, Server!NonEmpty
  <1>3. CASE Server!NonEmpty(e["database"]) /\ e["backend"] \in {Server!NotSet, "postgres"}
    BY <1>3 DEF Server!select_backend, Server!NotSet, Server!NonEmpty
  <1>4. CASE /\ e["database"] # "" 
             /\ ~(e["database"] = Server!NotSet /\ e["backend"] \in {Server!NotSet, "filesystem"})
             /\ ~(Server!NonEmpty(e["database"]) /\ e["backend"] \in {Server!NotSet, "postgres"})
    BY <1>4 DEF Server!select_backend, Server!Refused
  <1> QED BY <1>1, <1>2, <1>3, <1>4

(* A setting is removed.                                                    *)
LEMMA RemovalNarrows ==
    ASSUME ServesItsEnvironment, NEW s \in Server!Setting, Server!Remove(s),
           Server!Outcome(env) # Server!NoServer, Server!Outcome(env') # Server!NoServer
    PROVE  /\ Server!Trusts(Server!Outcome(env')) \subseteq Server!Trusts(Server!Outcome(env))
           /\ Server!Outcome(env').wide => Server!Outcome(env).wide
  <1> DEFINE e == env
             f == env'
             o == Server!Outcome(e)
             n == Server!Outcome(f)
  <1>1. f[s] = Server!NotSet /\ \A x \in Server!Setting : x # s => f[x] = e[x]
    BY DEF Server!Remove, ServesItsEnvironment
  <1>2. {"addr", "database", "validator id", "unvalidated"} \subseteq Server!Setting
    BY DEF Server!Setting
  <1>3. \A x \in {"addr", "database", "validator id", "unvalidated"} : f[x] # Server!NotSet => f[x] = e[x]
    BY <1>1, <1>2
  <1> HIDE DEF e, f
  <1>4. o # Server!NoServer /\ n # Server!NoServer
    BY DEF e, f
  <1>5. CASE n = Server!Filesystem(f)
    <2>1. Server!Trusts(n) = {} /\ ~n.wide
      BY <1>4, <1>5, WhomItTrusts, FileServer
    <2> QED BY <2>1 DEF e, f
  <1>6. CASE Server!select_backend(f) = "postgres" /\ n = Server!SharedPostgres(f)
    <2>1. f["database"] # Server!NotSet
      BY <1>6, Backends
    <2>2. Server!select_backend(e) # "filesystem"
      BY <1>3, <2>1, Backends
    <2>3. o = Server!SharedPostgres(e)
      BY <1>4, <2>2, Outcomes
    <2>4. n.wide = ~Server!is_loopback_bind(f) /\ o.wide = ~Server!is_loopback_bind(e)
      BY <1>4, <1>6, <2>3, DatabaseServer
    <2>5. n.wide => o.wide
      BY <1>3, <2>4 DEF Server!is_loopback_bind
    <2>6. /\ Server!NonEmpty(f["validator id"]) => f["validator id"] = e["validator id"]
          /\ f["unvalidated"] = "switch" => e["unvalidated"] = "switch"
      BY <1>3 DEF Server!NonEmpty, Server!NotSet
    <2>7. /\ Server!Trusts(n) =
                (IF Server!NonEmpty(f["validator id"]) THEN {f["validator id"]} ELSE {})
                  \cup (IF f["unvalidated"] = "switch" THEN {"unvalidated"} ELSE {})
          /\ Server!Trusts(o) =
                (IF Server!NonEmpty(e["validator id"]) THEN {e["validator id"]} ELSE {})
                  \cup (IF e["unvalidated"] = "switch" THEN {"unvalidated"} ELSE {})
      BY <1>4, <1>6, <2>3, WhomItTrusts
    <2>8. Server!Trusts(n) \subseteq Server!Trusts(o)
      BY <2>6, <2>7
    <2> QED BY <2>5, <2>8 DEF e, f
  <1> QED BY <1>4, <1>5, <1>6, Outcomes

(* A production server is started.                                          *)
LEMMA ProductionNames ==
    ASSUME ServicesAreNamed, ServesItsEnvironment, Server!Start, server'.auth = "oidc"
    PROVE  Server!Cardinality(Server!Trusts(server')) = 1 /\ "unvalidated" \notin Server!Trusts(server')
  <1> DEFINE o == server'
             id == env["validator id"]
  <1>1. o = Server!Outcome(env) /\ o # Server!NoServer
    BY DEF Server!Start
  <1> HIDE DEF o
  <1>2. o.auth = "oidc"
    BY DEF o
  <1>3. o = Server!SharedPostgres(env)
    BY <1>1, <1>2, Outcomes, FileServer
  <1>4. /\ Server!ProductionAuth(env) /\ Server!check_acceptance(env)
        /\ Server!validation_service(env).ok /\ o.acceptance = Server!acceptance_policy(env)
        /\ o.trust = Server!validation_service(env).trust
    BY <1>1, <1>2, <1>3, DatabaseServer DEF Server!ProductionAuth
  <1>5. o.acceptance # "allow unvalidated"
    BY <1>4 DEF Server!check_acceptance
  <1>6. o.trust = {id} /\ Server!NonEmpty(id)
    BY <1>4, TrustedService
  <1>7. Server!Trusts(o) = {id}
    BY <1>5, <1>6 DEF Server!Trusts
  <1>8. id # "unvalidated"
    <2>1. "validator id" \in Server!Setting
      BY DEF Server!Setting
    <2>2. id \in Value["validator id"]
      BY <1>6, <2>1 DEF ServesItsEnvironment, Server!NonEmpty
    <2> QED BY <2>2 DEF ServicesAreNamed
  <1>9. Server!Cardinality({id}) = 1
    <2>1. Cardinality({id}) = 1
      BY FS_Singleton
    <2>2. Server!Cardinality({id}) = Cardinality({id})
      BY DEF Cardinality, Server!Cardinality
    <2> QED BY <2>1, <2>2
  <1> QED BY <1>7, <1>8, <1>9 DEF o

(* "a missing or partial configuration never broadens which validations     *)
(* acceptance trusts": removing any setting leaves an environment that is   *)
(* refused, or trusts no more and is reachable from nowhere new; and a      *)
(* production server trusts exactly the one service it names.               *)
THEOREM MissingNeverBroadensAnything ==
    ASSUME ServicesAreNamed
    PROVE  Server!Spec => [][Server!MissingNeverBroadens]_(Server!vars)
  <1>1. ServesItsEnvironment /\ [Server!Next]_(Server!vars)
          => [Server!MissingNeverBroadens]_(Server!vars)
    <2> SUFFICES ASSUME ServesItsEnvironment PROVE Server!MissingNeverBroadens
      OBVIOUS
    <2>1. ASSUME NEW s \in Server!Setting, Server!Remove(s),
                 Server!Outcome(env) # Server!NoServer, Server!Outcome(env') # Server!NoServer
          PROVE  /\ Server!Trusts(Server!Outcome(env')) \subseteq Server!Trusts(Server!Outcome(env))
                 /\ Server!Outcome(env').wide => Server!Outcome(env).wide
      BY <2>1, RemovalNarrows
    <2>2. ASSUME Server!Start, server'.auth = "oidc"
          PROVE  Server!Cardinality(Server!Trusts(server')) = 1 /\ "unvalidated" \notin Server!Trusts(server')
      BY <2>2, ProductionNames
    <2> QED BY <2>1, <2>2 DEF Server!MissingNeverBroadens
  <1> QED BY <1>1, ServerInitially, ServerInductive, PTL DEF Server!Spec

-----------------------------------------------------------------------------
(* The role of a process. *)

CONSTANTS Role, who, Tables, Sequences, MaxDrift
VARIABLES holds, attrs, member, drift, acting, verified

Roles == INSTANCE RolePrivileges

(* The process's role is a role, PUBLIC is none, and the model holds no     *)
(* privilege outside it.                                                    *)
RolesAreApart ==
  /\ who \in Role /\ Roles!Public \notin Role
  /\ Roles!Model \cap (Roles!OnSchema \cup Roles!Elsewhere) = {}

(* The state of the roles. *)
Memberships == {"none", "inherit", "set"}
Granted ==
  /\ DOMAIN holds = Roles!Anyone /\ \A r \in Roles!Anyone : holds[r] \subseteq Roles!Privilege
  /\ DOMAIN attrs = Role /\ \A r \in Role : attrs[r] \subseteq Roles!Attribute
  /\ member \in [Role \X Role -> Memberships]

(* A session that was verified acts as its own role or as one that was      *)
(* looked at, and what was looked at has not changed.                       *)
SessionInv ==
  /\ Granted
  /\ verified \in BOOLEAN
  /\ acting \in Role
  /\ verified => Roles!verify_identity /\ acting \in {who} \cup Roles!Assumable(who)

(* The roles one is a member of are closed under membership.                *)
LEMMA Closed ==
    ASSUME NEW r, NEW options
    PROVE  /\ Roles!Along(r, options) \subseteq Role
           /\ \A m \in Roles!Along(r, options) \cup {r} : \A g \in Role :
                member[<<m, g>>] \in options => g \in Roles!Along(r, options)
  <1> DEFINE A == Roles!Along(r, options)
             Through(S) == {g \in Role : \E m \in S : member[<<m, g>>] \in options}
  <1>1. A = {g \in Role : \A S \in SUBSET Role : Through(S \cup {r}) \subseteq S => g \in S}
    BY DEF Roles!Along
  <1> HIDE DEF A
  <1>2. ASSUME NEW m \in A \cup {r}, NEW g \in Role, member[<<m, g>>] \in options PROVE g \in A
    <2>1. ASSUME NEW S \in SUBSET Role, Through(S \cup {r}) \subseteq S PROVE g \in S
      <3>1. m \in S \cup {r}
        BY <1>1, <2>1
      <3>2. g \in Through(S \cup {r})
        BY <1>2, <3>1
      <3> QED BY <2>1, <3>2
    <2> QED BY <1>1, <2>1
  <1>3. A \subseteq Role
    BY <1>1
  <1> QED BY <1>2, <1>3 DEF A

(* A set that is closed has them all. *)
LEMMA Least ==
    ASSUME NEW r, NEW options, NEW S \in SUBSET Role,
           \A m \in S \cup {r} : \A g \in Role : member[<<m, g>>] \in options => g \in S
    PROVE  Roles!Along(r, options) \subseteq S
  <1> DEFINE Through(T) == {g \in Role : \E m \in T : member[<<m, g>>] \in options}
  <1>1. Through(S \cup {r}) \subseteq S
    OBVIOUS
  <1> QED BY <1>1 DEF Roles!Along

(* What a role inherits it can become; and what a role it can become        *)
(* inherits too.                                                            *)
LEMMA InheritedIsAssumable ==
    ASSUME NEW r, NEW g \in {r} \cup Roles!Assumable(r)
    PROVE  Roles!Along(g, {"inherit"}) \subseteq Roles!Assumable(r)
  <1> DEFINE A == Roles!Assumable(r)
             both == {"inherit", "set"}
  <1>1. A \subseteq Role /\ \A m \in A \cup {r} : \A x \in Role : member[<<m, x>>] \in both => x \in A
    BY Closed DEF Roles!Assumable
  <1> HIDE DEF A
  <1>2. \A m \in A \cup {g} : \A x \in Role : member[<<m, x>>] \in {"inherit"} => x \in A
    BY <1>1 DEF A
  <1>3. A \in SUBSET Role
    BY <1>1
  <1>4. Roles!Along(g, {"inherit"}) \subseteq A
    BY <1>2, <1>3, Least
  <1> QED BY <1>4 DEF A

(* Every privilege a role has was granted to it, to PUBLIC, or to a role it *)
(* inherits from.                                                           *)
LEMMA HeldPrivileges ==
    ASSUME Granted, NEW r \in Role
    PROVE  Roles!Has(r) \subseteq Roles!Privilege
  <1>1. Roles!Along(r, {"inherit"}) \subseteq Role
    BY Closed
  <1> QED BY <1>1 DEF Roles!Has, Granted, Roles!Anyone

(* Nothing that passes the queries is outside the model.                    *)
LEMMA NoWayOut ==
    ASSUME Granted, who \in Role, Roles!verify_identity, NEW r \in {who} \cup Roles!Assumable(who)
    PROVE  attrs[r] = {} /\ Roles!Has(r) \subseteq Roles!Model
  <1>0. r \in Role
    BY Closed DEF Roles!Assumable
  <1>1. Roles!Has(r) \subseteq Roles!Privilege /\ attrs[r] \subseteq Roles!Attribute
    BY <1>0, HeldPrivileges DEF Granted
  <1>2. CASE r = who
    <2>1. attrs[r] = {}
      BY <1>1, <1>2 DEF Roles!verify_identity, Roles!verify_role_attributes_and_memberships, Roles!Attribute
    <2>2. /\ Roles!Has(r) \cap {"CREATE", "CREATE elsewhere"} = {}
          /\ "SET replication role" \notin Roles!Has(r)
          /\ Roles!Has(r) \cap {"table-level INSERT", "DELETE", "other column"} = {}
          /\ Roles!Has(r) \cap {"unlisted table", "other schema's table"} = {}
          /\ Roles!Has(r) \cap {"SELECT on a sequence", "other sequence"} = {}
          /\ "EXECUTE ledger_grant" \notin Roles!Has(r)
      BY <1>2 DEF Roles!verify_identity, Roles!verify_role_attributes_and_memberships,
           Roles!verify_table_privileges_for, Roles!verify_no_unlisted_table_privileges,
           Roles!verify_sequence_privileges_for, Roles!verify_no_grant_function_execute
    <2>3. Roles!Has(r) \cap (Roles!OnSchema \cup Roles!Elsewhere) = {}
      BY <2>2 DEF Roles!OnSchema, Roles!Elsewhere
    <2> QED BY <1>1, <2>1, <2>3 DEF Roles!Privilege
  <1>3. CASE r \in Roles!Assumable(who)
    <2>1. attrs[r] = {}
      BY <1>3 DEF Roles!verify_identity, Roles!verify_role_attributes_and_memberships
    <2>2. /\ Roles!Has(r) \cap {"CREATE", "CREATE elsewhere", "SET replication role"} = {}
          /\ Roles!Has(r) \cap {"table-level INSERT", "DELETE", "other column"} = {}
          /\ Roles!Has(r) \cap {"unlisted table", "other schema's table"} = {}
          /\ Roles!Has(r) \cap {"SELECT on a sequence", "other sequence"} = {}
          /\ "EXECUTE ledger_grant" \notin Roles!Has(r)
      BY <1>3 DEF Roles!verify_identity, Roles!verify_role_attributes_and_memberships,
           Roles!verify_table_privileges_for, Roles!verify_no_unlisted_table_privileges,
           Roles!verify_sequence_privileges_for, Roles!verify_no_grant_function_execute
    <2>3. Roles!Has(r) \cap (Roles!OnSchema \cup Roles!Elsewhere) = {}
      BY <2>2 DEF Roles!OnSchema, Roles!Elsewhere
    <2> QED BY <1>1, <2>1, <2>3 DEF Roles!Privilege
  <1> QED BY <1>2, <1>3

(* verify_identity refuses nothing that is right.                           *)
LEMMA RightIsAccepted ==
    ASSUME RolesAreApart
    PROVE  Roles!ModelIsAccepted
  <1> SUFFICES ASSUME
           \A r \in Roles!Assumable(who) \cup {who} : attrs[r] = {} /\ holds[r] \subseteq Roles!Model,
           holds[Roles!Public] \subseteq Roles!Model, Roles!Model \subseteq Roles!Has(who)
         PROVE Roles!verify_identity
    BY DEF Roles!ModelIsAccepted
  <1>1. ASSUME NEW r \in Roles!Assumable(who) \cup {who}
        PROVE  /\ attrs[r] = {}
               /\ Roles!Has(r) \cap (Roles!OnSchema \cup Roles!Elsewhere) = {}
    <2>1. Roles!Along(r, {"inherit"}) \subseteq Roles!Assumable(who)
      BY InheritedIsAssumable
    <2>2. Roles!Has(r) \subseteq Roles!Model
      BY <2>1 DEF Roles!Has
    <2> QED BY <2>2 DEF RolesAreApart
  <1>2. ASSUME NEW r \in Roles!Assumable(who) \cup {who}
        PROVE  /\ Roles!Has(r) \cap {"CREATE", "CREATE elsewhere", "SET replication role"} = {}
               /\ Roles!verify_table_privileges_for(r, FALSE)
               /\ Roles!verify_no_unlisted_table_privileges(r)
               /\ Roles!verify_sequence_privileges_for(r, FALSE)
               /\ Roles!verify_no_grant_function_execute(r)
    <2>1. \A p \in Roles!Has(r) : p \notin Roles!OnSchema /\ p \notin Roles!Elsewhere
      BY <1>1
    <2>2. \A p \in {"CREATE", "CREATE elsewhere", "SET replication role", "other schema's table"} :
            p \in Roles!Elsewhere
      BY DEF Roles!Elsewhere
    <2>3. \A p \in {"table-level INSERT", "DELETE", "other column", "unlisted table",
                    "SELECT on a sequence", "other sequence", "EXECUTE ledger_grant"} :
            p \in Roles!OnSchema
      BY DEF Roles!OnSchema
    <2>4. Roles!Has(r) \cap {"CREATE", "CREATE elsewhere", "SET replication role"} = {}
      BY <2>1, <2>2
    <2>5. Roles!verify_table_privileges_for(r, FALSE)
      BY <2>1, <2>3 DEF Roles!verify_table_privileges_for
    <2>6. Roles!verify_no_unlisted_table_privileges(r)
      BY <2>1, <2>2, <2>3 DEF Roles!verify_no_unlisted_table_privileges
    <2>7. Roles!verify_sequence_privileges_for(r, FALSE)
      BY <2>1, <2>3 DEF Roles!verify_sequence_privileges_for
    <2>8. Roles!verify_no_grant_function_execute(r)
      BY <2>1, <2>3 DEF Roles!verify_no_grant_function_execute
    <2> QED BY <2>4, <2>5, <2>6, <2>7, <2>8
  <1>3. Roles!verify_role_attributes_and_memberships
    BY <1>1, <1>2 DEF Roles!verify_role_attributes_and_memberships
  <1>4. Roles!verify_table_privileges_for(who, TRUE) /\ Roles!verify_sequence_privileges_for(who, TRUE)
    BY <1>2 DEF Roles!verify_table_privileges_for, Roles!verify_sequence_privileges_for, Roles!Model
  <1> QED BY <1>1, <1>2, <1>3, <1>4 DEF Roles!verify_identity

(* It holds initially. *)
LEMMA SessionInitially == RolesAreApart /\ Roles!Init => SessionInv
  <1> SUFFICES ASSUME RolesAreApart, Roles!Init PROVE SessionInv
    OBVIOUS
  <1>1. DOMAIN holds = Roles!Anyone /\ \A r \in Roles!Anyone : holds[r] \subseteq Roles!Privilege
    <2>1. "EXECUTE ledger_grant" \in Roles!Privilege /\ Roles!Model \subseteq Roles!Privilege
      BY DEF Roles!Privilege, Roles!OnSchema
    <2> QED BY <2>1 DEF Roles!Init
  <1>2. DOMAIN attrs = Role /\ \A r \in Role : attrs[r] \subseteq Roles!Attribute
    BY DEF Roles!Init
  <1>3. member \in [Role \X Role -> Memberships]
    BY DEF Roles!Init, Memberships
  <1>4. verified = FALSE /\ acting \in Role
    BY DEF Roles!Init, RolesAreApart
  <1> QED BY <1>1, <1>2, <1>3, <1>4 DEF SessionInv, Granted

(* What the owner does ends it; SET ROLE stays among the roles looked at. *)
LEMMA SessionInductive == RolesAreApart /\ SessionInv /\ [Roles!Next]_(Roles!vars) => SessionInv'
  <1> SUFFICES ASSUME RolesAreApart, SessionInv, [Roles!Next]_(Roles!vars) PROVE SessionInv'
    OBVIOUS
  <1>0. /\ DOMAIN holds = Roles!Anyone /\ \A r \in Roles!Anyone : holds[r] \subseteq Roles!Privilege
        /\ DOMAIN attrs = Role /\ \A r \in Role : attrs[r] \subseteq Roles!Attribute
        /\ member \in [Role \X Role -> Memberships] /\ acting \in Role
    BY DEF SessionInv, Granted
  <1>1. ASSUME Granted', verified' = FALSE, acting' = acting PROVE SessionInv'
    BY <1>0, <1>1 DEF SessionInv
  <1>2. CASE Roles!grant_runtime_role
    <2>1. \A r \in Roles!Anyone : holds'[r] \subseteq Roles!Privilege
      BY <1>0, <1>2 DEF Roles!grant_runtime_role, Roles!Privilege
    <2>2. DOMAIN holds' = Roles!Anyone /\ attrs' = attrs /\ member' = member
      BY <1>0, <1>2 DEF Roles!grant_runtime_role
    <2>3. Granted'
      BY <1>0, <2>1, <2>2 DEF Granted
    <2> QED BY <1>1, <1>2, <2>3 DEF Roles!grant_runtime_role, Roles!Owner
  <1>3. CASE Roles!GrantOrRevoke
    <2>1. PICK r \in Roles!Anyone, p \in Roles!Privilege :
             holds' = [holds EXCEPT ![r] = IF p \in @ THEN @ \ {p} ELSE @ \cup {p}]
      BY <1>3 DEF Roles!GrantOrRevoke
    <2>2. \A x \in Roles!Anyone : holds'[x] \subseteq Roles!Privilege
      BY <1>0, <2>1
    <2>3. DOMAIN holds' = Roles!Anyone /\ attrs' = attrs /\ member' = member
      BY <1>0, <1>3, <2>1 DEF Roles!GrantOrRevoke
    <2>4. Granted'
      BY <1>0, <2>2, <2>3 DEF Granted
    <2> QED BY <1>1, <1>3, <2>4 DEF Roles!GrantOrRevoke, Roles!Owner
  <1>4. CASE Roles!AlterRole
    <2>1. PICK r \in Role, a \in Roles!Attribute :
             attrs' = [attrs EXCEPT ![r] = IF a \in @ THEN @ \ {a} ELSE @ \cup {a}]
      BY <1>4 DEF Roles!AlterRole
    <2>2. \A x \in Role : attrs'[x] \subseteq Roles!Attribute
      BY <1>0, <2>1
    <2>3. DOMAIN attrs' = Role /\ holds' = holds /\ member' = member
      BY <1>0, <1>4, <2>1 DEF Roles!AlterRole
    <2>4. Granted'
      BY <1>0, <2>2, <2>3 DEF Granted
    <2> QED BY <1>1, <1>4, <2>4 DEF Roles!AlterRole, Roles!Owner
  <1>5. CASE Roles!GrantRole
    <2>1. PICK r \in Role, g \in Role, o \in {"none", "inherit", "set"} :
             member' = [member EXCEPT ![<<r, g>>] = o]
      BY <1>5 DEF Roles!GrantRole
    <2>2. member' \in [Role \X Role -> Memberships]
      BY <1>0, <2>1 DEF Memberships
    <2>3. holds' = holds /\ attrs' = attrs
      BY <1>5 DEF Roles!GrantRole
    <2>4. Granted'
      BY <1>0, <2>2, <2>3 DEF Granted
    <2> QED BY <1>1, <1>5, <2>4 DEF Roles!GrantRole, Roles!Owner
  <1>6. ASSUME UNCHANGED <<holds, attrs, member>>
        PROVE  /\ Granted' /\ (Roles!verify_identity)' = Roles!verify_identity
               /\ Roles!Assumable(who)' = Roles!Assumable(who)
    <2>1. \A r, o : Roles!Along(r, o)' = Roles!Along(r, o)
      BY <1>6 DEF Roles!Along
    <2>2. \A r : Roles!Has(r)' = Roles!Has(r) /\ Roles!Assumable(r)' = Roles!Assumable(r)
      BY <1>6, <2>1 DEF Roles!Has, Roles!Assumable
    <2>3. (Roles!verify_identity)' = Roles!verify_identity
      BY <1>6, <2>2 DEF Roles!verify_identity, Roles!verify_role_attributes_and_memberships,
           Roles!verify_table_privileges_for, Roles!verify_no_unlisted_table_privileges,
           Roles!verify_sequence_privileges_for, Roles!verify_no_grant_function_execute
    <2>4. Granted'
      BY <1>0, <1>6 DEF Granted
    <2> QED BY <2>2, <2>3, <2>4
  <1>7. CASE Roles!Verify
    <2>1. acting' = who /\ verified' = Roles!verify_identity /\ UNCHANGED <<holds, attrs, member>>
      BY <1>7 DEF Roles!Verify, Roles!roles
    <2>2. verified' \in BOOLEAN
      BY <2>1 DEF Roles!verify_identity
    <2>3. Granted' /\ (Roles!verify_identity)' = Roles!verify_identity
      BY <1>6, <2>1
    <2>4. verified' => (Roles!verify_identity)' /\ acting' \in {who} \cup Roles!Assumable(who)'
      <3>1. verified' => Roles!verify_identity
        BY <2>1
      <3> QED BY <2>1, <2>3, <3>1
    <2>5. acting' \in Role
      BY <2>1 DEF RolesAreApart
    <2> QED BY <2>2, <2>3, <2>4, <2>5 DEF SessionInv
  <1>8. ASSUME NEW g \in Role, Roles!SetRole(g) PROVE SessionInv'
    <2>1. /\ acting' = g /\ verified' = verified /\ UNCHANGED <<holds, attrs, member>>
          /\ member[<<acting, g>>] # "none"
      BY <1>8 DEF Roles!SetRole, Roles!roles
    <2>2. <<acting, g>> \in Role \X Role
      BY <1>0
    <2>3. member[<<acting, g>>] \in {"inherit", "set"}
      BY <1>0, <2>1, <2>2 DEF Memberships
    <2>4. verified => g \in Roles!Assumable(who)
      BY <2>3, Closed DEF SessionInv, Roles!Assumable
    <2> QED BY <1>6, <2>1, <2>4 DEF SessionInv
  <1>9. CASE UNCHANGED Roles!vars
    BY <1>6, <1>9 DEF Roles!vars, SessionInv
  <1> QED BY <1>2, <1>3, <1>4, <1>5, <1>7, <1>8, <1>9 DEF Roles!Next

(* A session whose role passed verify_identity has no attribute and no      *)
(* privilege outside the model, as that role or as any it reaches by SET    *)
(* ROLE, whatever the roles, memberships and grants were.                   *)
THEOREM VerifiedSessionAlwaysBounded ==
    ASSUME RolesAreApart
    PROVE  Roles!Spec => []Roles!VerifiedSessionIsBounded
  <1>1. SessionInv => Roles!VerifiedSessionIsBounded
    BY NoWayOut DEF SessionInv, RolesAreApart, Roles!VerifiedSessionIsBounded
  <1> QED BY <1>1, SessionInitially, SessionInductive, PTL DEF Roles!Spec

(* verify_identity refuses no role that has the model, by its own grants or *)
(* by inheritance, and can become nothing that has more.                    *)
THEOREM ModelAlwaysAccepted ==
    ASSUME RolesAreApart
    PROVE  Roles!Spec => []Roles!ModelIsAccepted
  BY RightIsAccepted, PTL

(* ledger-admin migrate --runtime-role: after it verify_identity passes a   *)
(* role without attributes, memberships or grants elsewhere, whatever had   *)
(* become of its grants in the ledger's schema and of PUBLIC's EXECUTE.     *)
THEOREM RegrantAlwaysRepairs ==
    ASSUME RolesAreApart
    PROVE  Roles!Spec => [][Roles!RegrantRepairs]_(Roles!vars)
  <1>1. SessionInv /\ (Roles!ModelIsAccepted)' => Roles!RegrantRepairs
    <2> SUFFICES ASSUME SessionInv, (Roles!ModelIsAccepted)', Roles!grant_runtime_role, attrs[who] = {}, Roles!Assumable(who) = {},
                        holds[who] \cap Roles!Elsewhere = {},
                        holds[Roles!Public] \subseteq {"EXECUTE ledger_grant"}
                 PROVE  (Roles!verify_identity)'
      BY DEF Roles!RegrantRepairs
    <2>1. /\ attrs' = attrs /\ member' = member
          /\ holds' = [holds EXCEPT ![who] = (holds[who] \ Roles!OnSchema) \cup Roles!Model,
                          ![Roles!Public] = holds[Roles!Public] \ {"EXECUTE ledger_grant"}]
      BY DEF Roles!grant_runtime_role
    <2>2. /\ DOMAIN holds = Roles!Anyone /\ who \in Roles!Anyone /\ Roles!Public \in Roles!Anyone
          /\ who # Roles!Public /\ holds[who] \subseteq Roles!Privilege
      BY DEF SessionInv, Granted, RolesAreApart, Roles!Anyone
    <2>3. /\ holds'[who] = (holds[who] \ Roles!OnSchema) \cup Roles!Model
          /\ holds'[Roles!Public] = {}
      BY <2>1, <2>2
    <2>4. holds'[who] = Roles!Model
      BY <2>2, <2>3 DEF Roles!Privilege
    <2>5. Roles!Assumable(who)' = {}
      BY <2>1 DEF Roles!Assumable, Roles!Along
    <2>6. Roles!Model \subseteq Roles!Has(who)'
      BY <2>4 DEF Roles!Has
    <2> QED BY <2>1, <2>3, <2>4, <2>5, <2>6 DEF Roles!ModelIsAccepted
  <1> QED BY <1>1, RightIsAccepted, SessionInitially, SessionInductive, PTL DEF Roles!Spec
================================================================================

------------------------------- MODULE Projection -------------------------------
(***************************************************************************)
(* The accepted-state projection: the repository of projection streams     *)
(* (crates/ledger-store/src/postgres_projection.rs), the projector workers *)
(* that lease streams from it (apps/ledger-projector/src/lib.rs), and one  *)
(* cognitive graph of the target they write.                               *)
(*                                                                         *)
(* A step is one database statement or transaction, or one request to the  *)
(* target.  A request the worker sent is in `net' until the target runs    *)
(* it, which may be long after the worker stopped waiting, or never.       *)
(* Time is not modelled: a lease may expire at any moment, and a backoff,  *)
(* a poll or reconcile interval, or a pause while the probe fails is the   *)
(* time a worker may take before it claims.                                *)
(***************************************************************************)
EXTENDS ProjectionTarget, FiniteSets

CONSTANTS Worker,    \* concurrent workers, of one projector process or several
          Found,     \* what the target may hold before the first projection
          Events,    \* the events outside the workers' own loop that may happen
          Budget     \* how many of each kind of event happen

(* What the ledger does, what an operator does, and what goes wrong or just *)
(* comes along.                                                             *)
LedgerEvent   == {"accept"}
OperatorEvent == {"enable", "disable", "disable_unfenced", "rebuild"}
Disturbance   == {"reconcile", "expire", "crash", "error", "slow", "edit", "wipe"}
Kind          == {"ledger", "operator", "disturbance"}

ASSUME EventsAssumption == Events \subseteq LedgerEvent \cup OperatorEvent \cup Disturbance
ASSUME BudgetAssumption == Budget \in [Kind -> Nat]
ASSUME StreamAssumption == NoStream \notin Stream

VARIABLES head,      \* head[s]: version of the ref; events 1..head[s] are in the outbox
          row,       \* row[s]: the projection_state row
          target,    \* the marker and the content of the cognitive graph
          net,       \* requests sent to the target and not yet run
          worker,    \* worker[w]: what the worker knows of its current step
          left       \* what is left of Budget

vars == <<head, row, target, net, worker, left>>

NoRow == [status |-> "none", projected |-> 0, lease |-> "none", epoch |-> 0]

(* `version' and `head' are the work item; `mode' is the WorkMode until the *)
(* target is observed and the WriteMode after.                              *)
IdleWorker == [pc |-> "idle", stream |-> NoStream, epoch |-> 0, disabling |-> FALSE,
               recorded |-> 0, work |-> "none", version |-> 0, head |-> 0,
               mode |-> "none", expected |-> NoMarker]

Init == /\ head = [s \in Stream |-> 0]
        /\ row = [s \in Stream |-> NoRow]
        /\ target \in Found
        /\ net = {}
        /\ worker = [w \in Worker |-> IdleWorker]
        /\ left = Budget

KindOf(e) == IF e \in LedgerEvent THEN "ledger"
             ELSE IF e \in OperatorEvent THEN "operator" ELSE "disturbance"

Spend(e) == /\ e \in Events
            /\ left[KindOf(e)] > 0
            /\ left' = [left EXCEPT ![KindOf(e)] = @ - 1]

Live(s) == row[s].status \notin {"none", "disabled"}

-----------------------------------------------------------------------------
(* The ledger and the operator. *)

(* An acceptance moves the ref and queues its outbox row in one transaction *)
(* (AcceptCommit of module Workflow).                                       *)
Accept(s) == /\ Spend("accept")
             /\ head' = [head EXCEPT ![s] = @ + 1]
             /\ UNCHANGED <<row, target, net, worker>>

(* The check for another live stream is the statement's own; the partial   *)
(* unique index makes it hold against a concurrent enable.                 *)
Enable(s) ==
    /\ Spend("enable")
    /\ \A other \in Stream \ {s} : ~Live(other)
    /\ row[s].status \in {"none", "disabled", "disabling"}
    /\ row' = [row EXCEPT ![s].status = "active"]
    /\ UNCHANGED <<head, target, net, worker>>

Disable(s) ==
    /\ Spend("disable")
    /\ Live(s)
    /\ row' = [row EXCEPT ![s].status = "disabling"]
    /\ UNCHANGED <<head, target, net, worker>>

DisableUnfenced(s) ==
    /\ Spend("disable_unfenced")
    /\ row[s].status # "none"
    /\ row' = [row EXCEPT ![s].status = "disabled", ![s].lease = "none"]
    /\ UNCHANGED <<head, target, net, worker>>

-----------------------------------------------------------------------------
(* Leases.  A lease is live, or expired but not yet taken over; only a live *)
(* one keeps claimers away.                                                 *)

LeaseReleased(w, s, work) ==      \* mutant: an expired lease is not taken over
    /\ worker[w].pc = "idle"
    /\ row[s].lease = "none"
    /\ row' = [row EXCEPT ![s].lease = "live", ![s].epoch = @ + 1]
    /\ worker' = [worker EXCEPT ![w] =
                     [IdleWorker EXCEPT !.pc = "claimed",
                                        !.stream = s,
                                        !.epoch = row[s].epoch + 1,
                                        !.disabling = row[s].status = "disabling",
                                        !.recorded = row[s].projected,
                                        !.work = work]]
    /\ UNCHANGED <<head, target, net>>

Lease(w, s, work) ==
    /\ worker[w].pc = "idle"
    /\ row[s].lease # "live"
    /\ row' = [row EXCEPT ![s].lease = "live", ![s].epoch = @ + 1]
    /\ worker' = [worker EXCEPT ![w] =
                     [IdleWorker EXCEPT !.pc = "claimed",
                                        !.stream = s,
                                        !.epoch = row[s].epoch + 1,
                                        !.disabling = row[s].status = "disabling",
                                        !.recorded = row[s].projected,
                                        !.work = work]]
    /\ UNCHANGED <<head, target, net>>

(* step: the claim prefers a stream to be fenced; with one cognitive graph *)
(* at most one stream is live.                                             *)
ClaimActive(w, s) ==      \* mutant: nobody fences a stream being disabled
    /\ row[s].status = "active" /\ head[s] > row[s].projected
    /\ Lease(w, s, "pending")
    /\ UNCHANGED left

Claim(w, s) ==
    /\ \/ row[s].status = "disabling"
       \/ row[s].status = "active" /\ head[s] > row[s].projected
    /\ Lease(w, s, "pending")
    /\ UNCHANGED left

(* reconcile_step: an idle stream. *)
ClaimReconcile(w, s) ==
    /\ Spend("reconcile")
    /\ row[s].status = "active"
    /\ row[s].projected # 0
    /\ head[s] = row[s].projected
    /\ Lease(w, s, "recorded")

(* rebuild: the operator's own process claims whatever the status. *)
ClaimStream(w, s) ==
    /\ Spend("rebuild")
    /\ row[s].status \notin {"none", "disabling", "disabled"}
    /\ Lease(w, s, "head")

(* The fencing condition of acknowledge, fail, release and finish_disable:  *)
(* the epoch names the claim, its owner included.  It does not ask whether  *)
(* the lease is still live.                                                 *)
FencedAnyEpoch(w) == row[worker[w].stream].lease # "none"      \* mutant: any claim

Fenced(w) == /\ row[worker[w].stream].lease # "none"
             /\ row[worker[w].stream].epoch = worker[w].epoch

Holds(w) == Fenced(w) /\ row[worker[w].stream].lease = "live"

Expire(s) ==
    /\ row[s].lease = "live"
    /\ row' = [row EXCEPT ![s].lease = "expired"]
    /\ UNCHANGED <<head, target, net, worker>>

InProgress(s) == \E w \in Worker : worker[w].stream = s /\ Holds(w)

(* A lease that outlives its worker expires; one that a worker still needs *)
(* expires when the worker is slow.                                        *)
ExpireAbandoned(s) == ~InProgress(s) /\ Expire(s) /\ UNCHANGED left
ExpireInUse(s)     == InProgress(s) /\ Expire(s) /\ Spend("expire")

-----------------------------------------------------------------------------
(* process_inner and project. *)

Goto(w, pc) == worker' = [worker EXCEPT ![w].pc = pc]

(* work_for: the latest accepted event, or the recorded one. *)
WorkFor(w) ==
    LET me == worker[w]
        version == IF me.work = "recorded" THEN me.recorded ELSE head[me.stream]
    IN  /\ me.pc = "claimed"
        /\ ~me.disabling
        /\ worker' = [worker EXCEPT ![w].pc = IF version = 0 THEN "release" ELSE "work",
                                    ![w].version = version,
                                    ![w].head = head[me.stream]]
        /\ UNCHANGED <<head, row, target, net, left>>

(* The observation, with the audit-chain lookup for the version it shows:  *)
(* what that version's commit is never changes.                            *)
Decide(me) ==
    IF me.work = "head"
    THEN IF RebuildIsStale(me, target.marker) THEN "superseded" ELSE "replace"
    ELSE Plan(me, target)

Observe(w) ==
    LET me == worker[w]
        decision == Decide(me)
    IN  /\ me.pc = "work"
        /\ worker' = [worker EXCEPT
               ![w].pc = CASE decision = "superseded"  -> "release"
                           [] decision = "recover"     -> "rebuild_required"
                           [] decision = "acknowledge" -> "acknowledge"
                           [] OTHER                    -> "ready",
               ![w].version = IF decision = "acknowledge" THEN target.marker.version ELSE @,
               ![w].mode = decision,
               ![w].expected = target.marker]
        /\ UNCHANGED <<head, row, target, net, left>>

(* fence_out. *)
ObserveToFence(w) ==
    /\ worker[w].pc = "claimed"
    /\ worker[w].disabling
    /\ worker' = [worker EXCEPT ![w].pc = "ready", ![w].mode = "fence",
                                ![w].expected = target.marker]
    /\ UNCHANGED <<head, row, target, net, left>>

(* A claim sends at most one update, so the claim names it: next_write_id. *)
WriteId(me) == <<me.stream, me.epoch>>

Request(me) == [stream |-> me.stream, version |-> me.version, mode |-> me.mode,
                expected |-> me.expected, writeId |-> WriteId(me),
                operator |-> me.work = "head"]

(* Authority after observation: the lease is checked, then the request is  *)
(* on its way.                                                             *)
SendUnchecked(w) ==      \* mutant: the lease is not checked after the observation
    /\ worker[w].pc = "ready"
    /\ net' = net \cup {Request(worker[w])}
    /\ Goto(w, "sent")
    /\ UNCHANGED <<head, row, target, left>>

Send(w) ==
    /\ worker[w].pc = "ready"
    /\ IF Holds(w)
       THEN net' = net \cup {Request(worker[w])} /\ Goto(w, "sent")
       ELSE net' = net /\ worker' = [worker EXCEPT ![w] = IdleWorker]
    /\ UNCHANGED <<head, row, target, left>>

(* Less than a quarter of the lease is left before the write. *)
TooLate(w) ==
    /\ Spend("slow")
    /\ worker[w].pc = "ready"
    /\ worker[w].mode # "fence"
    /\ Goto(w, "release")
    /\ UNCHANGED <<head, row, target, net>>

(* The target runs a request; a worker that still waits for it learns so.  *)
Run(r) ==
    /\ target' = Update(r, target)
    /\ net' = net \ {r}
    /\ worker' = [w \in Worker |->
                     IF worker[w].pc = "sent" /\ WriteId(worker[w]) = r.writeId
                     THEN [worker[w] EXCEPT !.pc = "verify"] ELSE worker[w]]
    /\ UNCHANGED <<head, row, left>>

VerifyNothing(w) ==      \* mutant: the write is not read back
    /\ worker[w].pc = "verify"
    /\ worker[w].mode # "fence"
    /\ Goto(w, "acknowledge")
    /\ UNCHANGED <<head, row, target, net, left>>

Verify(w) ==
    LET r == Request(worker[w])
    IN  /\ worker[w].pc = "verify"
        /\ worker[w].mode # "fence"
        /\ Goto(w, IF ReadsBack(r, target)
                   THEN IF r.mode = "replace" THEN "contains" ELSE "acknowledge"
                   ELSE IF Newer(r, target.marker) THEN "release" ELSE "retry")
        /\ UNCHANGED <<head, row, target, net, left>>

VerifyFence(w) ==
    /\ worker[w].pc = "verify"
    /\ worker[w].mode = "fence"
    /\ Goto(w, IF target.marker.writeId = WriteId(worker[w]) THEN "acknowledge" ELSE "retry")
    /\ UNCHANGED <<head, row, target, net, left>>

ContainsAll(w) ==
    /\ worker[w].pc = "contains"
    /\ Goto(w, IF target.graph = AcceptedState(worker[w].stream, worker[w].version)
               THEN "acknowledge" ELSE "block")
    /\ UNCHANGED <<head, row, target, net, left>>

-----------------------------------------------------------------------------
(* The outcome, recorded only under the claim's fencing. *)

Finish(w, record) ==
    /\ row' = IF Fenced(w) THEN [row EXCEPT ![worker[w].stream] = record] ELSE row
    /\ worker' = [worker EXCEPT ![w] = IdleWorker]
    /\ UNCHANGED <<head, target, net, left>>

Released(s) == [row[s] EXCEPT !.lease = "none"]

Acknowledge(w) ==
    LET s == worker[w].stream
    IN  /\ worker[w].pc = "acknowledge"
        /\ worker[w].mode # "fence"
        /\ Finish(w, [Released(s) EXCEPT
                         !.projected = worker[w].version,
                         !.status = IF @ = "disabling" THEN @ ELSE "active"])

FinishDisable(w) ==
    LET s == worker[w].stream
    IN  /\ worker[w].pc = "acknowledge"
        /\ worker[w].mode = "fence"
        /\ Finish(w, IF row[s].status = "disabling"
                     THEN [Released(s) EXCEPT !.status = "disabled"] ELSE row[s])

Release(w) == worker[w].pc = "release" /\ Finish(w, Released(worker[w].stream))

(* failed: a claim made to fence only ever retries. *)
FailureStatus(me) ==
    CASE me.pc = "retry" \/ me.disabling -> row[me.stream].status
      [] me.pc = "block" /\ ~me.disabling -> "blocked"
      [] me.pc = "rebuild_required" /\ ~me.disabling -> "rebuild_required"

Fail(w) ==
    LET s == worker[w].stream
    IN  /\ worker[w].pc \in {"retry", "block", "rebuild_required"}
        /\ Finish(w, [Released(s) EXCEPT
                         !.status = IF @ = "disabling" THEN @ ELSE FailureStatus(worker[w])])

-----------------------------------------------------------------------------
(* What goes wrong. *)

(* A statement or a request fails, or its answer is lost or times out.  An *)
(* update whose answer is lost may still run.                              *)
Error(w) ==
    /\ Spend("error")
    /\ \/ worker[w].pc \in {"claimed", "work", "ready", "sent", "verify", "contains",
                            "acknowledge"} /\ Goto(w, "retry")
       \/ worker[w].pc \in {"claimed", "work", "ready", "verify", "contains"}
          /\ Goto(w, "block")
    /\ UNCHANGED <<head, row, target, net>>

Crash(w) ==
    /\ Spend("crash")
    /\ worker[w].pc # "idle"
    /\ worker' = [worker EXCEPT ![w] = IdleWorker]
    /\ UNCHANGED <<head, row, target, net>>

(* The cognitive graph is edited out of band. *)
Edit == /\ Spend("edit")
        /\ target' = [target EXCEPT !.graph = OtherContent]
        /\ UNCHANGED <<head, row, net, worker>>

(* The target loses its data. *)
Wipe == /\ Spend("wipe")
        /\ target' = [marker |-> NoMarker, graph |-> EmptyGraph]
        /\ UNCHANGED <<head, row, net, worker>>

-----------------------------------------------------------------------------
WorkerStep(w) == \/ \E s \in Stream : Claim(w, s)
                 \/ WorkFor(w) \/ Observe(w) \/ ObserveToFence(w) \/ Send(w)
                 \/ Verify(w) \/ VerifyFence(w) \/ ContainsAll(w)
                 \/ Acknowledge(w) \/ FinishDisable(w) \/ Release(w) \/ Fail(w)

Next == \/ \E w \in Worker : \/ WorkerStep(w)
                             \/ \E s \in Stream : ClaimReconcile(w, s) \/ ClaimStream(w, s)
                             \/ TooLate(w) \/ Error(w) \/ Crash(w)
        \/ \E r \in net : Run(r)
        \/ \E s \in Stream : \/ Accept(s) \/ Enable(s) \/ Disable(s) \/ DisableUnfenced(s)
                             \/ ExpireAbandoned(s) \/ ExpireInUse(s)
        \/ Edit \/ Wipe

Spec == Init /\ [][Next]_vars

-----------------------------------------------------------------------------
(* Types. *)

Version == Nat
StreamOrNone == Stream \cup {NoStream}

Marker == [shape : {"none", "fence", "malformed", "present"}, stream : StreamOrNone,
           version : Version, commit : StreamOrNone \X Version,
           writeId : StreamOrNone \X Nat, count : StreamOrNone \X Version]

Target == [marker : Marker, graph : StreamOrNone \X Version]

Row == [status : {"none", "active", "blocked", "rebuild_required", "disabling", "disabled"},
        projected : Version, lease : {"none", "live", "expired"}, epoch : Nat]

Mode == {"none", "superseded", "recover", "replace", "conditional", "acknowledge", "fence"}

WorkerState ==
    [pc : {"idle", "claimed", "work", "ready", "sent", "verify", "contains", "acknowledge",
           "release", "retry", "block", "rebuild_required"},
     stream : StreamOrNone, epoch : Nat, disabling : BOOLEAN, recorded : Version,
     work : {"none", "pending", "recorded", "head"}, version : Version, head : Version,
     mode : Mode, expected : Marker]

Message == [stream : Stream, version : Version, mode : {"replace", "conditional", "fence"},
            expected : Marker, writeId : Stream \X Nat, operator : BOOLEAN]

(* What is found names no commit and no write of this ledger, which has    *)
(* accepted and written nothing yet; only a whole marker names a stream.   *)
ASSUME FoundAssumption ==
    \A t \in Found :
        /\ t \in Target
        /\ t.marker.shape \in {"none", "malformed", "present"}
        /\ t.marker.shape = "none" => t.marker = NoMarker
        /\ t.marker.shape = "malformed" => t.marker.stream = NoStream
        /\ t.marker.commit[1] \notin Stream
        /\ t.marker.writeId = NoWriteId

(* Every column, marker and worker is well formed; recorded progress names *)
(* a version the ref has reached (the foreign key of projection_state).    *)
TypeOK ==
    /\ head \in [Stream -> Nat]
    /\ row \in [Stream -> Row]
    /\ target \in Target
    /\ net \subseteq Message
    /\ worker \in [Worker -> WorkerState]
    /\ left \in [Kind -> Nat]
    /\ \A s \in Stream : row[s].projected <= head[s]

-----------------------------------------------------------------------------
(* Safety. *)

(* `so no write of this stream still in flight can land after another      *)
(* stream takes the graph' (disable): once a fenced disable is recorded,   *)
(* every update the stream's workers ever sent is dead.                    *)
LateWritesAreDead ==
    \A r \in net : row[r.stream].status = "disabled" => r.expected # target.marker

Shows(s, v) == /\ target.marker.shape = "present"
               /\ target.marker.stream = s
               /\ target.marker.version >= v
               /\ target.graph = AcceptedState(s, target.marker.version)

(* Recorded progress is never ahead of the target: where the graph is the  *)
(* stream's, it shows that version or a later one, whichever workers wrote *)
(* and acknowledged it and in whatever order their requests ran.           *)
RecordedIsServed ==
    \A s \in Stream :
        row[s].projected > 0 /\ target.marker.stream = s /\ target.marker.commit[1] = s
            => Shows(s, row[s].projected)

(* An acknowledgement that commits tells the truth: at that moment, and    *)
(* not only when the worker read the marker back, the target shows the     *)
(* version recorded or a later one.                                        *)
AcknowledgedIsShown ==
    \A s \in Stream : row'[s].projected # row[s].projected => Shows(s, row'[s].projected)

(* project and record_projected: progress is true when it is recorded and  *)
(* stays true for as long as the graph is the stream's (initially there is *)
(* none).                                                                  *)
ProgressIsShown == [][AcknowledgedIsShown /\ RecordedIsServed']_vars

(* `projection_state progress never moves backwards': the trigger of       *)
(* migration 0011 that refuses it never fires.                             *)
ProgressNeverRegresses ==
    [][\A s \in Stream : row'[s].projected >= row[s].projected]_vars

(* `Never regress automatically: an operator rebuild decides' (plan.rs):   *)
(* only an operator rebuild replaces another stream's marker, or one that  *)
(* names a version the ref has not reached, even by a late update.         *)
OperatorDecides ==
    [][\A r \in net :
          /\ target.marker # target'.marker
          /\ target'.marker.writeId = r.writeId
          /\ r.mode # "fence"
          /\ \/ target.marker.stream \notin {r.stream, NoStream}
             \/ target.marker.version > head[r.stream]
          => r.operator]_vars

(* ADR-0020: `a marker beyond N within history can only appear through an  *)
(* out-of-band edit or a restore', so without those a worker that finds    *)
(* the target up to date finds exactly the version it was to project.      *)
NeverBeyondTheWorkItem ==
    \A w \in Worker :
        worker[w].pc = "acknowledge" /\ worker[w].mode = "acknowledge"
            => worker[w].version = IF worker[w].work = "recorded"
                                   THEN worker[w].recorded ELSE worker[w].head

-----------------------------------------------------------------------------
(* Refinement: the projection serves the graph. *)

Owner == IF \E s \in Stream : Live(s) THEN CHOOSE s \in Stream : Live(s) ELSE NoStream

Served == IF target.marker.shape = "present" /\ target.marker.commit[1] \in Stream
          THEN <<target.marker.stream, target.marker.version>> ELSE <<NoStream, 0>>

Graph == INSTANCE ServedGraph WITH owner <- Owner, served <- Served

(* The leases, the decision table, the compare-and-swap and the two-phase  *)
(* disable together implement ServedGraph.                                 *)
ServesTheGraph == Graph!Spec

-----------------------------------------------------------------------------
(* Liveness.  Workers keep polling, the target runs what reaches it, and a *)
(* lease nobody uses expires.                                              *)

Fairness == /\ \A w \in Worker : WF_vars(WorkerStep(w))
            /\ WF_vars(\E r \in net : Run(r))
            /\ \A s \in Stream : WF_vars(ExpireAbandoned(s))

FairSpec == Spec /\ Fairness

(* A stream with accepted events beyond its progress catches up with every *)
(* one of them, or stops for an operator.                                  *)
CatchesUp ==
    \A s \in Stream : \A v \in 1..Budget.ledger :
        row[s].status = "active" /\ head[s] >= v
            ~> row[s].projected >= v \/ row[s].status # "active"

(* A disable completes unless the operator takes it back. *)
DisableCompletes ==
    \A s \in Stream : row[s].status = "disabling" ~> row[s].status # "disabling"
=============================================================================

---------------------------- MODULE ProjectionProofs ----------------------------
(***************************************************************************)
(* The projection, for any number of streams and workers and any budget of *)
(* events: progress never regresses and only an operator overrides a       *)
(* foreign marker, whatever happens; and where the target keeps what it is *)
(* given and a stream is disabled by the fenced path, a disabled stream's  *)
(* writes are dead, recorded progress is shown, and the whole implements   *)
(* ServedGraph.                                                            *)
(***************************************************************************)
EXTENDS Projection, TLAPS

(* Zenon proves the leaves that name no prover. *)
USE Zenon

(* The claim has sent nothing yet. *)
Unsent == {"claimed", "work", "ready"}

(* The claim has a work item, or goes to fence. *)
Going == {"work", "ready", "sent", "verify", "contains", "acknowledge"}

(* What a worker knows of its claim: it names an epoch the stream has had,  *)
(* versions the ref has reached and, while the claim is current, the        *)
(* recorded progress.                                                       *)
ClaimOK(w) ==
    LET me == worker[w]
    IN  /\ me.pc = "idle" => me = IdleWorker
        /\ me.pc # "idle" =>
             /\ me.stream \in Stream /\ me.epoch \in 1 .. row[me.stream].epoch
             /\ me.recorded <= head[me.stream] /\ me.head <= head[me.stream]
             /\ me.version <= head[me.stream]
             /\ Fenced(w) => me.recorded = row[me.stream].projected
        /\ me.pc \in {"claimed", "work"} => me.mode = "none"
        /\ me.pc \in {"ready", "sent", "verify"} => me.mode \in {"replace", "conditional", "fence"}
        /\ me.pc = "contains" => me.mode = "replace"
        /\ me.pc = "acknowledge" => me.mode \in {"replace", "conditional", "fence", "acknowledge"}
        /\ me.pc \in Going /\ me.mode # "fence" => me.version >= 1 /\ me.recorded <= me.version
        /\ me.pc = "work" => me.version <= me.head

OneClaim ==
    \A v, w \in Worker :
        worker[v].pc # "idle" /\ worker[w].pc # "idle" /\ WriteId(worker[v]) = WriteId(worker[w])
            => v = w

-----------------------------------------------------------------------------
(* Types. *)

(* The markers and contents there are. *)
LEMMA Constants ==
  /\ NoMarker \in Marker /\ EmptyGraph \in StreamOrNone \X Version
  /\ OtherContent \in StreamOrNone \X Version /\ IdleWorker \in WorkerState
  /\ NoRow \in Row
<1>1. NoMarker \in Marker
  BY DEF NoMarker, NoWriteId, EmptyGraph, Marker, StreamOrNone, Version
<1>2. EmptyGraph \in StreamOrNone \X Version /\ OtherContent \in StreamOrNone \X Version
  BY DEF EmptyGraph, OtherContent, StreamOrNone, Version
<1>3. IdleWorker \in WorkerState
  BY <1>1 DEF IdleWorker, WorkerState, StreamOrNone, Version, Mode
<1>4. NoRow \in Row BY DEF NoRow, Row, Version
<1> QED BY <1>1, <1>2, <1>3, <1>4

(* An update leaves a marker and a content. *)
LEMMA UpdateType ==
  ASSUME NEW r \in Message, NEW t \in Target
  PROVE  Update(r, t) \in Target
<1>0. t.marker \in Marker /\ t.graph \in StreamOrNone \X Version BY DEF Target
<1>1. WriteUpdate(r) \in Target
  BY DEF WriteUpdate, MarkerOf, CommitAt, AcceptedState, Target, Marker, Message, StreamOrNone, Version
<1>2. FenceUpdate(r, t) \in Target
  BY <1>0 DEF FenceUpdate, Target, Marker, Message, StreamOrNone, Version
<1> QED BY <1>1, <1>2 DEF Update

(* A request is one. *)
LEMMA RequestType ==
  ASSUME NEW me \in WorkerState, me.stream \in Stream, me.mode \in {"replace", "conditional", "fence"}
  PROVE  Request(me) \in Message
  BY DEF Request, WriteId, Message, WorkerState, Version

-----------------------------------------------------------------------------
(* What the steps do. *)

Accepts(s) == head' = [head EXCEPT ![s] = @ + 1] /\ UNCHANGED <<row, target, net, worker>>

(* The status of a stream changes, or its lease ends. *)
Turns(s, x) ==
    /\ row' = [row EXCEPT ![s] = x] /\ UNCHANGED <<head, target, net, worker>>
    /\ x \in Row /\ x.projected = row[s].projected /\ x.epoch = row[s].epoch
    /\ x.lease # "none" => row[s].lease # "none"
    /\ \/ x.status = row[s].status
       \/ x.status = "active" /\ \A other \in Stream \ {s} : ~Live(other)
       \/ x.status = "disabling" /\ Live(s)
       \/ x.status = "disabled" /\ x.lease = "none" /\ "disable_unfenced" \in Events

Takes(w, s, work) ==
    /\ Lease(w, s, work) /\ Live(s) /\ work \in {"pending", "recorded", "head"}

SameClaim(me, next) ==
    /\ next.stream = me.stream /\ next.epoch = me.epoch /\ next.disabling = me.disabling
    /\ next.recorded = me.recorded /\ next.work = me.work

(* A worker goes on with its claim: it gives up, ... *)
Ended == {"release", "retry", "block", "rebuild_required"}

GivesUp(me, next) ==
    /\ next.pc \in Ended
    /\ next.version <= head[me.stream] /\ next.head <= head[me.stream]
    /\ next.expected \in {me.expected, target.marker}

(* ... reads its work item, ... *)
Works(me, next) ==
    /\ me.pc = "claimed" /\ next.pc = "work" /\ next.mode = "none"
    /\ next.version = IF me.work = "recorded" THEN me.recorded ELSE head[me.stream]
    /\ next.version # 0 /\ next.head = head[me.stream] /\ next.expected = me.expected

(* ... observes the target, to fence, to write or to acknowledge, ... *)
ObservesToFence(me, next) ==
    /\ me.pc = "claimed" /\ next.pc = "ready" /\ next.mode = "fence"
    /\ next.version = me.version /\ next.head = me.head /\ next.expected = target.marker

ObservesToWrite(me, next) ==
    /\ me.pc = "work" /\ next.pc = "ready"
    /\ next.mode = Decide(me) /\ next.mode \in {"replace", "conditional"}
    /\ next.version = me.version /\ next.head = me.head /\ next.expected = target.marker

ObservesDone(me, next) ==
    /\ me.pc = "work" /\ next.pc = "acknowledge" /\ next.mode = "acknowledge"
    /\ Plan(me, target) = "acknowledge"
    /\ next.version = target.marker.version /\ next.head = me.head
    /\ next.expected = target.marker

(* ... or finds its write there. *)
Confirms(me, next) ==
    /\ next = [me EXCEPT !.pc = next.pc]
    /\ \/ /\ me.pc = "verify" /\ me.mode # "fence"
          /\ next.pc = IF me.mode = "replace" THEN "contains" ELSE "acknowledge"
          /\ ReadsBack(Request(me), target)
       \/ me.pc = "contains" /\ next.pc = "acknowledge"
       \/ /\ me.pc = "verify" /\ me.mode = "fence" /\ next.pc = "acknowledge"
          /\ target.marker.writeId = WriteId(me)

GoesOn(w, next) ==
    /\ worker[w].pc # "idle" /\ next \in WorkerState /\ SameClaim(worker[w], next)
    /\ worker' = [worker EXCEPT ![w] = next] /\ UNCHANGED <<head, row, target, net>>
    /\ \/ GivesUp(worker[w], next) \/ Works(worker[w], next)
       \/ ObservesToFence(worker[w], next) \/ ObservesToWrite(worker[w], next)
       \/ ObservesDone(worker[w], next) \/ Confirms(worker[w], next)

Sends(w) ==
    /\ worker[w].pc = "ready" /\ Holds(w)
    /\ net' = net \cup {Request(worker[w])}
    /\ worker' = [worker EXCEPT ![w] = [worker[w] EXCEPT !.pc = "sent"]]
    /\ UNCHANGED <<head, row, target>>

(* A claim ends, and if it is current its outcome is recorded. *)
Records(w, x) ==
    /\ Fenced(w) /\ x \in Row /\ x.lease = "none" /\ x.epoch = row[worker[w].stream].epoch
    /\ row' = [row EXCEPT ![worker[w].stream] = x]
    /\ \/ x.projected = row[worker[w].stream].projected
       \/ /\ worker[w].pc = "acknowledge" /\ worker[w].mode # "fence"
          /\ x.projected = worker[w].version
    /\ \/ x.status = row[worker[w].stream].status
       \/ x.status \in {"active", "blocked", "rebuild_required"}
       \/ x.status = "disabled" /\ worker[w].pc = "acknowledge" /\ worker[w].mode = "fence"

Ends(w) ==
    /\ worker[w].pc # "idle" /\ worker' = [worker EXCEPT ![w] = IdleWorker]
    /\ UNCHANGED <<head, target, net>>
    /\ UNCHANGED row \/ \E x : Records(w, x)

(* The ledger's and the operator's steps, and the end of a lease. *)
LEMMA TurnKinds ==
  ASSUME TypeOK, NEW s \in Stream,
         \/ Enable(s) \/ Disable(s) \/ DisableUnfenced(s) \/ ExpireAbandoned(s) \/ ExpireInUse(s)
  PROVE  \E x : Turns(s, x)
<1>0. row \in [Stream -> Row] /\ row[s] \in Row BY DEF TypeOK
<1>1. ASSUME Enable(s) PROVE Turns(s, [row[s] EXCEPT !.status = "active"])
  BY <1>0, <1>1 DEF Enable, Turns, Row
<1>2. ASSUME Disable(s) PROVE Turns(s, [row[s] EXCEPT !.status = "disabling"])
  BY <1>0, <1>2 DEF Disable, Turns, Row
<1>3. ASSUME DisableUnfenced(s)
      PROVE  Turns(s, [row[s] EXCEPT !.status = "disabled", !.lease = "none"])
  BY <1>0, <1>3 DEF DisableUnfenced, Turns, Row, Spend
<1>4. ASSUME ExpireAbandoned(s) \/ ExpireInUse(s)
      PROVE  Turns(s, [row[s] EXCEPT !.lease = "expired"])
  BY <1>0, <1>4 DEF ExpireAbandoned, ExpireInUse, Expire, Turns, Row
<1> QED BY <1>1, <1>2, <1>3, <1>4

(* The claims. *)
LEMMA TakeKinds ==
  ASSUME NEW w \in Worker, NEW s \in Stream, Claim(w, s) \/ ClaimReconcile(w, s) \/ ClaimStream(w, s)
  PROVE  \E work : Takes(w, s, work)
<1>1. ASSUME Claim(w, s) PROVE Takes(w, s, "pending") BY <1>1 DEF Claim, Takes, Live
<1>2. ASSUME ClaimReconcile(w, s) PROVE Takes(w, s, "recorded")
  BY <1>2 DEF ClaimReconcile, Takes, Live
<1>3. ASSUME ClaimStream(w, s) PROVE Takes(w, s, "head") BY <1>3 DEF ClaimStream, Takes, Live
<1> QED BY <1>1, <1>2, <1>3

(* process_inner and project, up to the outcome. *)
LEMMA WorkKinds ==
  ASSUME TypeOK, NEW w \in Worker, ClaimOK(w), WorkFor(w) \/ ObserveToFence(w)
  PROVE  \E next : GoesOn(w, next)
<1> DEFINE me == worker[w]
           version == IF me.work = "recorded" THEN me.recorded ELSE head[me.stream]
<1>0. me \in WorkerState /\ worker \in [Worker -> WorkerState] /\ target.marker \in Marker
  BY DEF TypeOK, Target
<1>1. CASE WorkFor(w)
  <2> DEFINE next == [me EXCEPT !.pc = IF version = 0 THEN "release" ELSE "work",
                                !.version = version, !.head = head[me.stream]]
  <2>1. /\ me.pc = "claimed" /\ me.stream \in Stream /\ me.recorded <= head[me.stream]
        /\ me.mode = "none" /\ head[me.stream] \in Nat
    BY <1>1 DEF WorkFor, ClaimOK, TypeOK
  <2>2. version \in Nat /\ version <= head[me.stream] BY SMT, <1>0, <2>1 DEF WorkerState, Version
  <2>3. worker' = [worker EXCEPT ![w] = next] /\ UNCHANGED <<head, row, target, net>>
    BY <1>0, <1>1 DEF WorkFor
  <2> HIDE DEF version
  <2>4. /\ next.version = version /\ next.head = head[me.stream] /\ next.mode = "none"
        /\ next.pc = (IF version = 0 THEN "release" ELSE "work") /\ next.expected = me.expected
        /\ SameClaim(me, next)
    BY <1>0, <2>1 DEF WorkerState, SameClaim
  <2>5. next \in WorkerState BY <1>0, <2>1, <2>2 DEF WorkerState, Version
  <2> HIDE DEF next, me
  <2>6. GivesUp(me, next) \/ Works(me, next)
    BY SMT, <2>1, <2>2, <2>4 DEF GivesUp, Works, Ended, version
  <2>7. GoesOn(w, next) BY <2>1, <2>3, <2>4, <2>5, <2>6 DEF GoesOn, me
  <2> QED BY <2>7
<1>2. CASE ObserveToFence(w)
  <2> DEFINE next == [me EXCEPT !.pc = "ready", !.mode = "fence", !.expected = target.marker]
  <2>1. worker' = [worker EXCEPT ![w] = next] /\ UNCHANGED <<head, row, target, net>>
    BY <1>0, <1>2 DEF ObserveToFence
  <2>2. me.pc = "claimed" BY <1>2 DEF ObserveToFence
  <2>3. ObservesToFence(me, next) /\ SameClaim(me, next) /\ next \in WorkerState
    BY <1>0, <2>2 DEF ObservesToFence, SameClaim, WorkerState, Mode
  <2> HIDE DEF next
  <2>4. GoesOn(w, next) BY <2>1, <2>2, <2>3 DEF GoesOn
  <2> QED BY <2>4
<1> QED BY <1>1, <1>2

(* The observation decides. *)
LEMMA ObserveKinds ==
  ASSUME TypeOK, NEW w \in Worker, ClaimOK(w), Observe(w)
  PROVE  \E next : GoesOn(w, next)
<1> DEFINE me == worker[w]
           d == Decide(me)
           next == [me EXCEPT !.pc = CASE d = "superseded"  -> "release"
                                       [] d = "recover"     -> "rebuild_required"
                                       [] d = "acknowledge" -> "acknowledge"
                                       [] OTHER             -> "ready",
                              !.version = IF d = "acknowledge" THEN target.marker.version ELSE @,
                              !.mode = d, !.expected = target.marker]
<1>0. me \in WorkerState /\ worker \in [Worker -> WorkerState] /\ target.marker \in Marker
  BY DEF TypeOK, Target
<1>1. me.pc = "work" /\ me.stream \in Stream BY DEF Observe, ClaimOK
<1>2. /\ d \in {"superseded", "recover", "replace", "conditional", "acknowledge"}
      /\ d \in {"recover", "acknowledge"} => d = Plan(me, target)
  BY DEF Decide, Plan
<1>3. worker' = [worker EXCEPT ![w] = next] /\ UNCHANGED <<head, row, target, net>>
  BY <1>0 DEF Observe
<1> HIDE DEF d
<1>4. /\ next.mode = d /\ next.expected = target.marker /\ next.head = me.head
      /\ next.version = IF d = "acknowledge" THEN target.marker.version ELSE me.version
      /\ next.pc = CASE d = "superseded"  -> "release"
                     [] d = "recover"     -> "rebuild_required"
                     [] d = "acknowledge" -> "acknowledge"
                     [] OTHER             -> "ready"
      /\ SameClaim(me, next)
  BY <1>0 DEF WorkerState, SameClaim
<1>5. next \in WorkerState
  <2>1. target.marker.version \in Version BY <1>0 DEF Marker
  <2>2. CASE d = "superseded" BY <1>0, <2>2 DEF WorkerState, Mode
  <2>3. CASE d = "recover" BY <1>0, <2>3 DEF WorkerState, Mode
  <2>4. CASE d = "acknowledge" BY <1>0, <2>1, <2>4 DEF WorkerState, Mode
  <2>5. CASE d \in {"replace", "conditional"} BY <1>0, <2>5 DEF WorkerState, Mode
  <2> QED BY <1>2, <2>2, <2>3, <2>4, <2>5
<1> HIDE DEF next, me
<1>6. CASE d \in {"superseded", "recover"}
  <2>1. GivesUp(me, next) BY <1>1, <1>4, <1>6 DEF GivesUp, Ended, ClaimOK, me
  <2>2. GoesOn(w, next) BY <1>1, <1>3, <1>4, <1>5, <2>1 DEF GoesOn, me
  <2> QED BY <2>2
<1>7. CASE d = "acknowledge"
  <2>1. ObservesDone(me, next) BY <1>1, <1>2, <1>4, <1>7 DEF ObservesDone
  <2>2. GoesOn(w, next) BY <1>1, <1>3, <1>4, <1>5, <2>1 DEF GoesOn, me
  <2> QED BY <2>2
<1>8. CASE d \in {"replace", "conditional"}
  <2>1. ObservesToWrite(me, next) BY <1>1, <1>4, <1>8 DEF ObservesToWrite, d
  <2>2. GoesOn(w, next) BY <1>1, <1>3, <1>4, <1>5, <2>1 DEF GoesOn, me
  <2> QED BY <2>2
<1> QED BY <1>2, <1>6, <1>7, <1>8

(* A worker that only goes elsewhere. *)
LEMMA GotoKinds ==
  ASSUME TypeOK, NEW w \in Worker, ClaimOK(w), worker[w].pc # "idle",
         NEW p \in Ended \cup {"contains", "acknowledge"}, Goto(w, p),
         UNCHANGED <<head, row, target, net>>,
         p \notin Ended => Confirms(worker[w], [worker[w] EXCEPT !.pc = p])
  PROVE  \E next : GoesOn(w, next)
<1> DEFINE me == worker[w]
           next == [me EXCEPT !.pc = p]
<1>0. me \in WorkerState /\ worker \in [Worker -> WorkerState] BY DEF TypeOK
<1>1. worker' = [worker EXCEPT ![w] = next] BY <1>0 DEF Goto
<1>2. next \in WorkerState /\ SameClaim(me, next) BY <1>0 DEF WorkerState, SameClaim, Ended
<1>3. next.pc = p /\ next.version = me.version /\ next.head = me.head /\ next.expected = me.expected
  BY <1>0 DEF WorkerState
<1>4. p \in Ended => GivesUp(me, next) BY <1>3 DEF GivesUp, ClaimOK
<1>5. p \notin Ended => Confirms(me, next) OBVIOUS
<1> HIDE DEF next
<1>6. GoesOn(w, next) BY <1>1, <1>2, <1>4, <1>5 DEF GoesOn
<1> QED BY <1>6

(* The read-back, and what goes wrong before the outcome. *)
LEMMA VerifyKinds ==
  ASSUME TypeOK, NEW w \in Worker, ClaimOK(w),
         \/ Verify(w) \/ VerifyFence(w) \/ ContainsAll(w) \/ TooLate(w) \/ Error(w)
  PROVE  \E next : GoesOn(w, next)
<1> DEFINE me == worker[w]
           At(p) == [me EXCEPT !.pc = p]
<1>0. me \in WorkerState BY DEF TypeOK
<1>1. ASSUME NEW p PROVE At(p).pc = p BY <1>0 DEF WorkerState
<1>2. CASE Verify(w)
  <2> DEFINE r == Request(me)
  <2>1. r.mode = me.mode BY DEF Request
  <2>2. CASE ReadsBack(r, target)
    <3>1. PICK p \in {"contains", "acknowledge"} :
            p = (IF me.mode = "replace" THEN "contains" ELSE "acknowledge") /\ Goto(w, p)
      BY <1>2, <2>1, <2>2 DEF Verify
    <3>2. Confirms(me, At(p)) BY <1>1, <1>2, <2>2, <3>1 DEF Confirms, Verify
    <3> QED BY <1>2, <3>1, <3>2, GotoKinds DEF Verify
  <2>3. CASE ~ReadsBack(r, target)
    <3>1. PICK p \in Ended : Goto(w, p) BY <1>2, <2>3 DEF Verify, Ended
    <3> QED BY <1>2, <3>1, GotoKinds DEF Verify
  <2> QED BY <2>2, <2>3
<1>3. CASE VerifyFence(w)
  <2>1. CASE target.marker.writeId = WriteId(me)
    <3>1. Goto(w, "acknowledge") BY <1>3, <2>1 DEF VerifyFence
    <3>2. Confirms(me, At("acknowledge")) BY <1>1, <1>3, <2>1 DEF Confirms, VerifyFence
    <3> QED BY <1>3, <3>1, <3>2, GotoKinds DEF VerifyFence
  <2>2. CASE target.marker.writeId # WriteId(me)
    <3>1. Goto(w, "retry") BY <1>3, <2>2 DEF VerifyFence
    <3> QED BY <1>3, <3>1, GotoKinds DEF VerifyFence, Ended
  <2> QED BY <2>1, <2>2
<1>4. CASE ContainsAll(w)
  <2>1. CASE Goto(w, "acknowledge")
    <3>1. Confirms(me, At("acknowledge")) BY <1>1, <1>4 DEF Confirms, ContainsAll
    <3> QED BY <1>4, <2>1, <3>1, GotoKinds DEF ContainsAll
  <2>2. CASE Goto(w, "block") BY <1>4, <2>2, GotoKinds DEF ContainsAll, Ended
  <2> QED BY <1>4, <2>1, <2>2 DEF ContainsAll
<1>5. CASE TooLate(w) BY <1>5, GotoKinds DEF TooLate, Ended
<1>6. CASE Error(w)
  <2>1. worker[w].pc # "idle" /\ UNCHANGED <<head, row, target, net>> BY <1>6 DEF Error
  <2>2. PICK p \in {"retry", "block"} : Goto(w, p) BY <1>6 DEF Error
  <2> QED BY <2>1, <2>2, GotoKinds DEF Ended
<1> QED BY <1>2, <1>3, <1>4, <1>5, <1>6

(* The outcome. *)
LEMMA EndKinds ==
  ASSUME TypeOK, NEW w \in Worker, ClaimOK(w),
         \/ Acknowledge(w) \/ FinishDisable(w) \/ Release(w) \/ Fail(w) \/ Crash(w)
  PROVE  Ends(w)
<1> DEFINE s == worker[w].stream
<1>0. row \in [Stream -> Row] /\ worker[w] \in WorkerState BY DEF TypeOK
<1>1. worker[w].pc # "idle" /\ s \in Stream
  BY DEF Acknowledge, FinishDisable, Release, Fail, Crash, ClaimOK
<1>2. row[s] \in Row BY <1>0, <1>1
<1>3. ASSUME NEW x, Finish(w, x), Fenced(w) => Records(w, x) \/ x = row[s]
      PROVE  Ends(w)
  <2>1. row' = IF Fenced(w) THEN [row EXCEPT ![s] = x] ELSE row BY <1>3 DEF Finish
  <2>2. CASE Fenced(w) /\ x = row[s] BY <1>0, <1>1, <1>3, <2>1, <2>2 DEF Ends, Finish
  <2>3. CASE Fenced(w) /\ Records(w, x) BY <1>1, <1>3, <2>3 DEF Ends, Finish
  <2>4. CASE ~Fenced(w) BY <1>1, <1>3, <2>1, <2>4 DEF Ends, Finish
  <2> QED BY <1>3, <2>2, <2>3, <2>4
<1>4. /\ Released(s) \in Row /\ Released(s).lease = "none" /\ Released(s).epoch = row[s].epoch
      /\ Released(s).projected = row[s].projected /\ Released(s).status = row[s].status
  BY <1>2 DEF Released, Row
<1>5. CASE Acknowledge(w)
  <2> DEFINE status == IF row[s].status = "disabling" THEN row[s].status ELSE "active"
             x == [Released(s) EXCEPT !.projected = worker[w].version, !.status = status]
  <2>1. Finish(w, x) BY <1>4, <1>5 DEF Acknowledge
  <2>2. worker[w].version \in Version /\ status \in {"active", "disabling"} BY <1>0 DEF WorkerState
  <2>3. status = row[s].status \/ status = "active" OBVIOUS
  <2> HIDE DEF status
  <2>4. /\ x \in Row /\ x.lease = "none" /\ x.epoch = row[s].epoch
        /\ x.projected = worker[w].version /\ x.status = status
    BY <1>4, <2>2 DEF Row
  <2> HIDE DEF x
  <2>5. Fenced(w) => Records(w, x)
    BY <1>5, <2>1, <2>3, <2>4 DEF Records, Acknowledge, Finish
  <2> QED BY <1>3, <2>1, <2>5
<1>6. CASE FinishDisable(w)
  <2> DEFINE x == [Released(s) EXCEPT !.status = "disabled"]
  <2>1. CASE row[s].status = "disabling"
    <3>1. Finish(w, x) BY <1>6, <2>1 DEF FinishDisable
    <3>2. /\ x \in Row /\ x.lease = "none" /\ x.epoch = row[s].epoch
          /\ x.projected = row[s].projected /\ x.status = "disabled"
      BY <1>4 DEF Row
    <3> HIDE DEF x
    <3>3. Fenced(w) => Records(w, x) BY <1>6, <3>1, <3>2 DEF Records, FinishDisable, Finish
    <3> QED BY <1>3, <3>1, <3>3
  <2>2. CASE row[s].status # "disabling"
    <3>1. Finish(w, row[s]) BY <1>6, <2>2 DEF FinishDisable
    <3> QED BY <1>3, <3>1
  <2> QED BY <2>1, <2>2
<1>7. CASE Release(w)
  <2>1. Finish(w, Released(s)) BY <1>7 DEF Release
  <2>2. Fenced(w) => Records(w, Released(s)) BY <1>4, <2>1 DEF Records, Finish
  <2> QED BY <1>3, <2>1, <2>2
<1>8. CASE Fail(w)
  <2> DEFINE failure == IF row[s].status = "disabling" THEN row[s].status
                        ELSE FailureStatus(worker[w])
             x == [Released(s) EXCEPT !.status = failure]
  <2>1. Finish(w, x) BY <1>4, <1>8 DEF Fail
  <2>2. worker[w].pc \in {"retry", "block", "rebuild_required"} /\ worker[w].disabling \in BOOLEAN
    BY <1>0, <1>8 DEF Fail, WorkerState
  <2>3. FailureStatus(worker[w]) \in {row[s].status, "blocked", "rebuild_required"}
    <3>1. CASE worker[w].pc = "retry" \/ worker[w].disabling = TRUE BY <3>1 DEF FailureStatus
    <3>2. CASE worker[w].pc = "block" /\ worker[w].disabling = FALSE BY <3>2 DEF FailureStatus
    <3>3. CASE worker[w].pc = "rebuild_required" /\ worker[w].disabling = FALSE
      BY <3>3 DEF FailureStatus
    <3> QED BY <2>2, <3>1, <3>2, <3>3
  <2>4. failure \in {row[s].status, "blocked", "rebuild_required"} BY <2>3
  <2> HIDE DEF failure
  <2>5. /\ x \in Row /\ x.lease = "none" /\ x.epoch = row[s].epoch
        /\ x.projected = row[s].projected /\ x.status = failure
    BY <1>2, <1>4, <2>4 DEF Row
  <2> HIDE DEF x
  <2>6. Fenced(w) => Records(w, x) BY <2>1, <2>4, <2>5 DEF Records, Finish
  <2> QED BY <1>3, <2>1, <2>6
<1>9. CASE Crash(w) BY <1>1, <1>9 DEF Crash, Ends
<1> QED BY <1>5, <1>6, <1>7, <1>8, <1>9

(* The authority check. *)
LEMMA SendKinds ==
  ASSUME TypeOK, NEW w \in Worker, Send(w)
  PROVE  Sends(w) \/ Ends(w)
<1>0. worker \in [Worker -> WorkerState] BY DEF TypeOK
<1>1. CASE Holds(w) BY <1>0, <1>1 DEF Send, Sends, Goto
<1>2. CASE ~Holds(w) BY <1>2 DEF Send, Ends
<1> QED BY <1>1, <1>2

(* Every step is one of these. *)
LEMMA StepKinds ==
  ASSUME TypeOK, \A w \in Worker : ClaimOK(w), [Next]_vars
  PROVE  \/ \E s \in Stream : Accepts(s) \/ \E x : Turns(s, x)
         \/ \E w \in Worker : \/ \E s \in Stream : \E work : Takes(w, s, work)
                              \/ \E next : GoesOn(w, next)
                              \/ Sends(w) \/ Ends(w)
         \/ \E r \in net : Run(r)
         \/ Edit \/ Wipe
         \/ UNCHANGED <<head, row, target, net, worker>>
<1>1. ASSUME NEW s \in Stream, Accept(s) PROVE Accepts(s) BY <1>1 DEF Accept, Accepts
<1>2. CASE \E s \in Stream : \/ Accept(s) \/ Enable(s) \/ Disable(s) \/ DisableUnfenced(s)
                             \/ ExpireAbandoned(s) \/ ExpireInUse(s)
  BY <1>1, <1>2, TurnKinds
<1>3. ASSUME NEW w \in Worker,
             \E s \in Stream : Claim(w, s) \/ ClaimReconcile(w, s) \/ ClaimStream(w, s)
      PROVE  \E s \in Stream : \E work : Takes(w, s, work)
  BY <1>3, TakeKinds
<1>4. ASSUME NEW w \in Worker,
             \/ WorkFor(w) \/ Observe(w) \/ ObserveToFence(w) \/ Verify(w) \/ VerifyFence(w)
             \/ ContainsAll(w) \/ TooLate(w) \/ Error(w)
      PROVE  \E next : GoesOn(w, next)
  BY <1>4, WorkKinds, ObserveKinds, VerifyKinds
<1>5. ASSUME NEW w \in Worker,
             \/ Send(w) \/ Acknowledge(w) \/ FinishDisable(w) \/ Release(w) \/ Fail(w) \/ Crash(w)
      PROVE  Sends(w) \/ Ends(w)
  BY <1>5, SendKinds, EndKinds
<1>6. ASSUME NEW w \in Worker,
             \/ WorkerStep(w) \/ TooLate(w) \/ Error(w) \/ Crash(w)
             \/ \E s \in Stream : ClaimReconcile(w, s) \/ ClaimStream(w, s)
      PROVE  \/ \E s \in Stream : \E work : Takes(w, s, work)
             \/ \E next : GoesOn(w, next)
             \/ Sends(w) \/ Ends(w)
  BY <1>3, <1>4, <1>5, <1>6 DEF WorkerStep
<1> QED BY <1>2, <1>6 DEF Next, vars

-----------------------------------------------------------------------------
(* Claims. *)

CInv == TypeOK /\ (\A w \in Worker : ClaimOK(w)) /\ OneClaim

(* What is left of the budget stays a budget. *)
LEMMA LeftType == left \in [Kind -> Nat] /\ [Next]_vars => left' \in [Kind -> Nat]
<1> SUFFICES ASSUME left \in [Kind -> Nat], [Next]_vars PROVE left' \in [Kind -> Nat] OBVIOUS
<1>1. ASSUME NEW e, Spend(e) PROVE left' \in [Kind -> Nat] BY SMT, <1>1 DEF Spend, KindOf, Kind
<1>2. ASSUME NEW s \in Stream,
             \/ Accept(s) \/ Enable(s) \/ Disable(s) \/ DisableUnfenced(s) \/ ExpireInUse(s)
      PROVE  \E e : Spend(e)
  BY <1>2 DEF Accept, Enable, Disable, DisableUnfenced, ExpireInUse
<1>3. ASSUME NEW w \in Worker,
             \/ \E s \in Stream : ClaimReconcile(w, s) \/ ClaimStream(w, s)
             \/ TooLate(w) \/ Error(w) \/ Crash(w)
      PROVE  \E e : Spend(e)
  BY <1>3 DEF ClaimReconcile, ClaimStream, TooLate, Error, Crash
<1>4. Edit \/ Wipe => \E e : Spend(e) BY DEF Edit, Wipe
<1>5. ASSUME NEW w \in Worker, WorkerStep(w) PROVE UNCHANGED left
  BY <1>5 DEF WorkerStep, Claim, WorkFor, Observe, ObserveToFence, Send, Verify, VerifyFence,
     ContainsAll, Acknowledge, FinishDisable, Release, Fail, Finish
<1>6. ASSUME NEW s \in Stream, ExpireAbandoned(s) PROVE UNCHANGED left
  BY <1>6 DEF ExpireAbandoned
<1>7. ASSUME NEW r, Run(r) PROVE UNCHANGED left BY <1>7 DEF Run
<1>8. (\E e : Spend(e)) \/ UNCHANGED left
  BY <1>2, <1>3, <1>4, <1>5, <1>6, <1>7 DEF Next, vars
<1> QED BY <1>1, <1>8

(* The row and the worker of a claim. *)
LEMMA TakeWrites ==
  ASSUME TypeOK, NEW w \in Worker, NEW s \in Stream, NEW work, Takes(w, s, work)
  PROVE  /\ row'[s].epoch = row[s].epoch + 1 /\ row'[s].lease = "live"
         /\ row'[s].projected = row[s].projected /\ row'[s].status = row[s].status
         /\ row'[s] \in Row /\ row' = [row EXCEPT ![s] = row'[s]]
         /\ worker'[w].pc = "claimed" /\ worker'[w].stream = s
         /\ worker'[w].epoch = row[s].epoch + 1 /\ worker'[w].recorded = row[s].projected
         /\ worker'[w].version = 0 /\ worker'[w].head = 0 /\ worker'[w].mode = "none"
         /\ worker'[w].expected = NoMarker /\ worker'[w].work = work
         /\ worker'[w] \in WorkerState /\ worker' = [worker EXCEPT ![w] = worker'[w]]
         /\ worker[w].pc = "idle" /\ UNCHANGED <<head, target, net>>
<1> DEFINE next == [IdleWorker EXCEPT !.pc = "claimed", !.stream = s, !.epoch = row[s].epoch + 1,
                                      !.disabling = row[s].status = "disabling",
                                      !.recorded = row[s].projected, !.work = work]
           x == [row[s] EXCEPT !.lease = "live", !.epoch = @ + 1]
<1>0. row \in [Stream -> Row] /\ row[s] \in Row /\ worker \in [Worker -> WorkerState]
  BY DEF TypeOK
<1>1. row' = [row EXCEPT ![s] = x] /\ worker' = [worker EXCEPT ![w] = next]
  BY <1>0 DEF Takes, Lease
<1>2. row'[s] = x /\ worker'[w] = next BY <1>0, <1>1
<1>3. /\ x.epoch = row[s].epoch + 1 /\ x.lease = "live"
      /\ x.projected = row[s].projected /\ x.status = row[s].status
  BY <1>0 DEF Row
<1>7. x \in Row
  <2> DEFINE e == row[s].epoch + 1
  <2>1. e \in Nat BY SMT, <1>0 DEF Row
  <2>2. x = [row[s] EXCEPT !.lease = "live", !.epoch = e] OBVIOUS
  <2> HIDE DEF e, x
  <2> QED BY <1>0, <2>1, <2>2 DEF Row
<1>4. /\ next.pc = "claimed" /\ next.stream = s
      /\ next.epoch = row[s].epoch + 1 /\ next.recorded = row[s].projected
      /\ next.version = 0 /\ next.head = 0 /\ next.mode = "none"
      /\ next.expected = NoMarker /\ next.work = work
  BY DEF IdleWorker
<1>5. next \in WorkerState
  <2>1. row[s].epoch + 1 \in Nat /\ row[s].projected \in Version BY SMT, <1>0 DEF Row
  <2>2. work \in {"pending", "recorded", "head"} BY DEF Takes
  <2>3. s \in StreamOrNone /\ NoMarker \in Marker BY Constants DEF StreamOrNone
  <2> QED BY <2>1, <2>2, <2>3 DEF IdleWorker, WorkerState, Version, Mode
<1>6. worker[w].pc = "idle" /\ UNCHANGED <<head, target, net>> BY DEF Takes, Lease
<1> HIDE DEF x, next
<1> QED BY <1>1, <1>2, <1>3, <1>4, <1>5, <1>6, <1>7

(* Every step keeps the types. *)
LEMMA NextTypeOK == CInv /\ [Next]_vars => TypeOK'
<1> SUFFICES ASSUME CInv, [Next]_vars PROVE TypeOK' OBVIOUS
<1>0. /\ TypeOK /\ \A w \in Worker : ClaimOK(w) BY DEF CInv
<1>1. /\ head \in [Stream -> Nat] /\ row \in [Stream -> Row] /\ target \in Target
      /\ net \subseteq Message /\ worker \in [Worker -> WorkerState]
      /\ \A s \in Stream : row[s].projected <= head[s]
  BY <1>0 DEF TypeOK
<1>2. left' \in [Kind -> Nat] BY <1>0, LeftType DEF TypeOK
<1>3. \A s \in Stream : row[s].projected \in Nat BY <1>1 DEF Row, Version
<1>4. ASSUME NEW s \in Stream, Accepts(s) PROVE TypeOK'
  BY SMT, <1>1, <1>2, <1>3, <1>4 DEF Accepts, TypeOK
<1>5. ASSUME NEW s \in Stream, NEW x, Turns(s, x) PROVE TypeOK'
  BY <1>1, <1>2, <1>5 DEF Turns, TypeOK
<1>6. ASSUME NEW w \in Worker, NEW s \in Stream, NEW work, Takes(w, s, work) PROVE TypeOK'
  <2>1. /\ row'[s].projected = row[s].projected /\ row'[s] \in Row
        /\ row' = [row EXCEPT ![s] = row'[s]] /\ UNCHANGED <<head, target, net>>
        /\ worker'[w] \in WorkerState /\ worker' = [worker EXCEPT ![w] = worker'[w]]
    BY SMT, <1>0, <1>6, TakeWrites
  <2>2. row' \in [Stream -> Row] /\ worker' \in [Worker -> WorkerState] BY <1>1, <2>1
  <2>3. \A u \in Stream : row'[u].projected <= head'[u] BY <1>1, <2>1
  <2> QED BY <1>1, <1>2, <2>1, <2>2, <2>3 DEF TypeOK
<1>7. ASSUME NEW w \in Worker, NEW next, GoesOn(w, next) PROVE TypeOK'
  BY <1>1, <1>2, <1>7 DEF GoesOn, TypeOK
<1>8. ASSUME NEW w \in Worker, Sends(w) PROVE TypeOK'
  <2>1. /\ worker[w] \in WorkerState /\ worker[w].stream \in Stream
        /\ worker[w].mode \in {"replace", "conditional", "fence"}
    BY <1>0, <1>1, <1>8 DEF Sends, ClaimOK
  <2>2. Request(worker[w]) \in Message BY <2>1, RequestType
  <2>3. [worker[w] EXCEPT !.pc = "sent"] \in WorkerState BY <2>1 DEF WorkerState
  <2>4. worker' \in [Worker -> WorkerState] BY <1>1, <1>8, <2>3 DEF Sends
  <2> QED BY <1>1, <1>2, <1>8, <2>2, <2>4 DEF Sends, TypeOK
<1>9. ASSUME NEW w \in Worker, Ends(w) PROVE TypeOK'
  <2>1. worker' \in [Worker -> WorkerState] BY <1>1, <1>9, Constants DEF Ends
  <2>2. row' \in [Stream -> Row] /\ \A s \in Stream : row'[s].projected <= head[s]
    <3>1. CASE UNCHANGED row BY <1>1, <3>1
    <3>2. ASSUME NEW x, Records(w, x)
          PROVE  row' \in [Stream -> Row] /\ \A s \in Stream : row'[s].projected <= head[s]
      <4>1. worker[w].stream \in Stream /\ worker[w].version <= head[worker[w].stream]
        BY <1>0, <1>9 DEF Ends, ClaimOK
      <4> QED BY <1>1, <3>2, <4>1 DEF Records
    <3> QED BY <1>9, <3>1, <3>2 DEF Ends
  <2> QED BY <1>1, <1>2, <1>9, <2>1, <2>2 DEF Ends, TypeOK
<1>10. ASSUME NEW r \in net, Run(r) PROVE TypeOK'
  <2>1. target' \in Target BY <1>1, <1>10, UpdateType DEF Run
  <2>2. \A v \in Worker : [worker[v] EXCEPT !.pc = "verify"] \in WorkerState
    BY SMT, <1>1 DEF WorkerState
  <2>3. worker' \in [Worker -> WorkerState] BY <1>1, <1>10, <2>2 DEF Run
  <2> QED BY <1>1, <1>2, <1>10, <2>1, <2>3 DEF Run, TypeOK
<1>11. CASE Edit
  <2>1. target' \in Target BY <1>1, <1>11, Constants DEF Edit, Target
  <2> QED BY <1>1, <1>2, <1>11, <2>1 DEF Edit, TypeOK
<1>12. CASE Wipe
  <2>1. target' \in Target BY <1>12, Constants DEF Wipe, Target
  <2> QED BY <1>1, <1>2, <1>12, <2>1 DEF Wipe, TypeOK
<1>13. CASE UNCHANGED <<head, row, target, net, worker>> BY <1>1, <1>2, <1>13 DEF TypeOK
<1> QED BY <1>0, <1>4, <1>5, <1>6, <1>7, <1>8, <1>9, <1>10, <1>11, <1>12, <1>13, StepKinds

(* What it takes to find the target up to date. *)
LEMMA PlanAcknowledges ==
  ASSUME NEW view \in WorkerState, NEW t \in Target, Plan(view, t) = "acknowledge"
  PROVE  /\ t.marker.shape = "present" /\ t.marker.stream = view.stream
         /\ t.marker.version >= view.version /\ t.marker.version <= view.head
         /\ t.marker.commit = CommitAt(t.marker.stream, t.marker.version)
         /\ t.marker.count = t.graph
<1>0. t.marker \in Marker BY DEF Target
<1>1. t.marker.version \in Nat /\ view.version \in Nat /\ view.head \in Nat
  BY <1>0 DEF Marker, WorkerState, Version
<1>2. ~RecoveryRequired(view, t.marker) /\ ~RebuildReason(view, t) /\ ~FirstOrBehind(view, t.marker)
  BY DEF Plan
<1>3. t.marker.shape = "present" BY <1>0, <1>2 DEF RebuildReason, FirstOrBehind, MarkerRead, Marker
<1> QED BY SMT, <1>1, <1>2, <1>3 DEF RecoveryRequired, RebuildReason, FirstOrBehind, MarkerRead

(* A worker that does nothing keeps its claim or loses it. *)
LEMMA KeptClaim ==
  ASSUME TypeOK, TypeOK', NEW w \in Worker, ClaimOK(w), worker'[w] = worker[w],
         \A s \in Stream : head'[s] >= head[s] /\ row'[s].epoch >= row[s].epoch,
         worker[w].pc # "idle" /\ Fenced(w)' =>
            Fenced(w) /\ row'[worker[w].stream].projected = row[worker[w].stream].projected
  PROVE  ClaimOK(w)'
<1> DEFINE me == worker[w]
<1>0. /\ me \in WorkerState /\ head \in [Stream -> Nat] /\ head' \in [Stream -> Nat]
      /\ \A s \in Stream : row[s].epoch \in Nat /\ row'[s].epoch \in Nat
  BY DEF TypeOK, Row
<1>1. me.epoch \in Nat /\ me.recorded \in Nat /\ me.head \in Nat /\ me.version \in Nat
  BY <1>0 DEF WorkerState, Version
<1>2. me.pc # "idle" =>
        /\ me.stream \in Stream /\ me.epoch \in 1 .. row'[me.stream].epoch
        /\ me.recorded <= head'[me.stream] /\ me.head <= head'[me.stream]
        /\ me.version <= head'[me.stream]
        /\ Fenced(w)' => me.recorded = row'[me.stream].projected
  <2> SUFFICES ASSUME me.pc # "idle"
               PROVE  /\ me.stream \in Stream /\ me.epoch \in 1 .. row'[me.stream].epoch
                      /\ me.recorded <= head'[me.stream] /\ me.head <= head'[me.stream]
                      /\ me.version <= head'[me.stream]
                      /\ Fenced(w)' => me.recorded = row'[me.stream].projected
    OBVIOUS
  <2>1. /\ me.stream \in Stream /\ me.epoch \in 1 .. row[me.stream].epoch
        /\ me.recorded <= head[me.stream] /\ me.head <= head[me.stream]
        /\ me.version <= head[me.stream]
        /\ Fenced(w) => me.recorded = row[me.stream].projected
    BY DEF ClaimOK
  <2>2. head[me.stream] \in Nat /\ head'[me.stream] \in Nat
        /\ row[me.stream].epoch \in Nat /\ row'[me.stream].epoch \in Nat
        /\ head'[me.stream] >= head[me.stream] /\ row'[me.stream].epoch >= row[me.stream].epoch
    BY <1>0, <2>1
  <2>3. me.epoch \in 1 .. row'[me.stream].epoch BY SMT, <1>1, <2>1, <2>2
  <2>4. /\ me.recorded <= head'[me.stream] /\ me.head <= head'[me.stream]
        /\ me.version <= head'[me.stream]
    BY SMT, <1>1, <2>1, <2>2
  <2>5. Fenced(w)' => me.recorded = row'[me.stream].projected BY <2>1
  <2> QED BY <2>1, <2>3, <2>4, <2>5
<1> QED BY <1>2 DEF ClaimOK

(* The worker that goes on. *)
LEMMA GoesOnClaim ==
  ASSUME TypeOK, NEW w \in Worker, ClaimOK(w), NEW next, GoesOn(w, next)
  PROVE  ClaimOK(w)'
<1> DEFINE me == worker[w]
<1>0. /\ me \in WorkerState /\ head \in [Stream -> Nat] /\ worker'[w] = next /\ next \in WorkerState
      /\ UNCHANGED <<head, row, target>> /\ me.pc # "idle" /\ target \in Target
      /\ target.marker.version \in Nat
  BY DEF TypeOK, GoesOn, Target, Marker, Version
<1>1. /\ me.stream \in Stream /\ me.epoch \in 1 .. row[me.stream].epoch
      /\ me.recorded <= head[me.stream] /\ me.head <= head[me.stream]
      /\ me.version <= head[me.stream]
      /\ Fenced(w) => me.recorded = row[me.stream].projected
      /\ me.pc \in {"claimed", "work"} => me.mode = "none"
      /\ me.pc \in {"ready", "sent", "verify"} => me.mode \in {"replace", "conditional", "fence"}
      /\ me.pc = "contains" => me.mode = "replace"
      /\ me.pc \in Going /\ me.mode # "fence" => me.version >= 1 /\ me.recorded <= me.version
      /\ me.pc = "work" => me.version <= me.head
  BY <1>0 DEF ClaimOK
<1>2. /\ me.epoch \in Nat /\ me.recorded \in Nat /\ me.head \in Nat /\ me.version \in Nat
      /\ head[me.stream] \in Nat /\ next.version \in Nat /\ next.head \in Nat
  BY <1>0, <1>1 DEF WorkerState, Version
<1>3. /\ next.stream = me.stream /\ next.epoch = me.epoch /\ next.recorded = me.recorded
      /\ Fenced(w)' <=> Fenced(w)
  BY <1>0 DEF GoesOn, SameClaim, Fenced
<1>4. SUFFICES /\ next.pc # "idle"
               /\ next.version <= head[me.stream] /\ next.head <= head[me.stream]
               /\ next.pc \in {"claimed", "work"} => next.mode = "none"
               /\ next.pc \in {"ready", "sent", "verify"} =>
                    next.mode \in {"replace", "conditional", "fence"}
               /\ next.pc = "contains" => next.mode = "replace"
               /\ next.pc = "acknowledge" =>
                    next.mode \in {"replace", "conditional", "fence", "acknowledge"}
               /\ next.pc \in Going /\ next.mode # "fence" =>
                    next.version >= 1 /\ next.recorded <= next.version
               /\ next.pc = "work" => next.version <= next.head
  BY <1>0, <1>1, <1>3 DEF ClaimOK
<1>5. CASE GivesUp(me, next) BY <1>5 DEF GivesUp, Ended, Going
<1>6. CASE Works(me, next) BY SMT, <1>1, <1>2, <1>3, <1>6 DEF Works, Going
<1>7. CASE ObservesToFence(me, next) BY <1>1, <1>7 DEF ObservesToFence, Going
<1>8. CASE ObservesToWrite(me, next) BY <1>1, <1>3, <1>8 DEF ObservesToWrite, Going
<1>9. CASE ObservesDone(me, next)
  <2>1. target.marker.version >= me.version /\ target.marker.version <= me.head
    BY <1>0, <1>9, PlanAcknowledges DEF ObservesDone
  <2> QED BY SMT, <1>0, <1>1, <1>2, <1>3, <1>9, <2>1 DEF ObservesDone, Going
<1>10. CASE Confirms(me, next)
  <2>1. /\ next.version = me.version /\ next.head = me.head /\ next.mode = me.mode
    BY <1>0, <1>10 DEF Confirms, WorkerState
  <2>2. /\ me.pc \in {"verify", "contains"} /\ next.pc \in {"contains", "acknowledge"}
        /\ next.pc = "contains" => me.mode = "replace"
    BY <1>10 DEF Confirms
  <2> QED BY <1>1, <1>3, <2>1, <2>2 DEF Going
<1> QED BY <1>5, <1>6, <1>7, <1>8, <1>9, <1>10 DEF GoesOn

(* Every step keeps what a worker knows true. *)
LEMMA NextClaims == CInv /\ [Next]_vars => \A v \in Worker : ClaimOK(v)'
<1> SUFFICES ASSUME CInv, [Next]_vars, NEW v \in Worker PROVE ClaimOK(v)' OBVIOUS
<1>0. TypeOK /\ TypeOK' /\ (\A w \in Worker : ClaimOK(w)) /\ ClaimOK(v)
  BY NextTypeOK DEF CInv
<1>1. /\ head \in [Stream -> Nat] /\ row \in [Stream -> Row] /\ worker \in [Worker -> WorkerState]
      /\ \A s \in Stream : row[s].epoch \in Nat
  BY <1>0 DEF TypeOK, Row
<1>2. worker[v].pc # "idle" => worker[v].stream \in Stream /\ worker[v].epoch \in 1 .. row[worker[v].stream].epoch
  BY <1>0 DEF ClaimOK
<1>3. ASSUME UNCHANGED <<head, row>>, worker'[v] = worker[v] PROVE ClaimOK(v)'
  BY SMT, <1>0, <1>1, <1>3, KeptClaim DEF Fenced
<1>4. ASSUME NEW s \in Stream, Accepts(s) PROVE ClaimOK(v)'
  <2>1. \A u \in Stream : head'[u] >= head[u] /\ row'[u].epoch >= row[u].epoch
    BY SMT, <1>1, <1>4 DEF Accepts
  <2> QED BY <1>0, <1>4, <2>1, KeptClaim DEF Accepts, Fenced
<1>5. ASSUME NEW s \in Stream, NEW x, Turns(s, x) PROVE ClaimOK(v)'
  <2>1. /\ row' = [row EXCEPT ![s] = x] /\ UNCHANGED <<head, worker>>
        /\ x.projected = row[s].projected /\ x.epoch = row[s].epoch
        /\ x.lease # "none" => row[s].lease # "none"
    BY <1>5 DEF Turns
  <2>2. \A u \in Stream : /\ row'[u].epoch = row[u].epoch /\ row'[u].projected = row[u].projected
                          /\ row'[u].lease # "none" => row[u].lease # "none"
    BY <1>1, <2>1
  <2>3. \A u \in Stream : head'[u] >= head[u] /\ row'[u].epoch >= row[u].epoch
    BY SMT, <1>1, <2>1, <2>2
  <2>4. worker[v].pc # "idle" /\ Fenced(v)' =>
          Fenced(v) /\ row'[worker[v].stream].projected = row[worker[v].stream].projected
    BY <1>2, <2>1, <2>2 DEF Fenced
  <2> QED BY <1>0, <2>1, <2>3, <2>4, KeptClaim
<1>6. ASSUME NEW w \in Worker, NEW s \in Stream, NEW work, Takes(w, s, work) PROVE ClaimOK(v)'
  <2>1. /\ row'[s].epoch = row[s].epoch + 1 /\ row'[s].projected = row[s].projected
        /\ row' = [row EXCEPT ![s] = row'[s]]
        /\ worker'[w].pc = "claimed" /\ worker'[w].stream = s
        /\ worker'[w].epoch = row[s].epoch + 1 /\ worker'[w].recorded = row[s].projected
        /\ worker'[w].version = 0 /\ worker'[w].head = 0 /\ worker'[w].mode = "none"
        /\ worker' = [worker EXCEPT ![w] = worker'[w]] /\ UNCHANGED head
    BY SMT, <1>0, <1>6, TakeWrites
  <2>2. CASE v = w
    <3>1. row[s].projected <= head'[s] /\ 0 <= head'[s] /\ row[s].epoch + 1 \in 1 .. row'[s].epoch
      BY SMT, <1>0, <1>1, <2>1 DEF TypeOK
    <3> QED BY <2>1, <2>2, <3>1 DEF ClaimOK, Going, Fenced
  <2>3. CASE v # w
    <3>1. worker'[v] = worker[v] BY <1>1, <2>1, <2>3
    <3>2. \A u \in Stream : head'[u] >= head[u] /\ row'[u].epoch >= row[u].epoch
      BY SMT, <1>1, <2>1
    <3>3. ASSUME worker[v].pc # "idle", Fenced(v)'
          PROVE  Fenced(v) /\ row'[worker[v].stream].projected = row[worker[v].stream].projected
      <4>1. row'[worker[v].stream].epoch = worker[v].epoch BY <3>1, <3>3 DEF Fenced
      <4>2. worker[v].stream # s BY SMT, <1>1, <1>2, <2>1, <3>3, <4>1
      <4>3. row'[worker[v].stream] = row[worker[v].stream] BY <1>1, <1>2, <2>1, <3>3, <4>2
      <4> QED BY <3>1, <3>3, <4>3 DEF Fenced
    <3> QED BY <1>0, <3>1, <3>2, <3>3, KeptClaim
  <2> QED BY <2>2, <2>3
<1>7. ASSUME NEW w \in Worker, NEW next, GoesOn(w, next) PROVE ClaimOK(v)'
  <2>1. CASE v = w BY <1>0, <1>7, <2>1, GoesOnClaim
  <2>2. CASE v # w BY <1>1, <1>3, <1>7, <2>2 DEF GoesOn
  <2> QED BY <2>1, <2>2
<1>8. ASSUME UNCHANGED <<head, row>>, worker[v].pc # "idle", NEW p, worker'[v] = [worker[v] EXCEPT !.pc = p],
             \/ worker[v].pc = "ready" /\ p = "sent"
             \/ worker[v].pc = "sent" /\ p = "verify"
      PROVE  ClaimOK(v)'
  <2> DEFINE me == worker[v]
             next == worker'[v]
  <2>1. /\ next.pc = p /\ next.stream = me.stream /\ next.epoch = me.epoch
        /\ next.recorded = me.recorded /\ next.version = me.version /\ next.head = me.head
        /\ next.mode = me.mode
    BY <1>1, <1>8 DEF WorkerState
  <2>2. Fenced(v)' <=> Fenced(v) BY <1>8, <2>1 DEF Fenced
  <2> QED BY <1>0, <1>8, <2>1, <2>2 DEF ClaimOK, Going
<1>9. ASSUME NEW w \in Worker, Sends(w) PROVE ClaimOK(v)'
  <2>1. CASE v = w BY <1>1, <1>8, <1>9, <2>1 DEF Sends
  <2>2. CASE v # w BY <1>1, <1>3, <1>9, <2>2 DEF Sends
  <2> QED BY <2>1, <2>2
<1>10. ASSUME NEW w \in Worker, Ends(w) PROVE ClaimOK(v)'
  <2>1. CASE v = w BY <1>1, <1>10, <2>1 DEF Ends, ClaimOK, IdleWorker, Going
  <2>2. CASE v # w
    <3>1. worker'[v] = worker[v] /\ UNCHANGED head BY <1>1, <1>10, <2>2 DEF Ends
    <3>2. CASE UNCHANGED row BY <1>3, <3>1, <3>2
    <3>3. ASSUME NEW x, Records(w, x) PROVE ClaimOK(v)'
      <4>1. worker[w].stream \in Stream BY <1>0, <1>10 DEF Ends, ClaimOK
      <4>2. /\ row' = [row EXCEPT ![worker[w].stream] = x] /\ x.lease = "none"
            /\ x.epoch = row[worker[w].stream].epoch
        BY <3>3 DEF Records
      <4>3. \A u \in Stream : head'[u] >= head[u] /\ row'[u].epoch >= row[u].epoch
        BY SMT, <1>1, <3>1, <4>1, <4>2
      <4>4. ASSUME worker[v].pc # "idle", Fenced(v)'
            PROVE  Fenced(v) /\ row'[worker[v].stream].projected = row[worker[v].stream].projected
        <5>1. worker[v].stream # worker[w].stream BY <1>1, <1>2, <3>1, <4>1, <4>2, <4>4 DEF Fenced
        <5>2. row'[worker[v].stream] = row[worker[v].stream] BY <1>1, <1>2, <4>2, <4>4, <5>1
        <5> QED BY <3>1, <4>4, <5>2 DEF Fenced
      <4> QED BY <1>0, <3>1, <4>3, <4>4, KeptClaim
    <3> QED BY <1>10, <3>2, <3>3 DEF Ends
  <2> QED BY <2>1, <2>2
<1>11. ASSUME NEW r \in net, Run(r) PROVE ClaimOK(v)'
  <2>1. /\ UNCHANGED <<head, row>>
        /\ worker'[v] = IF worker[v].pc = "sent" /\ WriteId(worker[v]) = r.writeId
                        THEN [worker[v] EXCEPT !.pc = "verify"] ELSE worker[v]
    BY <1>11 DEF Run
  <2>2. CASE worker[v].pc = "sent" /\ WriteId(worker[v]) = r.writeId BY <1>8, <2>1, <2>2
  <2>3. CASE ~(worker[v].pc = "sent" /\ WriteId(worker[v]) = r.writeId) BY <1>3, <2>1, <2>3
  <2> QED BY <2>2, <2>3
<1>12. CASE Edit \/ Wipe BY <1>3, <1>12 DEF Edit, Wipe
<1>13. CASE UNCHANGED <<head, row, target, net, worker>> BY <1>3, <1>13
<1> QED BY <1>0, <1>4, <1>5, <1>6, <1>7, <1>9, <1>10, <1>11, <1>12, <1>13, StepKinds

(* A worker keeps its claim's name, or takes a name no claim has had. *)
LEMMA NamesKept ==
  ASSUME CInv, [Next]_vars, NEW v \in Worker, worker'[v].pc # "idle"
  PROVE  \/ /\ worker[v].pc # "idle" /\ WriteId(worker'[v]) = WriteId(worker[v])
            /\ worker'[v].pc \in Unsent => worker[v].pc \in Unsent
            /\ worker'[v].pc = "sent" => worker[v].pc \in {"ready", "sent"}
         \/ /\ worker'[v].pc = "claimed" /\ worker'[v].stream \in Stream
            /\ worker'[v].epoch = row[worker'[v].stream].epoch + 1
            /\ \A u \in Worker \ {v} : worker'[u] = worker[u]
<1>0. TypeOK /\ (\A w \in Worker : ClaimOK(w)) /\ worker \in [Worker -> WorkerState]
  BY DEF CInv, TypeOK
<1>1. ASSUME NEW w \in Worker, NEW s \in Stream, NEW work, Takes(w, s, work)
      PROVE  IF v = w THEN /\ worker'[v].pc = "claimed" /\ worker'[v].stream = s
                           /\ worker'[v].epoch = row[s].epoch + 1
                           /\ \A u \in Worker \ {v} : worker'[u] = worker[u]
             ELSE worker'[v] = worker[v]
  <2>1. /\ worker'[w].pc = "claimed" /\ worker'[w].stream = s
        /\ worker'[w].epoch = row[s].epoch + 1
        /\ worker' = [worker EXCEPT ![w] = worker'[w]]
    BY SMT, <1>0, <1>1, TakeWrites
  <2> QED BY <1>0, <2>1
<1>2. ASSUME NEW w \in Worker, NEW next, GoesOn(w, next)
      PROVE  \/ worker'[v] = worker[v]
             \/ /\ worker[v].pc # "idle" /\ WriteId(worker'[v]) = WriteId(worker[v])
                /\ worker'[v].pc \in Unsent => worker[v].pc \in Unsent
                /\ worker'[v].pc # "sent"
  <2>1. CASE v # w BY <1>0, <1>2, <2>1 DEF GoesOn
  <2>2. CASE v = w
    <3>1. worker'[v] = next /\ WriteId(next) = WriteId(worker[v]) /\ worker[v].pc # "idle"
      BY <1>0, <1>2, <2>2 DEF GoesOn, SameClaim, WriteId
    <3>2. (next.pc \in Unsent => worker[v].pc \in Unsent) /\ next.pc # "sent"
      BY <1>2, <2>2 DEF GoesOn, GivesUp, Works, ObservesToFence, ObservesToWrite, ObservesDone,
         Confirms, Unsent, Ended
    <3> QED BY <3>1, <3>2
  <2> QED BY <2>1, <2>2
<1>3. ASSUME NEW w \in Worker, Sends(w)
      PROVE  \/ worker'[v] = worker[v]
             \/ /\ worker[v].pc = "ready" /\ WriteId(worker'[v]) = WriteId(worker[v])
                /\ worker'[v].pc = "sent"
  <2>1. [worker[w] EXCEPT !.pc = "sent"].pc = "sent"
        /\ WriteId([worker[w] EXCEPT !.pc = "sent"]) = WriteId(worker[w])
    BY <1>0 DEF WorkerState, WriteId
  <2> QED BY <1>0, <1>3, <2>1 DEF Sends
<1>4. ASSUME NEW w \in Worker, Ends(w) PROVE worker'[v] = worker[v]
  BY <1>0, <1>4 DEF Ends, IdleWorker
<1>5. ASSUME NEW r \in net, Run(r)
      PROVE  \/ worker'[v] = worker[v]
             \/ /\ worker[v].pc = "sent" /\ WriteId(worker'[v]) = WriteId(worker[v])
                /\ worker'[v].pc = "verify"
  <2>1. [worker[v] EXCEPT !.pc = "verify"].pc = "verify"
        /\ WriteId([worker[v] EXCEPT !.pc = "verify"]) = WriteId(worker[v])
    BY <1>0 DEF WorkerState, WriteId
  <2> QED BY <1>5, <2>1 DEF Run
<1>6. CASE \/ \E s \in Stream : Accepts(s) \/ \E x : Turns(s, x)
           \/ Edit \/ Wipe \/ UNCHANGED <<head, row, target, net, worker>>
  BY <1>6 DEF Accepts, Turns, Edit, Wipe
<1>7. CASE \E w \in Worker : \E s \in Stream : \E work : Takes(w, s, work) BY <1>1, <1>7
<1>8. CASE \E w \in Worker : \/ \E next : GoesOn(w, next)
                             \/ Sends(w) \/ Ends(w)
  BY <1>2, <1>3, <1>4, <1>8 DEF Unsent
<1>9. CASE \E r \in net : Run(r) BY <1>5, <1>9 DEF Unsent
<1> QED BY <1>0, <1>6, <1>7, <1>8, <1>9, StepKinds

(* No two claims have one name. *)
LEMMA NextOneClaim == CInv /\ [Next]_vars => OneClaim'
<1> SUFFICES ASSUME CInv, [Next]_vars, NEW v \in Worker, NEW w \in Worker, v # w,
                    worker'[v].pc # "idle", worker'[w].pc # "idle",
                    WriteId(worker'[v]) = WriteId(worker'[w])
             PROVE  FALSE
  BY DEF OneClaim
<1>0. \A u \in Worker : worker[u].pc # "idle" =>
        worker[u].stream \in Stream /\ worker[u].epoch \in 1 .. row[worker[u].stream].epoch
  BY DEF CInv, ClaimOK
<1>1. \A s \in Stream : row[s].epoch \in Nat BY DEF CInv, TypeOK, Row
<1>2. worker'[v].stream = worker'[w].stream /\ worker'[v].epoch = worker'[w].epoch BY DEF WriteId
<1>3. ASSUME NEW a \in Worker, NEW b \in Worker, a # b, worker'[b].pc # "idle",
             worker'[a].stream = worker'[b].stream, worker'[a].epoch = worker'[b].epoch,
             worker'[a].stream \in Stream,
             worker'[a].epoch = row[worker'[a].stream].epoch + 1,
             \A u \in Worker \ {a} : worker'[u] = worker[u]
      PROVE  FALSE
  <2>1. worker'[b] = worker[b] BY <1>3
  <2>2. PICK s \in Stream : s = worker[b].stream BY <1>0, <1>3, <2>1
  <2>3. worker[b].epoch \in 1 .. row[s].epoch BY <1>0, <1>3, <2>1, <2>2
  <2>4. worker[b].epoch = row[s].epoch + 1 BY <1>3, <2>1, <2>2
  <2>5. row[s].epoch \in Nat BY <1>1
  <2> QED BY SMT, <2>3, <2>4, <2>5
<1>4. /\ worker[v].pc # "idle" /\ WriteId(worker'[v]) = WriteId(worker[v])
      /\ worker[w].pc # "idle" /\ WriteId(worker'[w]) = WriteId(worker[w])
  BY <1>2, <1>3, NamesKept
<1> QED BY <1>4 DEF CInv, OneClaim

LEMMA NextCInv == CInv /\ [Next]_vars => CInv'
  BY NextTypeOK, NextClaims, NextOneClaim DEF CInv

LEMMA InitCInv == Init => CInv
<1> SUFFICES ASSUME Init PROVE CInv OBVIOUS
<1>1. TypeOK
  BY SMT, Constants, FoundAssumption, BudgetAssumption DEF Init, TypeOK, NoRow
<1>2. \A w \in Worker : ClaimOK(w) BY DEF Init, ClaimOK, IdleWorker, Going
<1>3. OneClaim BY DEF Init, OneClaim, IdleWorker
<1> QED BY <1>1, <1>2, <1>3 DEF CInv

(* The columns, the markers and the workers stay well formed. *)
LEMMA ClaimsHold == Spec => []CInv
  BY InitCInv, NextCInv, PTL DEF Spec

(* `projection_state progress never moves backwards': acknowledge records  *)
(* a version only under the claim that read the recorded one, and never an *)
(* earlier one.                                                            *)
THEOREM ProgressIsMonotone == Spec => ProgressNeverRegresses
<1>1. CInv /\ [Next]_vars => [\A s \in Stream : row'[s].projected >= row[s].projected]_vars
  <2> SUFFICES ASSUME CInv, [Next]_vars, NEW s \in Stream PROVE row'[s].projected >= row[s].projected
    OBVIOUS
  <2>0. /\ TypeOK /\ (\A w \in Worker : ClaimOK(w)) /\ row \in [Stream -> Row]
        /\ row[s].projected \in Nat
    BY DEF CInv, TypeOK, Row, Version
  <2>1. ASSUME row'[s].projected = row[s].projected PROVE row'[s].projected >= row[s].projected
    BY SMT, <2>0, <2>1
  <2>2. ASSUME NEW u \in Stream, NEW x, Turns(u, x) PROVE row'[s].projected = row[s].projected
    BY <2>0, <2>2 DEF Turns
  <2>3. ASSUME NEW w \in Worker, NEW u \in Stream, NEW work, Takes(w, u, work)
        PROVE  row'[s].projected = row[s].projected
    <3>1. row' = [row EXCEPT ![u] = row'[u]] /\ row'[u].projected = row[u].projected
      BY SMT, <2>0, <2>3, TakeWrites
    <3> QED BY <2>0, <3>1
  <2>4. ASSUME NEW w \in Worker, NEW x, worker[w].pc # "idle", Records(w, x)
        PROVE  row'[s].projected >= row[s].projected
    <3>1. CASE worker[w].stream # s BY <2>0, <2>1, <2>4, <3>1 DEF Records
    <3>2. CASE worker[w].stream = s
      <4>1. row'[s] = x /\ Fenced(w) BY <2>0, <2>4, <3>2 DEF Records
      <4>2. x.projected = row[s].projected \/ x.projected = worker[w].version
        BY <2>4, <3>2 DEF Records
      <4>3. CASE x.projected = row[s].projected BY <2>1, <4>1, <4>3
      <4>4. CASE x.projected = worker[w].version /\ x.projected # row[s].projected
        <5>1. worker[w].pc = "acknowledge" /\ worker[w].mode # "fence"
          BY <2>4, <3>2, <4>4 DEF Records
        <5>2. worker[w].recorded = row[s].projected /\ worker[w].recorded <= worker[w].version
          BY <2>0, <2>4, <3>2, <4>1, <5>1 DEF ClaimOK, Going
        <5>3. worker[w].version \in Nat BY <2>0 DEF TypeOK, WorkerState, Version
        <5> QED BY <2>0, <4>1, <4>4, <5>2, <5>3
      <4> QED BY <4>2, <4>3, <4>4
    <3> QED BY <3>1, <3>2
  <2>5. ASSUME NEW w \in Worker, Ends(w) PROVE row'[s].projected >= row[s].projected
    BY <2>1, <2>4, <2>5 DEF Ends
  <2>6. CASE UNCHANGED row BY <2>1, <2>6
  <2> QED BY <2>0, <2>1, <2>2, <2>3, <2>5, <2>6, StepKinds DEF Accepts, GoesOn, Sends, Run, Edit, Wipe
<1> QED BY <1>1, ClaimsHold, PTL DEF Spec, ProgressNeverRegresses

-----------------------------------------------------------------------------
(* Requests. *)

(* Only an operator rebuild expects another stream's marker, or one that   *)
(* names a version the ref has not reached.                                *)
Cautious(me, operator, m) ==
    me.mode # "fence" /\ ~operator => m.stream \in {me.stream, NoStream} /\ m.version <= head[me.stream]

ReadyOK(w) ==
    worker[w].pc = "ready" => Cautious(worker[w], worker[w].work = "head", worker[w].expected)

(* A request names a claim that has been, and no claim that has not sent.  *)
SentOK(r) ==
    /\ r.writeId[1] = r.stream /\ r.writeId[2] \in 1 .. row[r.stream].epoch
    /\ r.version <= head[r.stream] /\ (r.mode # "fence" => r.version >= 1)
    /\ Cautious(r, r.operator, r.expected)
    /\ \A w \in Worker : worker[w].pc \in Unsent => WriteId(worker[w]) # r.writeId

OneRequest == \A q, r \in net : q.writeId = r.writeId => q = r

MarkerOK ==
    /\ target.marker.shape \in {"none", "fence", "malformed"} => target.marker.stream = NoStream
    /\ target.marker.shape \in {"none", "fence"} => target.marker.version = 0

PInv == /\ CInv /\ (\A w \in Worker : ReadyOK(w)) /\ (\A r \in net : SentOK(r))
        /\ OneRequest /\ MarkerOK

(* Versions and epochs only grow. *)
LEMMA Grows ==
  CInv /\ [Next]_vars => \A s \in Stream : /\ head[s] \in Nat /\ head'[s] \in Nat /\ head'[s] >= head[s]
                                           /\ row[s].epoch \in Nat /\ row'[s].epoch \in Nat
                                           /\ row'[s].epoch >= row[s].epoch
<1> SUFFICES ASSUME CInv, [Next]_vars, NEW s \in Stream
             PROVE  /\ head[s] \in Nat /\ head'[s] \in Nat /\ head'[s] >= head[s]
                    /\ row[s].epoch \in Nat /\ row'[s].epoch \in Nat /\ row'[s].epoch >= row[s].epoch
  OBVIOUS
<1>0. TypeOK /\ TypeOK' /\ \A w \in Worker : ClaimOK(w) BY NextCInv DEF CInv
<1>1. /\ head \in [Stream -> Nat] /\ row \in [Stream -> Row] /\ head[s] \in Nat /\ head'[s] \in Nat
      /\ row[s].epoch \in Nat /\ row'[s].epoch \in Nat
  BY <1>0 DEF TypeOK, Row
<1>2. head'[s] = head[s] \/ head'[s] = head[s] + 1
  BY <1>0, <1>1, StepKinds DEF Accepts, Turns, Takes, Lease, GoesOn, Sends, Ends, Run, Edit, Wipe
<1>3. ASSUME NEW w \in Worker, NEW u \in Stream, NEW work, Takes(w, u, work)
      PROVE  row'[s].epoch \in {row[s].epoch, row[s].epoch + 1}
  <2>1. row' = [row EXCEPT ![u] = row'[u]] /\ row'[u].epoch = row[u].epoch + 1
    BY SMT, <1>0, <1>3, TakeWrites
  <2> QED BY <1>1, <2>1
<1>4. ASSUME NEW u \in Stream, NEW x, Turns(u, x) PROVE row'[s].epoch = row[s].epoch
  BY <1>1, <1>4 DEF Turns
<1>5. ASSUME NEW w \in Worker, Ends(w) PROVE row'[s].epoch = row[s].epoch
  BY <1>1, <1>5 DEF Ends, Records
<1>6. row'[s].epoch \in {row[s].epoch, row[s].epoch + 1}
  BY <1>0, <1>3, <1>4, <1>5, StepKinds DEF Accepts, GoesOn, Sends, Run, Edit, Wipe
<1> QED BY SMT, <1>1, <1>2, <1>6

(* A step sends nothing, or sends the request of a worker that is ready.    *)
LEMMA NetSteps ==
  ASSUME CInv, [Next]_vars
  PROVE  net' \subseteq net \/ \E w \in Worker : Sends(w)
<1>0. TypeOK /\ \A w \in Worker : ClaimOK(w) BY DEF CInv
<1> QED BY <1>0, StepKinds DEF Accepts, Turns, Takes, Lease, GoesOn, Ends, Run, Edit, Wipe

(* The fields of a request. *)
LEMMA RequestFields ==
  ASSUME NEW me
  PROVE  /\ Request(me).stream = me.stream /\ Request(me).version = me.version
         /\ Request(me).mode = me.mode /\ Request(me).expected = me.expected
         /\ Request(me).writeId = WriteId(me) /\ Request(me).operator = (me.work = "head")
  BY DEF Request

(* What is in the net is still what was sent. *)
LEMMA NextSentOK == PInv /\ [Next]_vars => \A r \in net' : SentOK(r)'
<1> SUFFICES ASSUME PInv, [Next]_vars, NEW r \in net' PROVE SentOK(r)' OBVIOUS
<1>0. CInv /\ CInv' /\ TypeOK /\ TypeOK' /\ \A w \in Worker : ClaimOK(w)
  BY NextCInv DEF PInv, CInv
<1>1. r \in Message BY <1>0 DEF TypeOK
<1>2. /\ r.stream \in Stream /\ r.version \in Nat /\ r.expected \in Marker
      /\ r.expected.version \in Nat /\ r.writeId \in Stream \X Nat
  BY <1>1 DEF Message, Version, Marker
<1>3. /\ head[r.stream] \in Nat /\ head'[r.stream] \in Nat /\ head'[r.stream] >= head[r.stream]
      /\ row[r.stream].epoch \in Nat /\ row'[r.stream].epoch \in Nat
      /\ row'[r.stream].epoch >= row[r.stream].epoch
  BY <1>0, <1>2, Grows
<1>4. ASSUME r.writeId[1] = r.stream, r.writeId[2] \in 1 .. row[r.stream].epoch,
             r.version <= head[r.stream], r.mode # "fence" => r.version >= 1,
             Cautious(r, r.operator, r.expected),
             \A w \in Worker : worker'[w].pc \in Unsent => WriteId(worker'[w]) # r.writeId
      PROVE  SentOK(r)'
  <2>1. r.writeId[2] \in 1 .. row'[r.stream].epoch /\ r.version <= head'[r.stream]
    BY SMT, <1>2, <1>3, <1>4
  <2>2. Cautious(r, r.operator, r.expected)' BY SMT, <1>2, <1>3, <1>4 DEF Cautious
  <2> QED BY <1>4, <2>1, <2>2 DEF SentOK
<1>5. CASE r \in net
  <2>1. SentOK(r) BY <1>5 DEF PInv
  <2>2. ASSUME NEW w \in Worker, worker'[w].pc \in Unsent PROVE WriteId(worker'[w]) # r.writeId
    <3>1. worker'[w].pc # "idle" BY <2>2 DEF Unsent
    <3>2. CASE WriteId(worker'[w]) = WriteId(worker[w]) /\ worker[w].pc \in Unsent
      BY <2>1, <3>2 DEF SentOK
    <3>3. CASE worker'[w].stream \in Stream /\ worker'[w].epoch = row[worker'[w].stream].epoch + 1
      <4>1. WriteId(worker'[w]) = <<worker'[w].stream, worker'[w].epoch>> BY DEF WriteId
      <4>2. ASSUME WriteId(worker'[w]) = r.writeId PROVE FALSE
        <5>1. worker'[w].stream = r.stream /\ worker'[w].epoch = r.writeId[2]
          BY SMT, <2>1, <4>1, <4>2 DEF SentOK
        <5>2. r.writeId[2] = row[r.stream].epoch + 1 BY <3>3, <5>1
        <5>3. r.writeId[2] \in 1 .. row[r.stream].epoch BY <2>1 DEF SentOK
        <5> QED BY SMT, <1>3, <5>2, <5>3
      <4> QED BY <4>2
    <3> QED BY <1>0, <2>2, <3>1, <3>2, <3>3, NamesKept
  <2> QED BY <1>4, <2>1, <2>2 DEF SentOK
<1>6. CASE r \notin net
  <2>1. PICK w \in Worker : Sends(w) BY <1>0, <1>6, NetSteps
  <2>2. r = Request(worker[w]) /\ worker[w].pc = "ready" BY <1>6, <2>1 DEF Sends
  <2>3. /\ r.stream = worker[w].stream /\ r.version = worker[w].version /\ r.mode = worker[w].mode
        /\ r.expected = worker[w].expected /\ r.writeId = WriteId(worker[w])
        /\ r.operator = (worker[w].work = "head")
    BY <2>2, RequestFields
  <2>4. /\ worker[w].epoch \in 1 .. row[r.stream].epoch /\ r.version <= head[r.stream]
        /\ r.mode # "fence" => r.version >= 1
    BY <1>0, <2>2, <2>3 DEF ClaimOK, Going
  <2>5. r.writeId[1] = r.stream /\ r.writeId[2] = worker[w].epoch BY SMT, <2>3 DEF WriteId
  <2>6. Cautious(worker[w], worker[w].work = "head", worker[w].expected)
    BY <2>2 DEF PInv, ReadyOK
  <2>7. Cautious(r, r.operator, r.expected) BY <2>3, <2>6 DEF Cautious
  <2>8. ASSUME NEW v \in Worker, worker'[v].pc \in Unsent PROVE WriteId(worker'[v]) # r.writeId
    <3>1. worker \in [Worker -> WorkerState]
          /\ worker' = [worker EXCEPT ![w] = [worker[w] EXCEPT !.pc = "sent"]]
      BY <1>0, <2>1 DEF TypeOK, Sends
    <3>2. worker'[w].pc = "sent" BY <3>1 DEF WorkerState
    <3>3. v # w BY <2>8, <3>2 DEF Unsent
    <3>4. worker'[v] = worker[v] BY <3>1, <3>3
    <3>5. worker[v].pc # "idle" /\ worker[w].pc # "idle" BY <2>2, <2>8, <3>4 DEF Unsent
    <3> QED BY <1>0, <2>3, <3>3, <3>4, <3>5 DEF CInv, OneClaim
  <2> QED BY <1>4, <2>4, <2>5, <2>7, <2>8
<1> QED BY <1>5, <1>6

(* A request that finds the marker it expects. *)
Lands(q) == Run(q) /\ Precondition(q, target)

LEMMA TargetSteps ==
  ASSUME CInv, [Next]_vars
  PROVE  UNCHANGED target \/ (\E q \in net : Lands(q)) \/ Edit \/ Wipe
<1>0. TypeOK /\ \A w \in Worker : ClaimOK(w) BY DEF CInv
<1>1. ASSUME NEW r \in net, Run(r) PROVE UNCHANGED target \/ \E q \in net : Lands(q)
  BY <1>1 DEF Run, Update, Lands
<1> QED BY <1>0, <1>1, StepKinds DEF Accepts, Turns, Takes, Lease, GoesOn, Sends, Ends

(* What it leaves. *)
LEMMA Landed ==
  ASSUME TypeOK, NEW q \in net, Lands(q)
  PROVE  /\ target.marker = q.expected /\ target'.marker.writeId = q.writeId
         /\ q.mode # "fence" => target' = WriteUpdate(q)
         /\ q.mode = "fence" =>
              /\ target'.graph = target.graph
              /\ target'.marker = [target.marker EXCEPT !.writeId = q.writeId,
                                      !.shape = IF @ = "none" THEN "fence" ELSE @]
         /\ UNCHANGED <<head, row>> /\ net' = net \ {q}
         /\ q.mode = "conditional" => target.marker.version < q.version
<1>0. target \in Target /\ target.marker \in Marker BY DEF TypeOK, Target
<1>1. /\ target.marker = q.expected /\ UNCHANGED <<head, row>> /\ net' = net \ {q}
      /\ target' = IF q.mode = "fence" THEN FenceUpdate(q, target) ELSE WriteUpdate(q)
      /\ q.mode = "conditional" => target.marker.version < q.version
  BY DEF Lands, Run, Update, Precondition
<1>2. q.mode # "fence" => target' = WriteUpdate(q) /\ target'.marker.writeId = q.writeId
  BY <1>1 DEF WriteUpdate, MarkerOf
<1>3. q.mode = "fence" =>
        /\ target'.graph = target.graph
        /\ target'.marker = [target.marker EXCEPT !.writeId = q.writeId,
                                !.shape = IF @ = "none" THEN "fence" ELSE @]
  BY <1>0, <1>1 DEF FenceUpdate, Target
<1>4. [target.marker EXCEPT !.writeId = q.writeId, !.shape = IF @ = "none" THEN "fence" ELSE @].writeId
        = q.writeId
  BY <1>0 DEF Marker
<1> QED BY <1>1, <1>2, <1>3, <1>4

(* A marker with no stream stays so until a write. *)
LEMMA NextMarkerOK == PInv /\ [Next]_vars => MarkerOK'
<1> SUFFICES ASSUME PInv, [Next]_vars PROVE MarkerOK' OBVIOUS
<1>0. CInv /\ TypeOK /\ MarkerOK /\ target \in Target /\ target.marker \in Marker
  BY DEF PInv, CInv, TypeOK, Target
<1>1. CASE UNCHANGED target BY <1>0, <1>1 DEF MarkerOK
<1>2. ASSUME NEW q \in net, Lands(q) PROVE MarkerOK'
  <2>1. CASE q.mode # "fence"
    <3>0. target' = WriteUpdate(q) BY <1>0, <1>2, <2>1, Landed
    <3>1. target'.marker.shape = "present" BY <3>0 DEF WriteUpdate, MarkerOf
    <3> QED BY <3>1 DEF MarkerOK
  <2>2. CASE q.mode = "fence"
    <3> DEFINE m == [target.marker EXCEPT !.writeId = q.writeId,
                        !.shape = IF @ = "none" THEN "fence" ELSE @]
    <3>1. target'.marker = m BY <1>0, <1>2, <2>2, Landed
    <3>2. /\ m.stream = target.marker.stream /\ m.version = target.marker.version
          /\ m.shape = IF target.marker.shape = "none" THEN "fence" ELSE target.marker.shape
      BY <1>0 DEF Marker
    <3> HIDE DEF m
    <3> QED BY <1>0, <3>1, <3>2 DEF MarkerOK
  <2> QED BY <2>1, <2>2
<1>3. CASE Edit
  <2>1. target'.marker = target.marker BY <1>0, <1>3 DEF Edit, Target
  <2> QED BY <1>0, <2>1 DEF MarkerOK
<1>4. CASE Wipe BY <1>4 DEF Wipe, MarkerOK, NoMarker
<1> QED BY <1>0, <1>1, <1>2, <1>3, <1>4, TargetSteps

(* A plan that writes does so over nothing, or over this stream's marker.  *)
LEMMA PlanIsCautious ==
  ASSUME NEW view \in WorkerState, NEW t \in Target, Plan(view, t) \in {"replace", "conditional"},
         t.marker.shape \in {"none", "fence", "malformed"} => t.marker.stream = NoStream,
         t.marker.shape \in {"none", "fence"} => t.marker.version = 0
  PROVE  t.marker.stream \in {view.stream, NoStream} /\ t.marker.version <= view.head
<1>0. t.marker \in Marker /\ t.marker.version \in Nat /\ view.head \in Nat
  BY DEF Target, Marker, WorkerState, Version
<1>1. ~RecoveryRequired(view, t.marker) BY DEF Plan
<1>2. t.marker.shape \in {"none", "fence", "malformed", "present"} BY <1>0 DEF Marker
<1> QED BY SMT, <1>0, <1>1, <1>2 DEF RecoveryRequired, MarkerRead

(* A worker in one of the other states was there, or went on to it. *)
LEMMA WorkerSteps ==
  ASSUME CInv, [Next]_vars, NEW v \in Worker, worker'[v].pc \notin {"idle", "claimed", "sent", "verify"}
  PROVE  worker'[v] = worker[v] \/ \E next : GoesOn(v, next)
<1>0. TypeOK /\ (\A w \in Worker : ClaimOK(w)) /\ worker \in [Worker -> WorkerState]
  BY DEF CInv, TypeOK
<1>1. ASSUME NEW w \in Worker, NEW next, GoesOn(w, next), w # v PROVE worker'[v] = worker[v]
  BY <1>0, <1>1 DEF GoesOn
<1>2. ASSUME NEW w \in Worker, Sends(w) PROVE worker'[v] = worker[v]
  BY <1>0, <1>2 DEF Sends, WorkerState
<1>3. ASSUME NEW w \in Worker, Ends(w) PROVE worker'[v] = worker[v]
  BY <1>0, <1>3 DEF Ends, IdleWorker
<1>4. ASSUME NEW w \in Worker, NEW s \in Stream, NEW work, Takes(w, s, work)
      PROVE  worker'[v] = worker[v]
  <2>1. worker'[w].pc = "claimed" /\ worker' = [worker EXCEPT ![w] = worker'[w]]
    BY <1>0, <1>4, TakeWrites
  <2> QED BY <1>0, <2>1
<1>5. ASSUME NEW r \in net, Run(r) PROVE worker'[v] = worker[v]
  BY <1>0, <1>5 DEF Run, WorkerState
<1> QED BY <1>0, <1>1, <1>2, <1>3, <1>4, <1>5, StepKinds DEF Accepts, Turns, Edit, Wipe

(* A worker that is about to write is cautious. *)
LEMMA NextReadyOK == PInv /\ [Next]_vars => \A v \in Worker : ReadyOK(v)'
<1> SUFFICES ASSUME PInv, [Next]_vars, NEW v \in Worker, worker'[v].pc = "ready"
             PROVE  ReadyOK(v)'
  BY DEF ReadyOK
<1>0. /\ CInv /\ TypeOK /\ (\A w \in Worker : ClaimOK(w)) /\ MarkerOK /\ ReadyOK(v)
      /\ worker \in [Worker -> WorkerState] /\ worker[v] \in WorkerState /\ target \in Target
  BY DEF PInv, CInv, TypeOK
<1>1. ASSUME worker'[v] = worker[v] PROVE ReadyOK(v)'
  <2>1. worker[v].stream \in Stream /\ worker[v].expected \in Marker
    BY <1>0, <1>1 DEF ClaimOK, WorkerState
  <2>2. /\ head[worker[v].stream] \in Nat /\ head'[worker[v].stream] \in Nat
        /\ head'[worker[v].stream] >= head[worker[v].stream]
        /\ worker[v].expected.version \in Nat
    BY <1>0, <2>1, Grows DEF Marker, Version
  <2> QED BY SMT, <1>0, <1>1, <2>2 DEF ReadyOK, Cautious
<1>2. ASSUME NEW next, GoesOn(v, next)
      PROVE  ReadyOK(v)'
  <2>1. worker'[v] = next /\ next.pc = "ready" /\ UNCHANGED head BY <1>0, <1>2 DEF GoesOn
  <2>2. ObservesToFence(worker[v], next) \/ ObservesToWrite(worker[v], next)
    BY <1>2, <2>1 DEF GoesOn, GivesUp, Works, ObservesDone, Confirms, Ended
  <2>3. CASE ObservesToFence(worker[v], next) BY <2>1, <2>3 DEF ObservesToFence, Cautious, ReadyOK
  <2>4. CASE ObservesToWrite(worker[v], next) /\ worker[v].work = "head"
    BY <1>2, <2>1, <2>4 DEF Cautious, GoesOn, SameClaim, ReadyOK
  <2>5. CASE ObservesToWrite(worker[v], next) /\ worker[v].work # "head"
    <3>1. /\ Plan(worker[v], target) \in {"replace", "conditional"}
          /\ next.expected = target.marker /\ worker[v].pc = "work"
      BY <2>5 DEF ObservesToWrite, Decide
    <3>2. target.marker.stream \in {worker[v].stream, NoStream} /\ target.marker.version <= worker[v].head
      BY <1>0, <3>1, PlanIsCautious DEF MarkerOK
    <3>3. worker[v].stream \in Stream /\ worker[v].head <= head[worker[v].stream]
      BY <1>0, <3>1 DEF ClaimOK
    <3>4. head[worker[v].stream] \in Nat /\ worker[v].head \in Nat /\ target.marker.version \in Nat
      BY <1>0, <3>3 DEF TypeOK, WorkerState, Version, Target, Marker
    <3>5. target.marker.version <= head[worker[v].stream] BY SMT, <3>2, <3>3, <3>4
    <3>6. next.stream = worker[v].stream BY <1>2 DEF GoesOn, SameClaim
    <3> QED BY <2>1, <3>1, <3>2, <3>5, <3>6 DEF Cautious, ReadyOK
  <2> QED BY <2>2, <2>3, <2>4, <2>5
<1> QED BY <1>0, <1>1, <1>2, WorkerSteps

(* No two requests have one write id. *)
LEMMA NextOneRequest == PInv /\ [Next]_vars => OneRequest'
<1> SUFFICES ASSUME PInv, [Next]_vars, NEW q \in net', NEW r \in net', q.writeId = r.writeId
             PROVE  q = r
  BY DEF OneRequest
<1>0. CInv BY DEF PInv
<1>1. CASE net' \subseteq net BY <1>1 DEF PInv, OneRequest
<1>2. ASSUME NEW w \in Worker, Sends(w) PROVE q = r
  <2>1. net' = net \cup {Request(worker[w])} /\ worker[w].pc = "ready" BY <1>2 DEF Sends
  <2>2. \A p \in net : p.writeId # Request(worker[w]).writeId
    BY SMT, <2>1, RequestFields DEF PInv, SentOK, Unsent
  <2> QED BY <2>1, <2>2 DEF PInv, OneRequest
<1> QED BY <1>0, <1>1, <1>2, NetSteps

LEMMA NextPInv == PInv /\ [Next]_vars => PInv'
<1>1. PInv /\ [Next]_vars => CInv' BY NextCInv DEF PInv
<1>2. PInv /\ [Next]_vars => (\A w \in Worker : ReadyOK(w))' BY NextReadyOK
<1>3. PInv /\ [Next]_vars => (\A r \in net : SentOK(r))' BY NextSentOK
<1>4. (CInv' /\ (\A w \in Worker : ReadyOK(w))' /\ (\A r \in net : SentOK(r))'
       /\ OneRequest' /\ MarkerOK') => PInv'
  BY DEF PInv
<1> QED BY <1>1, <1>2, <1>3, <1>4, NextOneRequest, NextMarkerOK

LEMMA InitPInv == Init => PInv
<1> SUFFICES ASSUME Init PROVE PInv OBVIOUS
<1>1. CInv BY InitCInv
<1>2. \A w \in Worker : ReadyOK(w) BY DEF Init, ReadyOK, IdleWorker
<1>3. MarkerOK
  <2>1. target \in Found BY DEF Init
  <2>2. /\ target.marker.shape \in {"none", "malformed", "present"}
        /\ target.marker.shape = "none" => target.marker = NoMarker
        /\ target.marker.shape = "malformed" => target.marker.stream = NoStream
    BY <2>1, FoundAssumption
  <2> QED BY SMT, <2>2 DEF MarkerOK, NoMarker
<1> QED BY <1>1, <1>2, <1>3 DEF Init, PInv, OneRequest

(* What is sent stays true of its claim, however late it runs. *)
LEMMA RequestsHold == Spec => []PInv
  BY InitPInv, NextPInv, PTL DEF Spec

(* A write id is of no claim if it is none. *)
LEMMA WriteIdIsNamed ==
  ASSUME NEW r \in Message
  PROVE  r.writeId # NoWriteId
  BY SMT, StreamAssumption DEF Message, NoWriteId

(* `Never regress automatically: an operator rebuild decides' (plan.rs):   *)
(* whatever is edited, wiped, lost or late, only the request of an         *)
(* operator rebuild replaces another stream's marker, or one that names a  *)
(* version the ref has not reached.                                        *)
THEOREM OnlyOperatorsOverride == Spec => OperatorDecides
<1> DEFINE Overrides(r) ==
      /\ target.marker # target'.marker
      /\ target'.marker.writeId = r.writeId
      /\ r.mode # "fence"
      /\ \/ target.marker.stream \notin {r.stream, NoStream}
         \/ target.marker.version > head[r.stream]
<1>1. PInv /\ [Next]_vars => [\A r \in net : Overrides(r) => r.operator]_vars
  <2> SUFFICES ASSUME PInv, [Next]_vars, NEW r \in net, Overrides(r) PROVE r.operator
    OBVIOUS
  <2>0. CInv /\ TypeOK /\ target \in Target /\ r \in Message BY DEF PInv, CInv, TypeOK
  <2>1. ~ UNCHANGED target OBVIOUS
  <2>2. ~Edit
    <3>1. Edit => target'.marker = target.marker BY <2>0 DEF Edit, Target
    <3> QED BY <3>1
  <2>3. ~Wipe
    <3>1. Wipe => target'.marker.writeId = NoWriteId BY SMT DEF Wipe, NoMarker
    <3> QED BY <2>0, <3>1, WriteIdIsNamed
  <2>4. PICK q \in net : Lands(q) BY <2>0, <2>1, <2>2, <2>3, TargetSteps
  <2>5. q = r
    <3>1. target'.marker.writeId = q.writeId BY <2>0, <2>4, Landed
    <3> QED BY <3>1 DEF PInv, OneRequest
  <2>6. target.marker = r.expected BY <2>0, <2>4, <2>5, Landed
  <2>7. Cautious(r, r.operator, r.expected) BY DEF PInv, SentOK
  <2>8. r.operator \in BOOLEAN /\ r.stream \in Stream /\ head[r.stream] \in Nat /\ r.expected.version \in Nat
    BY <2>0 DEF Message, TypeOK, Marker, Version
  <2>9. ASSUME r.operator = FALSE PROVE FALSE
    BY SMT, <2>6, <2>7, <2>8, <2>9 DEF Cautious
  <2> QED BY <2>8, <2>9
<1> HIDE DEF Overrides
<1>2. Spec => [][\A r \in net : Overrides(r) => r.operator]_vars
  BY <1>1, RequestsHold, PTL DEF Spec
<1> QED BY <1>2 DEF OperatorDecides, Overrides

-----------------------------------------------------------------------------
(* The end of a stream.  Streams are disabled by the fenced path, and the  *)
(* target does not lose its data.                                          *)

FencedOnly == Events \cap {"disable_unfenced", "wipe"} = {}

OneLive == \A s, u \in Stream : Live(s) /\ Live(u) => s = u

LeaseOK ==
    \A s \in Stream : /\ ~Live(s) => row[s].lease = "none"
                      /\ row[s].status = "none" => row[s].epoch = 0

(* The write ids that markers show, or have shown to somebody. *)
Ids == {target.marker.writeId} \cup {q.expected.writeId : q \in net}
       \cup {worker[w].expected.writeId : w \in Worker}

(* What is not yet written shows nowhere. *)
IdsOK ==
    /\ \A i \in Ids : i[1] \in Stream => i[2] <= row[i[1]].epoch
    /\ \A w \in Worker : worker[w].pc \in Unsent => WriteId(worker[w]) \notin Ids
    /\ \A r \in net : r.writeId \notin Ids

(* A claim expects the marker of an earlier one. *)
InOrder == \A r \in net : r.expected.writeId[1] = r.stream => r.expected.writeId[2] < r.writeId[2]

(* A fence that was read back is still there, unless the claim is lost. *)
FenceLanded ==
    \A w \in Worker : worker[w].pc = "acknowledge" /\ worker[w].mode = "fence" /\ Fenced(w)
                          => target.marker.writeId = WriteId(worker[w])

DInv == OneLive /\ LeaseOK /\ IdsOK /\ InOrder /\ FenceLanded /\ LateWritesAreDead

(* The steps that change a row leave the target alone, and a stream is     *)
(* live after one if it was, or nothing was.                               *)
LEMMA RowSteps ==
  ASSUME CInv, [Next]_vars
  PROVE  \/ UNCHANGED row
         \/ \E s \in Stream :
              /\ row' = [row EXCEPT ![s] = row'[s]] /\ UNCHANGED <<head, target, net>>
              /\ \/ \E x : Turns(s, x)
                 \/ \E w \in Worker : \E work : Takes(w, s, work)
                 \/ \E w \in Worker : \E x : Ends(w) /\ Records(w, x) /\ s = worker[w].stream
<1>0. TypeOK /\ (\A w \in Worker : ClaimOK(w)) /\ row \in [Stream -> Row] BY DEF CInv, TypeOK
<1>1. ASSUME NEW s \in Stream, NEW x, Turns(s, x)
      PROVE  row' = [row EXCEPT ![s] = row'[s]] /\ UNCHANGED <<head, target, net>>
  BY <1>0, <1>1 DEF Turns
<1>2. ASSUME NEW w \in Worker, NEW s \in Stream, NEW work, Takes(w, s, work)
      PROVE  row' = [row EXCEPT ![s] = row'[s]] /\ UNCHANGED <<head, target, net>>
  BY SMT, <1>0, <1>2, TakeWrites
<1>3. ASSUME NEW w \in Worker, Ends(w), NEW x, Records(w, x)
      PROVE  /\ worker[w].stream \in Stream /\ UNCHANGED <<head, target, net>>
             /\ row' = [row EXCEPT ![worker[w].stream] = row'[worker[w].stream]]
  <2>1. worker[w].stream \in Stream BY <1>0, <1>3 DEF Ends, ClaimOK
  <2> QED BY <1>0, <1>3, <2>1 DEF Ends, Records
<1>4. ASSUME NEW w \in Worker, Ends(w), ~ UNCHANGED row
      PROVE  \E s \in Stream : /\ row' = [row EXCEPT ![s] = row'[s]] /\ UNCHANGED <<head, target, net>>
                               /\ \E x : Ends(w) /\ Records(w, x) /\ s = worker[w].stream
  <2>1. PICK x : Records(w, x) BY <1>4 DEF Ends
  <2> QED BY <1>3, <1>4, <2>1
<1> QED BY SMT, <1>0, <1>1, <1>2, <1>4, StepKinds DEF Accepts, GoesOn, Sends, Run, Edit, Wipe

(* A claim that is current was current. *)
LEMMA FencedKept ==
  ASSUME CInv, [Next]_vars, NEW v \in Worker, worker[v].pc # "idle",
         WriteId(worker'[v]) = WriteId(worker[v]), Fenced(v)'
  PROVE  Fenced(v) /\ row'[worker[v].stream].epoch = row[worker[v].stream].epoch
<1> DEFINE u == worker[v].stream
<1>0. /\ TypeOK /\ row \in [Stream -> Row] /\ u \in Stream /\ worker[v].epoch \in 1 .. row[u].epoch
      /\ \A s \in Stream : row[s].epoch \in Nat
  BY DEF CInv, TypeOK, ClaimOK, Row
<1>1. worker'[v].stream = u /\ worker'[v].epoch = worker[v].epoch BY DEF WriteId
<1>2. row'[u].lease # "none" /\ row'[u].epoch = worker[v].epoch BY <1>1 DEF Fenced
<1>3. CASE UNCHANGED row BY <1>1, <1>2, <1>3 DEF Fenced
<1>4. ASSUME NEW s \in Stream, row' = [row EXCEPT ![s] = row'[s]], s # u
      PROVE  Fenced(v) /\ row'[u].epoch = row[u].epoch
  <2>1. row'[u] = row[u] BY <1>0, <1>4
  <2> QED BY <1>2, <2>1 DEF Fenced
<1>5. ASSUME NEW x, Turns(u, x) PROVE Fenced(v) /\ row'[u].epoch = row[u].epoch
  <2>1. row'[u] = x /\ x.epoch = row[u].epoch /\ (x.lease # "none" => row[u].lease # "none")
    BY <1>0, <1>5 DEF Turns
  <2> QED BY <1>2, <2>1 DEF Fenced
<1>6. ASSUME NEW w \in Worker, NEW work, Takes(w, u, work) PROVE FALSE
  <2>1. row'[u].epoch = row[u].epoch + 1 BY SMT, <1>0, <1>6, TakeWrites
  <2> QED BY SMT, <1>0, <1>2, <2>1
<1>7. ASSUME NEW w \in Worker, NEW x, Records(w, x), u = worker[w].stream PROVE FALSE
  <2>1. row'[u] = x /\ x.lease = "none" BY <1>0, <1>7 DEF Records
  <2> QED BY <1>2, <2>1
<1> QED BY SMT, <1>3, <1>4, <1>5, <1>6, <1>7, RowSteps

(* One stream at a time is live, and only a live one is claimed. *)
LEMMA NextLive ==
  CInv /\ OneLive /\ LeaseOK /\ [Next]_vars => OneLive' /\ LeaseOK'
<1> SUFFICES ASSUME CInv, OneLive, LeaseOK, [Next]_vars PROVE OneLive' /\ LeaseOK' OBVIOUS
<1>0. TypeOK /\ (\A w \in Worker : ClaimOK(w)) /\ row \in [Stream -> Row]
      /\ \A s \in Stream : row[s].epoch \in Nat
  BY DEF CInv, TypeOK, Row
<1>1. CASE UNCHANGED row BY <1>1 DEF OneLive, LeaseOK, Live
<1>2. ASSUME NEW s \in Stream, row' = [row EXCEPT ![s] = row'[s]],
             Live(s)' => Live(s) \/ \A other \in Stream \ {s} : ~Live(other),
             ~Live(s)' => row'[s].lease = "none",
             row'[s].status = "none" => row'[s].epoch = 0
      PROVE  OneLive' /\ LeaseOK'
  <2>1. \A u \in Stream \ {s} : row'[u] = row[u] BY <1>0, <1>2
  <2>2. \A u \in Stream \ {s} : Live(u)' <=> Live(u) BY <2>1 DEF Live
  <2>3. OneLive' BY <1>2, <2>2 DEF OneLive
  <2>4. LeaseOK' BY <1>2, <2>1, <2>2 DEF LeaseOK
  <2> QED BY <2>3, <2>4
<1>3. ASSUME NEW s \in Stream, NEW x, Turns(s, x)
      PROVE  /\ Live(s)' => Live(s) \/ \A other \in Stream \ {s} : ~Live(other)
             /\ ~Live(s)' => row'[s].lease = "none"
             /\ row'[s].status = "none" => row'[s].epoch = 0
  <2>1. row'[s] = x BY <1>0, <1>3 DEF Turns
  <2> QED BY <1>3, <2>1 DEF Turns, Live, LeaseOK
<1>4. ASSUME NEW s \in Stream, NEW w \in Worker, NEW work, Takes(w, s, work)
      PROVE  Live(s)' /\ Live(s) /\ row'[s].status # "none"
  <2>1. row'[s].status = row[s].status /\ Live(s) BY <1>0, <1>4, TakeWrites DEF Takes
  <2> QED BY <2>1 DEF Live
<1>5. ASSUME NEW s \in Stream, NEW w \in Worker, NEW x, Records(w, x), s = worker[w].stream
      PROVE  Live(s) /\ row'[s].lease = "none" /\ row'[s].status # "none"
  <2>1. row'[s] = x /\ x.lease = "none" BY <1>0, <1>5 DEF Records
  <2>2. row[s].lease # "none" BY <1>5 DEF Records, Fenced
  <2>3. Live(s) BY <2>2 DEF LeaseOK
  <2>4. x.status # "none" BY <1>5, <2>3 DEF Records, Live
  <2> QED BY <2>1, <2>3, <2>4
<1>6. ASSUME NEW s \in Stream, row' = [row EXCEPT ![s] = row'[s]],
             \/ \E x : Turns(s, x)
             \/ \E w \in Worker : \E work : Takes(w, s, work)
             \/ \E w \in Worker : \E x : Ends(w) /\ Records(w, x) /\ s = worker[w].stream
      PROVE  OneLive' /\ LeaseOK'
  BY <1>2, <1>3, <1>4, <1>5, <1>6
<1> QED BY <1>1, <1>6, RowSteps

(* A step shows nobody a write id that was not shown, unless a request     *)
(* lands: then it shows that request's.                                    *)
LEMMA IdSteps ==
  ASSUME CInv, [Next]_vars, NEW i \in Ids'
  PROVE  i \in Ids \/ i = NoWriteId \/ \E q \in net : Lands(q) /\ i = q.writeId
<1>0. /\ TypeOK /\ (\A w \in Worker : ClaimOK(w)) /\ worker \in [Worker -> WorkerState]
      /\ target \in Target
  BY DEF CInv, TypeOK
<1>1. NoMarker.writeId = NoWriteId BY DEF NoMarker
<1>2. ASSUME i = target'.marker.writeId
      PROVE  i \in Ids \/ i = NoWriteId \/ \E q \in net : Lands(q) /\ i = q.writeId
  <2>1. CASE UNCHANGED target BY <1>2, <2>1 DEF Ids
  <2>2. ASSUME NEW q \in net, Lands(q) PROVE i = q.writeId BY <1>0, <1>2, <2>2, Landed
  <2>3. CASE Edit
    <3>1. target'.marker = target.marker BY <1>0, <2>3 DEF Edit, Target
    <3> QED BY <1>2, <3>1 DEF Ids
  <2>4. CASE Wipe BY <1>1, <1>2, <2>4 DEF Wipe
  <2> QED BY <2>1, <2>2, <2>3, <2>4, TargetSteps
<1>3. ASSUME NEW q \in net', i = q.expected.writeId PROVE i \in Ids
  <2>1. CASE q \in net BY <1>3, <2>1 DEF Ids
  <2>2. CASE q \notin net
    <3>1. PICK w \in Worker : Sends(w) BY <2>2, NetSteps
    <3>2. q.expected = worker[w].expected BY <2>2, <3>1, RequestFields DEF Sends
    <3> QED BY <1>3, <3>2 DEF Ids
  <2> QED BY <2>1, <2>2
<1>4. ASSUME NEW v \in Worker, i = worker'[v].expected.writeId
      PROVE  i \in Ids \/ i = NoWriteId
  <2>1. ASSUME worker'[v].expected \in {worker[v].expected, target.marker, NoMarker}
        PROVE  i \in Ids \/ i = NoWriteId
    BY <1>1, <1>4, <2>1 DEF Ids
  <2>2. ASSUME NEW w \in Worker, NEW s \in Stream, NEW work, Takes(w, s, work)
        PROVE  worker'[v].expected \in {worker[v].expected, target.marker, NoMarker}
    <3>1. worker'[w].expected = NoMarker /\ worker' = [worker EXCEPT ![w] = worker'[w]]
      BY <1>0, <2>2, TakeWrites
    <3> QED BY <1>0, <3>1
  <2>3. ASSUME NEW w \in Worker, NEW next, GoesOn(w, next)
        PROVE  worker'[v].expected \in {worker[v].expected, target.marker, NoMarker}
    <3>1. CASE v # w BY <1>0, <2>3, <3>1 DEF GoesOn
    <3>2. CASE v = w
      <4>1. worker'[v] = next BY <1>0, <2>3, <3>2 DEF GoesOn
      <4>2. Confirms(worker[v], next) => next.expected = worker[v].expected
        BY <1>0 DEF Confirms, WorkerState
      <4>3. next.expected \in {worker[v].expected, target.marker}
        BY <2>3, <3>2, <4>2 DEF GoesOn, GivesUp, Works, ObservesToFence, ObservesToWrite, ObservesDone
      <4> QED BY <4>1, <4>3
    <3> QED BY <3>1, <3>2
  <2>4. ASSUME NEW w \in Worker, Sends(w) PROVE worker'[v].expected = worker[v].expected
    BY <1>0, <2>4 DEF Sends, WorkerState
  <2>5. ASSUME NEW w \in Worker, Ends(w)
        PROVE  worker'[v].expected \in {worker[v].expected, target.marker, NoMarker}
    BY <1>0, <2>5 DEF Ends, IdleWorker
  <2>6. ASSUME NEW r \in net, Run(r) PROVE worker'[v].expected = worker[v].expected
    BY <1>0, <2>6 DEF Run, WorkerState
  <2>7. CASE UNCHANGED worker BY <2>1, <2>7
  <2> QED BY <1>0, <2>1, <2>2, <2>3, <2>4, <2>5, <2>6, <2>7, StepKinds DEF Accepts, Turns, Edit, Wipe
<1> QED BY <1>2, <1>3, <1>4 DEF Ids

(* What has a type: the write ids. *)
LEMMA IdType ==
  ASSUME TypeOK, NEW i \in Ids
  PROVE  i \in StreamOrNone \X Nat
<1>1. \A m \in Marker : m.writeId \in StreamOrNone \X Nat BY DEF Marker
<1>2. target.marker \in Marker BY DEF TypeOK, Target
<1>3. \A q \in net : q.expected \in Marker BY DEF TypeOK, Message
<1>4. \A w \in Worker : worker[w].expected \in Marker BY DEF TypeOK, WorkerState
<1> QED BY <1>1, <1>2, <1>3, <1>4 DEF Ids

(* What is not yet written still shows nowhere. *)
LEMMA NextIdsOK == PInv /\ IdsOK /\ [Next]_vars => IdsOK'
<1> SUFFICES ASSUME PInv, IdsOK, [Next]_vars PROVE IdsOK' OBVIOUS
<1>0. CInv /\ CInv' /\ TypeOK /\ TypeOK' /\ OneRequest /\ (\A q \in net : SentOK(q))
      /\ \A w \in Worker : ClaimOK(w)
  BY NextCInv DEF PInv, CInv
<1>1. \A s \in Stream : /\ row[s].epoch \in Nat /\ row'[s].epoch \in Nat
                        /\ row'[s].epoch >= row[s].epoch
  BY <1>0, Grows
<1>2. ASSUME NEW i \in Ids', i[1] \in Stream PROVE i[2] <= row[i[1]].epoch /\ i[2] <= row'[i[1]].epoch
  <2>1. i[2] \in Nat /\ i[2] <= row[i[1]].epoch
    <3>1. CASE i \in Ids BY <1>0, <1>2, <3>1, IdType DEF IdsOK
    <3>2. CASE i = NoWriteId BY <1>2, <3>2, StreamAssumption DEF NoWriteId
    <3>3. ASSUME NEW q \in net, i = q.writeId PROVE i[2] \in Nat /\ i[2] <= row[i[1]].epoch
      <4>1. q.stream \in Stream BY <1>0 DEF TypeOK, Message
      <4> QED BY SMT, <1>0, <1>1, <3>3, <4>1 DEF SentOK
    <3> QED BY <1>0, <1>2, <3>1, <3>2, <3>3, IdSteps
  <2> QED BY SMT, <1>1, <1>2, <2>1
<1>3. ASSUME NEW v \in Worker, worker'[v].pc \in Unsent, WriteId(worker'[v]) \in Ids' PROVE FALSE
  <2> DEFINE i == WriteId(worker'[v])
  <2>0. worker'[v].pc # "idle" /\ i[1] = worker'[v].stream /\ i[2] = worker'[v].epoch
    BY <1>3 DEF Unsent, WriteId
  <2>1. CASE i = WriteId(worker[v]) /\ worker[v].pc \in Unsent
    <3>1. i \notin Ids BY <2>1 DEF IdsOK
    <3>2. i # NoWriteId BY <1>0, <2>1, StreamAssumption DEF WriteId, NoWriteId, ClaimOK, Unsent
    <3>3. \A q \in net : i # q.writeId BY <1>0, <2>1 DEF SentOK
    <3> QED BY <1>0, <1>3, <3>1, <3>2, <3>3, IdSteps
  <2>2. CASE worker'[v].stream \in Stream /\ worker'[v].epoch = row[worker'[v].stream].epoch + 1
    <3>1. i[2] <= row[worker'[v].stream].epoch BY <1>2, <1>3, <2>0, <2>2
    <3>2. row[worker'[v].stream].epoch \in Nat BY <1>1, <2>2
    <3> QED BY SMT, <2>0, <2>2, <3>1, <3>2
  <2> QED BY <1>0, <1>3, <2>0, <2>1, <2>2, NamesKept
<1>4. ASSUME NEW r \in net', r.writeId \in Ids' PROVE FALSE
  <2>0. r \in Message BY <1>0 DEF TypeOK
  <2>1. r.writeId # NoWriteId BY <2>0, WriteIdIsNamed
  <2>2. CASE r \in net
    <3>1. r.writeId \notin Ids BY <2>2 DEF IdsOK
    <3>2. PICK q \in net : Lands(q) /\ r.writeId = q.writeId BY <1>0, <1>4, <2>1, <3>1, IdSteps
    <3>3. r = q BY <1>0, <2>2, <3>2 DEF OneRequest
    <3>4. net' = net \ {q} BY <1>0, <3>2, Landed
    <3> QED BY <3>3, <3>4
  <2>3. CASE r \notin net
    <3>1. PICK w \in Worker : Sends(w) BY <1>0, <2>3, NetSteps
    <3>2. r.writeId = WriteId(worker[w]) /\ worker[w].pc = "ready"
      BY <2>3, <3>1, RequestFields DEF Sends
    <3>3. r.writeId \notin Ids BY <3>2 DEF IdsOK, Unsent
    <3>4. \A q \in net : r.writeId # q.writeId BY <1>0, <3>2 DEF SentOK, Unsent
    <3> QED BY <1>0, <1>4, <2>1, <3>3, <3>4, IdSteps
  <2> QED BY <2>2, <2>3
<1>5. \A i \in Ids' : i[1] \in Stream => i[2] <= row'[i[1]].epoch BY <1>2
<1>6. \A w \in Worker : worker'[w].pc \in Unsent => WriteId(worker'[w]) \notin Ids' BY <1>3
<1>7. \A r \in net' : r.writeId \notin Ids' BY <1>4
<1> QED BY <1>5, <1>6, <1>7 DEF IdsOK

(* A claim sends what names an earlier claim's marker. *)
LEMMA NextInOrder == PInv /\ IdsOK /\ InOrder /\ [Next]_vars => InOrder'
<1> SUFFICES ASSUME PInv, IdsOK, InOrder, [Next]_vars, NEW r \in net',
                    r.expected.writeId[1] = r.stream
             PROVE  r.expected.writeId[2] < r.writeId[2]
  BY DEF InOrder
<1>0. CInv /\ TypeOK /\ (\A w \in Worker : ClaimOK(w)) BY DEF PInv, CInv
<1>1. CASE r \in net BY <1>1 DEF InOrder
<1>2. CASE r \notin net
  <2>1. PICK w \in Worker : Sends(w) BY <1>0, <1>2, NetSteps
  <2> DEFINE i == worker[w].expected.writeId
             s == worker[w].stream
  <2>2. /\ r.expected = worker[w].expected /\ r.writeId = WriteId(worker[w]) /\ r.stream = s
        /\ worker[w].pc = "ready" /\ Fenced(w)
    BY SMT, <1>2, <2>1, RequestFields DEF Sends, Holds
  <2>3. i \in Ids /\ WriteId(worker[w]) \notin Ids BY <2>2 DEF Ids, IdsOK, Unsent
  <2>4. i \in StreamOrNone \X Nat /\ i[1] = s BY <1>0, <2>2, <2>3, IdType
  <2>5. s \in Stream /\ row[s].epoch \in Nat /\ row[s].epoch = worker[w].epoch
    BY <1>0, <2>2 DEF ClaimOK, TypeOK, Row, Fenced
  <2>6. i[2] <= worker[w].epoch /\ i[2] \in Nat BY <2>3, <2>4, <2>5 DEF IdsOK
  <2>7. i[2] # worker[w].epoch
    <3>1. i = <<i[1], i[2]>> BY SMT, <2>4
    <3> QED BY <2>3, <2>4, <3>1 DEF WriteId
  <2>8. r.writeId[2] = worker[w].epoch BY SMT, <2>2 DEF WriteId
  <2> QED BY SMT, <2>2, <2>5, <2>6, <2>7, <2>8
<1> QED BY <1>1, <1>2

(* Only a live stream's request lands. *)
LEMMA LandsLive ==
  ASSUME PInv, DInv, NEW q \in net, Lands(q)
  PROVE  Live(q.stream)
<1>0. TypeOK /\ q.stream \in Stream /\ SentOK(q) BY DEF PInv, CInv, TypeOK, Message
<1>1. target.marker = q.expected BY <1>0, Landed
<1>2. row[q.stream].status # "disabled" BY <1>1 DEF DInv, LateWritesAreDead
<1>3. row[q.stream].status # "none" BY SMT, <1>0 DEF DInv, LeaseOK, SentOK
<1> QED BY <1>2, <1>3 DEF Live

(* A request that lands leaves nothing for another one to land on. *)
LEMMA OthersAreDead ==
  ASSUME PInv, IdsOK, NEW q \in net, Lands(q), NEW r \in net'
  PROVE  r \in net /\ r.expected # target'.marker
<1>0. TypeOK BY DEF PInv, CInv
<1>1. target'.marker.writeId = q.writeId /\ r \in net BY <1>0, Landed
<1>2. r.expected.writeId # q.writeId BY <1>1 DEF IdsOK, Ids
<1> QED BY <1>1, <1>2

(* A current claim's own marker is overwritten by nobody. *)
LEMMA FenceHolds ==
  ASSUME PInv, DInv, NEW w \in Worker, worker[w].pc # "idle", Fenced(w),
         NEW r \in net, r.stream = worker[w].stream, r.expected = target.marker
  PROVE  target.marker.writeId # WriteId(worker[w])
<1>0. SUFFICES ASSUME target.marker.writeId = WriteId(worker[w]) PROVE FALSE OBVIOUS
<1>1. /\ r.stream \in Stream /\ row[r.stream].epoch \in Nat /\ SentOK(r)
      /\ row[r.stream].epoch = worker[w].epoch
  BY DEF PInv, CInv, TypeOK, Message, Row, Fenced
<1>2. r.expected.writeId[1] = r.stream /\ r.expected.writeId[2] = worker[w].epoch
  BY SMT, <1>0 DEF WriteId
<1>3. worker[w].epoch < r.writeId[2] BY <1>2 DEF DInv, InOrder
<1>4. r.writeId[2] \in 1 .. row[r.stream].epoch BY <1>1 DEF SentOK
<1> QED BY SMT, <1>1, <1>3, <1>4

(* A fence that was read back stays while the claim does. *)
LEMMA NextFenceLanded == FencedOnly /\ PInv /\ DInv /\ [Next]_vars => FenceLanded'
<1> SUFFICES ASSUME FencedOnly, PInv, DInv, [Next]_vars, NEW v \in Worker,
                    worker'[v].pc = "acknowledge", worker'[v].mode = "fence", Fenced(v)'
             PROVE  target'.marker.writeId = WriteId(worker'[v])
  BY DEF FenceLanded
<1>0. /\ CInv /\ TypeOK /\ (\A w \in Worker : ClaimOK(w)) /\ worker \in [Worker -> WorkerState]
      /\ target \in Target
  BY DEF PInv, CInv, TypeOK
<1>1. ASSUME worker'[v] = worker[v] PROVE target'.marker.writeId = WriteId(worker'[v])
  <2>1. Fenced(v) BY <1>0, <1>1, FencedKept
  <2>2. target.marker.writeId = WriteId(worker[v]) BY <1>1, <2>1 DEF DInv, FenceLanded
  <2>3. CASE UNCHANGED target BY <1>1, <2>2, <2>3
  <2>4. ASSUME NEW q \in net, Lands(q) PROVE FALSE
    <3>1. worker[v].stream \in Stream /\ q.stream \in Stream
      BY <1>0, <1>1 DEF ClaimOK, TypeOK, Message
    <3>2. Live(q.stream) BY <2>4, LandsLive
    <3>3. Live(worker[v].stream) BY <2>1, <3>1 DEF DInv, LeaseOK, Fenced
    <3>4. q.stream = worker[v].stream BY <3>1, <3>2, <3>3 DEF DInv, OneLive
    <3>5. q.expected = target.marker BY <1>0, <2>4, Landed
    <3> QED BY <1>1, <2>1, <2>2, <3>4, <3>5, FenceHolds
  <2>5. CASE Edit
    <3>1. target'.marker = target.marker BY <1>0, <2>5 DEF Edit, Target
    <3> QED BY <1>1, <2>2, <3>1
  <2>6. ~Wipe BY DEF FencedOnly, Wipe, Spend
  <2> QED BY <1>0, <2>3, <2>4, <2>5, <2>6, TargetSteps
<1>2. ASSUME NEW next, GoesOn(v, next) PROVE target'.marker.writeId = WriteId(worker'[v])
  <2>1. worker'[v] = next /\ UNCHANGED target /\ WriteId(next) = WriteId(worker[v])
    BY <1>0, <1>2 DEF GoesOn, SameClaim, WriteId
  <2>2. Confirms(worker[v], next)
    BY <1>2, <2>1 DEF GoesOn, GivesUp, Works, ObservesToFence, ObservesToWrite, ObservesDone, Ended
  <2>3. next.mode = worker[v].mode BY <1>0, <2>2 DEF Confirms, WorkerState
  <2>4. target.marker.writeId = WriteId(worker[v])
    BY <1>0, <2>1, <2>2, <2>3 DEF Confirms, ClaimOK
  <2> QED BY <2>1, <2>4
<1> QED BY <1>0, <1>1, <1>2, WorkerSteps

(* Once a fenced disable is recorded, whatever the stream sent is dead. *)
LEMMA NextLateWrites == FencedOnly /\ PInv /\ DInv /\ [Next]_vars => LateWritesAreDead'
<1> SUFFICES ASSUME FencedOnly, PInv, DInv, [Next]_vars, NEW r \in net',
                    row'[r.stream].status = "disabled", r.expected = target'.marker
             PROVE  FALSE
  BY DEF LateWritesAreDead
<1> DEFINE s == r.stream
<1>0. /\ CInv /\ TypeOK /\ TypeOK' /\ (\A w \in Worker : ClaimOK(w)) /\ target \in Target
      /\ row \in [Stream -> Row] /\ s \in Stream
  BY NextCInv DEF PInv, CInv, TypeOK, Message
<1>1. ASSUME NEW q \in net, Lands(q) PROVE FALSE
  BY <1>0, <1>1, OthersAreDead DEF DInv
<1>2. target'.marker = target.marker
  <2>1. Edit => target'.marker = target.marker BY <1>0 DEF Edit, Target
  <2>2. ~Wipe BY DEF FencedOnly, Wipe, Spend
  <2> QED BY <1>0, <1>1, <2>1, <2>2, TargetSteps
<1>3. CASE r \notin net
  <2>1. PICK w \in Worker : Sends(w) BY <1>0, <1>3, NetSteps
  <2>2. s = worker[w].stream /\ Holds(w) /\ UNCHANGED row
    BY <1>3, <2>1, RequestFields DEF Sends
  <2>3. row[s].status # "disabled" BY <1>0, <2>2 DEF DInv, LeaseOK, Holds, Fenced, Live
  <2> QED BY <2>2, <2>3
<1>4. CASE r \in net
  <2>1. row[s].status # "disabled" BY <1>2, <1>4 DEF DInv, LateWritesAreDead
  <2>2. ASSUME NEW x, Turns(s, x) PROVE FALSE
    <3>1. row'[s] = x BY <1>0, <2>2 DEF Turns
    <3> QED BY <2>1, <2>2, <3>1 DEF Turns, FencedOnly
  <2>3. ASSUME NEW w \in Worker, NEW work, Takes(w, s, work) PROVE FALSE
    BY <1>0, <2>1, <2>3, TakeWrites
  <2>4. ASSUME NEW w \in Worker, NEW x, Ends(w), Records(w, x), s = worker[w].stream PROVE FALSE
    <3>1. row'[s] = x BY <1>0, <2>4 DEF Records
    <3>2. /\ worker[w].pc = "acknowledge" /\ worker[w].mode = "fence" /\ Fenced(w)
      BY <2>1, <2>4, <3>1 DEF Records
    <3>3. target.marker.writeId = WriteId(worker[w]) BY <3>2 DEF DInv, FenceLanded
    <3>4. worker[w].pc # "idle" BY <3>2
    <3> QED BY <1>2, <1>4, <2>4, <3>2, <3>3, <3>4, FenceHolds
  <2>5. ASSUME NEW u \in Stream, row' = [row EXCEPT ![u] = row'[u]], u # s PROVE FALSE
    BY <1>0, <2>1, <2>5
  <2>6. CASE UNCHANGED row BY <2>1, <2>6
  <2> QED BY SMT, <1>0, <2>2, <2>3, <2>4, <2>5, <2>6, RowSteps
<1> QED BY <1>3, <1>4

LEMMA NextDInv == FencedOnly /\ PInv /\ DInv /\ [Next]_vars => DInv'
  BY NextLive, NextIdsOK, NextInOrder, NextFenceLanded, NextLateWrites DEF DInv, PInv

LEMMA InitDInv == Init => DInv
<1> SUFFICES ASSUME Init PROVE DInv OBVIOUS
<1>1. \A s \in Stream : row[s] = NoRow BY DEF Init
<1>2. OneLive /\ LeaseOK BY SMT, <1>1 DEF OneLive, LeaseOK, Live, NoRow
<1>3. net = {} /\ \A w \in Worker : worker[w] = IdleWorker BY DEF Init
<1>4. \A i \in Ids : i = NoWriteId
  <2>1. target.marker.writeId = NoWriteId BY FoundAssumption DEF Init
  <2>2. \A w \in Worker : worker[w].expected.writeId = NoWriteId BY SMT, <1>3 DEF IdleWorker, NoMarker
  <2> QED BY <1>3, <2>1, <2>2 DEF Ids
<1>5. IdsOK BY SMT, <1>3, <1>4, StreamAssumption DEF IdsOK, NoWriteId, IdleWorker, Unsent
<1>6. InOrder /\ FenceLanded /\ LateWritesAreDead
  BY SMT, <1>3 DEF InOrder, FenceLanded, LateWritesAreDead, IdleWorker
<1> QED BY <1>2, <1>5, <1>6 DEF DInv

LEMMA DisablesHold ==
  ASSUME FencedOnly
  PROVE  Spec => []DInv
<1>1. PInv /\ DInv /\ [Next]_vars => DInv' BY NextDInv
<1> QED BY <1>1, InitDInv, RequestsHold, PTL DEF Spec

(* `so no write of this stream still in flight can land after another      *)
(* stream takes the graph' (disable): where streams are disabled by the    *)
(* fenced path, everything a disabled stream's workers ever sent is dead,  *)
(* for any number of workers, claims, expiries, crashes and re-enables.    *)
THEOREM DisabledIsDead ==
  ASSUME FencedOnly
  PROVE  Spec => []LateWritesAreDead
<1>1. DInv => LateWritesAreDead BY DEF DInv
<1> QED BY <1>1, DisablesHold, PTL

-----------------------------------------------------------------------------
(* What the graph shows.  Nobody edits it either. *)

Quiet == FencedOnly /\ "edit" \notin Events

(* A marker that names a commit of this ledger is whole and true. *)
Owned ==
    LET m == target.marker
    IN  m.commit[1] \in Stream =>
          /\ m = MarkerOf(m.stream, m.version, m.writeId) /\ m.stream \in Stream
          /\ target.graph = AcceptedState(m.stream, m.version) /\ m.version \in 1 .. head[m.stream]

(* No write goes back behind the marker it expects, ... *)
Forward(me, m) == me.mode # "fence" /\ m.commit[1] = me.stream => me.version >= m.version

AllForward ==
    /\ \A r \in net : Forward(r, r.expected)
    /\ \A w \in Worker : worker[w].pc = "ready" => Forward(worker[w], worker[w].expected)

(* ... nor, while it can land, behind the recorded progress. *)
Ahead == \A r \in net : r.expected = target.marker /\ r.mode # "fence" => r.version >= row[r.stream].projected

(* What a current claim is about to acknowledge is there. *)
Reached(t, s, v) ==
    /\ t.marker.shape = "present" /\ t.marker.stream = s /\ t.marker.version >= v
    /\ t.graph = AcceptedState(s, t.marker.version) /\ t.marker.commit[1] = s

Truth ==
    \A w \in Worker : worker[w].pc \in {"contains", "acknowledge"} /\ worker[w].mode # "fence" /\ Fenced(w)
        => Reached(target, worker[w].stream, worker[w].version)

Progress == \A s \in Stream : target.marker.commit[1] = s => target.marker.version >= row[s].projected

SInv == Owned /\ AllForward /\ Ahead /\ Truth /\ Progress

(* Without edits and wipes the target changes only by a request. *)
LEMMA QuietTarget ==
  ASSUME Quiet, CInv, [Next]_vars
  PROVE  UNCHANGED target \/ \E q \in net : Lands(q)
  BY TargetSteps DEF Quiet, FencedOnly, Edit, Wipe, Spend

(* A write leaves its own marker and content. *)
LEMMA WriteLands ==
  ASSUME TypeOK, NEW q \in net, Lands(q), q.mode # "fence"
  PROVE  /\ target'.marker = MarkerOf(q.stream, q.version, q.writeId)
         /\ target'.graph = AcceptedState(q.stream, q.version)
         /\ target'.marker.shape = "present" /\ target'.marker.stream = q.stream
         /\ target'.marker.version = q.version /\ target'.marker.commit[1] = q.stream
         /\ target'.marker.writeId = q.writeId
<1>1. target' = WriteUpdate(q) BY Landed
<1> QED BY <1>1 DEF WriteUpdate, MarkerOf, CommitAt

(* A fence changes nothing but the write id, and the shape of no marker. *)
LEMMA FenceLands ==
  ASSUME TypeOK, NEW q \in net, Lands(q), q.mode = "fence"
  PROVE  /\ target'.graph = target.graph
         /\ target'.marker.stream = target.marker.stream /\ target'.marker.version = target.marker.version
         /\ target'.marker.commit = target.marker.commit /\ target'.marker.count = target.marker.count
         /\ target'.marker.shape = "present" <=> target.marker.shape = "present"
         /\ target.marker.shape = "present" =>
              target'.marker = [target.marker EXCEPT !.writeId = q.writeId]
<1> DEFINE m == [target.marker EXCEPT !.writeId = q.writeId, !.shape = IF @ = "none" THEN "fence" ELSE @]
<1>0. target.marker \in Marker BY DEF TypeOK, Target
<1>1. target'.graph = target.graph /\ target'.marker = m BY Landed
<1>2. /\ m.stream = target.marker.stream /\ m.version = target.marker.version
      /\ m.commit = target.marker.commit /\ m.count = target.marker.count
      /\ m.shape = "present" <=> target.marker.shape = "present"
  BY <1>0 DEF Marker
<1>3. target.marker.shape = "present" => m = [target.marker EXCEPT !.writeId = q.writeId]
  BY <1>0 DEF Marker
<1> HIDE DEF m
<1> QED BY <1>1, <1>2, <1>3

(* The graph stays what its marker says. *)
LEMMA NextOwned == Quiet /\ PInv /\ Owned /\ [Next]_vars => Owned'
<1> SUFFICES ASSUME Quiet, PInv, Owned, [Next]_vars, target'.marker.commit[1] \in Stream
             PROVE  LET m == target'.marker
                    IN  /\ m = MarkerOf(m.stream, m.version, m.writeId) /\ m.stream \in Stream
                        /\ target'.graph = AcceptedState(m.stream, m.version)
                        /\ m.version \in 1 .. head'[m.stream]
  BY DEF Owned
<1>0. CInv /\ TypeOK BY DEF PInv, CInv
<1>1. CASE UNCHANGED target
  <2>1. /\ target.marker.stream \in Stream /\ target.marker.version \in 1 .. head[target.marker.stream]
    BY <1>1 DEF Owned
  <2>2. target.marker.version \in 1 .. head'[target.marker.stream] BY SMT, <1>0, <2>1, Grows
  <2> QED BY <1>1, <2>2 DEF Owned
<1>2. ASSUME NEW q \in net, Lands(q), q.mode # "fence"
      PROVE  LET m == target'.marker
             IN  /\ m = MarkerOf(m.stream, m.version, m.writeId) /\ m.stream \in Stream
                 /\ target'.graph = AcceptedState(m.stream, m.version)
                 /\ m.version \in 1 .. head'[m.stream]
  <2>1. /\ q.stream \in Stream /\ q.version \in Nat /\ head[q.stream] \in Nat
        /\ q.version <= head[q.stream] /\ q.version >= 1 /\ UNCHANGED head
    BY <1>0, <1>2, Landed DEF PInv, SentOK, TypeOK, Message, Version
  <2>2. q.version \in 1 .. head'[q.stream] BY SMT, <2>1
  <2> QED BY <1>0, <1>2, <2>1, <2>2, WriteLands
<1>3. ASSUME NEW q \in net, Lands(q), q.mode = "fence"
      PROVE  LET m == target'.marker
             IN  /\ m = MarkerOf(m.stream, m.version, m.writeId) /\ m.stream \in Stream
                 /\ target'.graph = AcceptedState(m.stream, m.version)
                 /\ m.version \in 1 .. head'[m.stream]
  <2> DEFINE n == target.marker
  <2>1. /\ target'.graph = target.graph /\ target'.marker.stream = n.stream
        /\ target'.marker.version = n.version /\ target'.marker.commit = n.commit
        /\ n.shape = "present" => target'.marker = [n EXCEPT !.writeId = q.writeId]
        /\ UNCHANGED head
    BY <1>0, <1>3, FenceLands, Landed
  <2>2. /\ n = MarkerOf(n.stream, n.version, n.writeId) /\ n.stream \in Stream
        /\ target.graph = AcceptedState(n.stream, n.version) /\ n.version \in 1 .. head[n.stream]
    BY <2>1 DEF Owned
  <2>3. n.shape = "present" BY SMT, <2>2 DEF MarkerOf
  <2>4. target'.marker.writeId = q.writeId BY <1>0, <1>3, Landed
  <2>5. [n EXCEPT !.writeId = q.writeId] = MarkerOf(n.stream, n.version, q.writeId)
    BY SMT, <2>2 DEF MarkerOf
  <2> QED BY <2>1, <2>2, <2>3, <2>4, <2>5
<1> QED BY <1>0, <1>1, <1>2, <1>3, QuietTarget

(* A write is decided only over an earlier version of the stream, or by an *)
(* operator over this one.                                                 *)
LEMMA PlanIsForward ==
  ASSUME TypeOK, Owned, NEW me \in WorkerState, me.stream \in Stream,
         Decide(me) \in {"replace", "conditional"}, target.marker.commit[1] = me.stream
  PROVE  me.version >= target.marker.version
<1> DEFINE m == target.marker
<1>0. m \in Marker /\ m.version \in Nat /\ me.version \in Nat
  BY DEF TypeOK, Target, Marker, WorkerState, Version
<1>1. m = MarkerOf(m.stream, m.version, m.writeId) /\ target.graph = AcceptedState(m.stream, m.version)
  BY DEF Owned
<1>2. /\ m.shape = "present" /\ m.commit = CommitAt(m.stream, m.version) /\ m.count = target.graph
      /\ m.commit[1] = m.stream
  BY SMT, <1>1 DEF MarkerOf, CommitAt
<1>3. m.stream = me.stream BY <1>2
<1>4. CASE me.work = "head"
  <2>1. ~RebuildIsStale(me, m) BY <1>4 DEF Decide
  <2> QED BY SMT, <1>0, <1>2, <1>3, <2>1 DEF RebuildIsStale, MarkerRead
<1>5. CASE me.work # "head"
  <2>1. ~RebuildReason(me, target) BY <1>2 DEF RebuildReason, MarkerRead
  <2>2. FirstOrBehind(me, m) BY <1>5, <2>1 DEF Decide, Plan
  <2> QED BY SMT, <1>0, <1>2, <2>2 DEF FirstOrBehind, MarkerRead
<1> QED BY <1>4, <1>5

(* No write goes back behind the marker it expects. *)
LEMMA NextAllForward == PInv /\ Owned /\ AllForward /\ [Next]_vars => AllForward'
<1> SUFFICES ASSUME PInv, Owned, AllForward, [Next]_vars PROVE AllForward' OBVIOUS
<1>0. CInv /\ TypeOK /\ (\A w \in Worker : ClaimOK(w)) /\ worker \in [Worker -> WorkerState]
  BY DEF PInv, CInv, TypeOK
<1>1. ASSUME NEW r \in net' PROVE Forward(r, r.expected)
  <2>1. CASE r \in net BY <2>1 DEF AllForward
  <2>2. CASE r \notin net
    <3>1. PICK w \in Worker : Sends(w) BY <1>0, <2>2, NetSteps
    <3>2. /\ r.stream = worker[w].stream /\ r.version = worker[w].version /\ r.mode = worker[w].mode
          /\ r.expected = worker[w].expected /\ worker[w].pc = "ready"
      BY SMT, <2>2, <3>1, RequestFields DEF Sends
    <3> QED BY <3>2 DEF AllForward, Forward
  <2> QED BY <2>1, <2>2
<1>2. ASSUME NEW v \in Worker, worker'[v].pc = "ready" PROVE Forward(worker'[v], worker'[v].expected)
  <2>1. CASE worker'[v] = worker[v] BY <1>2, <2>1 DEF AllForward
  <2>2. ASSUME NEW next, GoesOn(v, next) PROVE Forward(worker'[v], worker'[v].expected)
    <3>1. worker'[v] = next /\ next.pc = "ready" /\ next.stream = worker[v].stream
      BY <1>0, <1>2, <2>2 DEF GoesOn, SameClaim
    <3>2. ObservesToFence(worker[v], next) \/ ObservesToWrite(worker[v], next)
      BY <2>2, <3>1 DEF GoesOn, GivesUp, Works, ObservesDone, Confirms, Ended
    <3>3. CASE ObservesToFence(worker[v], next) BY <3>1, <3>3 DEF ObservesToFence, Forward
    <3>4. CASE ObservesToWrite(worker[v], next)
      <4>1. /\ worker[v].pc = "work" /\ Decide(worker[v]) \in {"replace", "conditional"}
            /\ next.version = worker[v].version /\ next.expected = target.marker
        BY <3>4 DEF ObservesToWrite
      <4>2. worker[v].stream \in Stream /\ worker[v] \in WorkerState BY <1>0, <4>1 DEF ClaimOK
      <4>3. target.marker.commit[1] = worker[v].stream => worker[v].version >= target.marker.version
        BY <1>0, <4>1, <4>2, PlanIsForward
      <4> QED BY <3>1, <4>1, <4>3 DEF Forward
    <3> QED BY <3>2, <3>3, <3>4
  <2> QED BY <1>0, <1>2, <2>1, <2>2, WorkerSteps
<1> QED BY <1>1, <1>2 DEF AllForward

(* What a current claim read back stays there, or is followed by a later   *)
(* state of its stream.                                                    *)
LEMMA NextTruth == Quiet /\ PInv /\ DInv /\ SInv /\ [Next]_vars => Truth'
<1> SUFFICES ASSUME Quiet, PInv, DInv, SInv, [Next]_vars, NEW v \in Worker,
                    worker'[v].pc \in {"contains", "acknowledge"}, worker'[v].mode # "fence", Fenced(v)'
             PROVE  Reached(target', worker'[v].stream, worker'[v].version)
  BY DEF Truth
<1> DEFINE me == worker[v]
<1>0. /\ CInv /\ TypeOK /\ (\A w \in Worker : ClaimOK(w)) /\ worker \in [Worker -> WorkerState]
      /\ me \in WorkerState /\ target \in Target /\ target.marker.version \in Nat
  BY DEF PInv, CInv, TypeOK, Target, Marker, Version
<1>1. ASSUME worker'[v] = me PROVE Reached(target', worker'[v].stream, worker'[v].version)
  <2>1. me.pc # "idle" /\ WriteId(worker'[v]) = WriteId(me) BY <1>1
  <2>2. Fenced(v) BY <1>0, <2>1, FencedKept
  <2>3. Reached(target, me.stream, me.version) BY <1>1, <2>2 DEF SInv, Truth
  <2>4. CASE UNCHANGED target BY <1>1, <2>3, <2>4
  <2>5. ASSUME NEW q \in net, Lands(q) PROVE Reached(target', me.stream, me.version)
    <3>1. me.stream \in Stream /\ q.stream \in Stream /\ q.version \in Nat /\ me.version \in Nat
      BY <1>0, <2>1 DEF ClaimOK, TypeOK, Message, WorkerState, Version
    <3>2. Live(q.stream) BY <2>5, LandsLive
    <3>3. Live(me.stream) BY <2>2, <3>1 DEF DInv, LeaseOK, Fenced
    <3>4. q.stream = me.stream BY <3>1, <3>2, <3>3 DEF DInv, OneLive
    <3>5. CASE q.mode # "fence"
      <4>1. target.marker = q.expected BY <1>0, <2>5, Landed
      <4>2. q.version >= target.marker.version
        BY <2>3, <3>4, <3>5, <4>1 DEF SInv, AllForward, Forward, Reached
      <4>3. target.marker.version >= me.version BY <2>3 DEF Reached
      <4>4. q.version >= me.version BY SMT, <1>0, <3>1, <4>2, <4>3
      <4>5. /\ target'.graph = AcceptedState(q.stream, q.version)
            /\ target'.marker.shape = "present" /\ target'.marker.stream = q.stream
            /\ target'.marker.version = q.version /\ target'.marker.commit[1] = q.stream
        BY <1>0, <2>5, <3>5, WriteLands
      <4> QED BY <3>4, <4>4, <4>5 DEF Reached
    <3>6. CASE q.mode = "fence"
      <4>1. /\ target'.graph = target.graph /\ target'.marker.stream = target.marker.stream
            /\ target'.marker.version = target.marker.version
            /\ target'.marker.commit = target.marker.commit
            /\ target'.marker.shape = "present" <=> target.marker.shape = "present"
        BY <1>0, <2>5, <3>6, FenceLands
      <4> QED BY <2>3, <4>1 DEF Reached
    <3> QED BY <3>5, <3>6
  <2> QED BY <1>0, <1>1, <2>4, <2>5, QuietTarget
<1>2. ASSUME NEW next, GoesOn(v, next) PROVE Reached(target', worker'[v].stream, worker'[v].version)
  <2>1. /\ worker'[v] = next /\ UNCHANGED <<row, target>> /\ next.stream = me.stream
        /\ next.epoch = me.epoch /\ me.pc # "idle"
    BY <1>0, <1>2 DEF GoesOn, SameClaim
  <2>2. me.stream \in Stream /\ me.version \in Nat /\ Fenced(v)
    BY <1>0, <2>1 DEF ClaimOK, WorkerState, Version, Fenced
  <2>3. ObservesDone(me, next) \/ Confirms(me, next)
    BY <1>2, <2>1 DEF GoesOn, GivesUp, Works, ObservesToFence, ObservesToWrite, Ended
  <2>4. CASE ObservesDone(me, next)
    <3>1. Plan(me, target) = "acknowledge" /\ next.version = target.marker.version
      BY <2>4 DEF ObservesDone
    <3>2. /\ target.marker.shape = "present" /\ target.marker.stream = me.stream
          /\ target.marker.commit = CommitAt(target.marker.stream, target.marker.version)
      BY <1>0, <3>1, PlanAcknowledges
    <3>3. target.marker.commit[1] = me.stream BY SMT, <3>2 DEF CommitAt
    <3>4. target.graph = AcceptedState(me.stream, target.marker.version)
      BY <2>2, <3>2, <3>3 DEF SInv, Owned
    <3> QED BY SMT, <1>0, <2>1, <3>1, <3>2, <3>3, <3>4 DEF Reached
  <2>5. CASE Confirms(me, next)
    <3>1. next.version = me.version /\ next.mode = me.mode /\ me.pc \in {"verify", "contains"}
      BY <1>0, <2>5 DEF Confirms, WorkerState
    <3>2. CASE me.pc = "contains"
      <4>1. Reached(target, me.stream, me.version) BY <2>1, <2>2, <3>1, <3>2 DEF SInv, Truth
      <4> QED BY <2>1, <3>1, <4>1
    <3>3. CASE me.pc = "verify"
      <4>1. ReadsBack(Request(me), target) BY <2>1, <2>5, <3>1, <3>3 DEF Confirms
      <4>2. target.marker = MarkerOf(me.stream, me.version, WriteId(me))
        BY <4>1, RequestFields DEF ReadsBack
      <4>3. /\ target.marker.shape = "present" /\ target.marker.stream = me.stream
            /\ target.marker.version = me.version /\ target.marker.commit[1] = me.stream
        BY SMT, <4>2 DEF MarkerOf, CommitAt
      <4>4. target.graph = AcceptedState(me.stream, target.marker.version)
        BY <2>2, <4>3 DEF SInv, Owned
      <4> QED BY SMT, <2>1, <2>2, <3>1, <4>3, <4>4 DEF Reached
    <3> QED BY <3>1, <3>2, <3>3
  <2> QED BY <2>3, <2>4, <2>5
<1> QED BY <1>0, <1>1, <1>2, WorkerSteps

(* Progress moves only by the acknowledgement of a current claim. *)
LEMMA ProgressSteps ==
  ASSUME CInv, [Next]_vars, NEW s \in Stream, row'[s].projected # row[s].projected
  PROVE  \E w \in Worker : /\ worker[w].pc = "acknowledge" /\ worker[w].mode # "fence" /\ Fenced(w)
                           /\ worker[w].stream = s /\ row'[s].projected = worker[w].version
                           /\ UNCHANGED <<head, target, net>>
<1>0. TypeOK /\ row \in [Stream -> Row] BY DEF CInv, TypeOK
<1>1. PICK u \in Stream :
        /\ row' = [row EXCEPT ![u] = row'[u]] /\ UNCHANGED <<head, target, net>>
        /\ \/ \E x : Turns(u, x)
           \/ \E w \in Worker : \E work : Takes(w, u, work)
           \/ \E w \in Worker : \E x : Ends(w) /\ Records(w, x) /\ u = worker[w].stream
  BY RowSteps
<1>2. u = s BY <1>0, <1>1
<1>3. ASSUME NEW x, Turns(s, x) PROVE FALSE BY <1>0, <1>3 DEF Turns
<1>4. ASSUME NEW w \in Worker, NEW work, Takes(w, s, work) PROVE FALSE BY <1>0, <1>4, TakeWrites
<1>5. PICK w \in Worker : \E x : Ends(w) /\ Records(w, x) /\ s = worker[w].stream
  BY <1>1, <1>2, <1>3, <1>4
<1>6. PICK x : Ends(w) /\ Records(w, x) /\ s = worker[w].stream BY <1>5
<1>7. row'[s] = x BY <1>0, <1>6 DEF Records
<1> QED BY SMT, <1>1, <1>6, <1>7 DEF Records

(* What can land is ahead of the recorded progress. *)
LEMMA NextAhead == Quiet /\ PInv /\ DInv /\ SInv /\ [Next]_vars => Ahead'
<1> SUFFICES ASSUME Quiet, PInv, DInv, SInv, [Next]_vars, NEW r \in net',
                    r.expected = target'.marker, r.mode # "fence"
             PROVE  r.version >= row'[r.stream].projected
  BY DEF Ahead
<1>0. /\ CInv /\ TypeOK /\ TypeOK' /\ (\A w \in Worker : ClaimOK(w))
      /\ r.stream \in Stream /\ r.version \in Nat /\ row[r.stream].projected \in Nat
      /\ target.marker.version \in Nat
  BY NextCInv DEF PInv, CInv, TypeOK, Message, Row, Version, Target, Marker
<1>1. ASSUME NEW q \in net, Lands(q) PROVE FALSE BY <1>1, OthersAreDead DEF DInv
<1>2. UNCHANGED target BY <1>0, <1>1, QuietTarget
<1>3. CASE r \notin net
  <2>1. PICK w \in Worker : Sends(w) BY <1>0, <1>3, NetSteps
  <2>2. /\ r.stream = worker[w].stream /\ r.version = worker[w].version /\ r.mode = worker[w].mode
        /\ worker[w].pc = "ready" /\ Fenced(w) /\ UNCHANGED row
    BY SMT, <1>3, <2>1, RequestFields DEF Sends, Holds
  <2>3. worker[w].recorded <= worker[w].version /\ worker[w].recorded = row[worker[w].stream].projected
    BY <1>0, <2>2 DEF ClaimOK, Going
  <2> QED BY <1>0, <2>2, <2>3
<1>4. CASE r \in net /\ row'[r.stream].projected = row[r.stream].projected
  BY <1>2, <1>4 DEF SInv, Ahead
<1>5. CASE r \in net /\ row'[r.stream].projected # row[r.stream].projected
  <2>1. PICK w \in Worker : /\ worker[w].pc = "acknowledge" /\ worker[w].mode # "fence" /\ Fenced(w)
                            /\ worker[w].stream = r.stream
                            /\ row'[r.stream].projected = worker[w].version
    BY <1>0, <1>5, ProgressSteps
  <2>2. Reached(target, r.stream, worker[w].version) BY <2>1 DEF SInv, Truth
  <2>3. Forward(r, target.marker) BY <1>2, <1>5 DEF SInv, AllForward
  <2>4. /\ r.version >= target.marker.version /\ target.marker.version >= worker[w].version
        /\ worker[w].version \in Nat
    BY <1>0, <2>2, <2>3 DEF Forward, Reached, TypeOK, WorkerState, Version
  <2> QED BY SMT, <1>0, <2>1, <2>4
<1> QED BY <1>3, <1>4, <1>5

(* Where the graph is the stream's, it is not behind the progress. *)
LEMMA NextProgress == Quiet /\ PInv /\ DInv /\ SInv /\ [Next]_vars => Progress'
<1> SUFFICES ASSUME Quiet, PInv, DInv, SInv, [Next]_vars, NEW s \in Stream,
                    target'.marker.commit[1] = s
             PROVE  target'.marker.version >= row'[s].projected
  BY DEF Progress
<1>0. CInv /\ TypeOK BY DEF PInv, CInv
<1>1. ASSUME NEW q \in net, Lands(q), q.mode # "fence" PROVE target'.marker.version >= row'[s].projected
  <2>1. target.marker = q.expected /\ UNCHANGED row BY <1>0, <1>1, Landed
  <2>2. q.stream = s /\ target'.marker.version = q.version BY <1>0, <1>1, WriteLands
  <2> QED BY <1>1, <2>1, <2>2 DEF SInv, Ahead
<1>2. ASSUME NEW q \in net, Lands(q), q.mode = "fence" PROVE target'.marker.version >= row'[s].projected
  <2>1. /\ target'.marker.version = target.marker.version
        /\ target'.marker.commit = target.marker.commit /\ UNCHANGED row
    BY <1>0, <1>2, FenceLands, Landed
  <2> QED BY <2>1 DEF SInv, Progress
<1>3. CASE UNCHANGED target
  <2>1. CASE row'[s].projected = row[s].projected BY <1>3, <2>1 DEF SInv, Progress
  <2>2. CASE row'[s].projected # row[s].projected
    <3>1. PICK w \in Worker : /\ worker[w].pc = "acknowledge" /\ worker[w].mode # "fence" /\ Fenced(w)
                              /\ worker[w].stream = s /\ row'[s].projected = worker[w].version
      BY <1>0, <2>2, ProgressSteps
    <3>2. Reached(target, s, worker[w].version) BY <3>1 DEF SInv, Truth
    <3> QED BY <1>3, <3>1, <3>2 DEF Reached
  <2> QED BY <2>1, <2>2
<1> QED BY <1>0, <1>1, <1>2, <1>3, QuietTarget

LEMMA NextSInv == Quiet /\ PInv /\ DInv /\ SInv /\ [Next]_vars => SInv'
  BY NextOwned, NextAllForward, NextTruth, NextAhead, NextProgress DEF SInv

LEMMA InitSInv == Init => SInv
<1> SUFFICES ASSUME Init PROVE SInv OBVIOUS
<1>1. target.marker.commit[1] \notin Stream BY FoundAssumption DEF Init
<1>2. net = {} /\ \A w \in Worker : worker[w].pc = "idle" BY DEF Init, IdleWorker
<1> QED BY <1>1, <1>2 DEF SInv, Owned, AllForward, Ahead, Truth, Progress

LEMMA GraphsHold ==
  ASSUME Quiet
  PROVE  Spec => [](PInv /\ DInv /\ SInv)
<1>1. PInv /\ DInv /\ SInv /\ [Next]_vars => SInv' BY NextSInv
<1>2. Spec => []DInv BY DisablesHold DEF Quiet
<1> QED BY <1>1, <1>2, InitSInv, RequestsHold, PTL DEF Spec

(* Recorded progress is true when it is recorded and stays true for as     *)
(* long as the graph is the stream's (project, record_projected), for any  *)
(* number of workers whose requests run late or never and whose claims     *)
(* expire or crash, where nobody edits or wipes the target and streams are *)
(* disabled by the fenced path.                                            *)
THEOREM ProgressIsTrue ==
  ASSUME Quiet
  PROVE  Spec => ProgressIsShown
<1>1. PInv /\ DInv /\ SInv /\ PInv' /\ DInv' /\ SInv' /\ [Next]_vars
        => [AcknowledgedIsShown /\ RecordedIsServed']_vars
  <2> SUFFICES ASSUME PInv, SInv, SInv', [Next]_vars
               PROVE  AcknowledgedIsShown /\ RecordedIsServed'
    OBVIOUS
  <2>1. CInv BY DEF PInv
  <2>2. AcknowledgedIsShown
    <3> SUFFICES ASSUME NEW s \in Stream, row'[s].projected # row[s].projected
                 PROVE  Shows(s, row'[s].projected)
      BY DEF AcknowledgedIsShown
    <3>1. PICK w \in Worker : /\ worker[w].pc = "acknowledge" /\ worker[w].mode # "fence" /\ Fenced(w)
                              /\ worker[w].stream = s /\ row'[s].projected = worker[w].version
      BY <2>1, ProgressSteps
    <3>2. Reached(target, s, worker[w].version) BY <3>1 DEF SInv, Truth
    <3> QED BY <3>1, <3>2 DEF Reached, Shows
  <2>3. RecordedIsServed'
    <3> SUFFICES ASSUME NEW s \in Stream, target'.marker.stream = s, target'.marker.commit[1] = s
                 PROVE  /\ target'.marker.shape = "present"
                        /\ target'.marker.version >= row'[s].projected
                        /\ target'.graph = AcceptedState(s, target'.marker.version)
      BY DEF RecordedIsServed, Shows
    <3>1. target'.marker.version >= row'[s].projected BY DEF SInv, Progress
    <3>2. /\ target'.marker = MarkerOf(target'.marker.stream, target'.marker.version, target'.marker.writeId)
          /\ target'.graph = AcceptedState(s, target'.marker.version)
      BY DEF SInv, Owned
    <3>3. target'.marker.shape = "present" BY SMT, <3>2 DEF MarkerOf
    <3> QED BY <3>1, <3>2, <3>3
  <2> QED BY <2>2, <2>3
<1> QED BY <1>1, GraphsHold, PTL DEF Spec, ProgressIsShown

-----------------------------------------------------------------------------
(* The refinement. *)

(* The owner is the stream that is live. *)
LEMMA OwnerIsLive ==
  ASSUME OneLive
  PROVE  /\ \A s \in Stream : Live(s) => Owner = s
         /\ (\A s \in Stream : ~Live(s)) => Owner = NoStream
         /\ Owner \in Stream \cup {NoStream}
         /\ Owner # NoStream => Owner \in Stream /\ Live(Owner)
  BY DEF OneLive, Owner

(* Ownership passes only through none. *)
LEMMA OwnerSteps ==
  ASSUME CInv, OneLive, OneLive', [Next]_vars
  PROVE  Owner' = Owner \/ Owner = NoStream \/ Owner' = NoStream
<1> SUFFICES ASSUME Owner # NoStream, Owner' # NoStream PROVE Owner' = Owner OBVIOUS
<1>0. row \in [Stream -> Row] BY DEF CInv, TypeOK
<1>1. Owner \in Stream /\ Live(Owner) BY OwnerIsLive
<1>2. Owner' \in Stream /\ \E s \in Stream : Live(s)' /\ Owner' = s
  <2>1. \E s \in Stream : Live(s)' BY DEF Owner
  <2>2. PICK s \in Stream : Live(s)' BY <2>1
  <2>3. Owner' = s BY <2>2 DEF Owner, OneLive
  <2> QED BY <2>2, <2>3
<1>3. PICK v \in Stream : Live(v)' /\ Owner' = v BY <1>2
<1>4. CASE UNCHANGED row
  <2>1. Live(v) BY <1>3, <1>4 DEF Live
  <2> QED BY <1>1, <1>3, <2>1 DEF OneLive
<1>5. ASSUME NEW s \in Stream, row' = [row EXCEPT ![s] = row'[s]] PROVE Owner' = Owner
  <2>1. \A u \in Stream \ {s} : Live(u)' <=> Live(u) BY <1>0, <1>5 DEF Live
  <2>2. CASE v # s
    <3>1. Live(v) BY <1>3, <2>1, <2>2
    <3> QED BY <1>1, <1>3, <3>1 DEF OneLive
  <2>3. CASE v = s /\ Owner # s
    <3>1. \E u \in Stream : u = Owner /\ Live(u)' BY <1>1, <2>1, <2>3
    <3> QED BY <1>3, <2>3, <3>1 DEF OneLive
  <2> QED BY <1>3, <2>2, <2>3
<1> QED BY <1>4, <1>5, RowSteps

(* Every step of the projection is a step of the served graph, or none. *)
LEMMA NextServes ==
  ASSUME Quiet, PInv, DInv, SInv, DInv', [Next]_vars
  PROVE  [Graph!Next]_<<head, Owner, Served>>
<1>0. /\ CInv /\ TypeOK /\ OneLive /\ OneLive' /\ head \in [Stream -> Nat] /\ target \in Target
      /\ target.marker.version \in Nat
  BY DEF PInv, CInv, TypeOK, DInv, Target, Marker, Version
<1>1. ASSUME NEW s \in Stream, Accepts(s) PROVE Graph!Accept(s)
  BY <1>1 DEF Accepts, Graph!Accept, Owner, Served, Live
<1>2. ASSUME UNCHANGED <<head, target>> PROVE [Graph!Next]_<<head, Owner, Served>>
  <2>1. Served' = Served BY <1>2 DEF Served
  <2>2. Owner' \in Stream \cup {NoStream} BY DEF Owner
  <2>3. CASE Owner' = Owner BY <1>2, <2>1, <2>3
  <2>4. CASE Owner' # Owner
    <3>1. Owner = NoStream \/ Owner' = NoStream BY <1>0, <2>4, OwnerSteps
    <3>2. PICK s \in Stream \cup {NoStream} : s = Owner' BY <2>2
    <3>3. Graph!ChangeOwner(s) BY <1>2, <2>1, <3>1, <3>2 DEF Graph!ChangeOwner
    <3> QED BY <3>3 DEF Graph!Next
  <2> QED BY <2>3, <2>4
<1>3. ASSUME NEW q \in net, Lands(q) PROVE [Graph!Next]_<<head, Owner, Served>>
  <2>1. UNCHANGED <<head, row>> /\ target.marker = q.expected BY <1>0, <1>3, Landed
  <2>2. Owner' = Owner BY <2>1 DEF Owner, Live
  <2>3. CASE q.mode = "fence"
    <3>1. Served' = Served BY <1>0, <1>3, <2>3, FenceLands DEF Served
    <3> QED BY <2>1, <2>2, <3>1
  <2>4. CASE q.mode # "fence"
    <3>1. /\ q.stream \in Stream /\ q.version \in Nat /\ head[q.stream] \in Nat
          /\ q.version <= head[q.stream] /\ q.version >= 1
      BY <1>0, <2>4 DEF PInv, SentOK, TypeOK, Message, Version
    <3>2. Owner = q.stream /\ Owner # NoStream
      BY <1>0, <1>3, <3>1, LandsLive, OwnerIsLive, StreamAssumption
    <3>3. Served' = <<q.stream, q.version>>
      <4>1. /\ target'.marker.shape = "present" /\ target'.marker.stream = q.stream
            /\ target'.marker.version = q.version /\ target'.marker.commit[1] = q.stream
        BY <1>0, <1>3, <2>4, WriteLands
      <4> QED BY <3>1, <4>1 DEF Served
    <3>4. CASE Served' = Served BY <2>1, <2>2, <3>4
    <3>5. CASE Served' # Served
      <4>1. ASSUME Served[1] = Owner PROVE q.version > Served[2]
        <5>1. /\ target.marker.commit[1] \in Stream
              /\ Served = <<target.marker.stream, target.marker.version>>
          BY <3>2, <4>1 DEF Served
        <5>2. target.marker.commit[1] = target.marker.stream
          BY SMT, <5>1 DEF SInv, Owned, MarkerOf, CommitAt
        <5>3. target.marker.stream = q.stream /\ Served[2] = target.marker.version
          BY <3>2, <4>1, <5>1
        <5>4. q.version >= target.marker.version
          BY <2>1, <2>4, <5>2, <5>3 DEF SInv, AllForward, Forward
        <5>5. q.version # target.marker.version BY <3>3, <3>5, <5>1, <5>3
        <5> QED BY SMT, <1>0, <3>1, <5>3, <5>4, <5>5
      <4>2. q.version \in 1 .. head[Owner] BY SMT, <3>1, <3>2
      <4>3. Graph!Serve(q.version) BY <2>1, <2>2, <3>2, <3>3, <4>1, <4>2 DEF Graph!Serve
      <4> QED BY <3>2, <4>2, <4>3 DEF Graph!Next
    <3> QED BY <3>4, <3>5
  <2> QED BY <2>3, <2>4
<1>4. UNCHANGED head \/ \E s \in Stream : Accepts(s)
  BY <1>0, StepKinds DEF CInv, Turns, Takes, Lease, GoesOn, Sends, Ends, Run, Edit, Wipe
<1> QED BY <1>0, <1>1, <1>2, <1>3, <1>4, QuietTarget DEF Graph!Next

(* The leases, the decision table, the compare-and-swap and the two-phase  *)
(* disable together implement ServedGraph: the graph shows accepted states *)
(* of its owner only, never an older one after a newer one, and a stream   *)
(* that gave the graph up writes nothing more.                             *)
THEOREM ImplementsServedGraph ==
  ASSUME Quiet
  PROVE  Spec => ServesTheGraph
<1>1. Init => Graph!Init
  <2> SUFFICES ASSUME Init PROVE Graph!Init OBVIOUS
  <2>1. \A s \in Stream : ~Live(s) BY DEF Init, Live, NoRow
  <2>2. Owner = NoStream BY <2>1 DEF Owner
  <2>3. target.marker.commit[1] \notin Stream BY FoundAssumption DEF Init
  <2>4. Served = <<NoStream, 0>> BY <2>3 DEF Served
  <2> QED BY <2>2, <2>4 DEF Init, Graph!Init
<1>2. PInv /\ DInv /\ SInv /\ DInv' /\ [Next]_vars => [Graph!Next]_<<head, Owner, Served>>
  BY NextServes
<1> QED BY <1>1, <1>2, GraphsHold, PTL DEF Spec, ServesTheGraph, Graph!Spec

=============================================================================

------------------------------- MODULE ApiProofs -------------------------------
(***************************************************************************)
(* What the HTTP adapter promises for any number of requests in flight,     *)
(* whatever they ask and whatever the sizes of the pool and the semaphores. *)
(*                                                                         *)
(* OneResultPerScope rests on the advisory lock of a scope: while a         *)
(* transaction works under it no other of the scope does, so the row that   *)
(* was missing when the body looked is still missing when COMMIT takes      *)
(* effect, also when the handler was dropped meanwhile.  RefusedDidNothing  *)
(* rests on the shape of the handlers: the write transaction is the last    *)
(* stage of every handler that has one, so nothing is left that could       *)
(* refuse a request whose transaction committed.  What is said of admission *)
(* rests on the order of the stages: a handler is always at some place of   *)
(* its course through the router, and what the stages behind it found and   *)
(* took is what it has.                                                     *)
(***************************************************************************)
EXTENDS Api, WellFoundedInduction, TLAPS

(* Zenon proves the leaves that name no prover. *)
USE Zenon

Fields == {"status", "q", "rest", "conn", "held", "under", "slot", "result", "code", "knew"}
Scopes == {Scope(q) : q \in Requests}
Row == [digest : {q.digest : q \in Requests}, by : Slots]

(* The value for `nothing' is no row and no request's name.                 *)
NoneIsApart == None \notin Row \cup Slots

(* The shape of the state.                                                  *)
Shape ==
  /\ DOMAIN st = Slots
  /\ \A r \in Slots : DOMAIN st[r] = Fields
  /\ DOMAIN durable = Scopes
  /\ \A s \in Scopes : durable[s] \in Row \cup {None}
  /\ commits \subseteq Slots

(* A request that has not arrived has nothing; one that has is a request.   *)
Arrived ==
  \A r \in Slots :
     IF st[r].status = "idle"
     THEN r \notin commits /\ st[r].conn = "none" /\ st[r].result = None
     ELSE st[r].q \in Requests

InBody(r) == st[r].conn \in {"working", "committing"}

(* The transactions of one scope run one after another, dropped handlers'   *)
(* included.                                                                *)
ScopeIsExclusive ==
  \A r, x \in Slots : InBody(r) /\ InBody(x) /\ r # x => Scope(st[r].q) # Scope(st[x].q)

(* Whoever is committing is the first of its scope.                         *)
CommitsFirst == \A r \in Slots : st[r].conn = "committing" => Stored(r) = None

(* A commit is in the row of its scope, and stays there.                    *)
CommitsAreStored == \A r \in commits : Stored(r) # None /\ Stored(r).by = r

(* A result is that of the row of the scope.                                *)
ResultsAreStored ==
  \A r \in Slots :
     st[r].result # None => Stored(r) # None /\ Stored(r).by = st[r].result /\ SameDigest(r)

IInv == /\ Shape /\ Arrived /\ ScopeIsExclusive /\ CommitsFirst
        /\ CommitsAreStored /\ ResultsAreStored

-----------------------------------------------------------------------------
(* What a step leaves of a handler's record.                                *)

(* s2 differs from s in what Reply and Advance may change.                  *)
Moved(s, s2) ==
  /\ DOMAIN s2 = Fields
  /\ s2.q = s.q /\ s2.conn = s.conn /\ s2.under = s.under
  /\ s2.result = s.result /\ s2.knew = s.knew
  /\ s2.status \in {s.status, "answered"}

(* Reply keeps the request, its connection and its result.                  *)
LEMMA ReplyMoves ==
    ASSUME NEW s, DOMAIN s = Fields, NEW code
    PROVE  /\ Moved(s, Reply(s, code))
           /\ Reply(s, code).status = "answered" /\ Reply(s, code).code = code
  BY SMT DEF Reply, Moved, Fields

(* So does Advance, whichever stage it stops at.                            *)
LEMMA AdvanceMoves ==
    ASSUME NEW s, DOMAIN s = Fields, NEW rest
    PROVE  Moved(s, Advance(s, rest))
  <1> DEFINE n == FirstStop(s, rest)
             on == [s EXCEPT !.rest = SubSeq(rest, n, Len(rest))]
  <1>1. Moved(s, on)
    BY SMT DEF Moved, Fields
  <1>2. \A code : Moved(s, Reply(s, code))
    BY SMT, ReplyMoves
  <1>3. \/ Advance(s, rest) = Reply(s, "OK")
        \/ Advance(s, rest) = Reply(s, rest[n].code)
        \/ Advance(s, rest) = on
    BY DEF Advance
  <1> QED BY <1>1, <1>2, <1>3

(* The rows of a scope are rows.                                            *)
LEMMA StoredIsRow ==
    ASSUME Shape, NEW r \in Slots, st[r].q \in Requests
    PROVE  Scope(st[r].q) \in Scopes /\ Stored(r) \in Row \cup {None}
  BY DEF Shape, Scopes, Stored

(* A step of a handler that leaves the rows alone: it enters the body of    *)
(* its transaction only under the lock, sends COMMIT only when the row of   *)
(* its scope is missing, and takes a result only from that row.             *)
LEMMA QuietStep ==
    ASSUME IInv, NEW r \in Slots, st[r].status # "idle", NEW s2,
           st' = [st EXCEPT ![r] = s2], UNCHANGED <<durable, commits>>,
           DOMAIN s2 = Fields, s2.q = st[r].q, s2.status # "idle",
           s2.conn \in {"working", "committing"} => InBody(r) \/ LockIsFree(r),
           s2.conn = "committing" => Stored(r) = None,
           s2.result # None => Stored(r) # None /\ Stored(r).by = s2.result /\ SameDigest(r)
    PROVE  IInv'
  <1>1. DOMAIN st = Slots
    BY DEF IInv, Shape
  <1>2. st'[r] = s2 /\ DOMAIN st' = Slots /\ \A x \in Slots : x # r => st'[x] = st[x]
    BY <1>1
  <1>3. \A x \in Slots : st'[x].q = st[x].q
    BY <1>2
  <1>4. \A x \in Slots : Stored(x)' = Stored(x)
    BY <1>3 DEF Stored
  <1>5. \A x \in Slots : SameDigest(x)' = SameDigest(x)
    BY <1>3, <1>4 DEF SameDigest
  <1>6. Shape'
    BY <1>2 DEF IInv, Shape
  <1>7. Arrived'
    BY <1>2 DEF IInv, Arrived
  <1>8. ScopeIsExclusive'
    <2>1. \A x \in Slots : x # r => InBody(x)' = InBody(x)
      BY <1>2 DEF InBody
    <2>2. \A x \in Slots : InBody(x) /\ x # r /\ InBody(r)' => Scope(st[x].q) # Scope(st[r].q)
      BY <1>2 DEF InBody, LockIsFree, IInv, ScopeIsExclusive
    <2> QED BY <1>3, <2>1, <2>2 DEF IInv, ScopeIsExclusive
  <1>9. CommitsFirst'
    BY <1>2, <1>4 DEF IInv, CommitsFirst
  <1>10. CommitsAreStored'
    BY <1>4 DEF IInv, Shape, CommitsAreStored
  <1>11. ResultsAreStored'
    <2> SUFFICES ASSUME NEW x \in Slots, st'[x].result # None
                 PROVE  Stored(x)' # None /\ Stored(x)'.by = st'[x].result /\ SameDigest(x)'
      BY DEF ResultsAreStored
    <2>1. Stored(x)' = Stored(x) /\ SameDigest(x)' = SameDigest(x)
      BY <1>4, <1>5
    <2>2. CASE x = r
      BY <1>2, <2>1, <2>2
    <2>3. CASE x # r
      <3>1. Stored(x) # None /\ Stored(x).by = st'[x].result /\ SameDigest(x)
        BY <1>2, <2>3 DEF IInv, ResultsAreStored
      <3> QED BY <2>1, <3>1
    <2> QED BY <2>2, <2>3
  <1> QED BY <1>6, <1>7, <1>8, <1>9, <1>10, <1>11 DEF IInv

(* COMMIT takes effect: the row of the scope was missing, so it is this     *)
(* request's from now on.                                                   *)
LEMMA RecordStep ==
    ASSUME NoneIsApart, IInv, NEW r \in Slots, st[r].conn = "committing", NEW s2,
           st' = [st EXCEPT ![r] = s2], Record(r),
           DOMAIN s2 = Fields, s2.q = st[r].q, s2.status # "idle", s2.conn = "none",
           s2.result \in {st[r].result, r}
    PROVE  IInv'
  <1> DEFINE row == [digest |-> st[r].q.digest, by |-> r]
             scope == Scope(st[r].q)
  <1>1. DOMAIN st = Slots /\ DOMAIN durable = Scopes /\ st[r].q \in Requests
    BY DEF IInv, Shape, Arrived
  <1>2. st'[r] = s2 /\ DOMAIN st' = Slots /\ \A x \in Slots : x # r => st'[x] = st[x]
    BY <1>1
  <1>3. \A x \in Slots : st'[x].q = st[x].q
    BY <1>2
  <1>4. scope \in Scopes /\ Stored(r) = None
    BY <1>1 DEF Scopes, IInv, CommitsFirst
  <1>5. row \in Row /\ row # None /\ row.by = r /\ row.digest = st[r].q.digest
    BY SMT, <1>1 DEF Row, NoneIsApart
  <1>6. /\ DOMAIN durable' = Scopes /\ durable'[scope] = row
        /\ \A s \in Scopes : s # scope => durable'[s] = durable[s]
        /\ commits' = commits \cup {r}
    BY <1>1, <1>4 DEF Record
  <1> HIDE DEF row, scope
  <1>7. \A x \in Slots : Scope(st[x].q) = scope => Stored(x) = None /\ Stored(x)' = row
    BY <1>3, <1>4, <1>6 DEF Stored, scope
  <1>8. \A x \in Slots : Scope(st[x].q) \in Scopes /\ Scope(st[x].q) # scope => Stored(x)' = Stored(x)
    BY <1>3, <1>6 DEF Stored
  <1>9. \A x \in Slots : st[x].status # "idle" => Scope(st[x].q) \in Scopes
    BY DEF IInv, Arrived, Scopes
  <1>10. Shape'
    BY <1>2, <1>5, <1>6 DEF IInv, Shape
  <1>11. Arrived'
    BY <1>1, <1>2, <1>6 DEF IInv, Arrived
  <1>12. ScopeIsExclusive'
    <2>1. ~InBody(r)'
      BY <1>2 DEF InBody
    <2>2. \A x \in Slots : x # r => InBody(x)' = InBody(x)
      BY <1>2 DEF InBody
    <2> QED BY <1>3, <2>1, <2>2 DEF IInv, ScopeIsExclusive
  <1>13. CommitsFirst'
    <2> SUFFICES ASSUME NEW x \in Slots, st'[x].conn = "committing" PROVE Stored(x)' = None
      BY DEF CommitsFirst
    <2>1. x # r /\ st[x].conn = "committing"
      BY <1>2
    <2>2. Scope(st[x].q) # scope
      BY <2>1 DEF IInv, ScopeIsExclusive, InBody, scope
    <2>3. st[x].status # "idle"
      BY <2>1 DEF IInv, Arrived
    <2> QED BY <1>8, <1>9, <2>1, <2>2, <2>3 DEF IInv, CommitsFirst
  <1>14. CommitsAreStored'
    <2> SUFFICES ASSUME NEW x \in commits' PROVE Stored(x)' # None /\ Stored(x)'.by = x
      BY DEF CommitsAreStored
    <2>1. CASE x = r
      BY <2>1, <1>5, <1>7 DEF scope
    <2>2. CASE x # r
      <3>1. x \in commits /\ x \in Slots
        BY <2>2, <1>6 DEF IInv, Shape
      <3>2. Stored(x) # None /\ Stored(x).by = x /\ st[x].status # "idle"
        BY <3>1 DEF IInv, CommitsAreStored, Arrived
      <3> QED BY <3>1, <3>2, <1>7, <1>8, <1>9
    <2> QED BY <2>1, <2>2
  <1>15. ResultsAreStored'
    <2> SUFFICES ASSUME NEW x \in Slots, st'[x].result # None
                 PROVE  Stored(x)' # None /\ Stored(x)'.by = st'[x].result /\ SameDigest(x)'
      BY DEF ResultsAreStored
    <2>1. CASE x = r
      <3>1. st[r].result = None
        BY <1>4 DEF IInv, ResultsAreStored
      <3>2. st'[x].result = r
        BY <2>1, <3>1, <1>2
      <3> QED BY <2>1, <3>2, <1>3, <1>5, <1>7 DEF SameDigest, scope
    <2>2. CASE x # r
      <3>1. st[x].result # None /\ st'[x] = st[x]
        BY <2>2, <1>2
      <3>2. Stored(x) # None /\ Stored(x).by = st[x].result /\ SameDigest(x) /\ st[x].status # "idle"
        BY <3>1 DEF IInv, ResultsAreStored, Arrived
      <3>3. Stored(x)' = Stored(x)
        BY <3>2, <1>7, <1>8, <1>9
      <3> QED BY <3>1, <3>2, <3>3 DEF SameDigest
    <2> QED BY <2>1, <2>2
  <1> QED BY <1>10, <1>11, <1>12, <1>13, <1>14, <1>15 DEF IInv

-----------------------------------------------------------------------------
(* Every action is a step of one of these kinds.                            *)

(* At the start no request has arrived and no row is stored.                *)
LEMMA Initial == Init => IInv
  <1> SUFFICES ASSUME Init PROVE IInv
    BY SMT
  <1>1. /\ DOMAIN st = Slots /\ commits = {} /\ DOMAIN durable = Scopes
        /\ \A s \in Scopes : durable[s] = None
    BY DEF Init, Scopes
  <1>2. \A r \in Slots : st[r] = Idle
    BY DEF Init
  <1>3. /\ DOMAIN Idle = Fields /\ Idle.status = "idle" /\ Idle.conn = "none"
        /\ Idle.result = None
    BY SMT DEF Idle, Fields
  <1>4. Shape
    BY <1>1, <1>2, <1>3 DEF Shape
  <1>5. Arrived
    BY <1>1, <1>2, <1>3 DEF Arrived
  <1>6. ScopeIsExclusive /\ CommitsFirst
    BY <1>2, <1>3 DEF ScopeIsExclusive, CommitsFirst, InBody
  <1>7. CommitsAreStored /\ ResultsAreStored
    BY <1>1, <1>2, <1>3 DEF CommitsAreStored, ResultsAreStored
  <1> QED BY <1>4, <1>5, <1>6, <1>7 DEF IInv

(* A handler that moves on, or answers, with the connection it had or none  *)
(* and the result it had.                                                   *)
LEMMA MovedStep ==
    ASSUME IInv, NEW r \in Slots, st[r].status # "idle", NEW s2,
           st' = [st EXCEPT ![r] = s2], UNCHANGED <<durable, commits>>,
           Moved(st[r], s2) \/ Moved(Disconnected(st[r]), s2)
    PROVE  IInv'
  <1>1. DOMAIN st[r] = Fields
    BY DEF IInv, Shape
  <1>2. /\ Disconnected(st[r]).conn = "none" /\ Disconnected(st[r]).q = st[r].q
        /\ Disconnected(st[r]).status = st[r].status
        /\ Disconnected(st[r]).result = st[r].result
    BY <1>1 DEF Disconnected, Fields
  <1>3. /\ DOMAIN s2 = Fields /\ s2.q = st[r].q /\ s2.status # "idle"
        /\ s2.conn \in {st[r].conn, "none"} /\ s2.result = st[r].result
    BY <1>2 DEF Moved
  <1>4. s2.conn \in {"working", "committing"} => InBody(r) \/ LockIsFree(r)
    BY <1>3 DEF InBody
  <1>5. s2.conn = "committing" => Stored(r) = None
    BY <1>3 DEF IInv, CommitsFirst
  <1>6. s2.result # None => Stored(r) # None /\ Stored(r).by = s2.result /\ SameDigest(r)
    BY <1>3 DEF IInv, ResultsAreStored
  <1> QED BY <1>3, <1>4, <1>5, <1>6, QuietStep

(* A dropped connection leaves the rest of the record.                      *)
LEMMA DisconnectedFields ==
    ASSUME NEW s, DOMAIN s = Fields
    PROVE  /\ DOMAIN Disconnected(s) = Fields
           /\ Disconnected(s).conn = "none" /\ Disconnected(s).q = s.q
           /\ Disconnected(s).status = s.status /\ Disconnected(s).result = s.result
           /\ Disconnected(s).rest = s.rest /\ Disconnected(s).code = s.code
           /\ Moved(Disconnected(s), Disconnected(s))
  BY DEF Disconnected, Fields, Moved

(* A request arrives.                                                       *)
LEMMA ArriveStep ==
    ASSUME IInv, NEW r \in Slots, Arrive(r)
    PROVE  IInv'
  <1>0. PICK q \in Requests :
        st' = [st EXCEPT ![r] =
                 Advance([Idle EXCEPT !.status = "serving", !.q = q,
                            !.knew = durable[Scope(q)] # None /\ durable[Scope(q)].digest = q.digest],
                         router[q.op])]
    BY DEF Arrive
  <1> DEFINE s1 == [Idle EXCEPT !.status = "serving", !.q = q,
                      !.knew = durable[Scope(q)] # None /\ durable[Scope(q)].digest = q.digest]
             s2 == Advance(s1, router[q.op])
  <1>1. DOMAIN s1 = Fields /\ s1.q = q /\ s1.status = "serving" /\ s1.conn = "none" /\ s1.result = None
    BY SMT DEF Idle, Fields
  <1> HIDE DEF s1
  <1>2. DOMAIN s2 = Fields /\ s2.q = q /\ s2.status # "idle" /\ s2.conn = "none" /\ s2.result = None
    <2>1. Moved(s1, s2)
      BY <1>1, AdvanceMoves
    <2> QED BY <1>1, <2>1 DEF Moved
  <1>3. st' = [st EXCEPT ![r] = s2]
    BY <1>0 DEF s1
  <1> HIDE DEF s2
  <1>4. st[r].status = "idle" /\ r \notin commits /\ UNCHANGED <<durable, commits>>
    BY DEF Arrive, IInv, Arrived
  <1>5. DOMAIN st = Slots
    BY DEF IInv, Shape
  <1>6. st'[r] = s2 /\ DOMAIN st' = Slots /\ \A x \in Slots : x # r => st'[x] = st[x]
    BY <1>3, <1>5
  <1>7. \A x \in Slots : x # r => Stored(x)' = Stored(x) /\ SameDigest(x)' = SameDigest(x)
    BY <1>4, <1>6 DEF Stored, SameDigest
  <1>8. Shape'
    BY <1>2, <1>4, <1>6 DEF IInv, Shape
  <1>9. Arrived'
    BY <1>2, <1>4, <1>6 DEF IInv, Arrived
  <1>10. ScopeIsExclusive'
    <2>1. ~InBody(r)'
      BY <1>2, <1>6 DEF InBody
    <2>2. \A x \in Slots : x # r => InBody(x)' = InBody(x)
      BY <1>6 DEF InBody
    <2>3. \A x \in Slots : x # r => Scope(st'[x].q) = Scope(st[x].q)
      BY <1>6
    <2> QED BY <2>1, <2>2, <2>3 DEF IInv, ScopeIsExclusive
  <1>11. CommitsFirst'
    BY <1>2, <1>6, <1>7 DEF IInv, CommitsFirst
  <1>12. CommitsAreStored'
    BY <1>4, <1>7 DEF IInv, Shape, CommitsAreStored
  <1>13. ResultsAreStored'
    <2> SUFFICES ASSUME NEW x \in Slots, st'[x].result # None
                 PROVE  Stored(x)' # None /\ Stored(x)'.by = st'[x].result /\ SameDigest(x)'
      BY DEF ResultsAreStored
    <2>1. x # r /\ st'[x] = st[x]
      BY <1>2, <1>6
    <2>2. Stored(x)' = Stored(x) /\ SameDigest(x)' = SameDigest(x)
      BY <1>7, <2>1
    <2>3. Stored(x) # None /\ Stored(x).by = st[x].result /\ SameDigest(x)
      BY <2>1 DEF IInv, ResultsAreStored
    <2> QED BY <2>1, <2>2, <2>3
  <1> QED BY <1>8, <1>9, <1>10, <1>11, <1>12, <1>13 DEF IInv

(* An answer from the stored row takes its result from that row.            *)
LEMMA FromRowStep ==
    ASSUME IInv, NEW r \in Slots, st[r].status # "idle", NEW then, Stored(r) # None,
           st' = [st EXCEPT ![r] = FromRow(Disconnected(st[r]), r, then)],
           UNCHANGED <<durable, commits>>
    PROVE  IInv'
  <1> DEFINE s == Disconnected(st[r])
             taken == [s EXCEPT !.result = Stored(r).by]
  <1>1. /\ DOMAIN s = Fields /\ s.conn = "none" /\ s.q = st[r].q /\ s.status = st[r].status
        /\ s.result = st[r].result
    BY DisconnectedFields DEF IInv, Shape
  <1> HIDE DEF s
  <1>2. CASE SameDigest(r)
    <2>1. /\ DOMAIN taken = Fields /\ taken.conn = "none" /\ taken.q = st[r].q
          /\ taken.status = st[r].status /\ taken.result = Stored(r).by
      BY <1>1 DEF Fields
    <2> HIDE DEF taken
    <2>2. Moved(taken, Advance(taken, then))
      BY <2>1, AdvanceMoves
    <2> DEFINE s2 == Advance(taken, then)
    <2>3. st' = [st EXCEPT ![r] = s2]
      BY <1>2 DEF FromRow, s, taken
    <2>4. /\ DOMAIN s2 = Fields /\ s2.q = st[r].q /\ s2.status # "idle" /\ s2.conn = "none"
          /\ s2.result = Stored(r).by
      BY <2>1, <2>2 DEF Moved
    <2> HIDE DEF s2
    <2> QED BY <1>2, <2>3, <2>4, QuietStep
  <1>3. CASE ~SameDigest(r)
    <2> DEFINE s2 == Reply(s, from_ledger("IdempotencyConflict"))
    <2>1. Moved(s, s2)
      BY <1>1, ReplyMoves
    <2>2. st' = [st EXCEPT ![r] = s2]
      BY <1>3 DEF FromRow, s
    <2> HIDE DEF s2
    <2> QED BY <2>1, <2>2, MovedStep DEF s
  <1> QED BY <1>2, <1>3

(* A serving handler is that of a request that arrived.                     *)
LEMMA ServingFields ==
    ASSUME IInv, NEW r \in Slots, Serving(r)
    PROVE  st[r].status # "idle" /\ DOMAIN st[r] = Fields
  BY DEF Serving, IInv, Shape

(* Answering, from wherever the handler awaits.                             *)
LEMMA AnswerStep ==
    ASSUME IInv, NEW r \in Slots, Serving(r), NEW code, UNCHANGED <<durable, commits>>,
           \/ st' = [st EXCEPT ![r] = Reply(st[r], code)]
           \/ st' = [st EXCEPT ![r] = Reply(Disconnected(st[r]), code)]
    PROVE  IInv'
  <1>1. st[r].status # "idle" /\ DOMAIN st[r] = Fields
    BY ServingFields
  <1>2. Moved(st[r], Reply(st[r], code)) /\ Moved(Disconnected(st[r]), Reply(Disconnected(st[r]), code))
    BY <1>1, ReplyMoves, DisconnectedFields
  <1> QED BY <1>1, <1>2, MovedStep

(* Going on to the next stage, its connection given back if it had one.     *)
LEMMA AdvanceStep ==
    ASSUME IInv, NEW r \in Slots, Serving(r), NEW rest, UNCHANGED <<durable, commits>>,
           NEW s, s = st[r] \/ s = Disconnected(st[r]),
           st' = [st EXCEPT ![r] = Advance(s, rest)]
    PROVE  IInv'
  <1>1. st[r].status # "idle" /\ DOMAIN st[r] = Fields
    BY ServingFields
  <1>2. Moved(s, Advance(s, rest))
    BY <1>1, AdvanceMoves, DisconnectedFields
  <1> QED BY <1>1, <1>2, MovedStep

(* Taking or giving back a permit or a slot on the way.                     *)
LEMMA GuardStep ==
    ASSUME IInv, NEW r \in Slots, Serving(r), NEW rest, UNCHANGED <<durable, commits>>,
           NEW n,
           \/ st' = [st EXCEPT ![r] = Advance([st[r] EXCEPT !.held = n], rest)]
           \/ st' = [st EXCEPT ![r] = Advance([st[r] EXCEPT !.slot = n], rest)]
    PROVE  IInv'
  <1>1. st[r].status # "idle" /\ DOMAIN st[r] = Fields
    BY ServingFields
  <1>2. ASSUME NEW s, s = [st[r] EXCEPT !.held = n] \/ s = [st[r] EXCEPT !.slot = n]
        PROVE  Moved(st[r], Advance(s, rest))
    <2>1. /\ DOMAIN s = Fields /\ s.q = st[r].q /\ s.conn = st[r].conn /\ s.under = st[r].under
          /\ s.result = st[r].result /\ s.knew = st[r].knew /\ s.status = st[r].status
      BY <1>1, <1>2 DEF Fields
    <2>2. Moved(s, Advance(s, rest))
      BY <2>1, AdvanceMoves
    <2> QED BY <2>1, <2>2 DEF Moved
  <1> QED BY <1>1, <1>2, MovedStep

(* The stages of a handler up to the end of its transaction's body.         *)
LEMMA StepStep ==
    ASSUME IInv, NEW r \in Slots, Step(r)
    PROVE  IInv'
  <1>1. CASE TakePermits(r)
    <2>1. Serving(r) /\ UNCHANGED <<durable, commits>>
      BY <1>1 DEF TakePermits, At
    <2>2. \/ st' = [st EXCEPT ![r] = Advance([st[r] EXCEPT !.held = Head(st[r].rest).n], Tail(st[r].rest))]
          \/ st' = [st EXCEPT ![r] = Reply(st[r], Busy)]
      <3>1. CASE FreePermits >= Head(st[r].rest).n
        BY <1>1, <3>1 DEF TakePermits
      <3>2. CASE ~(FreePermits >= Head(st[r].rest).n)
        BY <1>1, <3>2 DEF TakePermits
      <3> QED BY <3>1, <3>2
    <2> QED BY <2>1, <2>2, GuardStep, AnswerStep
  <1>2. CASE ReleasePermits(r)
    <2>1. Serving(r) /\ UNCHANGED <<durable, commits>>
      BY <1>2 DEF ReleasePermits, At
    <2>2. st' = [st EXCEPT ![r] = Advance([st[r] EXCEPT !.held = 0], Tail(st[r].rest))]
      BY <1>2 DEF ReleasePermits
    <2> QED BY <2>1, <2>2, GuardStep
  <1>3. CASE TakeSlot(r)
    <2>1. Serving(r) /\ UNCHANGED <<durable, commits>>
      BY <1>3 DEF TakeSlot, At
    <2>2. \/ st' = [st EXCEPT ![r] = Advance([st[r] EXCEPT !.slot = TRUE], Tail(st[r].rest))]
          \/ st' = [st EXCEPT ![r] = Reply(st[r], Busy)]
      <3>1. CASE FreeSlots > 0
        BY <1>3, <3>1 DEF TakeSlot
      <3>2. CASE ~(FreeSlots > 0)
        BY <1>3, <3>2 DEF TakeSlot
      <3> QED BY <3>1, <3>2
    <2> QED BY <2>1, <2>2, GuardStep, AnswerStep
  <1>4. CASE ValidatorAnswers(r)
    <2>1. Serving(r) /\ UNCHANGED <<durable, commits>>
      BY <1>4 DEF ValidatorAnswers, At
    <2>2. PICK outcome : st' = [st EXCEPT ![r] = IF outcome = "ok" THEN Advance(st[r], Tail(st[r].rest))
                                                 ELSE Reply(st[r], from_ledger(outcome))]
      BY <1>4 DEF ValidatorAnswers
    <2>3. CASE outcome = "ok"
      BY <2>1, <2>2, <2>3, AdvanceStep
    <2>4. CASE outcome # "ok"
      <3>1. st' = [st EXCEPT ![r] = Reply(st[r], from_ledger(outcome))]
        BY <2>2, <2>4
      <3> QED BY <2>1, <3>1, AnswerStep
    <2> QED BY <2>3, <2>4
  <1>5. CASE ReadLocal(r)
    <2>1. /\ Serving(r) /\ UNCHANGED <<durable, commits>>
          /\ st' = [st EXCEPT ![r] = Advance(st[r], Tail(st[r].rest))]
      BY <1>5 DEF ReadLocal, At
    <2> QED BY <2>1, AdvanceStep
  <1>6. CASE Connect(r)
    <2> DEFINE conn == IF Head(st[r].rest).do = "transact" THEN "waiting" ELSE "reading"
               s2 == [st[r] EXCEPT !.conn = conn, !.under = st[r].held]
    <2>1. Serving(r) /\ UNCHANGED <<durable, commits>>
      BY <1>6 DEF Connect, NeedsConnection
    <2>2. st[r].status # "idle" /\ DOMAIN st[r] = Fields /\ DOMAIN st = Slots
      BY <2>1, ServingFields DEF IInv, Shape
    <2>3. st' = [st EXCEPT ![r] = s2]
      BY <1>6 DEF Connect
    <2>4. /\ DOMAIN s2 = Fields /\ s2.q = st[r].q /\ s2.status # "idle"
          /\ s2.conn \in {"waiting", "reading"} /\ s2.result = st[r].result
      BY SMT, <2>2 DEF Fields
    <2> HIDE DEF s2
    <2>5. s2.result # None => Stored(r) # None /\ Stored(r).by = s2.result /\ SameDigest(r)
      BY <2>4 DEF IInv, ResultsAreStored
    <2> QED BY <2>1, <2>2, <2>3, <2>4, <2>5, QuietStep
  <1>7. CASE PoolTimedOut(r)
    <2>1. /\ Serving(r) /\ UNCHANGED <<durable, commits>>
          /\ st' = [st EXCEPT ![r] = Reply(st[r], from_ledger("DependencyUnavailable"))]
      BY <1>7 DEF PoolTimedOut, NeedsConnection
    <2> QED BY <2>1, AnswerStep
  <1>8. CASE ReadEnds(r)
    <2>1. Serving(r) /\ UNCHANGED <<durable, commits>> /\ st[r].status # "idle"
      BY <1>8, ServingFields DEF ReadEnds
    <2>2. \/ \E code : st' = [st EXCEPT ![r] = Reply(Disconnected(st[r]), code)]
          \/ /\ Stored(r) # None
             /\ \E then : st' = [st EXCEPT ![r] = FromRow(Disconnected(st[r]), r, then)]
          \/ \E rest : st' = [st EXCEPT ![r] = Advance(Disconnected(st[r]), rest)]
      BY <1>8 DEF ReadEnds
    <2> QED BY <2>1, <2>2, AnswerStep, FromRowStep, AdvanceStep
  <1>9. CASE LockGranted(r)
    <2> DEFINE s2 == [st[r] EXCEPT !.conn = "working"]
    <2>1. Serving(r) /\ UNCHANGED <<durable, commits>> /\ LockIsFree(r)
      BY <1>9 DEF LockGranted
    <2>2. st[r].status # "idle" /\ DOMAIN st[r] = Fields
      BY <2>1, ServingFields
    <2>3. st' = [st EXCEPT ![r] = s2]
      BY <1>9 DEF LockGranted
    <2>4. /\ DOMAIN s2 = Fields /\ s2.q = st[r].q /\ s2.status # "idle"
          /\ s2.conn = "working" /\ s2.result = st[r].result
      BY <2>2 DEF Fields
    <2> HIDE DEF s2
    <2>5. s2.result # None => Stored(r) # None /\ Stored(r).by = s2.result /\ SameDigest(r)
      BY <2>4 DEF IInv, ResultsAreStored
    <2> QED BY <2>1, <2>2, <2>3, <2>4, <2>5, QuietStep
  <1>10. CASE BodyEnds(r)
    <2>1. /\ Serving(r) /\ UNCHANGED <<durable, commits>> /\ InBody(r)
      BY <1>10 DEF BodyEnds, InBody
    <2>2. st[r].status # "idle" /\ DOMAIN st[r] = Fields
      BY <2>1, ServingFields
    <2>3. CASE Stored(r) # None
      <3>1. \E then : st' = [st EXCEPT ![r] = FromRow(Disconnected(st[r]), r, then)]
        BY <1>10, <2>3 DEF BodyEnds
      <3> QED BY <2>1, <2>2, <2>3, <3>1, FromRowStep
    <2>4. CASE Stored(r) = None
      <3> DEFINE s2 == [st[r] EXCEPT !.conn = "committing"]
      <3>1. \/ \E code : st' = [st EXCEPT ![r] = Reply(Disconnected(st[r]), code)]
            \/ st' = [st EXCEPT ![r] = s2]
        BY <1>10, <2>4 DEF BodyEnds
      <3>2. /\ DOMAIN s2 = Fields /\ s2.q = st[r].q /\ s2.status # "idle"
            /\ s2.conn = "committing" /\ s2.result = st[r].result
        BY <2>2 DEF Fields
      <3> HIDE DEF s2
      <3>3. s2.result # None => Stored(r) # None /\ Stored(r).by = s2.result /\ SameDigest(r)
        BY <3>2 DEF IInv, ResultsAreStored
      <3>4. CASE st' = [st EXCEPT ![r] = s2]
        BY <2>1, <2>2, <2>4, <3>2, <3>3, <3>4, QuietStep
      <3> QED BY <2>1, <3>1, <3>4, AnswerStep
    <2> QED BY <2>3, <2>4
  <1> QED BY <1>1, <1>2, <1>3, <1>4, <1>5, <1>6, <1>7, <1>8, <1>9, <1>10 DEF Step

(* Who is committing was served, whether or not its handler still is.       *)
LEMMA CommittingFields ==
    ASSUME IInv, NEW r \in Slots, st[r].conn = "committing"
    PROVE  st[r].status # "idle" /\ DOMAIN st[r] = Fields
  BY DEF IInv, Shape, Arrived

(* COMMIT is answered, to its handler or to nobody.                         *)
LEMMA CommitEndsStep ==
    ASSUME NoneIsApart, IInv, NEW r \in Slots, CommitEnds(r)
    PROVE  IInv'
  <1>1. st[r].conn = "committing" /\ Record(r)
    BY DEF CommitEnds
  <1>2. st[r].status # "idle" /\ DOMAIN st[r] = Fields
    BY <1>1, CommittingFields
  <1> DEFINE s == Disconnected(st[r])
             own == [s EXCEPT !.result = r]
  <1>3. /\ DOMAIN s = Fields /\ s.conn = "none" /\ s.q = st[r].q /\ s.status = st[r].status
        /\ s.result = st[r].result
    BY <1>2, DisconnectedFields
  <1>4. CASE Serving(r)
    <2> DEFINE s2 == Advance(own, Tail(st[r].rest))
    <2>1. st' = [st EXCEPT ![r] = s2]
      BY <1>4 DEF CommitEnds
    <2> HIDE DEF s
    <2>2. /\ DOMAIN own = Fields /\ own.conn = "none" /\ own.q = st[r].q
          /\ own.status = st[r].status /\ own.result = r
      BY <1>3 DEF Fields
    <2> HIDE DEF own
    <2>3. Moved(own, s2)
      BY <2>2, AdvanceMoves
    <2>4. /\ DOMAIN s2 = Fields /\ s2.conn = "none" /\ s2.q = st[r].q /\ s2.status # "idle"
          /\ s2.result = r
      BY <1>2, <2>2, <2>3 DEF Moved
    <2> HIDE DEF s2
    <2> QED BY <1>1, <2>1, <2>4, RecordStep
  <1>5. CASE ~Serving(r)
    <2>1. st' = [st EXCEPT ![r] = s]
      BY <1>5 DEF CommitEnds
    <2> HIDE DEF s
    <2> QED BY <1>1, <1>2, <1>3, <2>1, RecordStep
  <1> QED BY <1>4, <1>5

(* The connection breaks, with the COMMIT done or not.                      *)
LEMMA ConnectionLostStep ==
    ASSUME NoneIsApart, IInv, NEW r \in Slots, ConnectionLost(r)
    PROVE  IInv'
  <1> DEFINE s2 == Reply(Disconnected(st[r]), from_ledger("DependencyUnavailable"))
  <1>1. Serving(r) /\ st' = [st EXCEPT ![r] = s2]
    BY DEF ConnectionLost
  <1>2. CASE UNCHANGED <<durable, commits>>
    BY <1>1, <1>2, AnswerStep
  <1>3. CASE st[r].conn = "committing" /\ Record(r)
    <2>1. st[r].status # "idle" /\ DOMAIN st[r] = Fields
      BY <1>1, ServingFields
    <2>2. Moved(Disconnected(st[r]), s2) /\ s2.status = "answered"
      <3>1. DOMAIN Disconnected(st[r]) = Fields
        BY <2>1, DisconnectedFields
      <3> QED BY <3>1, ReplyMoves
    <2>3. /\ DOMAIN s2 = Fields /\ s2.conn = "none" /\ s2.q = st[r].q /\ s2.status # "idle"
          /\ s2.result = st[r].result
      BY <2>1, <2>2, DisconnectedFields DEF Moved
    <2> HIDE DEF s2
    <2> QED BY <1>1, <1>3, <2>3, RecordStep
  <1> QED BY <1>2, <1>3 DEF ConnectionLost

(* Every step keeps the invariant.                                          *)
LEMMA Inductive == NoneIsApart /\ IInv /\ [Next]_vars => IInv'
  <1> SUFFICES ASSUME NoneIsApart, IInv, [Next]_vars PROVE IInv'
    BY SMT
  <1>1. ASSUME NEW r \in Slots, EdgeTimeout(r) \/ StatementTimesOut(r)
        PROVE  IInv'
    BY <1>1, AnswerStep DEF EdgeTimeout, StatementTimesOut
  <1>2. ASSUME NEW r \in Slots, OrphanEnds(r)
        PROVE  IInv'
    <2>1. /\ st' = [st EXCEPT ![r] = Disconnected(st[r])] /\ UNCHANGED <<durable, commits>>
          /\ st[r].conn \in {"reading", "waiting", "working"}
      BY <1>2 DEF OrphanEnds
    <2>2. st[r].status # "idle" /\ DOMAIN st[r] = Fields
      BY <2>1 DEF IInv, Shape, Arrived
    <2>3. Moved(Disconnected(st[r]), Disconnected(st[r]))
      BY <2>2, DisconnectedFields
    <2> QED BY <2>1, <2>2, <2>3, MovedStep
  <1>3. CASE UNCHANGED vars
    <2>1. st' = st /\ durable' = durable /\ commits' = commits
      BY <1>3 DEF vars
    <2>2. \A r : Stored(r)' = Stored(r)
      BY <2>1 DEF Stored
    <2>3. \A r : SameDigest(r)' = SameDigest(r)
      BY <2>1, <2>2 DEF SameDigest
    <2>4. Shape' /\ Arrived'
      BY <2>1 DEF IInv, Shape, Arrived
    <2>5. ScopeIsExclusive'
      BY <2>1 DEF IInv, ScopeIsExclusive, InBody
    <2>6. CommitsFirst' /\ CommitsAreStored'
      BY <2>1, <2>2 DEF IInv, CommitsFirst, CommitsAreStored
    <2>7. ResultsAreStored'
      BY <2>1, <2>2, <2>3 DEF IInv, ResultsAreStored
    <2> QED BY <2>4, <2>5, <2>6, <2>7 DEF IInv
  <1> QED
    BY <1>1, <1>2, <1>3, ArriveStep, StepStep, CommitEndsStep, ConnectionLostStep DEF Next

(* begin_scoped, stored_result: whatever is retried, dropped or lost, a     *)
(* scope has at most one result, and every success answered names it.       *)
THEOREM OneResultAlways ==
    ASSUME NoneIsApart
    PROVE  Spec => []OneResultPerScope
  <1>1. IInv => OneResultPerScope
    <2> SUFFICES ASSUME IInv PROVE OneResultPerScope
      BY SMT
    <2>1. ASSUME NEW r \in commits, NEW x \in commits, Scope(st[r].q) = Scope(st[x].q)
          PROVE  r = x
      BY <2>1 DEF IInv, CommitsAreStored, Stored
    <2> QED BY <2>1 DEF OneResultPerScope, IInv, ResultsAreStored
  <1> QED BY <1>1, Initial, Inductive, NoneIsApart, PTL DEF Spec

-----------------------------------------------------------------------------
(* The shape of the handlers.                                               *)

(* What a check or a query is about, and what it refuses with.              *)
Fault == {"bearer", "token", "key_source", "body_size", "content_type", "document",
          "idempotency_key", "graph_id", "graph", "read", "ref_name", "reason", "name",
          "limit", "operations", "no_operation", "metadata", "activity", "message",
          "source_system", "evidence", "quad_size", "operation_kind", "quad", "patch",
          "event_time", "half_a_validation", "hints", "hints_size", "source_name",
          "same_branch", "strategy", "preview_token", "proposal_id", "propose", "review",
          "candidate_id", "context", "validate", "no_validator", "shipped_state",
          "admin_if_protected", "admin", "validation_id", "validation",
          "other_candidate", "ref", "branches", "branch", "log", "commit_id", "member",
          "export", "ready", "route"}
Code == {"UNAUTHENTICATED", "DEPENDENCY_UNAVAILABLE", "FORBIDDEN", "NOT_FOUND",
         "VALIDATION_NOT_FOUND", "BRANCH_NOT_FOUND", "INVALID_REQUEST", "RESOURCE_LIMIT"}
NoValidator == Check("no_validator", "VALIDATOR_UNAVAILABLE")

Plain == [do : {"check", "query"}, of : Fault, code : Code] \cup {Release}
Before == Plain \cup [do : {"replay", "begin"}, then : Seq(Plain)]
                \cup {Work, Local, Slot, Call, NoValidator} \cup {Permits(n) : n \in {1, merge_permits}}
Writing == [do : {"transact"}, then : Seq(Plain)]

(* Stages of which at most the last is a write transaction.                 *)
Body == {b \in Seq(Before \cup Writing) : \A i \in 1 .. Len(b) - 1 : b[i] \in Before}

(* A set of numbers that is not empty has a least element.                  *)
LEMMA MinNat ==
    ASSUME NEW T, T \subseteq Nat, T # {}
    PROVE  \E m \in T : \A n \in T : m <= n
  <1> DEFINE R == OpToRel(<, Nat)
  <1>1. IsWellFoundedOn(R, Nat)
    BY NatLessThanWellFounded
  <1>2. \A x, y \in Nat : <<x, y>> \in R <=> x < y
    BY SMT DEF OpToRel
  <1> HIDE DEF R
  <1>3. PICK m \in T : \A n \in T : ~(<<n, m>> \in R)
    BY <1>1, WFMin
  <1>4. ASSUME NEW n \in T PROVE m <= n
    <2>1. m \in Nat /\ n \in Nat
      BY SMT
    <2>2. ~(n < m)
      BY <1>2, <1>3, <2>1
    <2> QED BY SMT, <2>1, <2>2
  <1> QED BY SMT, <1>4

(* Where Advance stops: nowhere, or at one of the stages, and before it     *)
(* every stage is a check that found nothing.                               *)
LEMMA FirstStopIs ==
    ASSUME NEW S, NEW rest \in Seq(S), NEW s
    PROVE  /\ FirstStop(s, rest) \in 0 .. Len(rest)
           /\ \A i \in 1 .. FirstStop(s, rest) - 1 : rest[i].do = "check" /\ rest[i].of \notin s.q.faults
  <1> DEFINE I == {i \in 1 .. Len(rest) : rest[i].do # "check" \/ rest[i].of \in s.q.faults}
  <1>1. FirstStop(s, rest) = IF I = {} THEN 0 ELSE Min(I)
    BY DEF FirstStop
  <1>2. Len(rest) \in Nat
    BY SMT
  <1>3. CASE I = {}
    <2>1. FirstStop(s, rest) = 0
      BY <1>1, <1>3
    <2> QED BY SMT, <1>2, <2>1
  <1>4. CASE I # {}
    <2>1. I \subseteq 1 .. Len(rest) /\ I \subseteq Nat
      BY SMT, <1>2
    <2>2. \A i \in 1 .. Len(rest) : i \notin I => rest[i].do = "check" /\ rest[i].of \notin s.q.faults
      OBVIOUS
    <2> HIDE DEF I
    <2>3. \E m \in I : \A n \in I : m <= n
      BY <1>4, <2>1, MinNat
    <2>4. Min(I) \in I /\ \A n \in I : Min(I) <= n
      BY <2>3 DEF Min
    <2>5. FirstStop(s, rest) \in 1 .. Len(rest) /\ \A n \in I : FirstStop(s, rest) <= n
      BY <1>1, <1>4, <2>1, <2>4
    <2>6. ASSUME NEW i \in 1 .. FirstStop(s, rest) - 1 PROVE i \in 1 .. Len(rest) /\ i \notin I
      BY SMT, <1>2, <2>1, <2>5
    <2>7. FirstStop(s, rest) \in 0 .. Len(rest)
      BY SMT, <1>2, <2>5
    <2> QED BY <2>2, <2>6, <2>7
  <1> QED BY <1>3, <1>4

(* What is left of a handler's stages is again of this shape.               *)
LEMMA BodyRest ==
    ASSUME NEW b \in Body, b # <<>>
    PROVE  /\ Tail(b) \in Body
           /\ Head(b) \in Before \cup Writing
           /\ Head(b) \in Writing => Tail(b) = <<>> \/ Head(b) \in Before
           /\ \A n \in 1 .. Len(b) : SubSeq(b, n, Len(b)) \in Body /\ SubSeq(b, n, Len(b)) # <<>>
  <1> DEFINE S == Before \cup Writing
  <1> HIDE DEF S
  <1>1. b \in Seq(S) /\ \A i \in 1 .. Len(b) - 1 : b[i] \in Before
    BY SMT DEF Body, S
  <1>2. Tail(b) \in Seq(S) /\ Head(b) \in S /\ Len(Tail(b)) = Len(b) - 1 /\ Len(b) \in Nat \ {0}
    BY SMT, <1>1
  <1>3. \A i \in 1 .. Len(Tail(b)) - 1 : Tail(b)[i] \in Before
    BY SMT, <1>1, <1>2
  <1>4. Head(b) \in Writing => Tail(b) = <<>> \/ Head(b) \in Before
    BY SMT, <1>1, <1>2
  <1>5. ASSUME NEW n \in 1 .. Len(b)
        PROVE  SubSeq(b, n, Len(b)) \in Body /\ SubSeq(b, n, Len(b)) # <<>>
    <2>1. SubSeq(b, n, Len(b)) \in Seq(S) /\ Len(SubSeq(b, n, Len(b))) = Len(b) - n + 1
      BY SMT, <1>1, <1>2
    <2>2. \A i \in 1 .. Len(b) - n : SubSeq(b, n, Len(b))[i] = b[n + i - 1]
      BY SMT, <1>1, <1>2
    <2>3. \A i \in 1 .. Len(b) - n : n + i - 1 \in 1 .. Len(b) - 1
      BY SMT, <1>2
    <2>4. \A i \in 1 .. Len(SubSeq(b, n, Len(b))) - 1 : SubSeq(b, n, Len(b))[i] \in Before
      BY SMT, <1>1, <1>2, <2>1, <2>2, <2>3
    <2>5. SubSeq(b, n, Len(b)) # <<>>
      <3> DEFINE x == SubSeq(b, n, Len(b))
      <3>1. Len(x) \in Nat \ {0}
        BY SMT, <1>2, <2>1
      <3> HIDE DEF x
      <3>2. x # <<>>
        BY SMT, <3>1
      <3> QED BY <3>2 DEF x
    <2> QED BY <2>1, <2>4, <2>5 DEF Body, S
  <1> QED BY <1>2, <1>3, <1>4, <1>5 DEF Body, S

(* Concatenation, with the transaction in the second part if there is one.  *)
LEMMA BodyConcat ==
    /\ \A a, b \in Seq(Before) : a \o b \in Seq(Before)
    /\ \A a \in Seq(Before), b \in Body : a \o b \in Body
    /\ Seq(Before) \subseteq Body
    /\ Seq(Plain) \subseteq Body
  <1>1. \A a, b \in Seq(Before) : a \o b \in Seq(Before)
    BY SMT
  <1>2. ASSUME NEW a \in Seq(Before), NEW b \in Body PROVE a \o b \in Body
    <2>1. b \in Seq(Before \cup Writing) /\ \A i \in 1 .. Len(b) - 1 : b[i] \in Before
      BY SMT DEF Body
    <2>2. a \o b \in Seq(Before \cup Writing)
      BY SMT, <2>1
    <2>3. \A i \in 1 .. Len(a \o b) - 1 : (a \o b)[i] \in Before
      BY SMT, <2>1
    <2> QED BY <2>2, <2>3 DEF Body
  <1>3. Seq(Before) \subseteq Body
    <2>1. ASSUME NEW a \in Seq(Before)
          PROVE  a \in Seq(Before \cup Writing) /\ \A i \in 1 .. Len(a) - 1 : a[i] \in Before
      BY SMT
    <2> QED BY <2>1 DEF Body
  <1>4. Seq(Plain) \subseteq Seq(Before)
    <2>1. Plain \subseteq Before
      BY DEF Before
    <2> QED BY SMT, <2>1
  <1> QED BY <1>1, <1>2, <1>3, <1>4

(* The stages, by kind.                                                     *)
LEMMA StageKinds ==
    /\ \A f \in Fault, c \in Code : Check(f, c) \in Plain /\ Query(f, c) \in Plain
    /\ Release \in Plain /\ Plain \subseteq Before
    /\ Work \in Before /\ Local \in Before /\ Slot \in Before /\ Call \in Before /\ NoValidator \in Before
    /\ Permits(1) \in Before /\ Permits(merge_permits) \in Before
    /\ \A t \in Seq(Plain) : Replay(t) \in Before /\ Begin(t) \in Before /\ Transact(t) \in Writing
  <1>1. \A f \in Fault, c \in Code : Check(f, c) \in Plain /\ Query(f, c) \in Plain
    BY SMT DEF Check, Query, Plain
  <1>2. \A t \in Seq(Plain) : Replay(t) \in Before /\ Begin(t) \in Before /\ Transact(t) \in Writing
    <2> DEFINE T == Seq(Plain)
    <2> HIDE DEF T
    <2>1. ASSUME NEW t \in T
          PROVE  /\ Replay(t) \in [do : {"replay", "begin"}, then : T]
                 /\ Begin(t) \in [do : {"replay", "begin"}, then : T]
                 /\ Transact(t) \in [do : {"transact"}, then : T]
      BY SMT DEF Replay, Begin, Transact
    <2> QED BY <2>1 DEF Before, Writing, T
  <1> QED BY <1>1, <1>2 DEF Plain, Before

(* Sequences of checks and queries.                                         *)
LEMMA PlainConcat ==
    /\ \A a, b \in Seq(Plain) : a \o b \in Seq(Plain)
    /\ Seq(Plain) \subseteq Seq(Before)
  <1>1. Plain \subseteq Before
    BY DEF Before
  <1> QED BY SMT, <1>1

(* The parts the handlers share are checks and queries.                     *)
LEMMA PartsArePlain ==
    /\ RequestContext \in Seq(Plain) /\ ValidJson \in Seq(Plain)
    /\ authorized_graph \in Seq(Plain) /\ query_name \in Seq(Plain) /\ Read \in Seq(Plain)
    /\ \A capability \in Fault : require(capability) \in Plain /\ Mutation(capability) \in Seq(Plain)
    /\ check_branch \in Plain /\ check_reason \in Plain /\ query_limit \in Plain
    /\ idempotency_key \in Plain
    /\ load_context \in Seq(Plain)
  <1>1. \A f \in Fault : /\ Invalid(f) \in Plain /\ TooLarge(f) \in Plain /\ NotFound(f) \in Plain
                          /\ require(f) \in Plain
    BY StageKinds DEF Invalid, TooLarge, NotFound, require, Code
  <1>2. \A f \in Fault, c \in Code : Check(f, c) \in Plain /\ Query(f, c) \in Plain
    BY StageKinds
  <1>3. RequestContext \in Seq(Plain)
    BY SMT, <1>2 DEF RequestContext, Fault, Code
  <1>4. ValidJson \in Seq(Plain)
    BY SMT, <1>1 DEF ValidJson, Fault
  <1>5. authorized_graph \in Seq(Plain)
    BY SMT, <1>1, <1>2 DEF authorized_graph, Fault, Code
  <1>6. check_branch \in Plain /\ check_reason \in Plain /\ query_limit \in Plain /\ idempotency_key \in Plain
    BY SMT, <1>1 DEF check_branch, check_reason, query_limit, idempotency_key, Fault
  <1>7. query_name \in Seq(Plain)
    BY SMT, <1>1, <1>6 DEF query_name, Fault
  <1>8. ASSUME NEW c \in Fault
        PROVE  <<require(c)>> \in Seq(Plain) /\ <<require(c), idempotency_key>> \in Seq(Plain)
    BY SMT, <1>1, <1>6
  <1>9. Read \in Seq(Plain)
    BY SMT, <1>3, <1>5, <1>8, PlainConcat DEF Read, Fault
  <1>10. \A c \in Fault : Mutation(c) \in Seq(Plain)
    BY <1>3, <1>4, <1>5, <1>8, PlainConcat DEF Mutation
  <1>11. load_context \in Seq(Plain)
    BY SMT, <1>2 DEF load_context, Fault, Code
  <1> QED BY <1>1, <1>3, <1>4, <1>5, <1>6, <1>7, <1>9, <1>10, <1>11

(* So are the bodies.                                                       *)
LEMMA BodiesArePlain ==
    /\ canonical_prepare \in Seq(Plain) /\ canonical_accept \in Seq(Plain)
    /\ canonical_reject \in Seq(Plain) /\ canonical_validate \in Seq(Plain)
    /\ canonical_branch_create \in Seq(Plain) /\ canonical_branch_lifecycle \in Seq(Plain)
    /\ merge_spec \in Seq(Plain) /\ canonical_merge_propose \in Seq(Plain)
    /\ canonical_merge_apply \in Seq(Plain)
  <1>1. \A f \in Fault : Invalid(f) \in Plain /\ TooLarge(f) \in Plain
    BY StageKinds DEF Invalid, TooLarge, Code
  <1>2. check_branch \in Plain /\ check_reason \in Plain
    BY PartsArePlain
  <1>3. canonical_prepare \in Seq(Plain)
    BY SMT, <1>1, <1>2 DEF canonical_prepare, Fault
  <1>4. canonical_accept \in Seq(Plain) /\ canonical_reject \in Seq(Plain)
    BY SMT, <1>1, <1>2 DEF canonical_accept, canonical_reject, Fault
  <1>5. canonical_validate \in Seq(Plain) /\ canonical_branch_create \in Seq(Plain)
    BY SMT, <1>1, <1>2 DEF canonical_validate, canonical_branch_create, Fault
  <1>6. canonical_branch_lifecycle \in Seq(Plain)
    BY SMT, <1>2 DEF canonical_branch_lifecycle
  <1>7. merge_spec \in Seq(Plain)
    BY SMT, <1>1, <1>2 DEF merge_spec, Fault
  <1>8. <<Invalid("preview_token"), Invalid("message"), Invalid("evidence")>> \in Seq(Plain)
    BY SMT, <1>1 DEF Fault
  <1>9. canonical_merge_propose \in Seq(Plain)
    BY <1>7, <1>8, PlainConcat DEF canonical_merge_propose
  <1>10. canonical_merge_apply \in Seq(Plain)
    BY SMT, <1>1, <1>2 DEF canonical_merge_apply, Fault
  <1> QED BY <1>3, <1>4, <1>5, <1>6, <1>7, <1>9, <1>10

(* What a handler does after its checks and queries.                        *)
ValidateEnd ==
  << Replay(load_context), NoValidator, Permits(1), Begin(<<Release>> \o load_context), Release,
     Slot, TooLarge("shipped_state"), Call, Transact(load_context) >>
MergeEnd == << Replay(<<>>), Permits(merge_permits), Replay(<<>>), Work, Transact(<<>>) >>
OtherEnd ==
  { <<Transact(<<>>)>>, <<Permits(1), Transact(<<>>)>>, <<Permits(merge_permits), Work>>,
    <<Permits(1), Work, TooLarge("export")>>, <<Permits(1), Local, TooLarge("export")>>, <<Local>> }
Replayed == {"validate", "merge_propose"}

HasShape(op) ==
  \/ op \notin Replayed /\ router[op] \in Seq(Plain) \cup OtherEnd
  \/ op \notin Replayed /\ \E a \in Seq(Plain), e \in OtherEnd : router[op] = a \o e
  \/ op = "validate" /\ \E a \in Seq(Plain) : router[op] = a \o ValidateEnd
  \/ op = "merge_propose" /\ \E a \in Seq(Plain) : router[op] = a \o MergeEnd

(* Every handler of the router is checks and queries, then one of these.    *)
LEMMA HandlerShapes == \A op \in DOMAIN router : HasShape(op)
  <1>1. \A c \in {"propose", "review", "validate", "admin"} : Mutation(c) \in Seq(Plain)
    BY PartsArePlain DEF Fault
  <1>2. \A f \in Fault, c \in Code : Check(f, c) \in Plain /\ Query(f, c) \in Plain
    BY StageKinds
  <1>3. \A f \in Fault : NotFound(f) \in Plain /\ TooLarge(f) \in Plain
    BY <1>2 DEF NotFound, TooLarge, Code
  <1>4. <<Invalid("candidate_id")>> \in Seq(Plain)
    <2>1. Invalid("candidate_id") \in Plain
      BY <1>2 DEF Invalid, Fault, Code
    <2> QED BY SMT, <2>1
  <1>5. Read \in Seq(Plain) /\ query_name \in Seq(Plain) /\ query_limit \in Plain
    BY PartsArePlain
  <1> DEFINE Plains == Seq(Plain)
             Split(h) == \E a \in Plains, e \in OtherEnd : h = a \o e
  <1>6. \A a, b, c, d \in Plains : a \o b \in Plains /\ a \o b \o c \in Plains /\ a \o b \o c \o d \in Plains
    BY PlainConcat
  <1>7. <<Transact(<<>>)>> \in OtherEnd /\ <<Permits(1), Transact(<<>>)>> \in OtherEnd
    BY DEF OtherEnd
  <1>8. Split(prepare)
    BY <1>1, <1>6, <1>7, BodiesArePlain DEF prepare
  <1>9. Split(accept) /\ Split(reject)
    BY <1>1, <1>4, <1>6, <1>7, BodiesArePlain DEF accept, reject
  <1>10. \E a \in Plains : validate = a \o ValidateEnd
    <2>1. Mutation("validate") \o <<Invalid("candidate_id")>> \o canonical_validate \in Plains
      BY <1>1, <1>4, <1>6, BodiesArePlain
    <2> QED BY <2>1 DEF validate, ValidateEnd, NoValidator
  <1>11. \E a \in Plains : merge_propose = a \o MergeEnd
    <2>1. Mutation("propose") \o canonical_merge_propose \in Plains
      BY <1>1, <1>6, BodiesArePlain
    <2> QED BY <2>1 DEF merge_propose, MergeEnd
  <1>12. Split(merge_apply) /\ Split(change_branch)
    BY <1>1, <1>6, <1>7, BodiesArePlain DEF merge_apply, change_branch
  <1>13. Split(create_branch)
    <2>1. << require("propose"), require("admin_if_protected"), idempotency_key >> \in Plains
      <3>1. require("propose") \in Plain /\ require("admin_if_protected") \in Plain /\ idempotency_key \in Plain
        BY PartsArePlain DEF Fault
      <3> QED BY SMT, <3>1
    <2>2. /\ RequestContext \in Plains /\ ValidJson \in Plains
          /\ authorized_graph \in Plains /\ canonical_branch_create \in Plains
      BY PartsArePlain, BodiesArePlain
    <2>3. RequestContext \o ValidJson
            \o << require("propose"), require("admin_if_protected"), idempotency_key >>
            \o authorized_graph \o canonical_branch_create \in Plains
      BY <1>6, <2>1, <2>2
    <2> QED BY <1>7, <2>3 DEF create_branch
  <1>14. Split(merge_preview)
    <2>1. <<require("read")>> \in Plains
      <3>1. require("read") \in Plain
        BY PartsArePlain DEF Fault
      <3> QED BY SMT, <3>1
    <2>2. /\ RequestContext \in Plains /\ ValidJson \in Plains /\ merge_spec \in Plains
          /\ authorized_graph \in Plains
      BY PartsArePlain, BodiesArePlain
    <2>3. RequestContext \o ValidJson \o <<require("read")>> \o authorized_graph \o merge_spec \in Plains
      BY <1>6, <2>1, <2>2
    <2>4. <<Permits(merge_permits), Work>> \in OtherEnd
      BY DEF OtherEnd
    <2> QED BY <2>3, <2>4 DEF merge_preview
  <1>15. Split(read_state)
    <2>1. << NotFound("commit_id"), Query("member", "NOT_FOUND") >> \in Plains
      BY SMT, <1>2, <1>3 DEF Fault, Code
    <2>2. Read \o << NotFound("commit_id"), Query("member", "NOT_FOUND") >> \in Plains
      BY <1>5, <1>6, <2>1
    <2>3. <<Permits(1), Work, TooLarge("export")>> \in OtherEnd
      BY DEF OtherEnd
    <2>4. read_state = (Read \o << NotFound("commit_id"), Query("member", "NOT_FOUND") >>)
                          \o <<Permits(1), Work, TooLarge("export")>>
      <3>1. ASSUME NEW a \in Plains, NEW u, NEW v, NEW x, NEW y, NEW z
            PROVE  a \o <<u, v, x, y, z>> = (a \o <<u, v>>) \o <<x, y, z>>
        BY SMT
      <3>2. \A u, v, x, y, z : Read \o <<u, v, x, y, z>> = (Read \o <<u, v>>) \o <<x, y, z>>
        BY <1>5, <3>1
      <3>3. Read \o << NotFound("commit_id"), Query("member", "NOT_FOUND"), Permits(1), Work, TooLarge("export") >>
              = (Read \o << NotFound("commit_id"), Query("member", "NOT_FOUND") >>)
                  \o <<Permits(1), Work, TooLarge("export")>>
        BY SMT, <3>2
      <3> QED BY <3>3 DEF read_state
    <2> QED BY <2>2, <2>3, <2>4
  <1>16. Split(fs_state)
    <2>1. <<NotFound("commit_id")>> \in Plains
      BY SMT, <1>3 DEF Fault
    <2>2. <<Permits(1), Local, TooLarge("export")>> \in OtherEnd
      BY DEF OtherEnd
    <2>3. ASSUME NEW u, NEW x, NEW y, NEW z
          PROVE  <<u, x, y, z>> = <<u>> \o <<x, y, z>>
      BY SMT
    <2> QED BY <2>1, <2>2, <2>3 DEF fs_state
  <1>17. fs_head \in OtherEnd
    BY DEF fs_head, OtherEnd
  <1>18. read_validation \in Plains /\ read_ref \in Plains
    <2>1. << Check("candidate_id", "VALIDATION_NOT_FOUND"),
             Check("validation_id", "VALIDATION_NOT_FOUND"),
             Query("validation", "VALIDATION_NOT_FOUND"),
             Check("other_candidate", "VALIDATION_NOT_FOUND") >> \in Plains
      BY SMT, <1>2 DEF Fault, Code
    <2>2. <<Query("ref", "NOT_FOUND")>> \in Plains
      BY SMT, <1>2 DEF Fault, Code
    <2> QED BY <1>5, <1>6, <2>1, <2>2 DEF read_validation, read_ref
  <1>19. list_branches \in Plains /\ branch_status \in Plains
    <2>1. <<query_limit, Query("branches", "NOT_FOUND")>> \in Plains
      BY SMT, <1>2, <1>5 DEF Fault, Code
    <2>2. <<Query("branch", "BRANCH_NOT_FOUND")>> \in Plains
      BY SMT, <1>2 DEF Fault, Code
    <2> QED BY <1>5, <1>6, <2>1, <2>2 DEF list_branches, branch_status
  <1>20. branch_history \in Plains /\ branch_log \in Plains
    <2>1. <<query_limit, Query("branch", "BRANCH_NOT_FOUND")>> \in Plains
      BY SMT, <1>2, <1>5 DEF Fault, Code
    <2>2. << query_limit, Query("branch", "BRANCH_NOT_FOUND"), Query("log", "NOT_FOUND") >> \in Plains
      BY SMT, <1>2, <1>5 DEF Fault, Code
    <2> QED BY <1>5, <1>6, <2>1, <2>2 DEF branch_history, branch_log
  <1>21. ready \in Plains /\ unknown_route \in Plains
    BY SMT, <1>2, <1>3 DEF ready, unknown_route, Fault, Code
  <1> HIDE DEF Plains, Split
  <1>22. /\ router.prepare = prepare /\ router.accept = accept /\ router.reject = reject
         /\ router.validate = validate /\ router.read_validation = read_validation
         /\ router.read_ref = read_ref /\ router.read_state = read_state
         /\ router.create_branch = create_branch /\ router.delete_branch = change_branch
         /\ router.restore_branch = change_branch /\ router.list_branches = list_branches
         /\ router.branch_status = branch_status /\ router.branch_history = branch_history
         /\ router.branch_log = branch_log /\ router.merge_preview = merge_preview
         /\ router.merge_propose = merge_propose /\ router.merge_apply = merge_apply
         /\ router.ready = ready /\ router.unknown = unknown_route
         /\ router.fs_head = fs_head /\ router.fs_state = fs_state
    BY DEF router
  <1>23. \A op \in DOMAIN router : op \in
           { "prepare", "accept", "reject", "validate", "read_validation", "read_ref", "read_state",
             "create_branch", "delete_branch", "restore_branch", "list_branches", "branch_status",
             "branch_history", "branch_log", "merge_preview", "merge_propose", "merge_apply",
             "ready", "unknown", "fs_head", "fs_state" }
    BY DEF router
  <1>24. \A op : op \notin Replayed /\ (Split(router[op]) \/ router[op] \in Plains \cup OtherEnd) => HasShape(op)
    BY DEF HasShape, Plains, Split
  <1>25. HasShape("validate") /\ HasShape("merge_propose")
    BY <1>10, <1>11, <1>22 DEF HasShape, Plains
  <1>26. \A op \in { "prepare", "accept", "reject", "create_branch", "delete_branch", "restore_branch",
                     "merge_preview", "merge_apply", "read_state", "fs_state" } : Split(router[op])
    BY <1>8, <1>9, <1>12, <1>13, <1>14, <1>15, <1>16, <1>22
  <1>27. \A op \in { "read_validation", "read_ref", "list_branches", "branch_status", "branch_history",
                     "branch_log", "ready", "unknown", "fs_head" } : router[op] \in Plains \cup OtherEnd
    BY <1>17, <1>18, <1>19, <1>20, <1>21, <1>22
  <1>28. ASSUME NEW op \in DOMAIN router, op \notin Replayed
         PROVE  Split(router[op]) \/ router[op] \in Plains \cup OtherEnd
    <2>1. op # "validate" /\ op # "merge_propose"
      BY <1>28 DEF Replayed
    <2> DEFINE Splits == { "prepare", "accept", "reject", "create_branch", "delete_branch", "restore_branch",
                           "merge_preview", "merge_apply", "read_state", "fs_state" }
               Others == { "read_validation", "read_ref", "list_branches", "branch_status", "branch_history",
                           "branch_log", "ready", "unknown", "fs_head" }
    <2>2. op \in Splits \cup Others
      BY <1>23, <1>28, <2>1
    <2>3. (\A x \in Splits : Split(router[x])) /\ \A x \in Others : router[x] \in Plains \cup OtherEnd
      BY <1>26, <1>27
    <2> HIDE DEF Splits, Others
    <2> QED BY <2>2, <2>3
  <1>29. \A op \in Replayed : HasShape(op)
    BY <1>25 DEF Replayed
  <1> QED BY <1>24, <1>28, <1>29

(* At most the last stage of these ends is a write transaction.             *)
LEMMA EndsAreBodies == ValidateEnd \in Body /\ MergeEnd \in Body /\ \A e \in OtherEnd : e \in Body
  <1>1. ASSUME NEW w \in Writing PROVE <<w>> \in Body
    BY SMT DEF Body
  <1>2. ASSUME NEW a \in Before, NEW w \in Writing \cup Before PROVE <<a, w>> \in Body
    BY SMT DEF Body
  <1>3. ASSUME NEW a \in Before, NEW b \in Before, NEW c \in Before, NEW d \in Before,
               NEW w \in Writing
        PROVE  <<a, b, c, d, w>> \in Body
    BY SMT DEF Body
  <1>4. ASSUME NEW a \in Before, NEW b \in Before, NEW c \in Before, NEW d \in Before,
               NEW e \in Before, NEW f \in Before, NEW g \in Before, NEW h \in Before,
               NEW w \in Writing
        PROVE  <<a, b, c, d, e, f, g, h, w>> \in Body
    BY SMT DEF Body
  <1>5. ASSUME NEW a \in Before, NEW b \in Before, NEW c \in Before
        PROVE  <<a>> \in Body /\ <<a, b, c>> \in Body
    BY SMT DEF Body
  <1>6. <<>> \in Seq(Plain) /\ load_context \in Seq(Plain) /\ <<Release>> \o load_context \in Seq(Plain)
    BY SMT, PartsArePlain, StageKinds
  <1>7. /\ Transact(<<>>) \in Writing /\ Transact(load_context) \in Writing
        /\ Replay(<<>>) \in Before /\ Replay(load_context) \in Before
        /\ Begin(<<Release>> \o load_context) \in Before
    BY <1>6, StageKinds
  <1>8. TooLarge("shipped_state") \in Before /\ TooLarge("export") \in Before
    BY StageKinds DEF TooLarge, Fault, Code
  <1>9. ValidateEnd \in Body /\ MergeEnd \in Body
    BY <1>3, <1>4, <1>7, <1>8, StageKinds DEF ValidateEnd, MergeEnd
  <1>10. \A e \in OtherEnd : e \in Body
    <2>1. <<Transact(<<>>)>> \in Body /\ <<Permits(1), Transact(<<>>)>> \in Body
      BY <1>1, <1>2, <1>7, StageKinds
    <2>2. <<Permits(merge_permits), Work>> \in Body /\ <<Local>> \in Body
      BY <1>2, <1>5, StageKinds
    <2>3. <<Permits(1), Work, TooLarge("export")>> \in Body /\ <<Permits(1), Local, TooLarge("export")>> \in Body
      BY <1>5, <1>8, StageKinds
    <2> QED BY <2>1, <2>2, <2>3 DEF OtherEnd
  <1> QED BY <1>9, <1>10

(* So it is of a handler.                                                   *)
LEMMA HandlersAreBodies == \A op \in DOMAIN router : router[op] \in Body
  <1>1. \A a \in Seq(Plain), e \in Body : a \o e \in Body
    BY BodyConcat, PlainConcat
  <1> QED BY <1>1, BodyConcat, EndsAreBodies, HandlerShapes DEF HasShape

-----------------------------------------------------------------------------
(* Refusals.                                                                *)

(* Every request is for a handler of the router.                            *)
RequestsAreRouted == \A q \in Requests : q.op \in DOMAIN router

Uncertain == {None, "OK", TimeLimit, "DEPENDENCY_UNAVAILABLE"}
Pooled == {"query", "replay", "begin", "work", "transact"}

(* The handler's record, and whether its own transaction committed: a       *)
(* handler that is still served has committed nothing; it has stages left,  *)
(* is connected only for a stage that needs it, and in a transaction only   *)
(* at its last stage; and one that answered a refusal has done nothing and  *)
(* has no statement under way.                                              *)
Sound(s, done) ==
  /\ s.status \in {"idle", "serving", "answered"}
  /\ s.status # "answered" => s.code = None /\ ~done
  /\ s.status = "serving" =>
       /\ s.rest \in Body /\ s.rest # <<>>
       /\ s.conn # "none" => Head(s.rest).do \in Pooled
       /\ s.conn \in {"waiting", "working", "committing"} => Head(s.rest).do = "transact"
  /\ s.code \notin Uncertain => ~done /\ s.conn = "none"

RInv == \A r \in Slots : Sound(st[r], r \in commits)

(* A step changes one handler, and commits no transaction but its own.      *)
LEMMA SoundStep ==
    ASSUME DOMAIN st = Slots, RInv, NEW r \in Slots, NEW s2, st' = [st EXCEPT ![r] = s2],
           commits' = commits \/ commits' = commits \cup {r},
           Sound(s2, r \in commits')
    PROVE  RInv'
  <1>1. st'[r] = s2 /\ \A x \in Slots : x # r => st'[x] = st[x]
    OBVIOUS
  <1>2. \A x \in Slots : x # r => (x \in commits' <=> x \in commits)
    OBVIOUS
  <1>3. ASSUME NEW x \in Slots, x # r PROVE Sound(st'[x], x \in commits')
    <2>1. Sound(st[x], x \in commits)
      BY DEF RInv
    <2> QED BY <1>1, <1>2, <1>3, <2>1 DEF Sound
  <1> QED BY <1>1, <1>3 DEF RInv

(* An answer of a handler that has no connection and committed nothing.     *)
LEMMA ReplySound ==
    ASSUME NEW s, DOMAIN s = Fields, s.conn = "none", NEW code
    PROVE  Sound(Reply(s, code), FALSE)
  <1>1. /\ Reply(s, code).status = "answered" /\ Reply(s, code).conn = "none"
    BY ReplyMoves DEF Moved
  <1> QED BY <1>1 DEF Sound

(* Going on without a connection: the handler answers, or stages are left.  *)
LEMMA AdvanceSound ==
    ASSUME NEW s, DOMAIN s = Fields, s.conn = "none", s.status = "serving", s.code = None,
           NEW rest \in Body
    PROVE  Sound(Advance(s, rest), FALSE)
  <1> DEFINE n == FirstStop(s, rest)
             on == [s EXCEPT !.rest = SubSeq(rest, n, Len(rest))]
  <1>1. rest \in Seq(Before \cup Writing)
    BY DEF Body
  <1>2. n \in 0 .. Len(rest) /\ Len(rest) \in Nat
    BY SMT, <1>1, FirstStopIs
  <1>3. CASE n = 0
    <2>1. Advance(s, rest) = Reply(s, "OK")
      BY <1>3 DEF Advance
    <2> QED BY <2>1, ReplySound
  <1>4. CASE n # 0 /\ rest[n].do = "check"
    <2>1. Advance(s, rest) = Reply(s, rest[n].code)
      BY <1>4 DEF Advance
    <2> QED BY <2>1, ReplySound
  <1>5. CASE n # 0 /\ rest[n].do # "check"
    <2>1. Advance(s, rest) = on
      BY <1>5 DEF Advance
    <2>2. n \in 1 .. Len(rest) /\ rest # <<>>
      BY SMT, <1>1, <1>2, <1>5
    <2>3. SubSeq(rest, n, Len(rest)) \in Body /\ SubSeq(rest, n, Len(rest)) # <<>>
      BY <2>2, BodyRest
    <2>4. /\ on.status = "serving" /\ on.code = None /\ on.conn = "none"
          /\ on.rest = SubSeq(rest, n, Len(rest))
      BY DEF Fields
    <2> HIDE DEF on
    <2> QED BY <2>1, <2>3, <2>4 DEF Sound, Uncertain
  <1> QED BY <1>3, <1>4, <1>5

(* Nothing is left: the handler answers with success.                       *)
LEMMA AdvanceEnds ==
    ASSUME NEW s
    PROVE  Advance(s, <<>>) = Reply(s, "OK")
  <1>1. <<>> \in Seq({}) /\ Len(<<>>) = 0
    BY SMT
  <1>2. FirstStop(s, <<>>) \in 0 .. 0
    BY <1>1, FirstStopIs
  <1>3. FirstStop(s, <<>>) = 0
    BY SMT, <1>2
  <1> QED BY <1>3 DEF Advance

(* A served handler: it has committed nothing, and stages are left of it.   *)
LEMMA ServedHandler ==
    ASSUME IInv, RInv, NEW r \in Slots, Serving(r)
    PROVE  /\ DOMAIN st = Slots /\ DOMAIN st[r] = Fields
           /\ r \notin commits /\ st[r].code = None
           /\ st[r].rest \in Body /\ st[r].rest # <<>> /\ Tail(st[r].rest) \in Body
           /\ st[r].conn # "none" => Head(st[r].rest).do \in Pooled
           /\ st[r].conn \in {"waiting", "working", "committing"} => Head(st[r].rest).do = "transact"
  <1>1. Sound(st[r], r \in commits) /\ st[r].status = "serving"
    BY DEF RInv, Serving
  <1>2. st[r].rest \in Body /\ st[r].rest # <<>>
    BY <1>1 DEF Sound
  <1>3. Tail(st[r].rest) \in Body
    BY <1>2, BodyRest
  <1> QED BY <1>1, <1>2, <1>3 DEF Sound, IInv, Shape

(* What follows a stored row, or a write transaction.                       *)
LEMMA AfterStage ==
    ASSUME NEW b \in Body, b # <<>>
    PROVE  /\ Head(b).do \in {"replay", "begin", "transact"} =>
                Head(b).then \in Seq(Plain) /\ Head(b).then \in Body
           /\ Head(b).do = "transact" => Tail(b) = <<>>
  <1>1. /\ Head(b) \in Before \cup Writing
        /\ Head(b) \in Writing => Tail(b) = <<>> \/ Head(b) \in Before
    BY BodyRest
  <1>2. ASSUME NEW g \in Before
        PROVE  g.do # "transact" /\ (g.do \in {"replay", "begin"} => g.then \in Seq(Plain))
    <2> DEFINE T == Seq(Plain)
    <2> HIDE DEF T
    <2>1. CASE g \in Plain
      BY SMT, <2>1 DEF Plain, Release
    <2>2. CASE g \in [do : {"replay", "begin"}, then : T]
      <3>1. g.do # "transact" /\ g.then \in T
        BY SMT, <2>2
      <3> QED BY <3>1 DEF T
    <2>3. CASE g \in {Work, Local, Slot, Call, NoValidator} \cup {Permits(n) : n \in {1, merge_permits}}
      BY SMT, <2>3 DEF Work, Local, Slot, Call, NoValidator, Check, Permits
    <2> QED BY <2>1, <2>2, <2>3 DEF Before, T
  <1>3. ASSUME NEW g \in Writing
        PROVE  g.do = "transact" /\ g.then \in Seq(Plain)
    <2> DEFINE T == Seq(Plain)
    <2>1. g \in [do : {"transact"}, then : T]
      BY DEF Writing
    <2> HIDE DEF T
    <2>2. g.do = "transact" /\ g.then \in T
      BY SMT, <2>1
    <2> QED BY <2>2 DEF T
  <1>4. Seq(Plain) \subseteq Body
    BY BodyConcat
  <1> QED BY <1>1, <1>2, <1>3, <1>4

(* An answer other than the edge's: the connection is given back first, or  *)
(* there was none.                                                          *)
LEMMA AnswerSound ==
    ASSUME IInv, RInv, NEW r \in Slots, Serving(r), commits' = commits, NEW code,
           \/ st' = [st EXCEPT ![r] = Reply(Disconnected(st[r]), code)]
           \/ st[r].conn = "none" /\ st' = [st EXCEPT ![r] = Reply(st[r], code)]
    PROVE  RInv'
  <1>1. DOMAIN st = Slots /\ DOMAIN st[r] = Fields /\ r \notin commits
    BY ServedHandler
  <1>2. DOMAIN Disconnected(st[r]) = Fields /\ Disconnected(st[r]).conn = "none"
    BY <1>1, DisconnectedFields
  <1>3. Sound(Reply(Disconnected(st[r]), code), FALSE)
    BY <1>2, ReplySound
  <1>4. st[r].conn = "none" => Sound(Reply(st[r], code), FALSE)
    BY <1>1, ReplySound
  <1>5. ASSUME NEW s2, Sound(s2, FALSE) PROVE Sound(s2, r \in commits')
    BY <1>1, <1>5 DEF Sound
  <1> QED BY <1>1, <1>3, <1>4, <1>5, SoundStep

(* Going on to stages of this shape, the connection given back.             *)
LEMMA OnwardSound ==
    ASSUME IInv, RInv, NEW r \in Slots, Serving(r), commits' = commits, NEW rest \in Body, NEW s,
           DOMAIN s = Fields, s.conn = "none", s.status = "serving", s.code = None,
           st' = [st EXCEPT ![r] = Advance(s, rest)]
    PROVE  RInv'
  <1>1. DOMAIN st = Slots /\ r \notin commits
    BY ServedHandler
  <1>2. Sound(Advance(s, rest), FALSE)
    BY AdvanceSound
  <1>3. Sound(Advance(s, rest), r \in commits')
    BY <1>1, <1>2 DEF Sound
  <1> QED BY <1>1, <1>3, SoundStep

(* A stage that needs no connection runs when the handler has none.         *)
LEMMA OffThePool ==
    ASSUME IInv, RInv, NEW r \in Slots, NEW stage, At(r, stage), stage \notin Pooled
    PROVE  Serving(r) /\ st[r].conn = "none" /\ st[r].status = "serving"
  BY ServedHandler DEF At, Serving

(* The handler's record without its connection, with another guard or with  *)
(* a result.                                                                *)
LEMMA HandlerFields ==
    ASSUME IInv, RInv, NEW r \in Slots, Serving(r), NEW v
    PROVE  /\ LET s == Disconnected(st[r])
              IN  DOMAIN s = Fields /\ s.conn = "none" /\ s.status = "serving" /\ s.code = None
           /\ LET s == [Disconnected(st[r]) EXCEPT !.result = v]
              IN  DOMAIN s = Fields /\ s.conn = "none" /\ s.status = "serving" /\ s.code = None
           /\ LET s == [st[r] EXCEPT !.held = v]
              IN  DOMAIN s = Fields /\ s.conn = st[r].conn /\ s.status = "serving" /\ s.code = None
           /\ LET s == [st[r] EXCEPT !.slot = v]
              IN  DOMAIN s = Fields /\ s.conn = st[r].conn /\ s.status = "serving" /\ s.code = None
  <1>1. DOMAIN st[r] = Fields /\ st[r].code = None /\ st[r].status = "serving"
    BY ServedHandler DEF Serving
  <1>2. LET s == Disconnected(st[r])
        IN  DOMAIN s = Fields /\ s.conn = "none" /\ s.status = "serving" /\ s.code = None
    BY <1>1, DisconnectedFields
  <1> DEFINE d == Disconnected(st[r])
  <1>3. DOMAIN d = Fields /\ d.conn = "none" /\ d.status = "serving" /\ d.code = None
    BY <1>2
  <1> HIDE DEF d
  <1>4. LET s == [d EXCEPT !.result = v]
        IN  DOMAIN s = Fields /\ s.conn = "none" /\ s.status = "serving" /\ s.code = None
    BY <1>3 DEF Fields
  <1>5. LET s == [st[r] EXCEPT !.held = v]
        IN  DOMAIN s = Fields /\ s.conn = st[r].conn /\ s.status = "serving" /\ s.code = None
    BY <1>1 DEF Fields
  <1>6. LET s == [st[r] EXCEPT !.slot = v]
        IN  DOMAIN s = Fields /\ s.conn = st[r].conn /\ s.status = "serving" /\ s.code = None
    BY <1>1 DEF Fields
  <1> QED BY <1>2, <1>4, <1>5, <1>6 DEF d

(* A stored row answers, or refuses another digest.                         *)
LEMMA FromRowSound ==
    ASSUME IInv, RInv, NEW r \in Slots, Serving(r), commits' = commits, NEW then \in Body,
           st' = [st EXCEPT ![r] = FromRow(Disconnected(st[r]), r, then)]
    PROVE  RInv'
  <1>1. CASE SameDigest(r)
    <2> DEFINE s == [Disconnected(st[r]) EXCEPT !.result = Stored(r).by]
    <2>1. st' = [st EXCEPT ![r] = Advance(s, then)]
      BY <1>1 DEF FromRow
    <2>2. DOMAIN s = Fields /\ s.conn = "none" /\ s.status = "serving" /\ s.code = None
      BY HandlerFields
    <2> HIDE DEF s
    <2> QED BY <2>1, <2>2, OnwardSound
  <1>2. CASE ~SameDigest(r)
    <2>1. st' = [st EXCEPT ![r] = Reply(Disconnected(st[r]), from_ledger("IdempotencyConflict"))]
      BY <1>2 DEF FromRow
    <2> QED BY <2>1, AnswerSound
  <1> QED BY <1>1, <1>2

(* A step that only changes the connection of a served handler.             *)
LEMMA ConnSound ==
    ASSUME IInv, RInv, NEW r \in Slots, Serving(r), commits' = commits, NEW s2,
           st' = [st EXCEPT ![r] = s2],
           s2.status = st[r].status, s2.code = st[r].code, s2.rest = st[r].rest,
           Head(st[r].rest).do \in Pooled,
           s2.conn \in {"waiting", "working", "committing"} => Head(st[r].rest).do = "transact"
    PROVE  RInv'
  <1>1. /\ DOMAIN st = Slots /\ r \notin commits /\ st[r].code = None
        /\ st[r].rest \in Body /\ st[r].rest # <<>> /\ st[r].status = "serving"
    BY ServedHandler DEF Serving
  <1>2. Sound(s2, r \in commits')
    BY <1>1 DEF Sound, Uncertain
  <1> QED BY <1>1, <1>2, SoundStep

(* What from_ledger makes of a database that cannot be reached.             *)
LEMMA Unavailable == from_ledger("DependencyUnavailable") = "DEPENDENCY_UNAVAILABLE"
  BY SMT DEF from_ledger

(* COMMIT was sent by the last stage: whether it is answered, lost or goes  *)
(* on without its handler, nothing refuses the request any more.            *)
LEMMA CommittedSound ==
    ASSUME IInv, RInv, NEW r \in Slots, CommitEnds(r) \/ ConnectionLost(r)
    PROVE  RInv'
  <1>1. DOMAIN st = Slots /\ DOMAIN st[r] = Fields
    BY DEF IInv, Shape
  <1>2. DOMAIN Disconnected(st[r]) = Fields
    BY <1>1, DisconnectedFields
  <1>3. commits' = commits \/ commits' = commits \cup {r}
    BY DEF CommitEnds, ConnectionLost, Record
  <1>4. ASSUME NEW s2, s2.status = "answered", s2.code \in Uncertain
        PROVE  Sound(s2, r \in commits')
    BY <1>4 DEF Sound
  <1>5. CASE ConnectionLost(r)
    <2> DEFINE s2 == Reply(Disconnected(st[r]), from_ledger("DependencyUnavailable"))
    <2>1. st' = [st EXCEPT ![r] = s2]
      BY <1>5 DEF ConnectionLost
    <2>2. s2.status = "answered" /\ s2.code \in Uncertain
      BY <1>2, ReplyMoves, Unavailable DEF Uncertain
    <2> HIDE DEF s2
    <2> QED BY <1>1, <1>3, <1>4, <2>1, <2>2, SoundStep
  <1>6. CASE CommitEnds(r) /\ Serving(r)
    <2> DEFINE own == [Disconnected(st[r]) EXCEPT !.result = r]
               s2 == Reply(own, "OK")
    <2>1. /\ st[r].conn = "committing"
          /\ st' = [st EXCEPT ![r] = Advance(own, Tail(st[r].rest))]
      BY <1>6 DEF CommitEnds
    <2>2. st[r].rest \in Body /\ st[r].rest # <<>> /\ Head(st[r].rest).do = "transact"
      BY <1>6, <2>1, ServedHandler
    <2>3. Tail(st[r].rest) = <<>>
      BY <2>2, AfterStage
    <2>4. st' = [st EXCEPT ![r] = s2]
      BY <2>1, <2>3, AdvanceEnds
    <2>5. DOMAIN own = Fields
      BY <1>6, HandlerFields
    <2> HIDE DEF own
    <2>6. s2.status = "answered" /\ s2.code \in Uncertain
      BY <2>5, ReplyMoves DEF Uncertain
    <2> HIDE DEF s2
    <2> QED BY <1>1, <1>3, <1>4, <2>4, <2>6, SoundStep
  <1>7. CASE CommitEnds(r) /\ ~Serving(r)
    <2> DEFINE s2 == Disconnected(st[r])
    <2>1. st[r].conn = "committing" /\ st' = [st EXCEPT ![r] = s2]
      BY <1>7 DEF CommitEnds
    <2>2. st[r].status = "answered" /\ st[r].code \in Uncertain
      <3>1. Sound(st[r], r \in commits) /\ st[r].status # "idle"
        BY <2>1, CommittingFields DEF RInv
      <3> QED BY <1>7, <2>1, <3>1 DEF Sound, Serving
    <2>3. s2.status = "answered" /\ s2.code \in Uncertain
      BY <1>1, <2>2, DisconnectedFields
    <2> HIDE DEF s2
    <2> QED BY <1>1, <1>3, <1>4, <2>1, <2>3, SoundStep
  <1> QED BY <1>5, <1>6, <1>7

(* A request arrives: nothing of it has run.                                *)
LEMMA ArriveSound ==
    ASSUME RequestsAreRouted, IInv, RInv, NEW r \in Slots, Arrive(r)
    PROVE  RInv'
  <1>0. PICK q \in Requests :
        st' = [st EXCEPT ![r] =
                 Advance([Idle EXCEPT !.status = "serving", !.q = q,
                            !.knew = durable[Scope(q)] # None /\ durable[Scope(q)].digest = q.digest],
                         router[q.op])]
    BY DEF Arrive
  <1> DEFINE s == [Idle EXCEPT !.status = "serving", !.q = q,
                     !.knew = durable[Scope(q)] # None /\ durable[Scope(q)].digest = q.digest]
  <1>1. DOMAIN s = Fields /\ s.status = "serving" /\ s.conn = "none" /\ s.code = None
    BY SMT DEF Idle, Fields
  <1>2. st' = [st EXCEPT ![r] = Advance(s, router[q.op])]
    BY <1>0
  <1> HIDE DEF s
  <1>3. router[q.op] \in Body
    BY HandlersAreBodies DEF RequestsAreRouted
  <1>4. Sound(Advance(s, router[q.op]), FALSE)
    BY <1>1, <1>3, AdvanceSound
  <1>5. DOMAIN st = Slots /\ r \notin commits /\ commits' = commits
    BY DEF Arrive, IInv, Shape, Arrived
  <1>6. Sound(Advance(s, router[q.op]), r \in commits')
    BY <1>4, <1>5 DEF Sound
  <1> QED BY <1>2, <1>5, <1>6, SoundStep

(* The stages of a handler up to the end of its transaction's body.         *)
LEMMA StepSound ==
    ASSUME IInv, RInv, NEW r \in Slots, Step(r)
    PROVE  RInv'
  <1>0. \A stage \in {"permits", "release", "slot", "call", "local"} : stage \notin Pooled
    BY DEF Pooled
  <1>1. CASE TakePermits(r)
    <2>1. Serving(r) /\ st[r].conn = "none" /\ commits' = commits
      BY <1>0, <1>1, OffThePool DEF TakePermits
    <2>2. \/ st' = [st EXCEPT ![r] = Advance([st[r] EXCEPT !.held = Head(st[r].rest).n], Tail(st[r].rest))]
          \/ st' = [st EXCEPT ![r] = Reply(st[r], Busy)]
      <3>1. CASE FreePermits >= Head(st[r].rest).n
        BY <1>1, <3>1 DEF TakePermits
      <3>2. CASE ~(FreePermits >= Head(st[r].rest).n)
        BY <1>1, <3>2 DEF TakePermits
      <3> QED BY <3>1, <3>2
    <2>3. CASE st' = [st EXCEPT ![r] = Advance([st[r] EXCEPT !.held = Head(st[r].rest).n], Tail(st[r].rest))]
      <3> DEFINE s == [st[r] EXCEPT !.held = Head(st[r].rest).n]
      <3>1. DOMAIN s = Fields /\ s.conn = "none" /\ s.status = "serving" /\ s.code = None
        BY <2>1, HandlerFields
      <3>2. st' = [st EXCEPT ![r] = Advance(s, Tail(st[r].rest))]
        BY <2>3
      <3> HIDE DEF s
      <3> QED BY <2>1, <3>1, <3>2, ServedHandler, OnwardSound
    <2> QED BY <2>1, <2>2, <2>3, AnswerSound
  <1>2. CASE ReleasePermits(r)
    <2> DEFINE s == [st[r] EXCEPT !.held = 0]
    <2>1. Serving(r) /\ st[r].conn = "none" /\ commits' = commits
      BY <1>0, <1>2, OffThePool DEF ReleasePermits
    <2>2. st' = [st EXCEPT ![r] = Advance(s, Tail(st[r].rest))]
      BY <1>2 DEF ReleasePermits
    <2>3. DOMAIN s = Fields /\ s.conn = "none" /\ s.status = "serving" /\ s.code = None
      BY <2>1, HandlerFields
    <2> HIDE DEF s
    <2> QED BY <2>1, <2>2, <2>3, ServedHandler, OnwardSound
  <1>3. CASE TakeSlot(r)
    <2> DEFINE s == [st[r] EXCEPT !.slot = TRUE]
    <2>1. Serving(r) /\ st[r].conn = "none" /\ commits' = commits
      BY <1>0, <1>3, OffThePool DEF TakeSlot
    <2>2. \/ st' = [st EXCEPT ![r] = Advance(s, Tail(st[r].rest))]
          \/ st' = [st EXCEPT ![r] = Reply(st[r], Busy)]
      <3>1. CASE FreeSlots > 0
        BY <1>3, <3>1 DEF TakeSlot
      <3>2. CASE ~(FreeSlots > 0)
        BY <1>3, <3>2 DEF TakeSlot
      <3> QED BY <3>1, <3>2
    <2>3. DOMAIN s = Fields /\ s.conn = "none" /\ s.status = "serving" /\ s.code = None
      BY <2>1, HandlerFields
    <2> HIDE DEF s
    <2> QED BY <2>1, <2>2, <2>3, ServedHandler, OnwardSound, AnswerSound
  <1>4. CASE ValidatorAnswers(r)
    <2>1. /\ Serving(r) /\ st[r].conn = "none" /\ commits' = commits /\ st[r].status = "serving"
      BY <1>0, <1>4, OffThePool DEF ValidatorAnswers
    <2>2. PICK outcome : st' = [st EXCEPT ![r] = IF outcome = "ok" THEN Advance(st[r], Tail(st[r].rest))
                                                 ELSE Reply(st[r], from_ledger(outcome))]
      BY <1>4 DEF ValidatorAnswers
    <2>3. CASE outcome = "ok"
      BY <2>1, <2>2, <2>3, ServedHandler, OnwardSound
    <2>4. CASE outcome # "ok"
      <3>1. st' = [st EXCEPT ![r] = Reply(st[r], from_ledger(outcome))]
        BY <2>2, <2>4
      <3> QED BY <2>1, <3>1, AnswerSound
    <2> QED BY <2>3, <2>4
  <1>5. CASE ReadLocal(r)
    <2>1. /\ Serving(r) /\ st[r].conn = "none" /\ commits' = commits /\ st[r].status = "serving"
      BY <1>0, <1>5, OffThePool DEF ReadLocal
    <2>2. st' = [st EXCEPT ![r] = Advance(st[r], Tail(st[r].rest))]
      BY <1>5 DEF ReadLocal
    <2> QED BY <2>1, <2>2, ServedHandler, OnwardSound
  <1>6. CASE Connect(r)
    <2> DEFINE conn == IF Head(st[r].rest).do = "transact" THEN "waiting" ELSE "reading"
               s2 == [st[r] EXCEPT !.conn = conn, !.under = st[r].held]
    <2>1. Serving(r) /\ commits' = commits /\ Head(st[r].rest).do \in Pooled
      BY <1>6 DEF Connect, NeedsConnection, Pooled
    <2>2. DOMAIN st[r] = Fields /\ DOMAIN st = Slots
      BY <2>1, ServedHandler
    <2>3. st' = [st EXCEPT ![r] = s2]
      BY <1>6 DEF Connect
    <2>4. /\ s2.status = st[r].status /\ s2.code = st[r].code /\ s2.rest = st[r].rest
          /\ s2.conn = IF Head(st[r].rest).do = "transact" THEN "waiting" ELSE "reading"
      BY SMT, <2>2 DEF Fields
    <2> HIDE DEF s2
    <2>5. s2.conn \in {"waiting", "working", "committing"} => Head(st[r].rest).do = "transact"
      BY <2>4
    <2> QED BY <2>1, <2>3, <2>4, <2>5, ConnSound
  <1>7. CASE PoolTimedOut(r)
    <2>1. /\ Serving(r) /\ st[r].conn = "none" /\ commits' = commits
          /\ st' = [st EXCEPT ![r] = Reply(st[r], from_ledger("DependencyUnavailable"))]
      BY <1>7 DEF PoolTimedOut, NeedsConnection
    <2> QED BY <2>1, AnswerSound
  <1>8. CASE ReadEnds(r)
    <2> DEFINE s == Disconnected(st[r])
    <2>1. Serving(r) /\ commits' = commits
      BY <1>8 DEF ReadEnds
    <2>2. /\ st[r].rest \in Body /\ st[r].rest # <<>> /\ Tail(st[r].rest) \in Body
          /\ DOMAIN st[r] = Fields
      BY <2>1, ServedHandler
    <2>3. s.rest = st[r].rest
      BY <2>2, DisconnectedFields
    <2>4. \/ \E code : st' = [st EXCEPT ![r] = Reply(s, code)]
          \/ /\ Head(st[r].rest).do \in {"replay", "begin"}
             /\ st' = [st EXCEPT ![r] = FromRow(s, r, Head(st[r].rest).then)]
          \/ st' = [st EXCEPT ![r] = Advance(s, Tail(s.rest))]
      BY <1>8 DEF ReadEnds
    <2>5. DOMAIN s = Fields /\ s.conn = "none" /\ s.status = "serving" /\ s.code = None
      BY <2>1, HandlerFields
    <2>6. CASE st' = [st EXCEPT ![r] = Advance(s, Tail(s.rest))]
      <3> HIDE DEF s
      <3> QED BY <2>1, <2>2, <2>3, <2>5, <2>6, OnwardSound
    <2>7. CASE /\ Head(st[r].rest).do \in {"replay", "begin"}
               /\ st' = [st EXCEPT ![r] = FromRow(s, r, Head(st[r].rest).then)]
      <3>1. Head(st[r].rest).then \in Body
        BY <2>2, <2>7, AfterStage
      <3> QED BY <2>1, <2>7, <3>1, FromRowSound
    <2> QED BY <2>1, <2>4, <2>6, <2>7, AnswerSound
  <1>9. CASE LockGranted(r)
    <2> DEFINE s2 == [st[r] EXCEPT !.conn = "working"]
    <2>1. Serving(r) /\ commits' = commits /\ st[r].conn = "waiting"
      BY <1>9 DEF LockGranted
    <2>2. DOMAIN st[r] = Fields /\ Head(st[r].rest).do = "transact"
      BY <2>1, ServedHandler
    <2>3. st' = [st EXCEPT ![r] = s2]
      BY <1>9 DEF LockGranted
    <2>4. s2.status = st[r].status /\ s2.code = st[r].code /\ s2.rest = st[r].rest
      BY <2>2 DEF Fields
    <2> HIDE DEF s2
    <2> QED BY <2>1, <2>2, <2>3, <2>4, ConnSound DEF Pooled
  <1>10. CASE BodyEnds(r)
    <2> DEFINE s2 == [st[r] EXCEPT !.conn = "committing"]
    <2>1. Serving(r) /\ commits' = commits /\ st[r].conn = "working"
      BY <1>10 DEF BodyEnds
    <2>2. /\ DOMAIN st[r] = Fields /\ Head(st[r].rest).do = "transact"
          /\ st[r].rest \in Body /\ st[r].rest # <<>>
      BY <2>1, ServedHandler
    <2>3. Disconnected(st[r]).rest = st[r].rest /\ Head(st[r].rest).then \in Body
      BY <2>2, DisconnectedFields, AfterStage
    <2>4. \/ \E code : st' = [st EXCEPT ![r] = Reply(Disconnected(st[r]), code)]
          \/ st' = [st EXCEPT ![r] = FromRow(Disconnected(st[r]), r, Head(Disconnected(st[r]).rest).then)]
          \/ st' = [st EXCEPT ![r] = s2]
      BY <1>10 DEF BodyEnds
    <2>5. s2.status = st[r].status /\ s2.code = st[r].code /\ s2.rest = st[r].rest
      BY <2>2 DEF Fields
    <2> HIDE DEF s2
    <2>6. CASE st' = [st EXCEPT ![r] = s2]
      BY <2>1, <2>2, <2>5, <2>6, ConnSound DEF Pooled
    <2>7. CASE st' = [st EXCEPT ![r] = FromRow(Disconnected(st[r]), r, Head(Disconnected(st[r]).rest).then)]
      BY <2>1, <2>3, <2>7, FromRowSound
    <2> QED BY <2>1, <2>4, <2>6, <2>7, AnswerSound
  <1> QED BY <1>1, <1>2, <1>3, <1>4, <1>5, <1>6, <1>7, <1>8, <1>9, <1>10 DEF Step

(* Every step keeps it.                                                     *)
LEMMA SoundInductive == RequestsAreRouted /\ IInv /\ RInv /\ [Next]_vars => RInv'
  <1> SUFFICES ASSUME RequestsAreRouted, IInv, RInv, [Next]_vars PROVE RInv'
    BY SMT
  <1>1. ASSUME NEW r \in Slots, EdgeTimeout(r) PROVE RInv'
    <2> DEFINE s2 == Reply(st[r], TimeLimit)
    <2>1. Serving(r) /\ commits' = commits /\ st' = [st EXCEPT ![r] = s2]
      BY <1>1 DEF EdgeTimeout
    <2>2. DOMAIN st = Slots /\ DOMAIN st[r] = Fields
      BY <2>1, ServedHandler
    <2>3. s2.status = "answered" /\ s2.code = TimeLimit
      BY <2>2, ReplyMoves
    <2> HIDE DEF s2
    <2>4. Sound(s2, r \in commits')
      BY <2>3 DEF Sound, Uncertain
    <2> QED BY <2>1, <2>2, <2>4, SoundStep
  <1>2. ASSUME NEW r \in Slots, StatementTimesOut(r) PROVE RInv'
    BY <1>2, AnswerSound DEF StatementTimesOut
  <1>3. ASSUME NEW r \in Slots, OrphanEnds(r) PROVE RInv'
    <2> DEFINE s2 == Disconnected(st[r])
    <2>1. ~Serving(r) /\ commits' = commits /\ st' = [st EXCEPT ![r] = s2]
      BY <1>3 DEF OrphanEnds
    <2>2. DOMAIN st = Slots /\ DOMAIN st[r] = Fields /\ Sound(st[r], r \in commits)
      BY DEF IInv, Shape, RInv
    <2>3. s2.status = st[r].status /\ s2.code = st[r].code /\ s2.conn = "none"
      BY <2>2, DisconnectedFields
    <2> HIDE DEF s2
    <2>4. Sound(s2, r \in commits')
      BY <2>1, <2>2, <2>3 DEF Sound, Serving
    <2> QED BY <2>1, <2>2, <2>4, SoundStep
  <1>4. CASE UNCHANGED vars
    BY <1>4 DEF vars, RInv
  <1> QED
    BY <1>1, <1>2, <1>3, <1>4, ArriveSound, StepSound, CommittedSound DEF Next

(* from_ledger's "was rolled back" and "nothing was recorded": a refusal is *)
(* final.                                                                   *)
THEOREM RefusedAlwaysDidNothing ==
    ASSUME NoneIsApart, RequestsAreRouted
    PROVE  Spec => []RefusedDidNothing
  <1>1. Init => RInv
    <2> SUFFICES ASSUME Init, NEW r \in Slots PROVE Sound(st[r], r \in commits)
      BY DEF RInv
    <2>1. st[r] = Idle /\ r \notin commits
      BY DEF Init
    <2>2. Idle.status = "idle" /\ Idle.code = None
      BY SMT DEF Idle
    <2> QED BY <2>1, <2>2 DEF Sound, Uncertain
  <1>2. RInv => RefusedDidNothing
    BY DEF RInv, Sound, RefusedDidNothing, Uncertain
  <1> QED
    BY <1>1, <1>2, Initial, Inductive, SoundInductive, NoneIsApart, RequestsAreRouted, PTL DEF Spec

-----------------------------------------------------------------------------
(* Admission.                                                               *)

Looking == {"check", "query"}
Admitting == {"permits", "slot", "transact"}
InTransaction == {"waiting", "working", "committing"}
Refusing == {Busy, "VALIDATOR_UNAVAILABLE", "VALIDATOR_ERROR"}

(* A request has nothing wrong but what shows with the state in hand, or    *)
(* something that its handler looks at, or its handler is never admitted to *)
(* anything.                                                                *)
FaultsAreLookedFor ==
  \A q \in Requests :
     LET h == router[q.op]
     IN  \/ q.faults \subseteq LateFaults
         \/ \E i \in 1 .. Len(h) : h[i].do \in Looking /\ h[i].of \in q.faults \ LateFaults
         \/ \A i \in 1 .. Len(h) : h[i].do \notin Admitting

(* The order of a handler's stages: the validator is called after a slot    *)
(* was taken and every permit released; after the first admission nothing   *)
(* is looked at but what needs the state.                                   *)
CallsLast(h) ==
  \A k \in 1 .. Len(h) : h[k].do = "call" =>
     /\ \E j \in 1 .. k - 1 : h[j].do = "slot"
     /\ \A j \in 1 .. k - 1 : h[j].do = "permits" => \E m \in j .. k - 1 : h[m].do = "release"
LooksFirst(h) ==
  \A k, i \in 1 .. Len(h) :
     k < i /\ h[k].do \in Admitting /\ h[i].do \in Looking => h[i].of \in LateFaults
(* A stored result is looked for before anything can be refused for want of *)
(* a permit, a slot or a validator.                                         *)
ReplaysFirst(h) ==
  \A k \in 1 .. Len(h) : h[k].do \in {"permits", "slot", "call"} \/ h[k] = NoValidator =>
     \E j \in 1 .. k - 1 : h[j].do = "replay"
Ordered(h) == CallsLast(h) /\ LooksFirst(h)

(* What is left of h from its k-th stage on.                                *)
Follows(rest, h, k) ==
  /\ k \in 1 .. Len(h) + 1
  /\ Len(rest) = Len(h) - k + 1
  /\ \A i \in 1 .. Len(rest) : rest[i] = h[k + i - 1]

(* What the stages of h before the k-th have left: the slot is held once    *)
(* taken, a permit only since one was taken and not released; no fault was  *)
(* found, and no stored result.                                             *)
Passed(s, h, k) ==
  /\ \A j \in 1 .. k - 1 : h[j].do = "slot" => s.slot
  /\ s.held # 0 => \E j \in 1 .. k - 1 : /\ h[j].do = "permits"
                                          /\ \A m \in j .. k - 1 : h[m].do # "release"
  /\ \A j \in 1 .. k - 1 : h[j].do \in Looking => h[j].of \notin s.q.faults
  /\ s.knew /\ s.q.op \in Replayed => \A j \in 1 .. k - 1 : h[j].do # "replay"

Course(s, k) == Follows(s.rest, router[s.q.op], k) /\ Passed(s, router[s.q.op], k)

(* Whoever was admitted has no fault a check would have found.              *)
Holding(s) == s.held # 0 \/ s.slot \/ s.conn \in InTransaction
Vetted(s) == Holding(s) => s.q.faults \subseteq LateFaults
NotRefused(s) == s.knew /\ s.q.op \in Replayed => s.code \notin Refusing

(* A handler is somewhere on its course, or finishes what a stored result   *)
(* still needs.                                                             *)
Careful(s) ==
  /\ s.status = "serving" => s.rest \in Seq(Plain) \/ \E k \in Nat : Course(s, k)
  /\ Vetted(s) /\ NotRefused(s)

AInv == \A r \in Slots :
          /\ Careful(st[r])
          /\ st[r].knew => Stored(r) # None /\ SameDigest(r) /\ st[r].status # "idle"

(* The stages that look are told apart from the others.                     *)
LEMMA StageOf ==
    /\ \A g \in Plain : /\ g.do \in {"check", "query", "release"}
                        /\ g.do \in Looking => g.code \in Code
                        /\ g # NoValidator
    /\ \A g \in Before \cup Writing : g.do \in Looking => g.code \in Code \/ g = NoValidator
    /\ Code \cap Refusing = {}
  <1>1. ASSUME NEW g \in Plain
        PROVE  /\ g.do \in {"check", "query", "release"}
               /\ g.do \in Looking => g.code \in Code
               /\ g # NoValidator
    BY SMT DEF Plain, Release, Looking, NoValidator, Check, Code
  <1>2. ASSUME NEW g \in Before \cup Writing, g.do \in Looking
        PROVE  g.code \in Code \/ g = NoValidator
    <2> DEFINE T == Seq(Plain)
    <2> HIDE DEF T
    <2>1. CASE g \in Plain
      BY <1>1, <1>2, <2>1
    <2>2. CASE g \in [do : {"replay", "begin"}, then : T] \cup [do : {"transact"}, then : T]
      BY SMT, <1>2, <2>2 DEF Looking
    <2>3. CASE g \in {Work, Local, Slot, Call} \cup {Permits(n) : n \in {1, merge_permits}}
      BY SMT, <1>2, <2>3 DEF Looking, Work, Local, Slot, Call, Permits
    <2> QED BY <2>1, <2>2, <2>3 DEF Before, Writing, T
  <1>3. Code \cap Refusing = {}
    BY SMT DEF Code, Refusing, Busy
  <1> QED BY <1>1, <1>2, <1>3

(* Checks and queries before a handler's end change nothing of its order.   *)
LEMMA OrderedConcat ==
    ASSUME NEW a \in Seq(Plain), NEW S, NEW e \in Seq(S), Ordered(e)
    PROVE  /\ Ordered(a \o e)
           /\ ReplaysFirst(e) => ReplaysFirst(a \o e)
  <1> DEFINE h == a \o e
             n == Len(a)
  <1>1. /\ n \in Nat /\ Len(e) \in Nat /\ Len(h) = n + Len(e)
        /\ \A i \in 1 .. n : h[i] = a[i] /\ a[i] \in Plain
        /\ \A i \in 1 .. Len(e) : h[n + i] = e[i]
    BY SMT
  <1>2. \A i \in 1 .. n : h[i].do \in {"check", "query", "release"} /\ h[i] # NoValidator
    BY <1>1, StageOf
  <1> HIDE DEF h, n
  <1>3. ASSUME NEW k \in 1 .. Len(h), h[k].do \notin {"check", "query", "release"} \/ h[k] = NoValidator
        PROVE  \E i \in 1 .. Len(e) : k = n + i /\ h[k] = e[i]
    <2>1. ~(k \in 1 .. n)
      BY <1>2, <1>3
    <2>2. k - n \in 1 .. Len(e) /\ k = n + (k - n)
      BY SMT, <1>1, <2>1
    <2> QED BY <1>1, <2>2
  <1>4. ASSUME NEW i \in 1 .. Len(e), NEW j \in 1 .. i - 1
        PROVE  n + j \in 1 .. n + i - 1 /\ h[n + j] = e[j]
    <2>1. j \in 1 .. Len(e) /\ n + j \in 1 .. n + i - 1
      BY SMT, <1>1
    <2> QED BY <1>1, <2>1
  <1>5. CallsLast(h)
    <2> SUFFICES ASSUME NEW k \in 1 .. Len(h), h[k].do = "call"
                 PROVE  /\ \E j \in 1 .. k - 1 : h[j].do = "slot"
                        /\ \A j \in 1 .. k - 1 : h[j].do = "permits" =>
                             \E m \in j .. k - 1 : h[m].do = "release"
      BY DEF CallsLast
    <2>1. PICK i \in 1 .. Len(e) : k = n + i /\ h[k] = e[i]
      BY <1>3
    <2>2. /\ \E j \in 1 .. i - 1 : e[j].do = "slot"
          /\ \A j \in 1 .. i - 1 : e[j].do = "permits" => \E m \in j .. i - 1 : e[m].do = "release"
      BY <2>1 DEF Ordered, CallsLast
    <2>3. \E j \in 1 .. k - 1 : h[j].do = "slot"
      <3>1. PICK j \in 1 .. i - 1 : e[j].do = "slot"
        BY <2>2
      <3>2. n + j \in 1 .. k - 1
        BY SMT, <1>1, <2>1
      <3> QED BY <1>4, <3>1, <3>2
    <2>4. ASSUME NEW j \in 1 .. k - 1, h[j].do = "permits"
          PROVE  \E m \in j .. k - 1 : h[m].do = "release"
      <3>1. j \in 1 .. Len(h)
        BY SMT, <1>1, <2>1
      <3>2. PICK x \in 1 .. Len(e) : j = n + x /\ h[j] = e[x]
        BY <1>3, <2>4, <3>1
      <3>3. x \in 1 .. i - 1
        BY SMT, <1>1, <2>1, <3>2
      <3>4. PICK m \in x .. i - 1 : e[m].do = "release"
        BY <2>2, <2>4, <3>2, <3>3
      <3>5. n + m \in j .. k - 1 /\ m \in 1 .. i - 1
        BY SMT, <1>1, <2>1, <3>2, <3>3, <3>4
      <3> QED BY <1>4, <3>4, <3>5
    <2> QED BY <2>3, <2>4
  <1>6. LooksFirst(h)
    <2> SUFFICES ASSUME NEW k \in 1 .. Len(h), NEW i \in 1 .. Len(h), k < i,
                        h[k].do \in Admitting, h[i].do \in Looking
                 PROVE  h[i].of \in LateFaults
      BY DEF LooksFirst
    <2>1. PICK x \in 1 .. Len(e) : k = n + x /\ h[k] = e[x]
      BY <1>3 DEF Admitting
    <2>2. i - n \in 1 .. Len(e) /\ i = n + (i - n) /\ x < i - n
      BY SMT, <1>1, <2>1
    <2>3. h[i] = e[i - n]
      BY <1>1, <2>2
    <2> QED BY <2>1, <2>2, <2>3 DEF Ordered, LooksFirst
  <1>7. ASSUME ReplaysFirst(e) PROVE ReplaysFirst(h)
    <2> SUFFICES ASSUME NEW k \in 1 .. Len(h), h[k].do \in {"permits", "slot", "call"} \/ h[k] = NoValidator
                 PROVE  \E j \in 1 .. k - 1 : h[j].do = "replay"
      BY DEF ReplaysFirst
    <2>1. PICK i \in 1 .. Len(e) : k = n + i /\ h[k] = e[i]
      BY <1>3
    <2>2. PICK j \in 1 .. i - 1 : e[j].do = "replay"
      BY <1>7, <2>1 DEF ReplaysFirst
    <2>3. n + j \in 1 .. k - 1
      BY SMT, <1>1, <2>1
    <2> QED BY <1>4, <2>2, <2>3
  <1> QED BY <1>5, <1>6, <1>7 DEF Ordered, h

(* The ends of the handlers are in order.                                   *)
LEMMA EndsAreOrdered ==
    /\ \A e \in Seq(Plain) \cup OtherEnd : Ordered(e)
    /\ Ordered(ValidateEnd) /\ ReplaysFirst(ValidateEnd)
    /\ Ordered(MergeEnd) /\ ReplaysFirst(MergeEnd)
  <1>1. ASSUME NEW e \in Seq(Plain) PROVE Ordered(e)
    <2>1. \A k \in 1 .. Len(e) : e[k] \in Plain
      BY SMT
    <2>2. \A k \in 1 .. Len(e) : e[k].do \in {"check", "query", "release"}
      BY <2>1, StageOf
    <2> QED BY <2>2 DEF Ordered, CallsLast, LooksFirst, Admitting
  <1>2. ASSUME NEW x, x.do # "call"
        PROVE  Ordered(<<x>>)
    BY SMT, <1>2 DEF Ordered, CallsLast, LooksFirst, Admitting, Looking
  <1>3. ASSUME NEW x, NEW y, x.do # "call", y.do \notin {"call", "check", "query"}
        PROVE  Ordered(<<x, y>>)
    BY SMT, <1>3 DEF Ordered, CallsLast, LooksFirst, Admitting, Looking
  <1>4. ASSUME NEW x, NEW y, NEW z, x.do # "call", y.do \notin {"call", "check", "query"},
               z.do = "check", z.of \in LateFaults
        PROVE  Ordered(<<x, y, z>>)
    BY SMT, <1>4 DEF Ordered, CallsLast, LooksFirst, Admitting, Looking
  <1>5. /\ Transact(<<>>).do = "transact" /\ Transact(load_context).do = "transact"
        /\ Permits(1).do = "permits" /\ Permits(merge_permits).do = "permits"
        /\ Work.do = "work" /\ Local.do = "local" /\ Slot.do = "slot" /\ Call.do = "call"
        /\ Release.do = "release" /\ Replay(<<>>).do = "replay" /\ Replay(load_context).do = "replay"
        /\ Begin(<<Release>> \o load_context).do = "begin" /\ NoValidator.do = "check"
        /\ TooLarge("export").do = "check" /\ TooLarge("export").of = "export"
        /\ TooLarge("shipped_state").do = "check" /\ TooLarge("shipped_state").of = "shipped_state"
        /\ TooLarge("shipped_state") # NoValidator
    BY SMT DEF Transact, Permits, Work, Local, Slot, Call, Release, Replay, Begin, NoValidator,
               TooLarge, Check
  <1>6. "export" \in LateFaults /\ "shipped_state" \in LateFaults
    BY DEF LateFaults
  <1>7. \A e \in OtherEnd : Ordered(e)
    BY <1>2, <1>3, <1>4, <1>5, <1>6 DEF OtherEnd
  <1>8. ASSUME NEW h, Len(h) = 9, h[1].do = "replay", h[2].do = "check", h[3].do = "permits",
               h[4].do = "begin", h[5].do = "release", h[6].do = "slot", h[7].do = "check",
               h[7].of \in LateFaults, h[8].do = "call", h[9].do = "transact"
        PROVE  Ordered(h) /\ ReplaysFirst(h)
    <2>1. \A k \in 1 .. Len(h) : k \in 1 .. 9
      BY <1>8
    <2>2. CallsLast(h)
      <3>1. ASSUME NEW k \in 1 .. Len(h), h[k].do = "call" PROVE k = 8
        BY SMT, <1>8, <3>1
      <3>2. 6 \in 1 .. 8 - 1 /\ 5 \in 3 .. 8 - 1
        BY SMT
      <3>3. ASSUME NEW j \in 1 .. 8 - 1, h[j].do = "permits" PROVE j = 3
        BY SMT, <1>8, <3>3
      <3> QED BY <1>8, <3>1, <3>2, <3>3 DEF CallsLast
    <2>3. LooksFirst(h)
      <3>1. ASSUME NEW k \in 1 .. Len(h), NEW i \in 1 .. Len(h), k < i,
                   h[k].do \in Admitting, h[i].do \in Looking
            PROVE  i = 7
        BY SMT, <1>8, <3>1 DEF Admitting, Looking
      <3> QED BY <1>8, <3>1 DEF LooksFirst
    <2>4. ReplaysFirst(h)
      <3>1. ASSUME NEW k \in 1 .. Len(h), k # 1 PROVE 1 \in 1 .. k - 1
        BY SMT, <1>8, <3>1
      <3>2. h[1] # NoValidator
        BY <1>5, <1>8
      <3> QED BY <1>8, <3>1, <3>2 DEF ReplaysFirst
    <2> QED BY <2>2, <2>3, <2>4 DEF Ordered
  <1>9. ASSUME NEW h, Len(h) = 5, h[1].do = "replay", h[2].do = "permits", h[3].do = "replay",
               h[4].do = "work", h[5].do = "transact"
        PROVE  Ordered(h) /\ ReplaysFirst(h)
    <2>1. \A k \in 1 .. Len(h) : h[k].do \notin Looking \cup {"call"}
      BY SMT, <1>9 DEF Looking
    <2>2. ReplaysFirst(h)
      <3>1. ASSUME NEW k \in 1 .. Len(h), k # 1 PROVE 1 \in 1 .. k - 1
        BY SMT, <1>9, <3>1
      <3>2. h[1] # NoValidator
        BY <1>5, <1>9
      <3> QED BY <1>9, <3>1, <3>2 DEF ReplaysFirst
    <2> QED BY <2>1, <2>2 DEF Ordered, CallsLast, LooksFirst
  <1>10. ASSUME NEW a, NEW b, NEW c, NEW d, NEW e, NEW f, NEW g, NEW i, NEW j
         PROVE  LET h == <<a, b, c, d, e, f, g, i, j>>
                IN  /\ Len(h) = 9 /\ h[1] = a /\ h[2] = b /\ h[3] = c /\ h[4] = d /\ h[5] = e
                    /\ h[6] = f /\ h[7] = g /\ h[8] = i /\ h[9] = j
    BY SMT
  <1>11. ASSUME NEW a, NEW b, NEW c, NEW d, NEW e
         PROVE  LET h == <<a, b, c, d, e>>
                IN  Len(h) = 5 /\ h[1] = a /\ h[2] = b /\ h[3] = c /\ h[4] = d /\ h[5] = e
    BY SMT
  <1>12. /\ Len(ValidateEnd) = 9 /\ ValidateEnd[1] = Replay(load_context) /\ ValidateEnd[2] = NoValidator
         /\ ValidateEnd[3] = Permits(1) /\ ValidateEnd[4] = Begin(<<Release>> \o load_context)
         /\ ValidateEnd[5] = Release /\ ValidateEnd[6] = Slot
         /\ ValidateEnd[7] = TooLarge("shipped_state") /\ ValidateEnd[8] = Call
         /\ ValidateEnd[9] = Transact(load_context)
    BY <1>10 DEF ValidateEnd
  <1>13. /\ Len(MergeEnd) = 5 /\ MergeEnd[1] = Replay(<<>>) /\ MergeEnd[2] = Permits(merge_permits)
         /\ MergeEnd[3] = Replay(<<>>) /\ MergeEnd[4] = Work /\ MergeEnd[5] = Transact(<<>>)
    BY <1>11 DEF MergeEnd
  <1>14. Ordered(ValidateEnd) /\ ReplaysFirst(ValidateEnd)
    BY <1>5, <1>6, <1>8, <1>12
  <1>15. Ordered(MergeEnd) /\ ReplaysFirst(MergeEnd)
    BY <1>5, <1>9, <1>13
  <1> QED BY <1>1, <1>7, <1>14, <1>15

(* Every handler of the router is.                                          *)
LEMMA HandlersAreOrdered ==
    ASSUME NEW op \in DOMAIN router
    PROVE  Ordered(router[op]) /\ (op \in Replayed => ReplaysFirst(router[op]))
  <1>1. ValidateEnd \in Seq(Before \cup Writing) /\ MergeEnd \in Seq(Before \cup Writing)
    BY EndsAreBodies DEF Body
  <1>2. \A e \in OtherEnd : e \in Seq(Before \cup Writing)
    BY EndsAreBodies DEF Body
  <1>3. HasShape(op)
    BY HandlerShapes
  <1>4. CASE op \notin Replayed
    BY <1>2, <1>3, <1>4, EndsAreOrdered, OrderedConcat DEF HasShape, Replayed
  <1>5. CASE op \in Replayed
    <2>1. \E a \in Seq(Plain) : router[op] = a \o ValidateEnd \/ router[op] = a \o MergeEnd
      BY <1>3, <1>5 DEF HasShape
    <2> QED BY <1>1, <2>1, EndsAreOrdered, OrderedConcat
  <1> QED BY <1>4, <1>5

-----------------------------------------------------------------------------
(* Courses.                                                                 *)

(* What is left after the next stage, and from the n-th on.                 *)
Continues(rest, h, k) ==
  /\ rest # <<>> => /\ Head(rest) = h[k] /\ k \in 1 .. Len(h)
                    /\ Follows(Tail(rest), h, k + 1)
  /\ \A n \in 1 .. Len(rest) :
       /\ Follows(SubSeq(rest, n, Len(rest)), h, k + n - 1)
       /\ k + n - 1 \in 1 .. Len(h) /\ rest[n] = h[k + n - 1]
LEMMA FollowsOn ==
    ASSUME NEW S, NEW rest \in Seq(S), NEW h, Len(h) \in Nat, NEW k, Follows(rest, h, k)
    PROVE  Continues(rest, h, k)
  <1>1. k \in 1 .. Len(h) + 1 /\ Len(rest) = Len(h) - k + 1 /\ Len(rest) \in Nat
    BY SMT DEF Follows
  <1>2. ASSUME rest # <<>>
        PROVE  /\ Head(rest) = h[k] /\ k \in 1 .. Len(h)
               /\ Follows(Tail(rest), h, k + 1)
    <2>1. /\ Len(rest) >= 1 /\ Head(rest) = rest[1]
          /\ Len(Tail(rest)) = Len(rest) - 1
          /\ \A i \in 1 .. Len(rest) - 1 : Tail(rest)[i] = rest[i + 1]
      BY SMT, <1>2
    <2>2. k \in 1 .. Len(h) /\ k + 1 - 1 = k /\ 1 \in 1 .. Len(rest)
      BY SMT, <1>1, <2>1
    <2>3. rest[1] = h[k]
      BY SMT, <1>1, <2>2 DEF Follows
    <2>4. ASSUME NEW i \in 1 .. Len(rest) - 1 PROVE Tail(rest)[i] = h[(k + 1) + i - 1]
      <3>1. i + 1 \in 1 .. Len(rest) /\ k + (i + 1) - 1 = (k + 1) + i - 1
        BY SMT, <1>1
      <3>2. rest[i + 1] = h[k + (i + 1) - 1]
        BY <3>1 DEF Follows
      <3> QED BY <2>1, <3>1, <3>2
    <2>5. k + 1 \in 1 .. Len(h) + 1 /\ Len(Tail(rest)) = Len(h) - (k + 1) + 1
      BY SMT, <1>1, <2>1, <2>2
    <2> QED BY <2>1, <2>2, <2>3, <2>4, <2>5 DEF Follows
  <1>3. ASSUME NEW n \in 1 .. Len(rest)
        PROVE  /\ Follows(SubSeq(rest, n, Len(rest)), h, k + n - 1)
               /\ k + n - 1 \in 1 .. Len(h) /\ rest[n] = h[k + n - 1]
    <2> DEFINE x == SubSeq(rest, n, Len(rest))
    <2>1. /\ Len(x) = Len(rest) - n + 1
          /\ \A i \in 1 .. Len(rest) - n + 1 : x[i] = rest[n + i - 1]
      BY SMT, <1>1
    <2> HIDE DEF x
    <2>2. k + n - 1 \in 1 .. Len(h) /\ k + n - 1 \in 1 .. Len(h) + 1
      BY SMT, <1>1
    <2>3. ASSUME NEW i \in 1 .. Len(x) PROVE x[i] = h[(k + n - 1) + i - 1]
      <3>1. n + i - 1 \in 1 .. Len(rest) /\ k + (n + i - 1) - 1 = (k + n - 1) + i - 1
        BY SMT, <1>1, <2>1
      <3>2. rest[n + i - 1] = h[k + (n + i - 1) - 1]
        BY <3>1 DEF Follows
      <3> QED BY <2>1, <3>1, <3>2
    <2>4. Len(x) = Len(h) - (k + n - 1) + 1
      BY SMT, <1>1, <2>1
    <2>5. rest[n] = h[k + n - 1]
      BY DEF Follows
    <2> QED BY <2>2, <2>3, <2>4, <2>5 DEF Follows, x
  <1> QED BY <1>2, <1>3 DEF Continues

(* Stages that are passed without effect: checks that found nothing.        *)
LEMMA PassedOn ==
    ASSUME NEW s, NEW h, NEW k \in Nat, NEW m \in Nat, k <= m, Passed(s, h, k),
           \A j \in k .. m - 1 : h[j].do = "check" /\ h[j].of \notin s.q.faults
    PROVE  Passed(s, h, m)
  <1>1. \A j \in 1 .. m - 1 : j \in 1 .. k - 1 \/ j \in k .. m - 1
    BY SMT
  <1>2. \A j \in 1 .. m - 1 : h[j].do = "slot" => s.slot
    BY <1>1 DEF Passed
  <1>3. ASSUME s.held # 0
        PROVE  \E j \in 1 .. m - 1 : h[j].do = "permits" /\ \A i \in j .. m - 1 : h[i].do # "release"
    <2>1. PICK j \in 1 .. k - 1 : h[j].do = "permits" /\ \A i \in j .. k - 1 : h[i].do # "release"
      BY <1>3 DEF Passed
    <2>2. j \in 1 .. m - 1 /\ \A i \in j .. m - 1 : i \in j .. k - 1 \/ i \in k .. m - 1
      BY SMT
    <2> QED BY <2>1, <2>2
  <1>4. \A j \in 1 .. m - 1 : h[j].do \in Looking => h[j].of \notin s.q.faults
    BY <1>1 DEF Passed
  <1>5. s.knew /\ s.q.op \in Replayed => \A j \in 1 .. m - 1 : h[j].do # "replay"
    BY <1>1 DEF Passed
  <1> QED BY <1>2, <1>3, <1>4, <1>5 DEF Passed

(* The effect of one stage on what its handler holds.                       *)
Effect(s, g, s2) ==
  /\ s2.q = s.q /\ s2.knew = s.knew
  /\ s.slot \/ g.do = "slot" => s2.slot
  /\ s2.held # 0 => g.do = "permits" \/ (s.held # 0 /\ g.do # "release")
  /\ g.do \in Looking => g.of \notin s.q.faults
  /\ s.knew /\ s.q.op \in Replayed => g.do # "replay"

(* The next stage is passed.                                                *)
LEMMA PassedStage ==
    ASSUME NEW s, NEW s2, NEW h, NEW k \in Nat, k >= 1, Passed(s, h, k), Effect(s, h[k], s2),
           NEW m \in Nat, m = k + 1
    PROVE  Passed(s2, h, m)
  <1>1. \A j \in 1 .. m - 1 : j \in 1 .. k - 1 \/ j = k
    BY SMT
  <1>2. \A j \in 1 .. m - 1 : h[j].do = "slot" => s2.slot
    BY <1>1 DEF Passed, Effect
  <1>3. ASSUME s2.held # 0
        PROVE  \E j \in 1 .. m - 1 : h[j].do = "permits" /\ \A i \in j .. m - 1 : h[i].do # "release"
    <2>1. CASE h[k].do = "permits"
      <3>1. k \in 1 .. m - 1 /\ \A i \in k .. m - 1 : i = k
        BY SMT
      <3> QED BY <2>1, <3>1
    <2>2. CASE s.held # 0 /\ h[k].do # "release"
      <3>1. PICK j \in 1 .. k - 1 : h[j].do = "permits" /\ \A i \in j .. k - 1 : h[i].do # "release"
        BY <2>2 DEF Passed
      <3>2. j \in 1 .. m - 1 /\ \A i \in j .. m - 1 : i \in j .. k - 1 \/ i = k
        BY SMT
      <3> QED BY <2>2, <3>1, <3>2
    <2> QED BY <1>3, <2>1, <2>2 DEF Effect
  <1>4. \A j \in 1 .. m - 1 : h[j].do \in Looking => h[j].of \notin s2.q.faults
    BY <1>1 DEF Passed, Effect
  <1>5. s2.knew /\ s2.q.op \in Replayed => \A j \in 1 .. m - 1 : h[j].do # "replay"
    BY <1>1 DEF Passed, Effect
  <1> QED BY <1>2, <1>3, <1>4, <1>5 DEF Passed

(* Where Advance goes: it answers with success or with a check's code, or   *)
(* waits at a stage before which every check found nothing.                 *)
LEMMA AdvanceGoes ==
    ASSUME NEW S, NEW rest \in Seq(S), NEW s, DOMAIN s = Fields
    PROVE  \/ Advance(s, rest) = Reply(s, "OK")
           \/ \E n \in 1 .. Len(rest) :
                /\ \A i \in 1 .. n - 1 : rest[i].do = "check" /\ rest[i].of \notin s.q.faults
                /\ \/ rest[n].do = "check" /\ Advance(s, rest) = Reply(s, rest[n].code)
                   \/ Advance(s, rest) = [s EXCEPT !.rest = SubSeq(rest, n, Len(rest))]
  <1> DEFINE n == FirstStop(s, rest)
  <1>1. n \in 0 .. Len(rest) /\ Len(rest) \in Nat
    BY SMT, FirstStopIs
  <1>2. \A i \in 1 .. n - 1 : rest[i].do = "check" /\ rest[i].of \notin s.q.faults
    BY FirstStopIs
  <1>3. CASE n = 0
    BY <1>3 DEF Advance
  <1>4. CASE n # 0
    <2>1. n \in 1 .. Len(rest)
      BY SMT, <1>1, <1>4
    <2>2. \/ rest[n].do = "check" /\ Advance(s, rest) = Reply(s, rest[n].code)
          \/ Advance(s, rest) = [s EXCEPT !.rest = SubSeq(rest, n, Len(rest))]
      BY <1>4 DEF Advance
    <2> QED BY <1>2, <2>1, <2>2
  <1> QED BY <1>3, <1>4

(* An answer keeps what was vetted, and gives the guards back.              *)
LEMMA ReplyCareful ==
    ASSUME NEW s, DOMAIN s = Fields, Vetted(s), NEW code,
           s.knew /\ s.q.op \in Replayed => code \notin Refusing
    PROVE  Careful(Reply(s, code))
  <1> DEFINE s2 == Reply(s, code)
  <1>0. Moved(s, s2) /\ s2.status = "answered" /\ s2.code = code
    BY ReplyMoves
  <1>2. s2.held = 0 /\ s2.slot = FALSE
    BY DEF Reply, Fields
  <1> HIDE DEF s2
  <1>1. /\ s2.status = "answered" /\ s2.code = code /\ s2.q = s.q /\ s2.conn = s.conn
        /\ s2.knew = s.knew
    BY <1>0 DEF Moved
  <1>3. Holding(s2) => Holding(s)
    BY <1>1, <1>2 DEF Holding
  <1> QED BY <1>1, <1>3 DEF Careful, Vetted, NotRefused, s2

(* Waiting at a stage changes nothing but what is left.                     *)
SameUpTo(s, s2) ==
  /\ s2.q = s.q /\ s2.knew = s.knew /\ s2.held = s.held /\ s2.slot = s.slot
  /\ s2.conn = s.conn /\ s2.code = s.code
LEMMA WaitsAt ==
    ASSUME NEW s, DOMAIN s = Fields, NEW rest
    PROVE  SameUpTo(s, [s EXCEPT !.rest = rest]) /\ [s EXCEPT !.rest = rest].rest = rest
  BY DEF Fields, SameUpTo

(* A handler that is served and has not answered.                           *)
Underway(s) == DOMAIN s = Fields /\ s.status = "serving" /\ s.code = None /\ Vetted(s)

(* Going on with checks and queries alone.                                  *)
LEMMA PlainGoesOn ==
    ASSUME None \notin Refusing, NEW s, Underway(s), NEW rest \in Seq(Plain)
    PROVE  Careful(Advance(s, rest))
  <1>1. ASSUME NEW n \in 1 .. Len(rest)
        PROVE  rest[n] \in Plain /\ SubSeq(rest, n, Len(rest)) \in Seq(Plain)
    BY SMT
  <1>2. CASE Advance(s, rest) = Reply(s, "OK")
    <2>1. "OK" \notin Refusing
      BY DEF Refusing, Busy
    <2> QED BY <1>2, <2>1, ReplyCareful DEF Underway
  <1>3. ASSUME NEW n \in 1 .. Len(rest), rest[n].do = "check", Advance(s, rest) = Reply(s, rest[n].code)
        PROVE  Careful(Advance(s, rest))
    <2>1. rest[n].code \notin Refusing
      BY <1>1, <1>3, StageOf DEF Looking
    <2> QED BY <1>3, <2>1, ReplyCareful DEF Underway
  <1>4. ASSUME NEW n \in 1 .. Len(rest), Advance(s, rest) = [s EXCEPT !.rest = SubSeq(rest, n, Len(rest))]
        PROVE  Careful(Advance(s, rest))
    <2> DEFINE s2 == [s EXCEPT !.rest = SubSeq(rest, n, Len(rest))]
    <2>1. SameUpTo(s, s2) /\ s2.rest = SubSeq(rest, n, Len(rest))
      BY WaitsAt DEF Underway
    <2> HIDE DEF s2
    <2>2. s2.rest \in Seq(Plain)
      BY <1>1, <2>1
    <2>3. Vetted(s2) /\ NotRefused(s2)
      BY <2>1 DEF SameUpTo, Underway, Vetted, Holding, NotRefused
    <2> QED BY <1>4, <2>2, <2>3 DEF Careful, s2
  <1>5. Underway(s) => DOMAIN s = Fields
    BY DEF Underway
  <1> QED BY <1>2, <1>3, <1>4, <1>5, AdvanceGoes

(* Going on along the handler's course.                                     *)
LEMMA CourseGoesOn ==
    ASSUME None \notin Refusing, NEW s, Underway(s), s.q.op \in DOMAIN router, NEW k \in Nat,
           NEW rest \in Seq(Before \cup Writing), Follows(rest, router[s.q.op], k),
           Passed(s, router[s.q.op], k)
    PROVE  Careful(Advance(s, rest))
  <1> DEFINE h == router[s.q.op]
  <1>1. h \in Seq(Before \cup Writing) /\ (s.q.op \in Replayed => ReplaysFirst(h))
    BY HandlersAreBodies, HandlersAreOrdered DEF Body
  <1>2. Len(h) \in Nat /\ \A i \in 1 .. Len(h) : h[i] \in Before \cup Writing
    BY SMT, <1>1
  <1>3. Follows(rest, h, k) /\ Passed(s, h, k) /\ DOMAIN s = Fields
    BY DEF Underway
  <1> HIDE DEF h
  <1>4. ASSUME NEW n \in 1 .. Len(rest),
               \A i \in 1 .. n - 1 : rest[i].do = "check" /\ rest[i].of \notin s.q.faults
        PROVE  /\ k + n - 1 \in 1 .. Len(h) /\ rest[n] = h[k + n - 1]
               /\ Follows(SubSeq(rest, n, Len(rest)), h, k + n - 1)
               /\ Passed(s, h, k + n - 1)
    <2>1. /\ k + n - 1 \in 1 .. Len(h) /\ rest[n] = h[k + n - 1]
          /\ Follows(SubSeq(rest, n, Len(rest)), h, k + n - 1)
      <3>1. Continues(rest, h, k)
        BY <1>2, <1>3, FollowsOn
      <3> QED BY <3>1 DEF Continues
    <2>0. \A i \in 1 .. Len(rest) : rest[i] = h[k + i - 1]
      BY <1>3 DEF Follows
    <2>2. k + n - 1 \in Nat /\ k <= k + n - 1
      BY SMT, <1>2, <2>1
    <2>3. ASSUME NEW j \in k .. (k + n - 1) - 1
          PROVE  h[j].do = "check" /\ h[j].of \notin s.q.faults
      <3>1. j - k + 1 \in 1 .. n - 1 /\ j - k + 1 \in 1 .. Len(rest) /\ k + (j - k + 1) - 1 = j
        BY SMT, <1>2, <2>1
      <3>2. rest[j - k + 1] = h[j]
        BY <2>0, <3>1
      <3> QED BY <1>4, <3>1, <3>2
    <2> QED BY <1>3, <2>1, <2>2, <2>3, PassedOn
  <1>5. CASE Advance(s, rest) = Reply(s, "OK")
    <2>1. "OK" \notin Refusing
      BY DEF Refusing, Busy
    <2> QED BY <1>5, <2>1, ReplyCareful DEF Underway
  <1>6. ASSUME NEW n \in 1 .. Len(rest), rest[n].do = "check", Advance(s, rest) = Reply(s, rest[n].code),
               \A i \in 1 .. n - 1 : rest[i].do = "check" /\ rest[i].of \notin s.q.faults
        PROVE  Careful(Advance(s, rest))
    <2>1. k + n - 1 \in 1 .. Len(h) /\ rest[n] = h[k + n - 1] /\ Passed(s, h, k + n - 1)
      BY <1>4, <1>6
    <2>2. s.knew /\ s.q.op \in Replayed => rest[n] # NoValidator
      BY <1>1, <2>1 DEF ReplaysFirst, Passed
    <2>3. rest[n].code \in Code \/ rest[n] = NoValidator
      BY <1>2, <1>6, <2>1, StageOf DEF Looking
    <2>4. s.knew /\ s.q.op \in Replayed => rest[n].code \notin Refusing
      BY <2>2, <2>3, StageOf
    <2> QED BY <1>6, <2>4, ReplyCareful DEF Underway
  <1>7. ASSUME NEW n \in 1 .. Len(rest), Advance(s, rest) = [s EXCEPT !.rest = SubSeq(rest, n, Len(rest))],
               \A i \in 1 .. n - 1 : rest[i].do = "check" /\ rest[i].of \notin s.q.faults
        PROVE  Careful(Advance(s, rest))
    <2> DEFINE s2 == [s EXCEPT !.rest = SubSeq(rest, n, Len(rest))]
               m == k + n - 1
    <2>1. SameUpTo(s, s2) /\ s2.rest = SubSeq(rest, n, Len(rest))
      BY <1>3, WaitsAt
    <2>2. m \in Nat
      BY SMT, <1>2, <1>4, <1>7
    <2>3. Follows(s2.rest, h, m) /\ Passed(s, h, m)
      BY <1>4, <1>7, <2>1
    <2> HIDE DEF s2, m
    <2>4. Course(s2, m)
      <3>1. s2.q = s.q
        BY <2>1 DEF SameUpTo
      <3>2. Passed(s2, h, m)
        BY <2>1, <2>3 DEF SameUpTo, Passed
      <3> QED BY <2>3, <3>1, <3>2 DEF Course, h
    <2>5. Vetted(s2) /\ NotRefused(s2)
      BY <2>1 DEF SameUpTo, Underway, Vetted, Holding, NotRefused
    <2> QED BY <1>7, <2>2, <2>4, <2>5 DEF Careful, s2
  <1> QED BY <1>3, <1>5, <1>6, <1>7, AdvanceGoes

-----------------------------------------------------------------------------
(* Every action keeps the handlers on their courses.                        *)

(* The value for `nothing' is not what a refused admission is answered.     *)
NoneIsNoCode == None \notin Refusing

(* A step changes one handler; a row that is stored stays as it is.         *)
LEMMA CarefulStep ==
    ASSUME IInv, AInv, NEW r \in Slots, NEW s2, st' = [st EXCEPT ![r] = s2], Careful(s2),
           s2.q = st[r].q, s2.knew = st[r].knew, s2.status # "idle",
           durable' = durable \/ (st[r].conn = "committing" /\ Record(r))
    PROVE  AInv'
  <1>1. DOMAIN st = Slots /\ DOMAIN durable = Scopes
    BY DEF IInv, Shape
  <1>2. st'[r] = s2 /\ \A x \in Slots : x # r => st'[x] = st[x]
    BY <1>1
  <1>3. ASSUME NEW x \in Slots PROVE st'[x].q = st[x].q /\ st'[x].knew = st[x].knew /\ Careful(st'[x])
    BY <1>2 DEF AInv
  <1>4. ASSUME NEW x \in Slots, st[x].knew PROVE Stored(x)' = Stored(x)
    <2>1. Stored(x) # None /\ st[x].status # "idle"
      BY <1>4 DEF AInv
    <2>2. Scope(st[x].q) \in Scopes
      BY <2>1 DEF IInv, Arrived, Scopes
    <2>3. CASE durable' = durable
      BY <1>3, <2>3 DEF Stored
    <2>4. CASE st[r].conn = "committing" /\ Record(r)
      <3>1. Stored(r) = None
        BY <2>4 DEF IInv, CommitsFirst
      <3>2. Scope(st[x].q) # Scope(st[r].q)
        BY <2>1, <3>1 DEF Stored
      <3>3. durable'[Scope(st[x].q)] = durable[Scope(st[x].q)]
        BY <1>1, <2>2, <2>4, <3>2 DEF Record
      <3> QED BY <1>3, <3>3 DEF Stored
    <2> QED BY <2>3, <2>4
  <1>5. ASSUME NEW x \in Slots, st'[x].knew
        PROVE  Stored(x)' # None /\ SameDigest(x)' /\ st'[x].status # "idle"
    <2>1. st[x].knew
      BY <1>3, <1>5
    <2>2. Stored(x) # None /\ SameDigest(x) /\ st[x].status # "idle"
      BY <2>1 DEF AInv
    <2>3. Stored(x)' = Stored(x)
      BY <1>4, <2>1
    <2>4. SameDigest(x)'
      BY <1>3, <2>2, <2>3 DEF SameDigest
    <2>5. st'[x].status # "idle"
      BY <1>2, <2>2
    <2> QED BY <2>2, <2>3, <2>4, <2>5
  <1> QED BY <1>3, <1>5 DEF AInv

(* A served handler is the handler of a request of the router, underway.    *)
LEMMA Served ==
    ASSUME RequestsAreRouted, IInv, RInv, AInv, NEW r \in Slots, Serving(r)
    PROVE  /\ Underway(st[r]) /\ st[r].q \in Requests /\ st[r].q.op \in DOMAIN router
           /\ st[r].rest \in Seq(Before \cup Writing) /\ st[r].rest # <<>>
           /\ st[r].rest \in Seq(Plain) \/ \E k \in Nat : Course(st[r], k)
  <1>1. /\ DOMAIN st[r] = Fields /\ st[r].code = None /\ st[r].status = "serving"
        /\ st[r].rest \in Body /\ st[r].rest # <<>>
    BY ServedHandler DEF Serving
  <1>2. st[r].q \in Requests
    BY <1>1 DEF IInv, Arrived
  <1>3. Careful(st[r])
    BY DEF AInv
  <1> QED BY <1>1, <1>2, <1>3 DEF Careful, Underway, RequestsAreRouted, Body

(* The stage a handler is at, with the part of its course behind it.        *)
LEMMA AtStage ==
    ASSUME RequestsAreRouted, IInv, RInv, AInv, NEW r \in Slots, Serving(r), NEW k \in Nat, Course(st[r], k)
    PROVE  LET h == router[st[r].q.op]
           IN  /\ h \in Seq(Before \cup Writing) /\ Len(h) \in Nat /\ k \in 1 .. Len(h)
               /\ Head(st[r].rest) = h[k] /\ Follows(Tail(st[r].rest), h, k + 1)
               /\ Passed(st[r], h, k) /\ Ordered(h)
               /\ st[r].q.op \in Replayed => ReplaysFirst(h)
  <1> DEFINE h == router[st[r].q.op]
  <1>1. /\ st[r].q.op \in DOMAIN router /\ st[r].rest \in Seq(Before \cup Writing)
        /\ st[r].rest # <<>>
    BY Served
  <1>2. /\ h \in Seq(Before \cup Writing) /\ Ordered(h)
        /\ st[r].q.op \in Replayed => ReplaysFirst(h)
    BY <1>1, HandlersAreBodies, HandlersAreOrdered DEF Body
  <1>3. Len(h) \in Nat
    BY SMT, <1>2
  <1>4. Follows(st[r].rest, h, k) /\ Passed(st[r], h, k)
    BY DEF Course
  <1> HIDE DEF h
  <1>5. Continues(st[r].rest, h, k)
    BY <1>1, <1>3, <1>4, FollowsOn
  <1>6. k \in 1 .. Len(h) /\ Head(st[r].rest) = h[k] /\ Follows(Tail(st[r].rest), h, k + 1)
    BY <1>1, <1>5 DEF Continues
  <1> QED BY <1>2, <1>3, <1>4, <1>6 DEF h

(* Whoever comes to an admission has no fault left to be found; whose       *)
(* result is stored never comes there; and at the call only the slot is     *)
(* held.                                                                    *)
LEMMA AtHead ==
    ASSUME RequestsAreRouted, FaultsAreLookedFor, IInv, RInv, AInv, NEW r \in Slots, Serving(r),
           Head(st[r].rest).do \in {"permits", "slot", "call", "transact"}
    PROVE  /\ Head(st[r].rest).do \in Admitting => st[r].q.faults \subseteq LateFaults
           /\ Head(st[r].rest).do # "transact" => ~(st[r].knew /\ st[r].q.op \in Replayed)
           /\ Head(st[r].rest).do = "call" => st[r].held = 0 /\ st[r].slot
  <1> DEFINE h == router[st[r].q.op]
             g == Head(st[r].rest)
             q == st[r].q
  <1>1. st[r].rest \notin Seq(Plain)
    <2>1. st[r].rest # <<>>
      BY Served
    <2>2. ASSUME st[r].rest \in Seq(Plain) PROVE g \in Plain
      BY SMT, <2>1, <2>2
    <2> QED BY <2>2, StageOf
  <1>2. PICK k \in Nat : Course(st[r], k)
    BY <1>1, Served
  <1>3. /\ h \in Seq(Before \cup Writing) /\ Len(h) \in Nat /\ k \in 1 .. Len(h)
        /\ g = h[k] /\ Passed(st[r], h, k) /\ CallsLast(h) /\ LooksFirst(h)
        /\ q.op \in Replayed => ReplaysFirst(h)
    BY <1>2, AtStage DEF Ordered
  <1>4. q \in Requests
    BY Served
  <1>5. \/ q.faults \subseteq LateFaults
        \/ \E i \in 1 .. Len(h) : h[i].do \in Looking /\ h[i].of \in q.faults \ LateFaults
        \/ \A i \in 1 .. Len(h) : h[i].do \notin Admitting
    BY <1>4 DEF FaultsAreLookedFor
  <1> HIDE DEF h, g, q
  <1>6. ASSUME g.do \in Admitting, ~(q.faults \subseteq LateFaults) PROVE FALSE
    <2>1. PICK i \in 1 .. Len(h) : h[i].do \in Looking /\ h[i].of \in q.faults \ LateFaults
      BY <1>3, <1>5, <1>6
    <2>2. i \in 1 .. k - 1 \/ i = k \/ k < i
      BY SMT, <1>3
    <2>3. i \notin 1 .. k - 1
      BY <1>3, <1>6, <2>1 DEF Passed, q
    <2>4. i # k
      BY <1>3, <1>6, <2>1 DEF Admitting, Looking
    <2>5. ~(k < i)
      BY <1>3, <1>6, <2>1 DEF LooksFirst
    <2> QED BY <2>2, <2>3, <2>4, <2>5
  <1>7. ASSUME g.do # "transact", st[r].knew, q.op \in Replayed PROVE FALSE
    <2>1. \E j \in 1 .. k - 1 : h[j].do = "replay"
      BY <1>3, <1>7 DEF ReplaysFirst, g
    <2> QED BY <1>3, <1>7, <2>1 DEF Passed, q
  <1>8. ASSUME g.do = "call" PROVE st[r].held = 0 /\ st[r].slot
    <2>1. /\ \E j \in 1 .. k - 1 : h[j].do = "slot"
          /\ \A j \in 1 .. k - 1 : h[j].do = "permits" => \E m \in j .. k - 1 : h[m].do = "release"
      BY <1>3, <1>8 DEF CallsLast
    <2> QED BY <1>3, <2>1 DEF Passed
  <1> QED BY <1>6, <1>7, <1>8 DEF g, q

(* A stage is passed and the handler goes on.                               *)
LEMMA StageGoesOn ==
    ASSUME RequestsAreRouted, NoneIsNoCode, IInv, RInv, AInv, NEW r \in Slots, Serving(r), NEW s2,
           Underway(s2), Effect(st[r], Head(st[r].rest), s2)
    PROVE  Careful(Advance(s2, Tail(st[r].rest)))
  <1>1. /\ st[r].q.op \in DOMAIN router /\ st[r].rest # <<>>
        /\ st[r].rest \in Seq(Before \cup Writing)
    BY Served
  <1>2. CASE st[r].rest \in Seq(Plain)
    <2>1. Tail(st[r].rest) \in Seq(Plain)
      BY SMT, <1>1, <1>2
    <2> QED BY <2>1, PlainGoesOn DEF NoneIsNoCode
  <1>3. CASE \E k \in Nat : Course(st[r], k)
    <2> DEFINE h == router[st[r].q.op]
    <2>1. PICK k \in Nat : Course(st[r], k)
      BY <1>3
    <2>2. /\ Len(h) \in Nat /\ k \in 1 .. Len(h) /\ Head(st[r].rest) = h[k]
          /\ Follows(Tail(st[r].rest), h, k + 1) /\ Passed(st[r], h, k)
      BY <2>1, AtStage
    <2> HIDE DEF h
    <2>3. k >= 1 /\ k + 1 \in Nat
      BY SMT, <2>2
    <2>4. Passed(s2, h, k + 1)
      BY <2>2, <2>3, PassedStage
    <2>5. s2.q = st[r].q
      BY DEF Effect
    <2>6. Tail(st[r].rest) \in Seq(Before \cup Writing)
      <3> DEFINE S == Before \cup Writing
      <3> HIDE DEF S
      <3>1. st[r].rest \in Seq(S) => Tail(st[r].rest) \in Seq(S)
        BY SMT, <1>1
      <3> QED BY <1>1, <3>1 DEF S
    <2> QED BY <1>1, <2>2, <2>3, <2>4, <2>5, <2>6, CourseGoesOn DEF NoneIsNoCode, h
  <1> QED BY <1>2, <1>3, Served

(* What the other errors are answered with is never a refused admission.    *)
LEMMA OtherCodes ==
    /\ \A error \in StoreErrors : from_ledger(error) \notin Refusing
    /\ from_ledger("DependencyUnavailable") \notin Refusing
    /\ from_ledger("DependencyTimeout") \notin Refusing
    /\ from_ledger("IdempotencyConflict") \notin Refusing
    /\ TimeLimit \notin Refusing /\ "OK" \notin Refusing
  <1> DEFINE Answers == {"HEAD_CHANGED", "BRANCH_NOT_FOUND", "BRANCH_EXISTS", "BRANCH_DELETED",
        "BRANCH_POINT_UNREACHABLE", "BRANCH_POLICY_VIOLATION", "BRANCH_STATE_CONFLICT",
        "MERGE_STALE", "MERGE_CONFLICT", "MERGE_NOTHING_TO_DO", "INVALID_MERGE_BASE",
        "LINEAGE_MISMATCH", "BASE_MISMATCH", "NO_EFFECTIVE_CHANGE", "GRAPH_NOT_ACTIVE",
        "VALIDATION_REQUIRED", "VALIDATION_REJECTED", "VALIDATION_STALE",
        "VALIDATION_NOT_FOUND", "RESOURCE_LIMIT", "NOT_FOUND", "INVALID_REQUEST", "INTERNAL",
        "DEPENDENCY_UNAVAILABLE", "DEPENDENCY_TIMEOUT", "IDEMPOTENCY_CONFLICT"}
  <1>1. \A error \in StoreErrors : from_ledger(error) \in Answers
    BY SMT DEF StoreErrors, from_ledger
  <1>2. /\ from_ledger("DependencyUnavailable") \in Answers
        /\ from_ledger("DependencyTimeout") \in Answers
        /\ from_ledger("IdempotencyConflict") \in Answers
    BY SMT DEF from_ledger
  <1>3. Answers \cap Refusing = {}
    BY DEF Refusing, Busy
  <1>4. TimeLimit \notin Refusing /\ "OK" \notin Refusing
    BY DEF Refusing, Busy, TimeLimit
  <1> HIDE DEF Answers
  <1> QED BY <1>1, <1>2, <1>3, <1>4

(* The handler's record without its connection holds no more than with it.  *)
LEMMA DisconnectedUnderway ==
    ASSUME NEW s, DOMAIN s = Fields
    PROVE  LET d == Disconnected(s)
           IN  /\ DOMAIN d = Fields /\ d.q = s.q /\ d.knew = s.knew /\ d.held = s.held
               /\ d.slot = s.slot /\ d.rest = s.rest /\ d.status = s.status /\ d.code = s.code
               /\ d.conn = "none"
               /\ Vetted(s) => Vetted(d)
               /\ Underway(s) => Underway(d)
  <1> DEFINE d == Disconnected(s)
  <1>1. DOMAIN d = Fields /\ d.q = s.q /\ d.status = s.status /\ d.code = s.code /\ d.rest = s.rest
    BY DisconnectedFields
  <1>2. d.knew = s.knew /\ d.held = s.held /\ d.slot = s.slot /\ d.conn = "none"
    BY DEF Disconnected, Fields
  <1> HIDE DEF d
  <1>3. Vetted(s) => Vetted(d)
    BY <1>1, <1>2 DEF Vetted, Holding, InTransaction
  <1>4. Underway(s) => Underway(d)
    BY <1>1, <1>3 DEF Underway
  <1> QED BY <1>1, <1>2, <1>3, <1>4 DEF d

(* An answer, with or without the connection.                               *)
LEMMA AnswerCareful ==
    ASSUME RequestsAreRouted, IInv, RInv, AInv, NEW r \in Slots, Serving(r), NEW code,
           st[r].knew /\ st[r].q.op \in Replayed => code \notin Refusing,
           \/ st' = [st EXCEPT ![r] = Reply(Disconnected(st[r]), code)]
           \/ st' = [st EXCEPT ![r] = Reply(st[r], code)],
           durable' = durable \/ (st[r].conn = "committing" /\ Record(r))
    PROVE  AInv'
  <1>1. DOMAIN st[r] = Fields /\ Vetted(st[r])
    BY Served DEF Underway
  <1>2. ASSUME NEW s, DOMAIN s = Fields, Vetted(s), s.q = st[r].q, s.knew = st[r].knew,
               st' = [st EXCEPT ![r] = Reply(s, code)]
        PROVE  AInv'
    <2> DEFINE s2 == Reply(s, code)
    <2>1. Careful(s2)
      BY <1>2, ReplyCareful
    <2>2. Moved(s, s2) /\ s2.status = "answered"
      BY <1>2, ReplyMoves
    <2> HIDE DEF s2
    <2>3. s2.q = st[r].q /\ s2.knew = st[r].knew /\ s2.status # "idle"
      BY <1>2, <2>2 DEF Moved
    <2>4. st' = [st EXCEPT ![r] = s2]
      BY <1>2 DEF s2
    <2> QED BY <2>1, <2>3, <2>4, CarefulStep
  <1> DEFINE d == Disconnected(st[r])
  <1>3. DOMAIN d = Fields /\ Vetted(d) /\ d.q = st[r].q /\ d.knew = st[r].knew
    BY <1>1, DisconnectedUnderway
  <1>4. CASE st' = [st EXCEPT ![r] = Reply(d, code)]
    <2> HIDE DEF d
    <2> QED BY <1>2, <1>3, <1>4
  <1>5. CASE st' = [st EXCEPT ![r] = Reply(st[r], code)]
    BY <1>1, <1>2, <1>5
  <1> QED BY <1>4, <1>5

(* Going on.                                                                *)
LEMMA OnwardCareful ==
    ASSUME IInv, AInv, NEW r \in Slots, NEW s, DOMAIN s = Fields, s.status = "serving",
           s.q = st[r].q, s.knew = st[r].knew,
           NEW rest, Careful(Advance(s, rest)), st' = [st EXCEPT ![r] = Advance(s, rest)],
           durable' = durable \/ (st[r].conn = "committing" /\ Record(r))
    PROVE  AInv'
  <1> DEFINE s2 == Advance(s, rest)
  <1>1. Moved(s, s2) /\ Careful(s2) /\ st' = [st EXCEPT ![r] = s2]
    BY AdvanceMoves
  <1> HIDE DEF s2
  <1>2. s2.q = st[r].q /\ s2.knew = st[r].knew /\ s2.status # "idle"
    BY <1>1 DEF Moved
  <1> QED BY <1>1, <1>2, CarefulStep

(* Passing a stage, with the record s2 it leaves.                           *)
LEMMA PassCareful ==
    ASSUME RequestsAreRouted, NoneIsNoCode, IInv, RInv, AInv, NEW r \in Slots, Serving(r), NEW s2,
           Underway(s2), Effect(st[r], Head(st[r].rest), s2),
           st' = [st EXCEPT ![r] = Advance(s2, Tail(st[r].rest))],
           durable' = durable \/ (st[r].conn = "committing" /\ Record(r))
    PROVE  AInv'
  <1>1. Careful(Advance(s2, Tail(st[r].rest)))
    BY StageGoesOn
  <1>2. DOMAIN s2 = Fields /\ s2.status = "serving" /\ s2.q = st[r].q /\ s2.knew = st[r].knew
    BY DEF Underway, Effect
  <1> QED BY <1>1, <1>2, OnwardCareful

(* A stored row answers, or refuses another digest.                         *)
LEMMA FromRowCareful ==
    ASSUME RequestsAreRouted, NoneIsNoCode, IInv, RInv, AInv, NEW r \in Slots, Serving(r),
           NEW then \in Seq(Plain), durable' = durable,
           st' = [st EXCEPT ![r] = FromRow(Disconnected(st[r]), r, then)]
    PROVE  AInv'
  <1> DEFINE d == Disconnected(st[r])
  <1>0. DOMAIN st[r] = Fields /\ Underway(st[r])
    BY Served DEF Underway
  <1>1. /\ DOMAIN d = Fields /\ d.q = st[r].q /\ d.knew = st[r].knew /\ d.held = st[r].held
        /\ d.slot = st[r].slot /\ d.conn = "none" /\ Underway(d)
    BY <1>0, DisconnectedUnderway
  <1>2. CASE SameDigest(r)
    <2> DEFINE s == [d EXCEPT !.result = Stored(r).by]
    <2>1. st' = [st EXCEPT ![r] = Advance(s, then)]
      BY <1>2 DEF FromRow
    <2> HIDE DEF d
    <2>2. /\ DOMAIN s = Fields /\ s.q = d.q /\ s.knew = d.knew /\ s.held = d.held /\ s.slot = d.slot
          /\ s.conn = d.conn /\ s.status = d.status /\ s.code = d.code
      BY <1>1 DEF Fields
    <2> HIDE DEF s
    <2>3. Underway(s)
      BY <1>1, <2>2 DEF Underway, Vetted, Holding
    <2>4. Careful(Advance(s, then))
      BY <2>3, PlainGoesOn DEF NoneIsNoCode
    <2>5. s.status = "serving"
      BY <2>3 DEF Underway
    <2> QED BY <1>1, <2>1, <2>2, <2>4, <2>5, OnwardCareful
  <1>3. CASE ~SameDigest(r)
    <2>1. st' = [st EXCEPT ![r] = Reply(Disconnected(st[r]), from_ledger("IdempotencyConflict"))]
      BY <1>3 DEF FromRow
    <2> QED BY <2>1, AnswerCareful, OtherCodes
  <1> QED BY <1>2, <1>3

(* Only the connection changes.                                             *)
LEMMA ConnCareful ==
    ASSUME RequestsAreRouted, IInv, RInv, AInv, NEW r \in Slots, Serving(r), NEW s2,
           st' = [st EXCEPT ![r] = s2], durable' = durable,
           s2.q = st[r].q, s2.knew = st[r].knew, s2.held = st[r].held, s2.slot = st[r].slot,
           s2.rest = st[r].rest, s2.code = st[r].code, s2.status = st[r].status,
           s2.conn \in InTransaction => st[r].q.faults \subseteq LateFaults
    PROVE  AInv'
  <1>1. /\ st[r].rest \in Seq(Plain) \/ \E k \in Nat : Course(st[r], k)
        /\ Vetted(st[r]) /\ NotRefused(st[r]) /\ st[r].status = "serving"
    BY Served DEF Underway, AInv, Careful
  <1>2. ASSUME NEW k \in Nat, Course(st[r], k) PROVE Course(s2, k)
    <2>1. Follows(s2.rest, router[s2.q.op], k)
      BY <1>2 DEF Course
    <2>2. Passed(s2, router[s2.q.op], k)
      BY <1>2 DEF Course, Passed
    <2> QED BY <2>1, <2>2 DEF Course
  <1>3. Vetted(s2) /\ NotRefused(s2)
    BY <1>1 DEF Vetted, Holding, NotRefused
  <1>4. Careful(s2) /\ s2.status # "idle"
    BY <1>1, <1>2, <1>3 DEF Careful
  <1> QED BY <1>4, CarefulStep

(* A request arrives: its handler is at the beginning of its course.        *)
LEMMA ArriveCareful ==
    ASSUME RequestsAreRouted, NoneIsNoCode, IInv, RInv, AInv, NEW r \in Slots, Arrive(r)
    PROVE  AInv'
  <1>0. PICK q \in Requests :
        st' = [st EXCEPT ![r] =
                 Advance([Idle EXCEPT !.status = "serving", !.q = q,
                            !.knew = durable[Scope(q)] # None /\ durable[Scope(q)].digest = q.digest],
                         router[q.op])]
    BY DEF Arrive
  <1> DEFINE s == [Idle EXCEPT !.status = "serving", !.q = q,
                     !.knew = durable[Scope(q)] # None /\ durable[Scope(q)].digest = q.digest]
             h == router[q.op]
             s2 == Advance(s, h)
  <1>1. /\ DOMAIN s = Fields /\ s.status = "serving" /\ s.conn = "none" /\ s.code = None
        /\ s.held = 0 /\ s.slot = FALSE /\ s.q = q
        /\ s.knew = (durable[Scope(q)] # None /\ durable[Scope(q)].digest = q.digest)
    BY SMT DEF Idle, Fields
  <1>2. st' = [st EXCEPT ![r] = s2] /\ durable' = durable
    BY <1>0 DEF Arrive
  <1> HIDE DEF s
  <1>3. q.op \in DOMAIN router /\ h \in Seq(Before \cup Writing)
    BY HandlersAreBodies DEF RequestsAreRouted, Body
  <1>4. Underway(s)
    BY <1>1 DEF Underway, Vetted, Holding, InTransaction
  <1>5. Follows(h, h, 1) /\ 1 \in Nat /\ \A j : j \notin 1 .. 1 - 1
    <2> HIDE DEF h
    <2> QED BY SMT, <1>3 DEF Follows
  <1>6. Passed(s, h, 1)
    BY <1>1, <1>5 DEF Passed
  <1>7. Careful(s2)
    BY <1>1, <1>3, <1>4, <1>5, <1>6, CourseGoesOn DEF NoneIsNoCode
  <1>8. Moved(s, s2)
    BY <1>1, AdvanceMoves
  <1> HIDE DEF s2, h
  <1>9. s2.q = q /\ s2.knew = s.knew /\ s2.status # "idle"
    BY <1>1, <1>8 DEF Moved
  <1>10. DOMAIN st = Slots
    BY DEF IInv, Shape
  <1>11. st'[r] = s2 /\ \A x \in Slots : x # r => st'[x] = st[x]
    BY <1>2, <1>10
  <1>12. ASSUME NEW x \in Slots
         PROVE  /\ Careful(st'[x])
                /\ st'[x].knew => Stored(x)' # None /\ SameDigest(x)' /\ st'[x].status # "idle"
    <2>1. CASE x # r
      <3>1. st'[x] = st[x]
        BY <1>11, <2>1
      <3>2. Stored(x)' = Stored(x)
        BY <1>2, <3>1 DEF Stored
      <3>3. SameDigest(x)' <=> SameDigest(x)
        BY <3>1, <3>2 DEF SameDigest
      <3> QED BY <3>1, <3>2, <3>3 DEF AInv
    <2>2. CASE x = r
      <3>1. st'[x] = s2
        BY <1>11, <2>2
      <3>2. Stored(x)' = durable[Scope(q)]
        BY <1>2, <1>9, <3>1 DEF Stored
      <3>3. SameDigest(x)' <=> durable[Scope(q)].digest = q.digest
        BY <1>9, <3>1, <3>2 DEF SameDigest
      <3> QED BY <1>1, <1>7, <1>9, <3>1, <3>2, <3>3
    <2> QED BY <2>1, <2>2
  <1> QED BY <1>12 DEF AInv

(* A guard is taken or given back.                                          *)
LEMMA GuardUnderway ==
    ASSUME NEW s, Underway(s), NEW v
    PROVE  /\ LET s2 == [s EXCEPT !.held = v]
              IN  /\ s2.q = s.q /\ s2.knew = s.knew /\ s2.slot = s.slot /\ s2.held = v
                  /\ v = 0 \/ s.q.faults \subseteq LateFaults => Underway(s2)
           /\ LET s2 == [s EXCEPT !.slot = v]
              IN  /\ s2.q = s.q /\ s2.knew = s.knew /\ s2.slot = v /\ s2.held = s.held
                  /\ s.q.faults \subseteq LateFaults => Underway(s2)
  <1>0. DOMAIN s = Fields /\ s.status = "serving" /\ s.code = None
    BY DEF Underway
  <1>1. LET s2 == [s EXCEPT !.held = v]
        IN  /\ s2.q = s.q /\ s2.knew = s.knew /\ s2.slot = s.slot /\ s2.held = v
            /\ v = 0 \/ s.q.faults \subseteq LateFaults => Underway(s2)
    <2> DEFINE s2 == [s EXCEPT !.held = v]
    <2>1. /\ DOMAIN s2 = Fields /\ s2.q = s.q /\ s2.knew = s.knew /\ s2.slot = s.slot
          /\ s2.held = v /\ s2.status = s.status /\ s2.code = s.code /\ s2.conn = s.conn
      BY <1>0 DEF Fields
    <2> HIDE DEF s2
    <2>2. v = 0 \/ s.q.faults \subseteq LateFaults => Vetted(s2)
      BY <2>1 DEF Underway, Vetted, Holding
    <2>3. v = 0 \/ s.q.faults \subseteq LateFaults => Underway(s2)
      BY <1>0, <2>1, <2>2 DEF Underway
    <2> QED BY <2>1, <2>3 DEF s2
  <1>2. LET s2 == [s EXCEPT !.slot = v]
        IN  /\ s2.q = s.q /\ s2.knew = s.knew /\ s2.slot = v /\ s2.held = s.held
            /\ s.q.faults \subseteq LateFaults => Underway(s2)
    <2> DEFINE s2 == [s EXCEPT !.slot = v]
    <2>1. /\ DOMAIN s2 = Fields /\ s2.q = s.q /\ s2.knew = s.knew /\ s2.slot = v
          /\ s2.held = s.held /\ s2.status = s.status /\ s2.code = s.code /\ s2.conn = s.conn
      BY <1>0 DEF Fields
    <2> HIDE DEF s2
    <2>2. s.q.faults \subseteq LateFaults => Underway(s2)
      BY <1>0, <2>1 DEF Underway, Vetted
    <2> QED BY <2>1, <2>2 DEF s2
  <1> QED BY <1>1, <1>2

(* The stages without a connection.                                         *)
LEMMA OffPoolCareful ==
    ASSUME RequestsAreRouted, FaultsAreLookedFor, NoneIsNoCode, IInv, RInv, AInv, NEW r \in Slots,
           \/ TakePermits(r) \/ ReleasePermits(r) \/ TakeSlot(r) \/ ValidatorAnswers(r)
           \/ ReadLocal(r)
    PROVE  AInv'
  <1> DEFINE g == Head(st[r].rest)
             s == st[r]
  <1>1. CASE TakePermits(r)
    <2> DEFINE s2 == [s EXCEPT !.held = g.n]
    <2>1. Serving(r) /\ g.do = "permits" /\ durable' = durable
      BY <1>1 DEF TakePermits, At
    <2>2. s.q.faults \subseteq LateFaults /\ ~(s.knew /\ s.q.op \in Replayed)
      BY <2>1, AtHead DEF Admitting
    <2>3. Underway(s)
      BY <2>1, Served
    <2>4. \/ st' = [st EXCEPT ![r] = Advance(s2, Tail(s.rest))]
          \/ st' = [st EXCEPT ![r] = Reply(s, Busy)]
      <3>1. CASE FreePermits >= g.n
        BY <1>1, <3>1 DEF TakePermits
      <3>2. CASE ~(FreePermits >= g.n)
        BY <1>1, <3>2 DEF TakePermits
      <3> QED BY <3>1, <3>2
    <2>5. s2.q = s.q /\ s2.knew = s.knew /\ s2.slot = s.slot /\ Underway(s2)
      BY <2>2, <2>3, GuardUnderway
    <2> HIDE DEF s2
    <2>6. Effect(s, g, s2)
      BY <2>1, <2>5 DEF Effect, Looking
    <2>7. CASE st' = [st EXCEPT ![r] = Advance(s2, Tail(s.rest))]
      BY <2>1, <2>5, <2>6, <2>7, PassCareful
    <2>8. CASE st' = [st EXCEPT ![r] = Reply(s, Busy)]
      BY <2>1, <2>2, <2>8, AnswerCareful
    <2> QED BY <2>4, <2>7, <2>8
  <1>2. CASE ReleasePermits(r)
    <2> DEFINE s2 == [s EXCEPT !.held = 0]
    <2>1. Serving(r) /\ g.do = "release" /\ durable' = durable
      BY <1>2 DEF ReleasePermits, At
    <2>2. st' = [st EXCEPT ![r] = Advance(s2, Tail(s.rest))]
      BY <1>2 DEF ReleasePermits
    <2>3. Underway(s)
      BY <2>1, Served
    <2>4. s2.q = s.q /\ s2.knew = s.knew /\ s2.slot = s.slot /\ s2.held = 0 /\ Underway(s2)
      BY <2>3, GuardUnderway
    <2> HIDE DEF s2
    <2>5. Effect(s, g, s2)
      BY <2>1, <2>4 DEF Effect, Looking
    <2> QED BY <2>1, <2>2, <2>4, <2>5, PassCareful
  <1>3. CASE TakeSlot(r)
    <2> DEFINE s2 == [s EXCEPT !.slot = TRUE]
    <2>1. Serving(r) /\ g.do = "slot" /\ durable' = durable
      BY <1>3 DEF TakeSlot, At
    <2>2. s.q.faults \subseteq LateFaults /\ ~(s.knew /\ s.q.op \in Replayed)
      BY <2>1, AtHead DEF Admitting
    <2>3. Underway(s)
      BY <2>1, Served
    <2>4. \/ st' = [st EXCEPT ![r] = Advance(s2, Tail(s.rest))]
          \/ st' = [st EXCEPT ![r] = Reply(s, Busy)]
      <3>1. CASE FreeSlots > 0
        BY <1>3, <3>1 DEF TakeSlot
      <3>2. CASE ~(FreeSlots > 0)
        BY <1>3, <3>2 DEF TakeSlot
      <3> QED BY <3>1, <3>2
    <2>5. s2.q = s.q /\ s2.knew = s.knew /\ s2.slot = TRUE /\ s2.held = s.held /\ Underway(s2)
      BY <2>2, <2>3, GuardUnderway
    <2> HIDE DEF s2
    <2>6. Effect(s, g, s2)
      BY <2>1, <2>5 DEF Effect, Looking
    <2>7. CASE st' = [st EXCEPT ![r] = Advance(s2, Tail(s.rest))]
      BY <2>1, <2>5, <2>6, <2>7, PassCareful
    <2>8. CASE st' = [st EXCEPT ![r] = Reply(s, Busy)]
      BY <2>1, <2>2, <2>8, AnswerCareful
    <2> QED BY <2>4, <2>7, <2>8
  <1>4. ASSUME Serving(r), g.do \in {"call", "local"}, durable' = durable,
               st' = [st EXCEPT ![r] = Advance(st[r], Tail(st[r].rest))]
        PROVE  AInv'
    <2>1. Underway(st[r])
      BY <1>4, Served
    <2>2. Effect(st[r], g, st[r])
      BY <1>4 DEF Effect, Looking
    <2> QED BY <1>4, <2>1, <2>2, PassCareful
  <1>5. CASE ValidatorAnswers(r)
    <2>1. Serving(r) /\ g.do = "call" /\ durable' = durable
      BY <1>5 DEF ValidatorAnswers, At
    <2>2. PICK outcome : st' = [st EXCEPT ![r] = IF outcome = "ok" THEN Advance(st[r], Tail(st[r].rest))
                                                 ELSE Reply(st[r], from_ledger(outcome))]
      BY <1>5 DEF ValidatorAnswers
    <2>3. CASE outcome = "ok"
      BY <1>4, <2>1, <2>2, <2>3
    <2>4. CASE outcome # "ok"
      <3>1. st' = [st EXCEPT ![r] = Reply(st[r], from_ledger(outcome))]
        BY <2>2, <2>4
      <3>2. ~(st[r].knew /\ st[r].q.op \in Replayed)
        BY <2>1, AtHead
      <3> QED BY <2>1, <3>1, <3>2, AnswerCareful
    <2> QED BY <2>3, <2>4
  <1>6. CASE ReadLocal(r)
    BY <1>4, <1>6 DEF ReadLocal, At
  <1> QED BY <1>1, <1>2, <1>3, <1>5, <1>6

(* A connection is asked for, and its statement or its transaction's body   *)
(* begins.                                                                  *)
LEMMA ConnectCareful ==
    ASSUME RequestsAreRouted, FaultsAreLookedFor, NoneIsNoCode, IInv, RInv, AInv, NEW r \in Slots,
           Connect(r) \/ PoolTimedOut(r) \/ LockGranted(r)
    PROVE  AInv'
  <1>1. Serving(r) /\ durable' = durable
    BY DEF Connect, PoolTimedOut, LockGranted, NeedsConnection
  <1>2. DOMAIN st[r] = Fields
    BY <1>1, Served DEF Underway
  <1>3. Head(st[r].rest).do = "transact" => st[r].q.faults \subseteq LateFaults
    BY <1>1, AtHead DEF Admitting
  <1>4. CASE Connect(r)
    <2> DEFINE conn == IF Head(st[r].rest).do = "transact" THEN "waiting" ELSE "reading"
               s2 == [st[r] EXCEPT !.conn = conn, !.under = st[r].held]
    <2>1. st' = [st EXCEPT ![r] = s2]
      BY <1>4 DEF Connect
    <2>2. /\ s2.q = st[r].q /\ s2.knew = st[r].knew /\ s2.held = st[r].held /\ s2.slot = st[r].slot
          /\ s2.rest = st[r].rest /\ s2.code = st[r].code /\ s2.status = st[r].status /\ s2.conn = conn
      BY SMT, <1>2 DEF Fields
    <2>3. conn \in InTransaction => Head(st[r].rest).do = "transact"
      BY DEF InTransaction
    <2> HIDE DEF s2, conn
    <2>4. s2.conn \in InTransaction => st[r].q.faults \subseteq LateFaults
      BY <1>3, <2>2, <2>3
    <2> QED BY <1>1, <2>1, <2>2, <2>4, ConnCareful
  <1>5. CASE PoolTimedOut(r)
    <2>1. st' = [st EXCEPT ![r] = Reply(st[r], from_ledger("DependencyUnavailable"))]
      BY <1>5 DEF PoolTimedOut
    <2> QED BY <1>1, <2>1, OtherCodes, AnswerCareful
  <1>6. CASE LockGranted(r)
    <2> DEFINE s2 == [st[r] EXCEPT !.conn = "working"]
    <2>1. st' = [st EXCEPT ![r] = s2] /\ st[r].conn = "waiting"
      BY <1>6 DEF LockGranted
    <2>2. /\ s2.q = st[r].q /\ s2.knew = st[r].knew /\ s2.held = st[r].held /\ s2.slot = st[r].slot
          /\ s2.rest = st[r].rest /\ s2.code = st[r].code /\ s2.status = st[r].status
      BY <1>2 DEF Fields
    <2>3. Head(st[r].rest).do = "transact"
      BY <1>1, <2>1, ServedHandler
    <2> HIDE DEF s2
    <2> QED BY <1>1, <1>3, <2>1, <2>2, <2>3, ConnCareful
  <1> QED BY <1>4, <1>5, <1>6

(* A statement outside a transaction is answered.                           *)
LEMMA ReadEndsCareful ==
    ASSUME RequestsAreRouted, NoneIsNoCode, IInv, RInv, AInv, NEW r \in Slots, ReadEnds(r)
    PROVE  AInv'
  <1> DEFINE s == Disconnected(st[r])
             g == Head(st[r].rest)
  <1>1. Serving(r) /\ durable' = durable
    BY DEF ReadEnds
  <1>2. st[r].rest \in Body /\ st[r].rest # <<>>
    BY <1>1, ServedHandler
  <1>3. /\ DOMAIN st[r] = Fields /\ Underway(st[r])
    BY <1>1, Served DEF Underway
  <1>4. /\ DOMAIN s = Fields /\ s.q = st[r].q /\ s.knew = st[r].knew /\ s.held = st[r].held
        /\ s.slot = st[r].slot /\ s.rest = st[r].rest /\ Underway(s)
    BY <1>3, DisconnectedUnderway
  <1>5. g \in Before \cup Writing
    BY <1>2, BodyRest
  <1>6. \/ /\ g.do = "query"
           /\ st' = [st EXCEPT ![r] = Reply(s, g.code)]
        \/ /\ g.do \in {"replay", "begin"}
           /\ st' = [st EXCEPT ![r] = FromRow(s, r, g.then)]
        \/ \E error \in StoreErrors : st' = [st EXCEPT ![r] = Reply(s, from_ledger(error))]
        \/ /\ CASE g.do = "query"  -> g.of \notin s.q.faults
                [] g.do = "replay" -> Stored(r) = None
                [] g.do = "begin"  -> Stored(r) = None /\ s.q.faults \cap StoreErrors = {}
                [] g.do = "work"   -> s.q.faults \cap StoreErrors = {}
           /\ st' = [st EXCEPT ![r] = Advance(s, Tail(s.rest))]
    BY DEF ReadEnds
  <1>7. CASE g.do = "query" /\ st' = [st EXCEPT ![r] = Reply(s, g.code)]
    <2>1. g # NoValidator
      <3>1. NoValidator.do = "check"
        BY SMT DEF NoValidator, Check
      <3> QED BY <1>7, <3>1
    <2>2. g.code \notin Refusing
      BY <1>5, <1>7, <2>1, StageOf DEF Looking
    <2> QED BY <1>1, <1>7, <2>2, AnswerCareful
  <1>8. CASE g.do \in {"replay", "begin"} /\ st' = [st EXCEPT ![r] = FromRow(s, r, g.then)]
    <2>1. g.then \in Seq(Plain)
      BY <1>2, <1>8, AfterStage
    <2> QED BY <1>1, <1>8, <2>1, FromRowCareful
  <1>9. ASSUME NEW error \in StoreErrors, st' = [st EXCEPT ![r] = Reply(s, from_ledger(error))]
        PROVE  AInv'
    BY <1>1, <1>9, OtherCodes, AnswerCareful
  <1>10. CASE /\ CASE g.do = "query"  -> g.of \notin s.q.faults
                   [] g.do = "replay" -> Stored(r) = None
                   [] g.do = "begin"  -> Stored(r) = None /\ s.q.faults \cap StoreErrors = {}
                   [] g.do = "work"   -> s.q.faults \cap StoreErrors = {}
              /\ st' = [st EXCEPT ![r] = Advance(s, Tail(s.rest))]
    <2>0. st[r].conn # "none"
      BY DEF ReadEnds
    <2>1. g.do \in Pooled
      BY <1>1, <2>0, ServedHandler
    <2>2. g.do \in {"query", "check"} => g.of \notin s.q.faults
      BY <1>10, <2>1 DEF Pooled
    <2>3. g.do = "replay" => Stored(r) = None
      BY <1>10, <2>1 DEF Pooled
    <2>4. st[r].knew => g.do # "replay"
      BY <2>3 DEF AInv
    <2>5. g.do \notin {"slot", "permits", "release"}
      BY <2>1 DEF Pooled
    <2>6. st' = [st EXCEPT ![r] = Advance(s, Tail(st[r].rest))]
      BY <1>4, <1>10
    <2> HIDE DEF s, g
    <2>7. Effect(st[r], g, s)
      BY <1>4, <2>2, <2>4, <2>5 DEF Effect, Looking
    <2> QED BY <1>1, <1>4, <2>6, <2>7, PassCareful DEF g
  <1> QED BY <1>6, <1>7, <1>8, <1>9, <1>10

(* The body of a write transaction ends.                                    *)
LEMMA BodyEndsCareful ==
    ASSUME RequestsAreRouted, FaultsAreLookedFor, NoneIsNoCode, IInv, RInv, AInv, NEW r \in Slots,
           BodyEnds(r)
    PROVE  AInv'
  <1> DEFINE s == Disconnected(st[r])
             s2 == [st[r] EXCEPT !.conn = "committing"]
  <1>1. Serving(r) /\ durable' = durable /\ st[r].conn = "working"
    BY DEF BodyEnds
  <1>2. st[r].rest \in Body /\ st[r].rest # <<>> /\ Head(st[r].rest).do = "transact"
    BY <1>1, ServedHandler
  <1>3. DOMAIN st[r] = Fields
    BY <1>1, Served DEF Underway
  <1>4. s.rest = st[r].rest
    BY <1>3, DisconnectedFields
  <1>5. \/ \E error \in StoreErrors : st' = [st EXCEPT ![r] = Reply(s, from_ledger(error))]
        \/ st' = [st EXCEPT ![r] = FromRow(s, r, Head(s.rest).then)]
        \/ st' = [st EXCEPT ![r] = s2]
    BY DEF BodyEnds
  <1>6. ASSUME NEW error \in StoreErrors, st' = [st EXCEPT ![r] = Reply(s, from_ledger(error))]
        PROVE  AInv'
    BY <1>1, <1>6, OtherCodes, AnswerCareful
  <1>7. CASE st' = [st EXCEPT ![r] = FromRow(s, r, Head(s.rest).then)]
    <2>1. Head(s.rest).then \in Seq(Plain)
      BY <1>2, <1>4, AfterStage
    <2> QED BY <1>1, <1>7, <2>1, FromRowCareful
  <1>8. CASE st' = [st EXCEPT ![r] = s2]
    <2>1. /\ s2.q = st[r].q /\ s2.knew = st[r].knew /\ s2.held = st[r].held /\ s2.slot = st[r].slot
          /\ s2.rest = st[r].rest /\ s2.code = st[r].code /\ s2.status = st[r].status
      BY <1>3 DEF Fields
    <2>2. st[r].q.faults \subseteq LateFaults
      BY <1>1, <1>2, AtHead DEF Admitting
    <2> HIDE DEF s2
    <2> QED BY <1>1, <1>8, <2>1, <2>2, ConnCareful
  <1> QED BY <1>5, <1>6, <1>7, <1>8

(* A handler that was dropped, or never began, loses its connection.        *)
LEMMA OrphanCareful ==
    ASSUME IInv, AInv, NEW r \in Slots, ~Serving(r), st[r].status # "idle",
           st' = [st EXCEPT ![r] = Disconnected(st[r])],
           durable' = durable \/ (st[r].conn = "committing" /\ Record(r))
    PROVE  AInv'
  <1> DEFINE s2 == Disconnected(st[r])
  <1>1. DOMAIN st[r] = Fields /\ Careful(st[r])
    BY DEF IInv, Shape, AInv
  <1>2. /\ s2.q = st[r].q /\ s2.knew = st[r].knew /\ s2.status = st[r].status
        /\ s2.code = st[r].code /\ (Vetted(st[r]) => Vetted(s2))
    BY <1>1, DisconnectedUnderway
  <1> HIDE DEF s2
  <1>3. Careful(s2)
    BY <1>1, <1>2 DEF Careful, NotRefused, Serving
  <1> QED BY <1>2, <1>3, CarefulStep DEF s2

(* COMMIT is answered, to its handler or to nobody.                         *)
LEMMA CommitEndsCareful ==
    ASSUME RequestsAreRouted, NoneIsNoCode, IInv, RInv, AInv, NEW r \in Slots, CommitEnds(r)
    PROVE  AInv'
  <1>1. st[r].conn = "committing" /\ Record(r) /\ st[r].status # "idle"
    BY DEF CommitEnds, IInv, Arrived
  <1>2. CASE Serving(r)
    <2> DEFINE d == Disconnected(st[r])
               own == [d EXCEPT !.result = r]
    <2>1. st' = [st EXCEPT ![r] = Advance(own, Tail(st[r].rest))]
      BY <1>2 DEF CommitEnds
    <2>2. DOMAIN st[r] = Fields /\ Underway(st[r])
      BY <1>2, Served DEF Underway
    <2>3. DOMAIN d = Fields /\ d.q = st[r].q /\ d.knew = st[r].knew /\ Underway(d)
      BY <2>2, DisconnectedUnderway
    <2> HIDE DEF d
    <2>4. /\ DOMAIN own = Fields /\ own.q = d.q /\ own.knew = d.knew /\ own.held = d.held
          /\ own.slot = d.slot /\ own.conn = d.conn /\ own.status = d.status /\ own.code = d.code
      BY <2>3 DEF Fields
    <2> HIDE DEF own
    <2>5. Underway(own)
      BY <2>3, <2>4 DEF Underway, Vetted, Holding
    <2>6. Tail(st[r].rest) = <<>> /\ <<>> \in Seq(Plain)
      <3>1. st[r].rest \in Body /\ st[r].rest # <<>> /\ Head(st[r].rest).do = "transact"
        BY <1>1, <1>2, ServedHandler
      <3>2. <<>> \in Seq(Plain)
        BY SMT
      <3> QED BY <3>1, <3>2, AfterStage
    <2>7. Careful(Advance(own, Tail(st[r].rest)))
      BY <2>5, <2>6, PlainGoesOn DEF NoneIsNoCode
    <2>8. own.status = "serving"
      BY <2>5 DEF Underway
    <2> QED BY <1>1, <2>1, <2>3, <2>4, <2>7, <2>8, OnwardCareful
  <1>3. CASE ~Serving(r)
    BY <1>1, <1>3, OrphanCareful DEF CommitEnds
  <1> QED BY <1>2, <1>3

(* Every step keeps the handlers on their courses.                          *)
LEMMA CarefulInductive ==
    RequestsAreRouted /\ FaultsAreLookedFor /\ NoneIsNoCode /\ IInv /\ RInv /\ AInv /\ [Next]_vars
      => AInv'
  <1> SUFFICES ASSUME RequestsAreRouted, FaultsAreLookedFor, NoneIsNoCode, IInv, RInv, AInv, [Next]_vars
               PROVE  AInv'
    BY SMT
  <1>1. ASSUME NEW r \in Slots, EdgeTimeout(r) PROVE AInv'
    <2>1. Serving(r) /\ durable' = durable /\ st' = [st EXCEPT ![r] = Reply(st[r], TimeLimit)]
      BY <1>1 DEF EdgeTimeout
    <2> QED BY <2>1, OtherCodes, AnswerCareful
  <1>2. ASSUME NEW r \in Slots, StatementTimesOut(r) PROVE AInv'
    <2>1. /\ Serving(r) /\ durable' = durable
          /\ st' = [st EXCEPT ![r] = Reply(Disconnected(st[r]), from_ledger("DependencyTimeout"))]
      BY <1>2 DEF StatementTimesOut
    <2> QED BY <2>1, OtherCodes, AnswerCareful
  <1>3. ASSUME NEW r \in Slots, ConnectionLost(r) PROVE AInv'
    <2>1. /\ Serving(r)
          /\ durable' = durable \/ (st[r].conn = "committing" /\ Record(r))
          /\ st' = [st EXCEPT ![r] = Reply(Disconnected(st[r]), from_ledger("DependencyUnavailable"))]
      BY <1>3 DEF ConnectionLost
    <2> QED BY <2>1, OtherCodes, AnswerCareful
  <1>4. ASSUME NEW r \in Slots, OrphanEnds(r) PROVE AInv'
    <2>1. /\ ~Serving(r) /\ durable' = durable /\ st' = [st EXCEPT ![r] = Disconnected(st[r])]
          /\ st[r].conn # "none"
      BY <1>4 DEF OrphanEnds
    <2>2. st[r].status # "idle"
      BY <2>1 DEF IInv, Arrived
    <2> QED BY <2>1, <2>2, OrphanCareful
  <1>5. ASSUME NEW r \in Slots, Step(r) PROVE AInv'
    BY <1>5, OffPoolCareful, ConnectCareful, ReadEndsCareful, BodyEndsCareful DEF Step
  <1>6. CASE UNCHANGED vars
    <2>1. st' = st /\ durable' = durable
      BY <1>6 DEF vars
    <2>2. \A r \in Slots : Stored(r)' = Stored(r)
      BY <2>1 DEF Stored
    <2>3. \A r \in Slots : SameDigest(r)' = SameDigest(r)
      BY <2>1, <2>2 DEF SameDigest
    <2> QED BY <2>1, <2>2, <2>3 DEF AInv
  <1> QED BY <1>1, <1>2, <1>3, <1>4, <1>5, <1>6, ArriveCareful, CommitEndsCareful DEF Next

(* It holds initially.                                                      *)
LEMMA CarefulInitially == NoneIsNoCode /\ Init => RInv /\ AInv
  <1> SUFFICES ASSUME NoneIsNoCode, Init, NEW r \in Slots
               PROVE  Sound(st[r], r \in commits) /\ Careful(st[r]) /\ ~st[r].knew
    BY DEF RInv, AInv
  <1>1. st[r] = Idle /\ r \notin commits
    BY DEF Init
  <1>2. /\ Idle.status = "idle" /\ Idle.code = None /\ Idle.held = 0 /\ Idle.slot = FALSE
        /\ Idle.conn = "none" /\ Idle.knew = FALSE
    BY SMT DEF Idle
  <1>3. Sound(st[r], r \in commits)
    BY <1>1, <1>2 DEF Sound, Uncertain
  <1>4. Careful(st[r]) /\ ~st[r].knew
    BY <1>1, <1>2 DEF Careful, Vetted, Holding, InTransaction, NotRefused
  <1> QED BY <1>3, <1>4

(* The three invariants together.                                           *)
LEMMA CarefulAlways ==
    ASSUME NoneIsApart, NoneIsNoCode, RequestsAreRouted, FaultsAreLookedFor
    PROVE  Spec => [](IInv /\ RInv /\ AInv)
  <1>1. Init => IInv /\ RInv /\ AInv
    BY Initial, CarefulInitially
  <1>2. IInv /\ RInv /\ AInv /\ [Next]_vars => IInv' /\ RInv' /\ AInv'
    BY Inductive, SoundInductive, CarefulInductive
  <1> QED BY <1>1, <1>2, PTL DEF Spec

(* validate: while the validator is called, the handler keeps its           *)
(* validation slot, no connection and no expensive permit.                  *)
THEOREM CallAlwaysHoldsOnlyItsSlot ==
    ASSUME NoneIsApart, NoneIsNoCode, RequestsAreRouted, FaultsAreLookedFor
    PROVE  Spec => []CallHoldsOnlyItsSlot
  <1>1. IInv /\ RInv /\ AInv => CallHoldsOnlyItsSlot
    <2> SUFFICES ASSUME IInv, RInv, AInv, NEW r \in Slots, At(r, "call")
                 PROVE  st[r].conn = "none" /\ st[r].held = 0 /\ st[r].slot
      BY DEF CallHoldsOnlyItsSlot
    <2>1. Serving(r) /\ Head(st[r].rest).do = "call" /\ "call" \notin Pooled
      BY DEF At, Pooled
    <2>2. st[r].conn = "none"
      BY <2>1, ServedHandler
    <2> QED BY <2>1, <2>2, AtHead
  <1> QED BY <1>1, CarefulAlways, PTL

(* The replay lookups before admission: a validate or merge propose whose   *)
(* result was stored when it arrived is never refused for want of a permit, *)
(* a slot or a validator.                                                   *)
THEOREM ReplayNeverNeedsAdmission ==
    ASSUME NoneIsApart, NoneIsNoCode, RequestsAreRouted, FaultsAreLookedFor
    PROVE  Spec => []ReplayNeedsNoAdmission
  <1>1. AInv => ReplayNeedsNoAdmission
    BY DEF AInv, Careful, NotRefused, Replayed, Refusing, ReplayNeedsNoAdmission
  <1> QED BY <1>1, CarefulAlways, PTL

(* "before any lock, slot or reconstruction": whoever holds a permit, a     *)
(* slot or the lock of a scope has nothing wrong that a check looks at.     *)
THEOREM ChecksAlwaysBeforeAdmission ==
    ASSUME NoneIsApart, NoneIsNoCode, RequestsAreRouted, FaultsAreLookedFor
    PROVE  Spec => []ChecksBeforeAdmission
  <1>1. AInv => ChecksBeforeAdmission
    <2>1. \A n : n > 0 => n # 0
      BY SMT
    <2> QED BY <2>1 DEF AInv, Careful, Vetted, Holding, InTransaction, ChecksBeforeAdmission
  <1> QED BY <1>1, CarefulAlways, PTL

================================================================================

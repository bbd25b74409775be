----------------------------- MODULE ValidatorCall -----------------------------
(***************************************************************************)
(* One validate request from its arrival to its record: the handler         *)
(* (ledger-api's validate), the HTTP client (validator.rs), what becomes of *)
(* the validator's answer (client.rs) and the two transactions              *)
(* (postgres_validation.rs).  Requests are delivered more than once, at the *)
(* same time and after crashes; the validator promises only that equal      *)
(* invocation ids get one logical answer.                                   *)
(*                                                                         *)
(* A content id is the value in its normal form: Codec shows that bytes and *)
(* normal forms determine each other.  One graph, one caller.               *)
(***************************************************************************)
EXTENDS Envelopes, TLC

CONSTANTS
    Delivery,       \* handlers that may be at work at once
    Calls,          \* requests clients make: key, candidate, hints
    ServiceOf,      \* Delivery -> {} or the configured service id
    StateOf,        \* candidate -> the digest of its state
    Prepared,       \* candidates with a proposal in this graph
    Oversized,      \* candidates too large to be shipped
    Answers,        \* what the validator may say
    Responses,      \* how it may reach the client
    MaxBody,        \* max_response_bytes
    MaxStorable,    \* the largest count a row holds
    MaxCalls,       \* bound on deliveries
    MaxTime         \* bound on the clock

VARIABLES
    pc, call,           \* per delivery
    sent, resolved,     \* the validator: invocations it got, and what it answers
    ready,              \* per delivery: {} or the context and record to be written
    tx,                 \* per delivery: rows written and not committed
    contexts, virtualRows, records, violationRows, results,
    active, clock, arrivals,
    told                \* what clients were told: invocation, view

tables == <<contexts, virtualRows, records, violationRows, results>>
vars == <<pc, call, sent, resolved, ready, tx, tables, active, clock, arrivals, told>>

(* ValidationInvocation::for_request: scope, key and request digest, and    *)
(* nothing of the delivery (RequestIdentity shows the bytes determine it).  *)
invocation(d) ==
    [key |-> call[d].key, digest |-> <<call[d].candidate, call[d].hints>>]

RequestDigest(d) == <<call[d].candidate, call[d].hints>>

-----------------------------------------------------------------------------
(* HttpValidationClient::validate: a response is its status, media type,    *)
(* declared length, chunks, whether the connection breaks after them, and   *)
(* whether they are a validation response.                                  *)
Total(chunks) == FoldSeq(+, 0, chunks)

client_validate(r) ==
    IF r.status = "redirect" THEN "rejected"
    ELSE IF r.status \in {"server_error", "too_many"} THEN "unavailable"
    ELSE IF r.status # "success" THEN "rejected"
    ELSE IF ~r.json THEN "rejected"
    ELSE IF \E n \in r.declared : n > MaxBody THEN "rejected"
    ELSE IF Total(r.chunks) > MaxBody THEN "rejected"
    ELSE IF r.broken THEN "unavailable"
    ELSE IF ~r.shape THEN "rejected"
    ELSE "answer"

(* RequestedContext::unmet_by *)
unmet_by(h, a) ==
    \/ h.base_kb # {} /\ h.base_kb # {<<a.kb, a.revision>>}
    \/ h.ontology # {} /\ h.ontology # a.ontology
    \/ h.shapes # {} /\ h.shapes # {<<a.shapes, a.shapes_version>>}
    \/ h.profile # {} /\ h.profile # {g[1] : g \in a.reasoning}
    \/ h.sources # {} /\ h.sources # a.sources

(* A character of two bytes is Lead and Trail. *)
Lead == 4
Trail == 5

is_char_boundary(s, n) == n \in {0, Len(s)} \/ s[n + 1] # Trail

cleaned(s) == [i \in 1 .. Len(s) |-> IF s[i] = Control THEN Space ELSE s[i]]

cut_message(s) ==
    SubSeq(s, 1, CHOOSE n \in 0 .. Len(s) :
        /\ n <= MAX_VIOLATION_MESSAGE_BYTES /\ is_char_boundary(s, n)
        /\ \A m \in n + 1 .. Len(s) : m > MAX_VIOLATION_MESSAGE_BYTES \/ ~is_char_boundary(s, m))

bounded_message(v) == [v EXCEPT !.message = cut_message(cleaned(v.message))]

(* What a summary is sorted by: nothing, if it has no canonical bytes.      *)
SortBytes(v) == IF summary_ok(v) THEN summary_bytes(v) ELSE <<>>

(* sort_by, stable, then dedup_by: of equal ones the first stays. *)
FirstWith(s, bytes) == s[CHOOSE i \in 1 .. Len(s) :
    SortBytes(s[i]) = bytes /\ \A j \in 1 .. i - 1 : SortBytes(s[j]) # bytes]

SortedUnique(s) ==
    LET bytes == SetToSortSeq({SortBytes(s[i]) : i \in 1 .. Len(s)}, Precedes)
    IN  [i \in 1 .. Len(bytes) |-> FirstWith(s, bytes[i])]

(* Mutant: the first ones the validator listed. *)
SummaryAsListed(a) ==
    LET s == each(a.violations, bounded_message)
    IN  [a EXCEPT !.violations =
            SortedUnique(SubSeq(s, 1, IF Len(s) < MAX_VIOLATION_SUMMARY THEN Len(s)
                                      ELSE MAX_VIOLATION_SUMMARY))]

with_bounded_summary(a) ==
    LET s == SortedUnique(each(a.violations, bounded_message))
    IN  [a EXCEPT !.violations = SubSeq(s, 1, IF Len(s) < MAX_VIOLATION_SUMMARY THEN Len(s)
                                              ELSE MAX_VIOLATION_SUMMARY)]

(* The context of an answer, with the service id of the configuration. *)
ContextOf(a, candidate, service) ==
    [graph |-> <<1>>, candidate |-> candidate, state |-> StateOf[candidate],
     kb |-> a.kb, revision |-> a.revision, ontology |-> a.ontology, shapes |-> a.shapes,
     shapes_version |-> a.shapes_version, reasoning |-> a.reasoning, sources |-> a.sources,
     virtuals |-> a.virtuals, service |-> service, service_version |-> a.service_version,
     configuration |-> a.configuration]

(* Nothing, if the answer is refused. *)
into_context(a, candidate, service, hints) ==
    IF /\ a.protocol /\ a.candidate = candidate /\ a.state = StateOf[candidate]
       /\ ~unmet_by(hints, a)
       /\ context_ok(ContextOf(a, candidate, service)) /\ outcome_ok(a)
       /\ \A s \in a.reference : validate_token(s, MAX_REPORT_REFERENCE_BYTES)
    THEN {ContextOf(a, candidate, service)} ELSE {}

-----------------------------------------------------------------------------
(* from_canonical_bytes of canonical_bytes. *)
NormalRef(e) == [e EXCEPT !.refs = canonical_object_refs(e)]
SortedBy(S, Encode(_)) == SetToSortSeq(S, LAMBDA x, y : Precedes(Encode(x), Encode(y)))

NormalContext(c) ==
    [c EXCEPT !.virtuals = SortedBy({NormalRef(c.virtuals[i]) : i \in 1 .. Len(c.virtuals)}, virtual_bytes)]

RecordOf(c, a) ==
    [graph |-> c.graph, candidate |-> c.candidate, state |-> c.state, context |-> NormalContext(c),
     service |-> c.service, service_version |-> c.service_version, configuration |-> c.configuration,
     kind |-> a.kind, count |-> a.count, violations |-> SortedBy(ToSet(a.violations), summary_bytes),
     recorded |-> clock, report |-> a.report, reference |-> a.reference]

(* What is told of a record: its id, context, environment and verdict.      *)
View(r, c) == [validation |-> r, context |-> c, environment |-> environment(c), conforms |-> r.kind = 0]

(* decode_stored: the record and the context it names agree. *)
decode_stored(r) ==
    {c \in contexts : /\ c = r.context
                      /\ c.candidate = r.candidate /\ c.state = r.state /\ c.graph = r.graph
                      /\ c.service = r.service /\ c.service_version = r.service_version
                      /\ c.configuration = r.configuration}

(* load_on *)
load(r) == IF r \in records THEN decode_stored(r) ELSE {}

-----------------------------------------------------------------------------
NoCall == [key |-> "none"]
NoRows == [contexts |-> {}, virtuals |-> {}, records |-> {}, violations |-> {}]

Init ==
    /\ pc = [d \in Delivery |-> "idle"] /\ call = [d \in Delivery |-> NoCall]
    /\ sent = {} /\ resolved = [i \in {} |-> 0]
    /\ ready = [d \in Delivery |-> {}] /\ tx = [d \in Delivery |-> NoRows]
    /\ contexts = {} /\ virtualRows = {} /\ records = {} /\ violationRows = {} /\ results = {}
    /\ active = TRUE /\ clock = 1 /\ arrivals = 0 /\ told = {}

Goto(d, p) == pc' = [pc EXCEPT ![d] = p]

(* The handler returns, and its transaction, if any, is rolled back.        *)
End(d) == /\ Goto(d, "idle")
          /\ call' = [call EXCEPT ![d] = NoCall]
          /\ ready' = [ready EXCEPT ![d] = {}]
          /\ tx' = [tx EXCEPT ![d] = NoRows]

Tell(d, v) == told' = told \cup {[key |-> call[d].key, digest |-> RequestDigest(d), view |-> v]}

Stored(d) == {s \in results : s.key = call[d].key}

(* ValidationRepository::replay: a conflict, or what is stored. *)
replay(d) == \E s \in Stored(d) :
    /\ IF s.digest = RequestDigest(d)
       THEN \E c \in load(s.validation) : Tell(d, View(s.validation, c))
       ELSE UNCHANGED told
    /\ End(d)
    /\ UNCHANGED <<sent, resolved, tables, active, clock, arrivals>>

Refuse(d) == /\ End(d)
             /\ UNCHANGED <<sent, resolved, tables, active, clock, arrivals, told>>

Arrive(d) ==
    /\ pc[d] = "idle" /\ arrivals < MaxCalls
    /\ arrivals' = arrivals + 1
    /\ \E r \in Calls : call' = [call EXCEPT ![d] = r]
    /\ Goto(d, "replay")
    /\ UNCHANGED <<sent, resolved, ready, tx, tables, active, clock, told>>

(* validate, up to the admission: replayed, or no service configured.       *)
Replayed(d) ==
    /\ pc[d] = "replay"
    /\ IF Stored(d) # {} THEN replay(d)
       ELSE IF ServiceOf[d] = {} THEN Refuse(d)
       ELSE /\ Goto(d, "begin")
            /\ UNCHANGED <<call, sent, resolved, ready, tx, tables, active, clock, arrivals, told>>

Admitted(d) == active /\ call[d].candidate \in Prepared

(* begin_with_limits; then the request goes out with no transaction open.   *)
Begin(d) ==
    /\ pc[d] = "begin"
    /\ IF Stored(d) # {} THEN replay(d)
       ELSE IF ~Admitted(d) \/ call[d].candidate \in Oversized THEN Refuse(d)
       ELSE /\ Goto(d, "call")
            /\ sent' = sent \cup {invocation(d)}
            /\ UNCHANGED <<call, resolved, ready, tx, tables, active, clock, arrivals, told>>

(* The validator: one logical answer per invocation, however often it is    *)
(* delivered, and whatever its environment is by then.                      *)
Resolve ==
    /\ \E i \in sent \ DOMAIN resolved, a \in Answers : resolved' = resolved @@ (i :> a)
    /\ UNCHANGED <<pc, call, sent, ready, tx, tables, active, clock, arrivals, told>>

(* Mutant: no timeout. *)
CallNeverFails(d) == pc[d] = "call" /\ invocation(d) \in DOMAIN resolved /\ Refuse(d)

(* No answer, or none in time. *)
CallFails(d) == pc[d] = "call" /\ Refuse(d)

(* The response: with_bounded_summary and into_context. *)
Answered(d) ==
    /\ pc[d] = "call" /\ invocation(d) \in DOMAIN resolved
    /\ \E r \in Responses :
          LET a == with_bounded_summary(resolved[invocation(d)])
              service == CHOOSE s \in ServiceOf[d] : TRUE
              made == into_context(a, call[d].candidate, service, call[d].hints)
          IN  IF client_validate(r) # "answer" \/ made = {} THEN Refuse(d)
              ELSE /\ Goto(d, "record")
                   /\ \E c \in made :
                         ready' = [ready EXCEPT ![d] = {[context |-> c, record |-> RecordOf(c, a)]}]
                   /\ UNCHANGED <<call, sent, resolved, tx, tables, active, clock, arrivals, told>>

-----------------------------------------------------------------------------
(* record: the write transaction. *)
InTx == {"context", "insert", "commit"}

(* Mutant: the stored result is not looked for again. *)
RecordUnchecked(d) ==
    /\ pc[d] = "record"
    /\ \A e \in Delivery \ {d} : pc[e] \in InTx => call[e].key # call[d].key
    /\ IF ~Admitted(d) THEN Refuse(d)
       ELSE /\ Goto(d, "context")
            /\ UNCHANGED <<call, sent, resolved, ready, tx, tables, active, clock, arrivals, told>>

(* begin_scoped waits for the scope's lock; then what begin looked at is    *)
(* looked at again.                                                         *)
Record(d) ==
    /\ pc[d] = "record"
    /\ \A e \in Delivery \ {d} : pc[e] \in InTx => call[e].key # call[d].key
    /\ IF Stored(d) # {} THEN replay(d)
       ELSE IF ~Admitted(d) THEN Refuse(d)
       ELSE /\ Goto(d, "context")
            /\ UNCHANGED <<call, sent, resolved, ready, tx, tables, active, clock, arrivals, told>>

(* Rows of a context and of a record, by position. *)
VirtualRows(c, listed) == {[context |-> c, position |-> i, ref |-> listed[i]] : i \in 1 .. Len(listed)}
ViolationRows(r) ==
    {[validation |-> r, position |-> i, violation |-> r.violations[i]] : i \in 1 .. Len(r.violations)}

(* insert_context: ON CONFLICT DO NOTHING waits for a transaction that      *)
(* inserted the same id; the rows below it are written by the inserter.     *)
InsertContext(d) ==
    /\ pc[d] = "context"
    /\ \E w \in ready[d] :
          LET c == NormalContext(w.context) IN
          /\ \A e \in Delivery \ {d} : c \notin tx[e].contexts
          /\ tx' = IF c \in contexts THEN tx
                   ELSE [tx EXCEPT ![d].contexts = {c}, ![d].virtuals = VirtualRows(c, c.virtuals)]
    /\ Goto(d, "insert")
    /\ UNCHANGED <<call, sent, resolved, ready, tables, active, clock, arrivals, told>>

(* insert_record: refused if the count does not fit its column. *)
InsertRecord(d) ==
    /\ pc[d] = "insert"
    /\ \E w \in ready[d] :
          LET r == w.record IN
          /\ \A e \in Delivery \ {d} : r \notin tx[e].records
          /\ IF r.count > MaxStorable THEN Refuse(d)
             ELSE /\ tx' = IF r \in records THEN tx
                           ELSE [tx EXCEPT ![d].records = {r}, ![d].violations = ViolationRows(r)]
                  /\ Goto(d, "commit")
                  /\ UNCHANGED <<call, sent, resolved, ready, tables, active, clock, arrivals, told>>

(* record_result and COMMIT; the answer is made from what was written.      *)
Commit(d) ==
    /\ pc[d] = "commit"
    /\ contexts' = contexts \cup tx[d].contexts /\ virtualRows' = virtualRows \cup tx[d].virtuals
    /\ records' = records \cup tx[d].records /\ violationRows' = violationRows \cup tx[d].violations
    /\ \E w \in ready[d] :
          /\ results' = results \cup {[key |-> call[d].key, digest |-> RequestDigest(d),
                                       validation |-> w.record]}
          /\ \/ Tell(d, View(w.record, w.context))
             \/ UNCHANGED told                          \* the reply is lost
    /\ End(d)
    /\ UNCHANGED <<sent, resolved, active, clock, arrivals>>

(* The process dies, the client leaves or the edge gives up. *)
Crash(d) == pc[d] # "idle" /\ Refuse(d)

(* Archiving waits for the transactions that hold the status lock. *)
Transition ==
    /\ \A d \in Delivery : pc[d] \notin InTx
    /\ active' = ~active
    /\ UNCHANGED <<pc, call, sent, resolved, ready, tx, tables, clock, arrivals, told>>

Tick == /\ clock < MaxTime /\ clock' = clock + 1
        /\ UNCHANGED <<pc, call, sent, resolved, ready, tx, tables, active, arrivals, told>>

Handler(d) == \/ Replayed(d) \/ Begin(d) \/ CallFails(d) \/ Answered(d) \/ Record(d)
              \/ InsertContext(d) \/ InsertRecord(d) \/ Commit(d)

Next == \/ \E d \in Delivery : Arrive(d) \/ Handler(d) \/ Crash(d)
        \/ Resolve \/ Transition \/ Tick

Spec == Init /\ [][Next]_vars /\ \A d \in Delivery : WF_vars(Handler(d))

-----------------------------------------------------------------------------
(* The order of sets does not matter. *)
SameView(v, w) == /\ v.validation = w.validation /\ v.environment = w.environment
                  /\ v.conforms = w.conforms
                  /\ NormalContext(v.context) = NormalContext(w.context)

(* Whatever is delivered twice, raced or retried: all who were told of a    *)
(* result under one key asked the same and were told of one record, in one  *)
(* environment, whether it was just written or replayed from the stored     *)
(* bytes (validate, replay).                                                *)
OneAnswerPerKey == \A t, u \in told :
    t.key = u.key => t.digest = u.digest /\ SameView(t.view, u.view)

(* The verdict recorded for a request is the validator's one answer to its  *)
(* invocation: not which delivery came through, nor when, decides the       *)
(* environment (ValidationInvocation).                                      *)
RecordedIsTheInvocations == \A s \in results :
    LET i == [key |-> s.key, digest |-> s.digest]
    IN  /\ i \in DOMAIN resolved
        /\ resolved[i].kind = s.validation.kind /\ resolved[i].report = s.validation.report
        /\ \A n \in {"kb", "revision", "sources", "configuration"} :
              resolved[i][n] = s.validation.context[n]

(* Every record a key names is about the candidate and state that were      *)
(* asked about, and its context is the one that was asked for, hint by hint *)
(* (into_context, unmet_by).                                                *)
RecordHonoursRequest == \A s \in results :
    LET candidate == s.digest[1]  hints == s.digest[2]  c == s.validation.context
    IN  /\ c.candidate = candidate /\ c.state = StateOf[candidate]
        /\ hints.base_kb \subseteq {<<c.kb, c.revision>>}
        /\ hints.sources \subseteq c.sources
        /\ hints.profile \subseteq {g[1] : g \in c.reasoning}

(* Nothing is half recorded: every record is named by a result and decodes  *)
(* with its context, every context is some record's, and the rows below     *)
(* both are exactly their sets, in the order of their bytes (record,        *)
(* insert_context, insert_record).                                          *)
RecordedIsWhole ==
    /\ records = {s.validation : s \in results}
    /\ \A r \in records : load(r) # {}
    /\ contexts = {r.context : r \in records}
    /\ virtualRows = UNION {VirtualRows(c, c.virtuals) : c \in contexts}
    /\ violationRows = UNION {ViolationRows(r) : r \in records}

(* Every call ends, also those that wait for another's transaction.         *)
CallsEnd == \A d \in Delivery : pc[d] # "idle" ~> pc[d] = "idle"

-----------------------------------------------------------------------------
(* The summary, of every answer that is on its way. *)

Given == {resolved[i] : i \in DOMAIN resolved \cap {invocation(d) : d \in {e \in Delivery : pc[e] = "call"}}}

Shuffled(a) == {[a EXCEPT !.violations = [i \in DOMAIN a.violations |-> a.violations[p[i]]]] :
    p \in {q \in [DOMAIN a.violations -> DOMAIN a.violations] :
              \A i, j \in DOMAIN a.violations : i # j => q[i] # q[j]}}

Summarized(a) == LET b == with_bounded_summary(a)
                 IN  IF outcome_ok(b) THEN {canonical_violations(b)} ELSE {}

(* The order in which a validator lists its results reaches neither the     *)
(* record nor whether there is one (with_bounded_summary: "Bound the result *)
(* summary deterministically").                                             *)
SummaryHasNoOrder == \A a \in Given : \A b \in Shuffled(a) : Summarized(a) = Summarized(b)

Distinct(a) == {bounded_message(a.violations[i]) : i \in DOMAIN a.violations}

(* Neither the length nor the wording of messages, nor the number of        *)
(* results, makes a verdict unusable; a malformed severity or code among    *)
(* any number of others always does, and so does a count below what is      *)
(* listed.                                                                  *)
OnlyMalformedIsRefused == \A a \in Given :
    Summarized(a) # {} <=>
        /\ \A i \in DOMAIN a.violations : /\ validate_token(a.violations[i].severity, MAX_SEVERITY_BYTES)
                                          /\ token(a.violations[i].code)
        /\ a.kind = 1 => a.count > 0
        /\ \/ Cardinality(Distinct(a)) <= a.count
           \/ MAX_VIOLATION_SUMMARY <= a.count

(* A message is cut between characters. *)
CutsAreWhole == \A a \in Given : \A i \in DOMAIN with_bounded_summary(a).violations :
    LET m == with_bounded_summary(a).violations[i].message
    IN  \A k \in DOMAIN m : m[k] = Lead => k < Len(m) /\ m[k + 1] = Trail
=============================================================================

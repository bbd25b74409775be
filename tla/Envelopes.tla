------------------------------- MODULE Envelopes -------------------------------
(***************************************************************************)
(* The canonical bytes behind every content id, written and read: the two   *)
(* commit envelopes (ledger-core), the semantic context, the semantic       *)
(* environment and the validation record (ledger-validation-protocol).      *)
(*                                                                         *)
(* A value is a record, and a decoder the sequence of items it reads        *)
(* (Codec runs it).                                                         *)
(***************************************************************************)
EXTENDS Framing

CONSTANTS
    MAX_EVIDENCE_REFS, MAX_OBJECT_REFS, MAX_VIRTUAL_CONTEXTS,
    MAX_VIOLATION_SUMMARY, MAX_SEVERITY_BYTES, MAX_VIOLATION_MESSAGE_BYTES,
    MAX_REPORT_REFERENCE_BYTES

-----------------------------------------------------------------------------
(* Elements of sets. *)

encoded_object_refs(e) == canonical_set(each(e.refs, field))

(* The order in which the references are stored: by length first. *)
canonical_object_refs(e) ==
    SetToSortSeq(ToSet(e.refs),
                 LAMBDA a, b : Len(a) < Len(b) \/ (Len(a) = Len(b) /\ Precedes(a, b)))

virtual_ok(e) ==
    /\ token(e.dataset) /\ token(e.version) /\ \A i \in 1 .. Len(e.refs) : token(e.refs[i])
    /\ Len(encoded_object_refs(e)) <= MAX_OBJECT_REFS

virtual_bytes(e) ==
    field(e.dataset) \o field(e.version) \o counted(encoded_object_refs(e))
    \o field(e.query) \o field(e.plan)

virtual_decode(e) ==
    /\ \A s \in {e.dataset, e.version, e.query, e.plan} \cup ToSet(e.refs) : read_field(s)
    /\ read_set(each(e.refs, field), MAX_OBJECT_REFS)
    /\ content_id(e.query) /\ content_id(e.plan)
    /\ virtual_ok(e)

(* As it stands on the wire, whatever the order of its references. *)
VirtualWire(e) == field(e.dataset) \o field(e.version) \o counted(each(e.refs, field))
                  \o field(e.query) \o field(e.plan)

summary_ok(e) ==
    /\ validate_token(e.severity, MAX_SEVERITY_BYTES) /\ token(e.code)
    /\ Len(e.message) <= MAX_VIOLATION_MESSAGE_BYTES /\ Control \notin ToSet(e.message)

summary_bytes(e) == field(e.severity) \o field(e.code) \o field(e.message)

summary_decode(e) == /\ \A s \in {e.severity, e.code, e.message} : read_field(s)
                     /\ summary_ok(e)

(* Tagged groups of fields. *)
encode_group(o) == IF o = {} THEN <<0>>
                   ELSE <<1>> \o FlattenSeq(each(CHOOSE g \in o : TRUE, field))

group_ok(o) == \A g \in o : \A i \in 1 .. Len(g) : token(g[i])

decode_group(o, n) == \A g \in o : Len(g) = n /\ \A i \in 1 .. n : read_field(g[i])

-----------------------------------------------------------------------------
(* The items a decoder reads. *)

Field(name, kind) == [name |-> name, read |-> "field", kind |-> kind, max |-> 0]
Opt(name, kind) == [name |-> name, read |-> "opt", kind |-> kind, max |-> 0]
Byte(name, max) == [name |-> name, read |-> "byte", kind |-> "byte", max |-> max]
Count(name) == [name |-> name, read |-> "count", kind |-> "byte", max |-> 0]
List(name) == [name |-> name, read |-> "list", kind |-> "id", max |-> 2]
Set(name, kind, max) == [name |-> name, read |-> "set", kind |-> kind, max |-> max]
Group(name, n) == [name |-> name, read |-> "group", kind |-> "token", max |-> n]

(* Header bytes, told apart by one byte above the others. *)
HeaderByte == [commit_v1 |-> 11, commit_v2 |-> 12, environment |-> 13, context |-> 14,
               record |-> 15]
-----------------------------------------------------------------------------
(* commit v1 *)

validate_shape(v) == /\ Len(v.parents) <= 2
                     /\ Len(v.parents) = 2 => v.parents[1] # v.parents[2]

commit_v1_bytes(v) ==
    <<HeaderByte.commit_v1>> \o counted(each(v.parents, field)) \o field(v.patch)
    \o field(v.author) \o field(v.message) \o field(v.event) \o field(v.recorded)

commit_v1_reads == <<List("parents"), Field("patch", "id"),
    Field("author", "text"), Field("message", "text"), Field("event", "text"),
    Field("recorded", "text")>>

-----------------------------------------------------------------------------
(* commit v2 *)

canonical_evidence_refs(v) == SetToSortSeq(ToSet(v.evidence), Precedes)

commit_v2_ok(v) ==
    /\ validate_shape(v)
    /\ token(v.activity) /\ \A i \in 1 .. Len(v.evidence) : token(v.evidence[i])
    /\ Len(canonical_evidence_refs(v)) <= MAX_EVIDENCE_REFS
    /\ \A s \in v.source : token(s)
    /\ Len(v.message) <= MAX_MESSAGE_BYTES

commit_v2_bytes(v) ==
    <<HeaderByte.commit_v2>> \o field(v.graph) \o counted(each(v.parents, field))
    \o field(v.patch) \o field(v.principal) \o <<v.type>> \o opt(v.behalf)
    \o field(v.activity) \o opt(v.event) \o field(v.recorded)
    \o counted(each(canonical_evidence_refs(v), field)) \o opt(v.source) \o field(v.message)

commit_v2_reads == <<Field("graph", "graph"), List("parents"),
    Field("patch", "id"), Field("principal", "token"), Byte("type", 2), Opt("behalf", "token"),
    Field("activity", "text"), Opt("event", "time"), Field("recorded", "time"),
    Set("evidence", "text", MAX_EVIDENCE_REFS), Opt("source", "text"), Field("message", "text")>>

-----------------------------------------------------------------------------
(* semantic environment and context *)

validate_semantics(v) ==
    /\ \A s \in v.sources : token(s)
    /\ token(v.kb) /\ token(v.revision) /\ group_ok(v.ontology)
    /\ token(v.shapes) /\ token(v.shapes_version) /\ group_ok(v.reasoning)

environment_ok(v) == validate_semantics(v) /\ token(v.service_version) /\ token(v.configuration)

semantics_bytes(v) ==
    field(v.kb) \o field(v.revision) \o encode_group(v.ontology) \o field(v.shapes)
    \o field(v.shapes_version) \o encode_group(v.reasoning) \o opt(v.sources)

environment_bytes(v) ==
    <<HeaderByte.environment>> \o semantics_bytes(v)
    \o field(v.service_version) \o field(v.configuration)

semantics_reads == <<Field("kb", "text"), Field("revision", "text"), Group("ontology", 2),
    Field("shapes", "text"), Field("shapes_version", "text"), Group("reasoning", 3),
    Opt("sources", "text")>>

environment_reads == semantics_reads
    \o <<Field("service_version", "text"), Field("configuration", "text")>>

(* The environment a context ran in: its projection. *)
environment(v) == [n \in {"kb", "revision", "ontology", "shapes", "shapes_version", "reasoning",
                          "sources", "service_version", "configuration"} |-> v[n]]

canonical_virtual_contexts(v) == canonical_set(each(v.virtuals, virtual_bytes))

validator_ok(v) == token(v.service) /\ token(v.service_version) /\ token(v.configuration)

context_ok(v) ==
    /\ validate_semantics(v)
    /\ \A i \in 1 .. Len(v.virtuals) : virtual_ok(v.virtuals[i])
    /\ v.virtuals # <<>> => v.sources # {}
    /\ Len(canonical_virtual_contexts(v)) <= MAX_VIRTUAL_CONTEXTS
    /\ validator_ok(v)

context_bytes(v) ==
    <<HeaderByte.context>> \o field(v.graph) \o field(v.candidate) \o field(v.state)
    \o semantics_bytes(v) \o counted(canonical_virtual_contexts(v))
    \o field(v.service) \o field(v.service_version) \o field(v.configuration)

validator_reads == <<Field("service", "text"), Field("service_version", "text"),
    Field("configuration", "text")>>

context_reads == <<Field("graph", "graph"), Field("candidate", "id"),
    Field("state", "id")>> \o semantics_reads
    \o <<Set("virtuals", "virtual", MAX_VIRTUAL_CONTEXTS)>> \o validator_reads

-----------------------------------------------------------------------------
(* validation record *)

canonical_violations(v) == canonical_set(each(v.violations, summary_bytes))

outcome_ok(v) ==
    /\ \A i \in 1 .. Len(v.violations) : summary_ok(v.violations[i])
    /\ v.kind = 1 => v.count > 0
    /\ Len(canonical_violations(v)) <= MAX_VIOLATION_SUMMARY
    /\ Len(canonical_violations(v)) <= v.count

record_ok(v) == validator_ok(v) /\ outcome_ok(v) /\ \A s \in v.reference : validate_token(s, MAX_REPORT_REFERENCE_BYTES)

record_bytes(v) ==
    <<HeaderByte.record>> \o field(v.graph) \o field(v.candidate) \o field(v.state)
    \o field(v.context) \o field(v.service) \o field(v.service_version)
    \o field(v.configuration) \o <<v.kind>> \o <<v.count>> \o counted(canonical_violations(v))
    \o field(v.recorded) \o field(v.report) \o opt(v.reference)

record_reads == <<Field("graph", "graph"), Field("candidate", "id"),
    Field("state", "id"), Field("context", "id")>> \o validator_reads
    \o <<Byte("kind", 1), Count("count"),
         Set("violations", "summary", MAX_VIOLATION_SUMMARY), Field("recorded", "time"),
         Field("report", "id"), Opt("reference", "text")>>
=============================================================================

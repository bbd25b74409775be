---------------------------- MODULE RequestIdentity ----------------------------
(***************************************************************************)
(* The identity of a request: CanonicalRequest (ledger-api's                *)
(* request_identity.rs), whose digest decides whether a second request      *)
(* under one idempotency key is a replay or a conflict, and                 *)
(* ValidationInvocation (ledger-validation-protocol), by which a validation *)
(* service knows two deliveries of one request for one.                     *)
(*                                                                         *)
(* Two requests arrive under one key, each plain but for two of its fields. *)
(***************************************************************************)
EXTENDS Framing

CONSTANTS
    Texts, IdTexts,   \* what a field may hold
    Operation         \* the operations of this run

VARIABLES stored,   \* the request that came first, and its bytes
          sent      \* the one that came second, and what became of it

vars == <<stored, sent>>

-----------------------------------------------------------------------------
(* The fields of each request. *)
Shape == [
    prepare |-> [graph |-> "text", branch |-> "text", expected |-> "optid", patch |-> "id",
                 activity |-> "text", event |-> "opt", evidence |-> "set", source |-> "opt",
                 message |-> "text"],
    accept |-> [graph |-> "text", branch |-> "text", expected |-> "optid", candidate |-> "id",
                reason |-> "opt", policy |-> "text"],
    reject |-> [graph |-> "text", branch |-> "text", candidate |-> "id", reason |-> "text"],
    accept_validated |-> [graph |-> "text", branch |-> "text", expected |-> "optid",
                          candidate |-> "id", reason |-> "opt", validation |-> "id",
                          environment |-> "id"],
    reject_validated |-> [graph |-> "text", branch |-> "text", candidate |-> "id",
                          reason |-> "text", validation |-> "id"],
    validate |-> [graph |-> "text", candidate |-> "id", base_kb |-> "pair", ontology |-> "pair",
                  shapes |-> "pair", profile |-> "opt", revision |-> "opt"],
    branch_create |-> [graph |-> "text", name |-> "text", source |-> "text",
                       from_commit |-> "optid", protected |-> "flag",
                       require_validation |-> "flag", require_reviewer |-> "flag"],
    branch_delete |-> [graph |-> "text", name |-> "text", reason |-> "opt"],
    branch_restore |-> [graph |-> "text", name |-> "text", reason |-> "opt"],
    merge_propose |-> [graph |-> "text", source |-> "text", target |-> "text",
                       strategy |-> "text", base |-> "optid", token |-> "text",
                       message |-> "opt", evidence |-> "set"],
    merge_apply |-> [graph |-> "text", proposal |-> "text", token |-> "text",
                     validation |-> "optid", environment |-> "optid", reason |-> "opt"],
    invocation |-> [tenant |-> "text", type |-> "flag", principal |-> "text",
                    behalf |-> "optid", graph |-> "text", key |-> "text", digest |-> "id"]]

NonEmpty == Texts \ {<<>>}

Values(kind) ==
    CASE kind = "text" -> Texts
      [] kind = "id" -> IdTexts
      [] kind = "opt" -> {{}} \cup {{s} : s \in Texts}
      [] kind = "optid" -> {{}} \cup {{s} : s \in IdTexts}
      [] kind = "pair" -> {{}} \cup {{<<a, b>>} : a \in NonEmpty, b \in NonEmpty}
      [] kind = "flag" -> {0, 1}
      [] kind = "set" -> UNION {[1 .. n -> NonEmpty] : n \in 0 .. 2}

PlainValue(kind) ==
    CASE kind = "text" -> <<1>>
      [] kind = "id" -> <<2, 1>>
      [] kind \in {"opt", "optid", "pair"} -> {}
      [] kind = "flag" -> 0
      [] kind = "set" -> <<>>

PlainRequest(o) == [n \in DOMAIN Shape[o] \cup {"op"} |->
    IF n = "op" THEN o ELSE PlainValue(Shape[o][n])]

(* The requests of an operation that differ from the plain one in two fields. *)
Requests(o) == UNION {
    {[PlainRequest(o) EXCEPT ![m] = x, ![n] = y] : x \in Values(Shape[o][m]), y \in Values(Shape[o][n])} :
    m \in DOMAIN Shape[o], n \in DOMAIN Shape[o]}

-----------------------------------------------------------------------------
(* Headers and operation names, as bytes above the others. *)
Header(o) ==
    CASE o \in {"prepare", "accept", "reject"} -> <<21>>
      [] o \in {"accept_validated", "reject_validated", "validate"} -> <<22>>
      [] o \in {"branch_create", "branch_delete", "branch_restore"} -> <<23>>
      [] o \in {"merge_propose", "merge_apply"} -> <<24>>
      [] o = "invocation" -> <<25>>

OperationName == [prepare |-> 31, accept |-> 32, reject |-> 33, accept_validated |-> 32,
    reject_validated |-> 33, validate |-> 34, branch_create |-> 35, branch_delete |-> 36,
    branch_restore |-> 37, merge_propose |-> 38, merge_apply |-> 39, invocation |-> 34]

Validated == <<40>>

(* An empty option is an absent one. *)
opt_or_empty(o) == opt(o \ {<<>>})

(* Mutant: the evidence as it came. *)
EvidenceAsGiven(evidence) == counted(each(evidence, field))

evidence_bytes(evidence) == counted(each(SetToSortSeq(ToSet(evidence), Precedes), field))

prepare_bytes(r) ==
    field(r.graph) \o field(r.branch) \o opt_or_empty(r.expected) \o field(r.patch)
    \o field(r.activity) \o opt_or_empty(r.event) \o evidence_bytes(r.evidence)
    \o opt_or_empty(r.source) \o field(r.message)

accept_bytes(r) == field(r.graph) \o field(r.branch) \o opt_or_empty(r.expected)
                   \o field(r.candidate) \o opt_or_empty(r.reason)

reject_bytes(r) == field(r.graph) \o field(r.branch) \o field(r.candidate) \o field(r.reason)

(* RequestedContext::encode_into *)
pair_bytes(o) == IF o = {} THEN <<0>>
                 ELSE LET p == CHOOSE q \in o : TRUE IN <<1>> \o field(p[1]) \o field(p[2])

hints_bytes(r) == pair_bytes(r.base_kb) \o pair_bytes(r.ontology) \o pair_bytes(r.shapes)
                  \o opt(r.profile) \o opt(r.revision)

branch_create_bytes(r) ==
    field(r.graph) \o field(r.name) \o field(r.source) \o opt_or_empty(r.from_commit)
    \o <<r.protected, r.require_validation, r.require_reviewer>>

lifecycle_bytes(r) == field(r.graph) \o field(r.name) \o opt_or_empty(r.reason)

merge_propose_bytes(r) ==
    field(r.graph) \o field(r.source) \o field(r.target) \o field(r.strategy)
    \o opt_or_empty(r.base) \o field(r.token) \o opt_or_empty(r.message)
    \o evidence_bytes(r.evidence)

merge_apply_bytes(r) ==
    field(r.graph) \o field(r.proposal) \o field(r.token) \o opt_or_empty(r.validation)
    \o opt_or_empty(r.environment) \o opt_or_empty(r.reason)

(* ValidationInvocation::canonical_bytes; its operation stands in the middle. *)
invocation_bytes(r) ==
    field(r.tenant) \o <<r.type>> \o field(r.principal) \o opt(r.behalf) \o field(r.graph)
    \o field(<<OperationName.invocation>>) \o field(r.key) \o field(r.digest)

canonical_bytes(r) ==
    Header(r.op)
    \o (IF r.op = "invocation" THEN <<>> ELSE field(<<OperationName[r.op]>>))
    \o CASE r.op = "prepare" -> prepare_bytes(r)
         [] r.op = "accept" -> accept_bytes(r) \o field(r.policy)
         [] r.op = "reject" -> reject_bytes(r)
         [] r.op = "accept_validated" -> accept_bytes(r) \o field(Validated)
                                         \o field(r.validation) \o field(r.environment)
         [] r.op = "reject_validated" -> reject_bytes(r) \o field(r.validation)
         [] r.op = "validate" -> field(r.graph) \o field(r.candidate) \o hints_bytes(r)
         [] r.op = "branch_create" -> branch_create_bytes(r)
         [] r.op \in {"branch_delete", "branch_restore"} -> lifecycle_bytes(r)
         [] r.op = "merge_propose" -> merge_propose_bytes(r)
         [] r.op = "merge_apply" -> merge_apply_bytes(r)
         [] r.op = "invocation" -> invocation_bytes(r)

(* The hints of a validation and the key of an invocation are validated     *)
(* before they are encoded.                                                 *)
Admissible(r) ==
    /\ r.op = "validate" => <<>> \notin r.profile \cup r.revision
    /\ r.op = "invocation" => r.key # <<>>

-----------------------------------------------------------------------------
Waiting == [request |-> {}, answer |-> "none"]

Init == /\ \E o \in Operation : \E r \in Requests(o) :
              Admissible(r) /\ stored = [request |-> r, bytes |-> canonical_bytes(r)]
        /\ sent = Waiting

(* The second request: a replay if its digest is the stored one.            *)
Send == /\ sent = Waiting
        /\ \E o \in Operation : \E r \in Requests(o) :
              /\ Admissible(r)
              /\ sent' = [request |-> {r},
                          answer |-> IF canonical_bytes(r) = stored.bytes
                                     THEN "replay" ELSE "conflict"]
        /\ UNCHANGED stored

Next == Send
Spec == Init /\ [][Next]_vars

-----------------------------------------------------------------------------
(* What a request asks for: an empty option asks for nothing, and evidence  *)
(* has no order.                                                            *)
Meaning(r) == [n \in DOMAIN r |->
    IF n # "op" /\ Shape[r.op][n] \in {"opt", "optid"} THEN r[n] \ {<<>>}
    ELSE IF n = "evidence" THEN ToSet(r[n])
    ELSE r[n]]

(* A second request under a key is answered with the first one's result     *)
(* exactly if it asks for the same, so neither the order of evidence nor an *)
(* empty option makes a conflict, and no two different requests, of one     *)
(* operation or of two, are taken for one (request_identity.rs: "any        *)
(* semantically different request does [change the digest]").               *)
ReplayIsTheSameRequest == \A r \in sent.request :
    sent.answer = "replay" <=> r.op = stored.request.op /\ Meaning(r) = Meaning(stored.request)
=============================================================================

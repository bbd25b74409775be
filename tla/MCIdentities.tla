------------------------------ MODULE MCIdentities ------------------------------
(***************************************************************************)
(* What bytes stand for: the canonical encodings and their decoders, the    *)
(* digests that identify a request, and the validator's answer on its way   *)
(* into a record.  They share no state, so one run checks them side by      *)
(* side: `subject' says which of them a behaviour is about, and the         *)
(* variables of the others rest.                                            *)
(***************************************************************************)
EXTENDS RequestIdentity, Envelopes, TLC

VARIABLES
    subject,
    mode, asked, envelope, focus, todo, value, input, given,               \* Codec
    pc, call, invoked, resolved, ready, tx, contexts, virtualRows, records,
    violationRows, results, active, clock, arrivals, told                  \* ValidatorCall

codecVars == <<mode, asked, envelope, focus, todo, value, input, given>>
validatorVars == <<pc, call, invoked, resolved, ready, tx, contexts, virtualRows, records,
                   violationRows, results, active, clock, arrivals, told>>

Rest == 0
CodecRests == /\ mode = Rest /\ asked = Rest /\ envelope = Rest /\ focus = Rest
              /\ todo = Rest /\ value = Rest /\ input = Rest /\ given = Rest
DigestsRest == stored = Rest /\ sent = Waiting
ValidatorRests == /\ pc = Rest /\ call = Rest /\ invoked = Rest /\ resolved = Rest
                  /\ ready = Rest /\ tx = Rest /\ contexts = Rest /\ virtualRows = Rest
                  /\ records = Rest /\ violationRows = Rest /\ results = Rest
                  /\ active = Rest /\ clock = Rest /\ arrivals = Rest /\ told = Rest

-----------------------------------------------------------------------------
(* Texts of every class, with lengths that look like tags and like lengths. *)
FewTexts == {<<>>, <<1>>, <<1, 2>>, <<NotUtf8>>}
ManyTexts == FewTexts \cup {<<2>>, <<Control>>, <<Space>>, <<1, 1, 1>>}
Digests == {<<2, 1>>, <<2, 2>>, <<2, Space>>, <<1, 1>>}
TimesRead == {<<l, o, f>> : l \in 0 .. 3, o \in 0 .. 1, f \in 0 .. 1} \cup {<<1, 0, 2>>, <<1>>}

Ref(dataset, refs, query) ==
    [dataset |-> dataset, version |-> <<1>>, refs |-> refs, query |-> query, plan |-> <<2, 1>>]
Refs == {Ref(<<1>>, refs, <<2, 1>>) :
            refs \in {<<>>, <<<<1>>>>, <<<<2>>, <<1, 2>>>>, <<<<1, 2>>, <<2>>>>, <<<<1>>, <<1>>>>,
                      <<<<1>>, <<2>>, <<1, 2>>>>, <<<<>>>>, <<<<2>>, <<1>>>>}}
        \cup {Ref(<<2>>, <<>>, <<2, 2>>), Ref(<<2>>, <<>>, <<1, 1>>), Ref(<<>>, <<>>, <<2, 1>>)}

Says(severity, code, message) == [severity |-> severity, code |-> code, message |-> message]
Listed == {Says(<<1>>, c, m) : c \in {<<1>>, <<1, 2>>}, m \in {<<>>, <<1>>, <<1, 2, 1>>, <<Control>>}}
          \cup {Says(<<2>>, <<1>>, <<2>>), Says(<<>>, <<1>>, <<>>), Says(<<1, 2>>, <<1>>, <<>>)}

CommitCodec == INSTANCE Codec WITH
    Texts <- ManyTexts, IdTexts <- Digests, TimeTexts <- TimesRead, VirtualRefs <- Refs,
    Summaries <- Listed, Asked <- {"commit"}, MaxFocus <- 2
RecordCodec == INSTANCE Codec WITH
    Texts <- FewTexts, IdTexts <- Digests, TimeTexts <- TimesRead, VirtualRefs <- Refs,
    Summaries <- Listed, Asked <- {"environment", "context", "record"}, MaxFocus <- 2

(* Two requests of any operations, with texts that look like lengths and    *)
(* like tags.                                                               *)
ByteTexts == {<<>>, <<1>>, <<1, 1>>}
ByteIds == {<<2, 1>>, <<2, 2>>}
Operations == {"prepare", "accept", "reject", "accept_validated", "reject_validated", "validate",
               "branch_create", "branch_delete", "branch_restore", "merge_propose", "merge_apply",
               "invocation"}

-----------------------------------------------------------------------------
(* Two replicas with the same validator, or one without; two keys, a hinted *)
(* and an unhinted request, and answers in two environments.                *)
NoHints == [base_kb |-> {}, ontology |-> {}, shapes |-> {}, profile |-> {}, sources |-> {}]
Pinned == [NoHints EXCEPT !.base_kb = {<<<<1>>, <<2>>>>}, !.sources = {<<1>>}]
Reasoned == [NoHints EXCEPT !.profile = {<<1>>}]
Asks(key, candidate, hints) == [key |-> key, candidate |-> candidate, hints |-> hints]
Candidates == {<<2, 1>>, <<2, 2>>, <<2, 3>>}
States == [c \in Candidates |-> <<2, 9>>]
Services(deliveries) == [d \in deliveries |-> IF d = "r3" THEN {} ELSE {<<1>>}]

Virtual(dataset) == [dataset |-> dataset, version |-> <<1>>, refs |-> <<<<2>>, <<1>>>>,
                     query |-> <<2, 1>>, plan |-> <<2, 1>>]
Plainly == [protocol |-> TRUE, candidate |-> <<2, 1>>, state |-> <<2, 9>>,
    kb |-> <<1>>, revision |-> <<1>>, ontology |-> {}, shapes |-> <<1>>, shapes_version |-> <<1>>,
    reasoning |-> {}, sources |-> {}, virtuals |-> <<>>, service_version |-> <<1>>,
    configuration |-> <<1>>, kind |-> 0, count |-> 0, violations |-> <<>>, report |-> <<2, 1>>,
    reference |-> {}]
(* The environment after a change, consulted in an order of its own. *)
Later == [Plainly EXCEPT !.revision = <<2>>, !.sources = {<<1>>},
    !.virtuals = <<Virtual(<<2>>), Virtual(<<1>>)>>, !.kind = 1, !.count = 2,
    !.violations = <<Says(<<2>>, <<1>>, <<>>), Says(<<1>>, <<1>>, <<>>)>>]
(* Every way an answer can be wrong. *)
OddAnswers == {Plainly, Later} \cup {
    [Plainly EXCEPT !.protocol = FALSE], [Plainly EXCEPT !.candidate = <<2, 2>>],
    [Plainly EXCEPT !.state = <<2, 1>>], [Plainly EXCEPT !.kb = <<>>],
    [Plainly EXCEPT !.reference = {<<>>}], [Plainly EXCEPT !.reference = {<<1>>}],
    [Plainly EXCEPT !.kind = 1], [Plainly EXCEPT !.count = 9],
    [Plainly EXCEPT !.reasoning = {<<<<1>>, <<1>>, <<1>>>>}],
    [Later EXCEPT !.sources = {}], [Later EXCEPT !.sources = {<<2>>}]}
Whole == [status |-> "success", json |-> TRUE, declared |-> {}, chunks |-> <<2, 1>>,
          broken |-> FALSE, shape |-> TRUE]
OddResponses == {Whole, [Whole EXCEPT !.declared = {3}], [Whole EXCEPT !.declared = {4}],
    [Whole EXCEPT !.chunks = <<2, 2>>], [Whole EXCEPT !.broken = TRUE],
    [Whole EXCEPT !.shape = FALSE], [Whole EXCEPT !.json = FALSE]}
    \cup {[Whole EXCEPT !.status = s] : s \in {"redirect", "server_error", "too_many", "refused"}}

Raced == INSTANCE ValidatorCall WITH
    sent <- invoked,
    Delivery <- {"r1", "r2"}, ServiceOf <- Services({"r1", "r2"}), StateOf <- States,
    Prepared <- {<<2, 1>>, <<2, 3>>}, Oversized <- {<<2, 3>>},
    Calls <- {Asks("k1", <<2, 1>>, NoHints), Asks("k1", <<2, 1>>, Pinned),
              Asks("k2", <<2, 1>>, NoHints)},
    Answers <- {Plainly, Later}, Responses <- {Whole},
    MaxBody <- 3, MaxStorable <- 5, MaxCalls <- 3, MaxTime <- 2
Answered == INSTANCE ValidatorCall WITH
    sent <- invoked,
    Delivery <- {"r1", "r3"}, ServiceOf <- Services({"r1", "r3"}), StateOf <- States,
    Prepared <- {<<2, 1>>, <<2, 3>>}, Oversized <- {<<2, 3>>},
    Calls <- {Asks("k1", c, h) : c \in Candidates, h \in {NoHints, Pinned, Reasoned}},
    Answers <- OddAnswers, Responses <- OddResponses,
    MaxBody <- 3, MaxStorable <- 5, MaxCalls <- 2, MaxTime <- 1

(* Summaries of up to three results: long, with control characters and with *)
(* characters of two bytes.                                                 *)
Results == {Says(<<1>>, <<1>>, m) : m \in {<<Control>>, <<Space>>, <<1, Raced!Lead, Raced!Trail>>, <<1, 2, 1>>}}
           \cup {Says(<<2>>, <<1>>, <<>>), Says(<<>>, <<1>>, <<>>), Says(<<1>>, <<>>, <<1>>)}
Summarizing == {[Plainly EXCEPT !.kind = k, !.count = n, !.violations = v] :
    k \in 0 .. 1, n \in 0 .. 3, v \in UNION {[1 .. l -> Results] : l \in 0 .. 3}}
Summed == INSTANCE ValidatorCall WITH
    sent <- invoked,
    Delivery <- {"r1"}, ServiceOf <- Services({"r1"}), StateOf <- States,
    Prepared <- {<<2, 1>>}, Oversized <- {},
    Calls <- {Asks("k1", <<2, 1>>, NoHints)}, Answers <- Summarizing, Responses <- {Whole},
    MaxBody <- 3, MaxStorable <- 5, MaxCalls <- 1, MaxTime <- 1

-----------------------------------------------------------------------------
MCInit ==
    \/ /\ \/ subject = "commit" /\ CommitCodec!Init
          \/ subject = "record" /\ RecordCodec!Init
       /\ DigestsRest /\ ValidatorRests
    \/ subject = "digests" /\ Init /\ CodecRests /\ ValidatorRests
    \/ /\ \/ subject = "raced" /\ Raced!Init
          \/ subject = "answered" /\ Answered!Init
          \/ subject = "summed" /\ Summed!Init
       /\ CodecRests /\ DigestsRest

(* Only the subject moves. *)
MCNext ==
    /\ UNCHANGED subject
    /\ \/ /\ \/ subject = "commit" /\ CommitCodec!Next
             \/ subject = "record" /\ RecordCodec!Next
          /\ UNCHANGED <<vars, validatorVars>>
       \/ subject = "digests" /\ Next /\ UNCHANGED <<codecVars, validatorVars>>
       \/ /\ \/ subject = "raced" /\ Raced!Next
             \/ subject = "answered" /\ Answered!Next
             \/ subject = "summed" /\ Summed!Next
          /\ UNCHANGED <<codecVars, vars>>

allVars == <<subject, codecVars, vars, validatorVars>>
MCSpec == MCInit /\ [][MCNext]_allVars

-----------------------------------------------------------------------------
(* Decoders accept exactly what the encoders write: a decoded commit,       *)
(* environment, context or record encodes to the bytes it was read from,    *)
(* what an encoder wrote decodes to the value, a context is never read      *)
(* without its environment, and the stored order of sets is canonical.      *)
EncodingsAreCanonical ==
    /\ subject = "commit" => CommitCodec!AcceptedIsCanonical /\ CommitCodec!RoundTrips
    /\ subject = "record" => /\ RecordCodec!AcceptedIsCanonical /\ RecordCodec!RoundTrips
                             /\ RecordCodec!ContextHasEnvironment
                             /\ RecordCodec!StoredOrderIsCanonical

(* Deliveries of one validation that race, repeat or crash are told of one  *)
(* record, which is the validator's answer to that invocation, honours the  *)
(* hints of the request and is stored whole (validate, record, replay).     *)
VerdictIsTheValidators ==
    /\ subject = "raced" => /\ Raced!OneAnswerPerKey /\ Raced!RecordedIsTheInvocations
                            /\ Raced!RecordHonoursRequest /\ Raced!RecordedIsWhole
    /\ subject = "answered" => /\ Answered!OneAnswerPerKey /\ Answered!RecordHonoursRequest
                               /\ Answered!RecordedIsWhole

(* with_bounded_summary: the order of the results reaches nothing, only a   *)
(* malformed result or count is refused, and messages are cut between       *)
(* characters.                                                              *)
SummaryIsDeterministic ==
    subject = "summed" =>
        Summed!SummaryHasNoOrder /\ Summed!OnlyMalformedIsRefused /\ Summed!CutsAreWhole
=============================================================================

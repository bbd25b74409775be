--------------------------------- MODULE Codec ---------------------------------
(***************************************************************************)
(* Encoders and decoders at work.  A decoder reads an input item by item,   *)
(* and the input is chosen as it is read, so that every sequence of bytes   *)
(* within the bounds is tried.  Or a value comes in as JSON, is validated   *)
(* and encoded, and what the encoder wrote is read back.                    *)
(*                                                                         *)
(* Every item takes every text there is, but no more than MaxFocus items of *)
(* one envelope at once; the others are plain.                              *)
(***************************************************************************)
EXTENDS Envelopes, TLC

CONSTANTS
    Texts,          \* texts that may stand in a field
    IdTexts,        \* and where a content id is expected
    TimeTexts,      \* and where a time is
    VirtualRefs,    \* virtual context references, as they may be read
    Summaries,      \* summarized violations, as they may be read
    Asked,          \* what is read: "commit", "environment", "context", "record"
    MaxFocus        \* bound: items that vary at once

VARIABLES
    mode,       \* "supply": JSON comes in; "read": bytes are read; or how it ended
    asked,      \* what the caller wants decoded
    envelope,   \* the envelope the header names
    focus,      \* the items that vary
    todo,       \* the items still to come
    value,      \* the value so far
    input,      \* the bytes read so far
    given       \* {}: any input; else the value an encoder wrote, and its bytes

vars == <<mode, asked, envelope, focus, todo, value, input, given>>

Reads == [commit_v1 |-> commit_v1_reads, commit_v2 |-> commit_v2_reads,
          environment |-> environment_reads, context |-> context_reads, record |-> record_reads]

Bytes(e, v) == CASE e = "commit_v1" -> commit_v1_bytes(v)
                 [] e = "commit_v2" -> commit_v2_bytes(v)
                 [] e = "environment" -> environment_bytes(v)
                 [] e = "context" -> context_bytes(v)
                 [] e = "record" -> record_bytes(v)

Valid(e, v) == CASE e = "commit_v1" -> validate_shape(v)
                 [] e = "commit_v2" -> commit_v2_ok(v)
                 [] e = "environment" -> environment_ok(v)
                 [] e = "context" -> context_ok(v)
                 [] e = "record" -> record_ok(v)

(* The envelopes a caller takes: AnyCommit has two. *)
Takes(a) == IF a = "commit" THEN {"commit_v1", "commit_v2"} ELSE {a}

-----------------------------------------------------------------------------
(* What may stand on the wire where an item is expected. *)

Kind(item) == CASE item.kind = "id" -> IdTexts
                [] item.kind = "time" -> TimeTexts
                [] item.kind = "virtual" -> VirtualRefs
                [] item.kind = "summary" -> Summaries
                [] OTHER -> Texts

ElementBytes(item, x) == CASE item.kind = "virtual" -> VirtualWire(x)
                           [] item.kind = "summary" -> summary_bytes(x)
                           [] OTHER -> field(x)

On(bytes, x) == [bytes |-> bytes, value |-> x]

Lists(item) == {On(counted(each(s, LAMBDA x : ElementBytes(item, x))), s) :
                   s \in UNION {[1 .. n -> Kind(item)] : n \in 0 .. item.max + 1}}

(* The tag 2 stands for every unknown one, and is read as nothing valid.    *)
Wire(item) ==
    CASE item.read = "field" -> {On(field(s), s) : s \in Kind(item)}
      [] item.read = "opt" -> {On(<<0>>, {}), On(<<2>>, {<<>>})}
                              \cup {On(<<1>> \o field(s), {s}) : s \in Kind(item)}
      [] item.read = "group" -> {On(<<0>>, {}), On(<<2>>, {<<>>})}
                              \cup {On(encode_group({g}), {g}) : g \in [1 .. item.max -> Texts]}
      [] item.read \in {"byte", "count"} -> {On(<<b>>, b) : b \in 0 .. 3}
      [] item.read \in {"list", "set"} -> Lists(item)

PlainText(item) == CASE item.kind = "id" -> <<2, 1>>
                     [] item.kind = "time" -> <<1, 0, 0>>
                     [] OTHER -> <<1>>

PlainWire(item) ==
    CASE item.read = "field" -> On(field(PlainText(item)), PlainText(item))
      [] item.read \in {"opt", "group"} -> On(<<0>>, {})
      [] item.read = "byte" -> On(<<0>>, 0)
      [] item.read = "count" -> On(<<2>>, 2)
      [] item.read \in {"list", "set"} -> On(<<0>>, <<>>)

-----------------------------------------------------------------------------
(* The checks made as an item is read. *)

Parsed(kind, s) == CASE kind = "graph" -> validate_graph_id(s)
                     [] kind = "id" -> content_id(s)
                     [] kind = "token" -> token(s)
                     [] kind = "time" -> parse_canonical(s)
                     [] OTHER -> TRUE

(* Mutant: a set may come in any order. *)
SetUnordered(item, x) == Len(x) <= item.max /\ \A i \in 1 .. Len(x) :
    CASE item.kind = "virtual" -> virtual_decode(x[i])
      [] item.kind = "summary" -> summary_decode(x[i])
      [] OTHER -> read_field(x[i])

ReadSet(item, x) ==
    CASE item.kind = "virtual" -> /\ \A i \in 1 .. Len(x) : virtual_decode(x[i])
                                  /\ read_set(each(x, virtual_bytes), item.max)
      [] item.kind = "summary" -> /\ \A i \in 1 .. Len(x) : summary_decode(x[i])
                                  /\ read_set(each(x, summary_bytes), item.max)
      [] OTHER -> /\ \A i \in 1 .. Len(x) : read_field(x[i])
                  /\ read_set(x, item.max)

ReadOk(item, x) ==
    CASE item.read = "field" -> read_field(x) /\ Parsed(item.kind, x)
      [] item.read = "opt" -> read_optional(x) /\ \A s \in x : Parsed(item.kind, s)
      [] item.read = "group" -> decode_group(x, item.max)
      [] item.read = "byte" -> x <= item.max
      [] item.read = "count" -> TRUE
      [] item.read = "list" -> Len(x) <= item.max /\ \A i \in 1 .. Len(x) : content_id(x[i])
      [] item.read = "set" -> ReadSet(item, x)

-----------------------------------------------------------------------------
(* What a field of the type holds after it came in as JSON: nothing where   *)
(* the type refuses it; a time normalized; lists and options as given.      *)
HeldText(kind, s) == IF ~read_field(s) THEN {}
                     ELSE IF kind = "time" THEN {canonical_time(t) : t \in parse_rfc3339(s)}
                     ELSE IF Parsed(kind, s) THEN {s} ELSE {}

HeldElement(item, x) ==
    CASE item.kind = "virtual" -> /\ content_id(x.query) /\ content_id(x.plan)
                                  /\ \A s \in {x.dataset, x.version} \cup ToSet(x.refs) : read_field(s)
      [] item.kind = "summary" -> \A s \in {x.severity, x.code, x.message} : read_field(s)
      [] OTHER -> read_field(x) /\ (item.kind = "id" => content_id(x))

Held(item, x) ==
    CASE item.read = "field" -> HeldText(item.kind, x)
      [] item.read = "opt" -> IF x = {} THEN {{}} ELSE {{h} : h \in UNION {HeldText(item.kind, s) : s \in x}}
      [] item.read = "group" -> IF decode_group(x, item.max) THEN {x} ELSE {}
      [] item.read = "byte" -> IF x <= item.max THEN {x} ELSE {}
      [] item.read = "count" -> {x}
      [] item.read \in {"list", "set"} ->
             IF \A i \in 1 .. Len(x) : HeldElement(item, x[i]) THEN {x} ELSE {}

-----------------------------------------------------------------------------
Empty == [n \in {} |-> 0]

Names(e) == {Reads[e][i].name : i \in 1 .. Len(Reads[e])}

Focus(e) == {f \in SUBSET Names(e) : Cardinality(f) <= MaxFocus}

Init ==
    /\ asked \in Asked
    /\ \/ /\ mode = "header"
          /\ envelope = "none" /\ focus = {} /\ todo = <<>>
       \/ /\ mode = "supply"
          /\ envelope \in Takes(asked) /\ focus \in Focus(envelope) /\ todo = Reads[envelope]
    /\ value = Empty /\ input = <<>> /\ given = {}

May(bytes) == \A g \in given : IsPrefix(input \o bytes, g.bytes)

(* strip_prefix, and AnyCommit's choice of an envelope by its header.       *)
ReadHeader ==
    /\ mode = "header"
    /\ \/ \E h \in DOMAIN HeaderByte :
             /\ May(<<HeaderByte[h]>>)
             /\ input' = <<HeaderByte[h]>>
             /\ IF h \in Takes(asked)
                THEN /\ mode' = "read" /\ envelope' = h /\ todo' = Reads[h]
                     /\ focus' \in IF given = {} THEN Focus(h) ELSE {focus}
                ELSE mode' = "rejected" /\ UNCHANGED <<envelope, focus, todo>>
       \/ /\ given = {} /\ mode' = "rejected"      \* no known header
          /\ UNCHANGED <<envelope, focus, todo, input>>
    /\ UNCHANGED <<asked, value, given>>

Tried(item) == IF item.name \in focus THEN Wire(item) ELSE {PlainWire(item)}

Read ==
    /\ mode = "read" /\ todo # <<>>
    /\ \E w \in Tried(Head(todo)) :
          /\ May(w.bytes)
          /\ input' = input \o w.bytes
          /\ IF ReadOk(Head(todo), w.value)
             THEN /\ value' = value @@ (Head(todo).name :> w.value)
                  /\ todo' = Tail(todo)
                  /\ UNCHANGED mode
             ELSE mode' = "rejected" /\ UNCHANGED <<value, todo>>
    /\ UNCHANGED <<asked, envelope, focus, given>>

(* The input ends inside an item, or goes on after the last. *)
Misfit ==
    /\ mode = "read"
    /\ \A g \in given : IF todo = <<>> THEN input # g.bytes ELSE input = g.bytes
    /\ mode' = "rejected"
    /\ UNCHANGED <<asked, envelope, focus, todo, value, input, given>>

(* The checks on the whole value. *)
Finish ==
    /\ mode = "read" /\ todo = <<>> /\ \A g \in given : input = g.bytes
    /\ mode' = IF Valid(envelope, value) THEN "accepted" ELSE "rejected"
    /\ UNCHANGED <<asked, envelope, focus, todo, value, input, given>>

(* Deserialize, field by field. *)
Supply ==
    /\ mode = "supply" /\ todo # <<>>
    /\ \E w \in Tried(Head(todo)) : \E x \in Held(Head(todo), w.value) :
          value' = value @@ (Head(todo).name :> x)
    /\ todo' = Tail(todo)
    /\ UNCHANGED <<mode, asked, envelope, focus, input, given>>

(* canonical_bytes: refuses what is not valid. *)
Encode ==
    /\ mode = "supply" /\ todo = <<>>
    /\ IF Valid(envelope, value)
       THEN /\ given' = {[value |-> value, bytes |-> Bytes(envelope, value)]}
            /\ mode' = "header" /\ value' = Empty
       ELSE mode' = "refused" /\ UNCHANGED <<given, value>>
    /\ UNCHANGED <<asked, envelope, focus, todo, input>>

Next == ReadHeader \/ Read \/ Misfit \/ Finish \/ Supply \/ Encode

Spec == Init /\ [][Next]_vars

-----------------------------------------------------------------------------
(* "Bytes that are not the canonical form of some logical [value] are       *)
(* rejected rather than reinterpreted": what a decoder accepts is what the  *)
(* encoder writes for the value it returns, to the last byte, whatever was  *)
(* read (from_canonical_bytes of every envelope).                           *)
AcceptedIsCanonical == mode = "accepted" =>
    Valid(envelope, value) /\ Bytes(envelope, value) = input

(* The meaning of a value: its sets without order, those inside too.        *)
Element(x) == IF "refs" \in DOMAIN x THEN [x EXCEPT !.refs = ToSet(x.refs)] ELSE x
Meaning(e, v) == [n \in DOMAIN v |->
    CASE n = "evidence" -> ToSet(v[n])
      [] n \in {"virtuals", "violations"} -> {Element(v[n][i]) : i \in 1 .. Len(v[n])}
      [] OTHER -> v[n]]

(* What an encoder writes, its decoder accepts, and returns the same value; *)
(* so two values share their bytes, and their content id, only if they mean *)
(* the same.                                                                *)
RoundTrips == \A g \in given :
    /\ mode # "rejected"
    /\ mode = "accepted" => Meaning(envelope, value) = Meaning(envelope, g.value)

(* environment_id never fails on a context that was recorded: what makes a  *)
(* context valid makes its environment valid.                               *)
ContextHasEnvironment == mode = "accepted" /\ envelope = "context" =>
    environment_ok(environment(value))

(* The order in which object references are stored beside a context         *)
(* (canonical_object_refs) is the order of its bytes.                       *)
StoredOrderIsCanonical == mode = "accepted" /\ envelope = "context" =>
    \A i \in 1 .. Len(value.virtuals) :
        each(canonical_object_refs(value.virtuals[i]), field)
            = encoded_object_refs(value.virtuals[i])
=============================================================================

-------------------------------- MODULE Framing --------------------------------
(***************************************************************************)
(* The byte layout all identities of the ledger share: length-prefixed     *)
(* fields, tagged options, counted lists and sorted sets (ledger-core's     *)
(* encode_field and read_field, ledger-validation-protocol's encoding.rs),  *)
(* and the texts that may fill them (identity.rs, temporal.rs).             *)
(*                                                                         *)
(* A byte is a small number, a text a sequence of bytes, an option a set of *)
(* at most one value.  A length or a count takes one byte here and four in  *)
(* the code.  Four classes of character are told apart: control, plain,     *)
(* printable but not allowed in identifiers, and not UTF-8.                 *)
(***************************************************************************)
EXTENDS Naturals, Sequences, FiniteSets, SequencesExt

CONSTANTS
    MAX_IDENTIFIER_BYTES, MAX_GRAPH_ID_BYTES, MAX_MESSAGE_BYTES,
    LastYear        \* the last representable time

Control == 0
Plain == {1, 2}
Space == 3
NotUtf8 == 9

-----------------------------------------------------------------------------
(* Writing. *)

field(s) == <<Len(s)>> \o s

(* The encoders' callers have refused a present option that is empty.       *)
opt(o) == IF o = {} THEN <<0>> ELSE <<1>> \o field(CHOOSE s \in o : TRUE)

counted(encoded) == <<Len(encoded)>> \o FlattenSeq(encoded)

each(s, Encode(_)) == [i \in 1 .. Len(s) |-> Encode(s[i])]

(* Bytewise order. *)
Precedes(a, b) == \E i \in 0 .. Len(a) :
    /\ i <= Len(b) /\ SubSeq(a, 1, i) = SubSeq(b, 1, i)
    /\ \/ i = Len(a) /\ i < Len(b)
       \/ i < Len(a) /\ i < Len(b) /\ a[i + 1] < b[i + 1]

canonical_set(encoded) == SetToSortSeq(ToSet(encoded), Precedes)

-----------------------------------------------------------------------------
(* Reading. *)

read_field(s) == NotUtf8 \notin ToSet(s)

(* A present option is not empty; the tag 2 stands for every other one.     *)
read_optional(o) == \A s \in o : read_field(s) /\ s # <<>>

Ascending(encoded) == \A i \in 1 .. Len(encoded) - 1 : Precedes(encoded[i], encoded[i + 1])

(* Cursor::set. *)
read_set(encoded, max) == Len(encoded) <= max /\ Ascending(encoded)

-----------------------------------------------------------------------------
(* Texts. *)

validate_token(s, max) == s # <<>> /\ Len(s) <= max /\ Control \notin ToSet(s)

validate_graph_id(s) == validate_token(s, MAX_GRAPH_ID_BYTES) /\ ToSet(s) \subseteq Plain

token(s) == validate_token(s, MAX_IDENTIFIER_BYTES)

(* ContentId::from_str: a prefix, here the byte 2, and lowercase digits.    *)
content_id(s) == Len(s) = 2 /\ s[1] = 2 /\ s[2] \in Plain

(* A time as it is written: local time, offset from UTC, and the part of a  *)
(* second, whose halves are below the microsecond.                          *)
try_from_offset_date_time(local, offset, part) ==
    IF local < offset + 1 \/ local - offset > LastYear THEN {}
    ELSE {[utc |-> local - offset, micros |-> part \div 2]}

parse_rfc3339(s) == IF Len(s) # 3 THEN {} ELSE try_from_offset_date_time(s[1], s[2], s[3])

canonical_time(t) == <<t.utc, 0, 2 * t.micros>>

parse_canonical(s) == \E t \in parse_rfc3339(s) : canonical_time(t) = s
=============================================================================

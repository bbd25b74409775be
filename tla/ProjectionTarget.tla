---------------------------- MODULE ProjectionTarget ----------------------------
(***************************************************************************)
(* The projection protocol of ADR-0020 as seen from the target: the marker *)
(* kept beside a cognitive graph, the decision table a projector applies   *)
(* to what it observes (crates/ledger-projection), and the compare-and-    *)
(* swap updates it sends (crates/ledger-projection-fuseki).                *)
(*                                                                         *)
(* One cognitive graph of one target.  The accepted state of stream `s' at *)
(* ref version `v' is the pair <<s, v>>, and so is the commit that carries *)
(* it: a ref never returns to an earlier commit.                           *)
(***************************************************************************)
EXTENDS Integers

CONSTANTS Stream,    \* the ledger graphs that may feed this cognitive graph
          NoStream   \* not a stream

EmptyGraph   == <<NoStream, 0>>
OtherContent == <<NoStream, 1>>     \* triples that are no accepted state
OtherCommit  == <<NoStream, 1>>     \* a commit of another ledger
NoWriteId    == <<NoStream, 0>>

AcceptedState(s, v) == <<s, v>>
CommitAt(s, v)      == <<s, v>>

(* The terms of the marker subject.  `count' stands for lp:tripleCount: it *)
(* is the content that was counted, so two contents have the same count    *)
(* only if they are equal.                                                 *)
NoMarker == [shape |-> "none", stream |-> NoStream, version |-> 0,
             commit |-> <<NoStream, 0>>, writeId |-> NoWriteId, count |-> EmptyGraph]

MarkerOf(s, v, id) ==
    [shape |-> "present", stream |-> s, version |-> v, commit |-> CommitAt(s, v),
     writeId |-> id, count |-> AcceptedState(s, v)]

(* ProjectionMarker::from_terms: a subject that holds nothing, or nothing  *)
(* but the write id of a fence, reads as no marker.                        *)
MarkerRead(m) == IF m.shape \in {"none", "fence"} THEN "absent" ELSE m.shape

-----------------------------------------------------------------------------
(* plan: the decision table.  A view is what the ledger says of the stream: *)
(* the version to project, the head, and the version recorded as projected  *)
(* (0 for none).                                                            *)

RecoveryRequiredOnConflict(view, m) ==      \* mutant: a marker ahead is a mismatch
    MarkerRead(m) = "present" /\ m.stream # view.stream

RecoveryRequired(view, m) ==
    \/ MarkerRead(m) = "malformed" /\ m.version > view.head
    \/ MarkerRead(m) = "present" /\ (m.stream # view.stream \/ m.version > view.head)

RebuildReason(view, t) ==
    \/ MarkerRead(t.marker) = "absent" /\ (t.graph # EmptyGraph \/ view.recorded # 0)
    \/ MarkerRead(t.marker) = "malformed"
    \/ /\ MarkerRead(t.marker) = "present"
       /\ \/ t.marker.commit # CommitAt(t.marker.stream, t.marker.version)
          \/ t.marker.count # t.graph

FirstOrBehind(view, m) == MarkerRead(m) = "absent" \/ m.version < view.version

Plan(view, t) ==
    IF RecoveryRequired(view, t.marker) THEN "recover"
    ELSE IF RebuildReason(view, t) THEN "replace"
    ELSE IF FirstOrBehind(view, t.marker) THEN "conditional"
    ELSE "acknowledge"

(* An operator rebuild replaces whatever it observes, unless that is a     *)
(* later accepted state of its own stream.                                 *)
RebuildIsStale(view, m) ==
    /\ MarkerRead(m) = "present"
    /\ m.stream = view.stream
    /\ m.version > view.version
    /\ m.commit = CommitAt(m.stream, m.version)

-----------------------------------------------------------------------------
(* The updates.  Each is one transaction of the target that does nothing   *)
(* unless the marker is exactly the one observed.                          *)

PreconditionOnVersion(r, t) ==      \* mutant: only the version guards a write
    r.mode = "conditional" => t.marker.version < r.version

Precondition(r, t) ==
    /\ t.marker = r.expected
    /\ r.mode = "conditional" => t.marker.version < r.version

WriteUpdate(r) == [marker |-> MarkerOf(r.stream, r.version, r.writeId),
                   graph  |-> AcceptedState(r.stream, r.version)]

FenceUpdate(r, t) ==
    [t EXCEPT !.marker.writeId = r.writeId,
              !.marker.shape   = IF @ = "none" THEN "fence" ELSE @]

Update(r, t) == IF ~Precondition(r, t) THEN t
                ELSE IF r.mode = "fence" THEN FenceUpdate(r, t) ELSE WriteUpdate(r)

(* The read-back after a write: the marker written, over the content it    *)
(* counted.                                                                *)
ReadsBack(r, t) == t.marker = MarkerOf(r.stream, r.version, r.writeId)
                   /\ t.marker.count = t.graph

Newer(r, m) == MarkerRead(m) = "present" /\ m.stream = r.stream /\ m.version > r.version
=============================================================================

------------------------------- MODULE ServedGraph -------------------------------
(***************************************************************************)
(* What a reader of a cognitive graph is promised (ADR-0020): the graph    *)
(* shows accepted states of the stream that owns it, never an older one    *)
(* after a newer one, and a stream that gave the graph up writes nothing   *)
(* more.                                                                   *)
(***************************************************************************)
EXTENDS Integers

CONSTANTS Stream, NoStream

VARIABLES head,      \* head[s]: the latest accepted version of stream s
          owner,     \* the stream the operator feeds the graph from
          served     \* the stream and version the graph shows

Init == /\ head = [s \in Stream |-> 0]
        /\ owner = NoStream
        /\ served = <<NoStream, 0>>

Accept(s) == /\ head' = [head EXCEPT ![s] = @ + 1]
             /\ UNCHANGED <<owner, served>>

(* Ownership passes from one stream to another only through none. *)
ChangeOwner(s) == /\ owner = NoStream \/ s = NoStream
                  /\ owner' = s
                  /\ UNCHANGED <<head, served>>

Serve(v) == /\ owner # NoStream
            /\ v \in 1..head[owner]
            /\ served[1] = owner => v > served[2]
            /\ served' = <<owner, v>>
            /\ UNCHANGED <<head, owner>>

Next == \/ \E s \in Stream : Accept(s)
        \/ \E s \in Stream \cup {NoStream} : ChangeOwner(s)
        \/ owner # NoStream /\ \E v \in 1..head[owner] : Serve(v)

Spec == Init /\ [][Next]_<<head, owner, served>>
=============================================================================

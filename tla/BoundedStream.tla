--------------------------- MODULE BoundedStream ---------------------------
(***************************************************************************)
(* What the flow control of a channel promises to both applications: one   *)
(* direction of a channel is a stream of bytes of which at most Capacity   *)
(* are produced and not yet consumed (RFC 4254 section 5.2).               *)
(***************************************************************************)
EXTENDS Integers

CONSTANT Capacity

VARIABLES
    produced,   \* bytes the sending application has handed over
    consumed    \* bytes the receiving application has taken, or discarded

Init == produced = 0 /\ consumed = 0

Produce(n) ==
    /\ produced + n - consumed <= Capacity
    /\ produced' = produced + n
    /\ UNCHANGED consumed

Consume(n) ==
    /\ consumed + n <= produced
    /\ consumed' = consumed + n
    /\ UNCHANGED produced

Next == \E n \in 0..Capacity : Produce(n) \/ Consume(n)

Spec == Init /\ [][Next]_<<produced, consumed>>
============================================================================

---------------------------- MODULE BoundedFifo ----------------------------
(***************************************************************************)
(* What pipeline::SpscQueue promises its two threads: a FIFO of at most    *)
(* Bound elements in which every element pushed is delivered exactly once, *)
(* in order.  A push of a full queue or a pop of an empty one returns      *)
(* false and changes nothing, which is a stuttering step here.             *)
(***************************************************************************)
EXTENDS Integers, Sequences

CONSTANTS Value, Bound

VARIABLES queue,      \* pushed and not yet popped
          delivered   \* everything pop has returned so far

vars == <<queue, delivered>>

Init == queue = << >> /\ delivered = << >>

Enqueue(v) == /\ Len(queue) < Bound
              /\ queue' = Append(queue, v)
              /\ UNCHANGED delivered

Dequeue == /\ queue # << >>
           /\ delivered' = Append(delivered, Head(queue))
           /\ queue' = Tail(queue)

Next == (\E v \in Value : Enqueue(v)) \/ Dequeue

Spec == Init /\ [][Next]_vars

=============================================================================

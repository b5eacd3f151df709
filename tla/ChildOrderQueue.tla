-------------------------- MODULE ChildOrderQueue --------------------------
(***************************************************************************)
(* exec::ChildOrderQueue (include/exec/types.hpp): the queue of fixed      *)
(* capacity between a strategy, the risk gate and their caller.            *)
(***************************************************************************)
EXTENDS Integers, Sequences

CONSTANT kMaxChildOrders

ASSUME QueueAssumption == kMaxChildOrders \in Nat \ {0}

\* ChildOrderQueue::push takes one more; full() is its negation.
has_room(q) == Len(q) < kMaxChildOrders

=============================================================================

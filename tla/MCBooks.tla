---- MODULE MCBooks ----
(* One OrderBook and one LadderBook under any calls.  They share no state: *)
(* a behaviour exercises one of them and leaves the other as it was built. *)
(*                                                                         *)
(* OrderBook: three references, two prices and sizes 0..2: two orders can  *)
(* share a level while a third rests elsewhere, and every size class       *)
(* occurs (zero, partial, exact, larger than the order).                   *)
(*                                                                         *)
(* LadderBook: ticks of 2, a window of a quarter, 16-value prices.  Built  *)
(* around 6 the ladder covers 4..7.  0 and 2 lie below it; 9 lies above it *)
(* and off the grid; 14 grows it to the top of the price type, where       *)
(* window_high saturates.  From 2 to 15 takes 7 slots, the ceiling; from 0 *)
(* to 15 one more.                                                         *)
EXTENDS OrderBook, LadderBook, TLC

MCPrice  == {1, 2}
MCShares == 0 .. 2

MCLadderPrice  == {0, 2, 6, 9, 14}
MCLadderShares == {1, 2}

\* A base price whose window fits under the ceiling.
SaneBase == {6}

Symmetry == Permutations(Ref)

VARIABLE part   \* the book the behaviour exercises

BooksInit == Init /\ LadderInit /\ part \in {"OrderBook", "LadderBook"}

BooksNext ==
  /\ \/ part = "OrderBook" /\ Next /\ UNCHANGED <<lad, lret>>
     \/ part = "LadderBook" /\ LadderNext /\ UNCHANGED vars
  /\ UNCHANGED part

BooksSpec == BooksInit /\ [][BooksNext]_<<vars, lad, lret, part>>

========================

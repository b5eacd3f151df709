------------------------------ MODULE RiskGate -----------------------------
(***************************************************************************)
(* exec::RiskGate and exec::apply (include/exec/risk_gate.hpp): batches of *)
(* child orders are gated into an accepted queue of fixed capacity, which  *)
(* the caller empties as it sends them on.                                 *)
(*                                                                         *)
(* The accumulators are 64 and 128 bits wide and an order's notional fits  *)
(* in 64, so the sums below are exact.  Side and timestamp decide nothing. *)
(***************************************************************************)
EXTENDS ChildOrderQueue

CONSTANTS Limits,           \* RiskLimits a gate may be built with
          Orders,           \* child orders: [market, price, shares]
          RefPrices,        \* reference prices; 0: not set
          Batches           \* the queues of children apply is called with

ASSUME GateAssumption ==
  /\ RefPrices \subseteq Nat
  /\ \A b \in Batches : b \in Seq(Orders)
  /\ \A o \in Orders : o.price \in Nat /\ o.shares \in Nat /\ o.market \in BOOLEAN
  /\ \A l \in Limits : l.max_cumulative_shares \in Nat /\ l.max_cumulative_notional \in Nat

VARIABLES limits, reference_price,
          gate,       \* tripped_, cumulative_shares_, cumulative_notional_
          in,         \* the children apply has still to look at
          accepted,   \* the queue apply pushes into
          passed,     \* history: totals of what entered accepted since reset()
          breach      \* history: passed at the first breach since reset()

vars == <<limits, reference_price, gate, in, accepted, passed, breach>>

NewGate == [tripped |-> FALSE, shares |-> 0, notional |-> 0]
NoTotals == [shares |-> 0, notional |-> 0]

Init ==
  /\ limits \in Limits /\ reference_price \in RefPrices
  /\ gate = NewGate /\ in = << >> /\ accepted = << >> /\ passed = NoTotals /\ breach = << >>

notional(o) == o.price * o.shares

\* |price - reference| against the collar, for a limit order.
OutOfCollar(o) ==
  /\ ~o.market /\ reference_price # 0
  /\ LET diff == IF o.price >= reference_price THEN o.price - reference_price
                 ELSE reference_price - o.price
     IN  diff > (reference_price * limits.price_collar_bps) \div 10000

\* Mutant: the totals as they stand, not as they would become.
over_late(total, more, limit) == total > limit

\* A running total compared as it would become.
over(total, more, limit) == total + more > limit

\* check(): the first violated limit.
reason(g, o) ==
  IF g.tripped THEN "KillSwitchTripped"
  ELSE IF o.shares > limits.max_order_shares THEN "OrderTooLarge"
  ELSE IF notional(o) > limits.max_order_notional THEN "NotionalTooLarge"
  ELSE IF OutOfCollar(o) THEN "PriceOutOfCollar"
  ELSE IF over(g.shares, o.shares, limits.max_cumulative_shares)
       THEN "CumulativeSharesExceeded"
  ELSE IF over(g.notional, notional(o), limits.max_cumulative_notional)
       THEN "CumulativeNotionalExceeded"
  ELSE "None"

Cumulative == {"CumulativeSharesExceeded", "CumulativeNotionalExceeded"}

\* Mutant: only the order is refused.
check_no_latch(g, o) == g

\* check() also latches the kill switch on a cumulative breach.
check(g, o) == [g EXCEPT !.tripped = @ \/ reason(g, o) \in Cumulative]

record(g, o) == [g EXCEPT !.shares = @ + o.shares, !.notional = @ + notional(o)]

Plus(t, o) == [shares |-> t.shares + o.shares, notional |-> t.notional + notional(o)]

\* The first breach seen by a check.
Noted(g, o, t, b) == IF b = << >> /\ reason(g, o) \in Cumulative THEN <<t>> ELSE b

\* Mutant: recorded as soon as it passes, whether or not it is pushed.
recorded_early(ok, pushed) == ok

\* apply records an order that passed and that accepted.push() took.
recorded(ok, pushed) == ok /\ pushed

\* apply(gate, in, accepted) is called on a batch.
Apply ==
  /\ in = << >>
  /\ in' \in Batches
  /\ UNCHANGED <<limits, reference_price, gate, accepted, passed, breach>>

\* The body of apply's loop; no other call comes in between.
GateOne ==
  LET o      == Head(in)
      g      == check(gate, o)
      ok     == reason(gate, o) = "None"
      pushed == ok /\ has_room(accepted)
  IN  /\ in # << >> /\ in' = Tail(in)
      /\ gate' = IF recorded(ok, pushed) THEN record(g, o) ELSE g
      /\ accepted' = IF pushed THEN Append(accepted, o) ELSE accepted
      /\ passed' = IF pushed THEN Plus(passed, o) ELSE passed
      /\ breach' = Noted(gate, o, passed, breach)
      /\ UNCHANGED <<limits, reference_price>>

\* check() on its own: "would this pass?".
WhatIf ==
  /\ in = << >>
  /\ \E o \in Orders : gate' = check(gate, o) /\ breach' = Noted(gate, o, passed, breach)
  /\ UNCHANGED <<limits, reference_price, in, accepted, passed>>

\* reset(): a fresh accounting window.
Reset ==
  /\ in = << >>
  /\ gate' = NewGate /\ passed' = NoTotals /\ breach' = << >>
  /\ UNCHANGED <<limits, reference_price, in, accepted>>

SetReferencePrice ==
  /\ in = << >>
  /\ reference_price' \in RefPrices
  /\ UNCHANGED <<limits, gate, in, accepted, passed, breach>>

\* The caller sends the accepted orders on: ChildOrderQueue::clear.
Drain ==
  /\ in = << >> /\ accepted # << >> /\ accepted' = << >>
  /\ UNCHANGED <<limits, reference_price, gate, in, passed, breach>>

Next == Apply \/ GateOne \/ WhatIf \/ Reset \/ SetReferencePrice \/ Drain

Spec == Init /\ [][Next]_vars

-----------------------------------------------------------------------------

\* The gate and the queue within its capacity.
TypeOK ==
  /\ limits \in Limits /\ reference_price \in RefPrices
  /\ gate \in [tripped : BOOLEAN, shares : Nat, notional : Nat]
  /\ in \in Seq(Orders) /\ accepted \in Seq(Orders) /\ Len(accepted) <= kMaxChildOrders
  /\ passed \in [shares : Nat, notional : Nat] /\ Len(breach) <= 1

\* "Every limit here is a hard ceiling": between two resets the orders that
\* got through stay within the cumulative limits, whatever the batches, the
\* what-if checks, the moves of the reference price and the drains.
LimitsHold ==
  /\ passed.shares <= limits.max_cumulative_shares
  /\ passed.notional <= limits.max_cumulative_notional

\* "record() ... only ever meant to be called once ... the order has actually
\* gone out": the running totals are those of the orders in accepted, also
\* when the accepted queue was full and after a reset.
TotalsAreOfTheSent == gate.shares = passed.shares /\ gate.notional = passed.notional

\* "rejects every subsequent check() ... regardless of that later order's own
\* size or price": from the first cumulative breach on, even within the batch
\* that holds it, nothing gets through until reset().
NothingAfterBreach == breach # << >> => passed = breach[1]

=============================================================================

--------------------------- MODULE FillSimulator ---------------------------
(***************************************************************************)
(* exec::FillSimulator (include/exec/fill_sim.hpp): child orders are       *)
(* evaluated one by one against the latest quote and the latest print the  *)
(* caller has fed it; what is marketable fills at once and in full.        *)
(*                                                                         *)
(* shares_attempted_ and shares_filled_ are 32-bit: they count modulo      *)
(* ShareMod.  Timestamps and the display ratios are left out.              *)
(***************************************************************************)
EXTENDS Integers, SequencesExt, FiniteSetsExt

CONSTANTS Orders,        \* child orders: [side, market, price, shares]
          Quotes,        \* [bid, ask]; price 0: no quote on that side
          Trades,        \* prices of prints
          kMaxFills,
          ShareMod,      \* 2^32 in the code
          MaxAttempts    \* bound: orders evaluated

VARIABLES bbo, last_trade_price, fills, shares_filled, shares_attempted, notional_,
          attempts       \* history: the orders evaluated and whether each filled

vars == <<bbo, last_trade_price, fills, shares_filled, shares_attempted, notional_, attempts>>

Init ==
  /\ bbo = [bid |-> 0, ask |-> 0] /\ last_trade_price = 0
  /\ fills = << >> /\ attempts = << >>
  /\ shares_filled = 0 /\ shares_attempted = 0 /\ notional_ = 0

OnBboChange ==
  /\ bbo' \in Quotes
  /\ UNCHANGED <<last_trade_price, fills, shares_filled, shares_attempted, notional_, attempts>>

OnTradeTick ==
  /\ last_trade_price' \in Trades
  /\ UNCHANGED <<bbo, fills, shares_filled, shares_attempted, notional_, attempts>>

\* Mutant: a sell at or above the bid counts as marketable.
fill_price_sell_up(o) ==
  CASE o.market -> last_trade_price
    [] ~o.market /\ o.side = "Buy"  -> IF o.price >= bbo.ask THEN bbo.ask ELSE 0
    [] ~o.market /\ o.side = "Sell" -> IF o.price >= bbo.bid THEN bbo.bid ELSE 0

\* The price the order fills at; 0: not marketable.
fill_price(o) ==
  CASE o.market -> last_trade_price
    [] ~o.market /\ o.side = "Buy"  -> IF o.price >= bbo.ask THEN bbo.ask ELSE 0
    [] ~o.market /\ o.side = "Sell" -> IF o.price <= bbo.bid THEN bbo.bid ELSE 0

\* FillQueue::push takes one more.
has_room == Len(fills) < kMaxFills

\* Mutant: the totals move although the fill queue is full.
counts_always(marketable, pushed) == marketable

counts(marketable, pushed) == pushed

\* fill(): the attempt always counts, the fill only if fills_.push() took it.
Fill(o) ==
  LET p      == fill_price(o)
      pushed == p # 0 /\ has_room
      n      == IF counts(p # 0, pushed) THEN o.shares ELSE 0
  IN  /\ Len(attempts) < MaxAttempts
      /\ shares_attempted' = (shares_attempted + o.shares) % ShareMod
      /\ fills' = IF pushed THEN Append(fills, [side |-> o.side, price |-> p, shares |-> o.shares])
                  ELSE fills
      /\ shares_filled' = (shares_filled + n) % ShareMod
      /\ notional_' = notional_ + p * n
      /\ attempts' = Append(attempts, [order |-> o, filled |-> pushed])
      /\ UNCHANGED <<bbo, last_trade_price>>

Next == OnBboChange \/ OnTradeTick \/ \E o \in Orders : Fill(o)

Spec == Init /\ [][Next]_vars

-----------------------------------------------------------------------------

\* The orders that filled, in the order they were evaluated.
TakeFilled(os, a) == IF a.filled THEN Append(os, a.order) ELSE os
FilledOrders == FoldLeft(TakeFilled, << >>, attempts)

\* "Buy >= best_ask fills at best_ask, Sell <= best_bid fills at best_bid": the
\* fills are those of the filled orders, in order and in full, and no limit
\* order is filled at a price worse than its limit or at no price.
FillsRespectLimits ==
  /\ Len(fills) = Len(FilledOrders)
  /\ \A i \in 1 .. Len(fills) :
       LET o == FilledOrders[i]
           f == fills[i]
       IN  /\ f.side = o.side /\ f.shares = o.shares /\ f.price > 0
           /\ ~o.market => IF o.side = "Buy" THEN f.price <= o.price ELSE f.price >= o.price

\* fill_rate and vwap_price are ratios of totals that belong together: the
\* totals are those of the fills kept and of the orders evaluated, also once
\* the fill queue is full.
TotalsMatchFills ==
  /\ shares_filled = SumFunction([i \in DOMAIN fills |-> fills[i].shares]) % ShareMod
  /\ notional_ = SumFunction([i \in DOMAIN fills |-> fills[i].price * fills[i].shares])
  /\ shares_attempted = SumFunction([i \in DOMAIN attempts |-> attempts[i].order.shares]) % ShareMod

=============================================================================

---- MODULE MCExecution ----
(* The strategies and the gated chain, which share no state: a behaviour   *)
(* exercises one of them and leaves the other as it was built.             *)
(*                                                                         *)
(* Strategies: a queue of two children; schedules of up to four bins (five *)
(* are refused) that do and do not divide the window and the shares; a     *)
(* curve window shorter and longer than its thirteen buckets;              *)
(* participation above and below 100%.                                     *)
(*                                                                         *)
(* Chain: small, fitting, too large and off-collar orders on both sides,   *)
(* against gates bounded by shares and by notional; batches of up to two   *)
(* into an accepted queue of two; one fill fits; share counters that wrap  *)
(* at 7.                                                                   *)
EXTENDS Strategies, ExecChain

Twaps == {[kind |-> "twap", total |-> q, start |-> s, end |-> e, bin_ns |-> b] :
            q \in {0, 2, 7}, s \in {0, 3}, e \in {3, 8}, b \in {0, 1, 2, 3}}
Vwaps == {[kind |-> "vwap", total |-> q, start |-> s, end |-> e] :
            q \in {1, 7}, s \in {0, 3}, e \in {3, 8, 20}}
Povs  == {[kind |-> "pov", total |-> q, bps |-> b, end |-> e] :
            q \in {0, 5}, b \in {0, 5000, 20000}, e \in {0, 8}}
\* The uniform trajectory in three and in four bins; two shares in four bins
\* are rounded to three.
Almgrens == {[kind |-> "almgren_chriss", total |-> q, start |-> 0, end |-> 8, bin_ns |-> b] :
               q \in {0, 2, 5, 7}, b \in {2, 3}}

AllParents == Twaps \cup Almgrens \cup Vwaps \cup Povs

Limit(s, p, q) == [side |-> s, market |-> FALSE, price |-> p, shares |-> q]
Fits    == Limit("Buy", 10, 3)
Sells   == Limit("Sell", 9, 5)
Far     == Limit("Buy", 14, 1)
Large   == Limit("Buy", 10, 6)
Crosses == [side |-> "Sell", market |-> TRUE, price |-> 0, shares |-> 2]

SomeOrders  == {Fits, Sells, Far, Large, Crosses}
SomeBatches == {<<Fits, Crosses>>, <<Sells, Fits>>, <<Far, Large>>, <<Crosses>>}

SomeLimits ==
  {[max_order_shares |-> 5, max_order_notional |-> 45, price_collar_bps |-> 1000,
    max_cumulative_shares |-> s, max_cumulative_notional |-> c] : s \in {8}, c \in {40, 100}}

SomeQuotes == {[bid |-> 9, ask |-> 0], [bid |-> 8, ask |-> 10]}

VARIABLE part   \* what the behaviour exercises

chainvars == <<vars, simvars, walked>>

ExecutionInit ==
  /\ StrategyInit /\ ChainInit
  /\ \/ part = "strategies" /\ limits = (CHOOSE l \in Limits : TRUE) /\ reference_price = 0
     \/ part = "chain" /\ par = CHOOSE p \in Povs : Constructible(p)

ExecutionNext ==
  /\ \/ part = "strategies" /\ StrategyNext /\ UNCHANGED chainvars
     \/ part = "chain" /\ ChainNext /\ UNCHANGED stvars
  /\ UNCHANGED part

ExecutionSpec == ExecutionInit /\ [][ExecutionNext]_<<stvars, chainvars, part>>

============================

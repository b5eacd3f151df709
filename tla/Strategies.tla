----------------------------- MODULE Strategies ----------------------------
(***************************************************************************)
(* The execution strategies of include/exec: Twap, Vwap (with its          *)
(* VolumeCurve), Pov and AlmgrenChriss, each pushing child orders into a   *)
(* ChildOrderQueue of fixed capacity that the caller drains when it likes. *)
(* Of AlmgrenChriss's trajectories only the uniform one is here, which it  *)
(* takes when risk_aversion or volatility is 0; the others are sinh curves *)
(* in floating point.                                                      *)
(*                                                                         *)
(* Side, type and limit price are copied from the parent to every child    *)
(* and decide nothing here; Vwap's market_shares_seen_ is never read by    *)
(* the strategy.  All four are left out.                                   *)
(***************************************************************************)
EXTENDS ChildOrderQueue, FiniteSetsExt, Functions

CONSTANTS kMaxScheduleBins,
          Parents,     \* parent orders: records with a field kind
          Time,        \* timestamps of ticks and advances
          Prints       \* sizes of trades on the tape

ASSUME StrategyAssumption ==
  /\ kMaxScheduleBins \in Nat \ {0}
  /\ Time \subseteq Nat /\ Prints \subseteq Nat
  /\ \A p \in Parents :
       /\ p.kind \in {"twap", "almgren_chriss", "vwap", "pov"} /\ p.total \in Nat /\ p.end \in Nat
       /\ p.kind # "pov" => p.start \in Nat
       /\ p.kind \in {"twap", "almgren_chriss"} => p.bin_ns \in Nat
       /\ p.kind = "pov" => p.bps \in Nat

VARIABLES par,       \* the parent order being worked
          next_bin,  \* next_bin_ of Twap and AlmgrenChriss
          sent,      \* shares_sent_ of Vwap and Pov
          queue,     \* ChildOrderQueue: sizes of the children not yet drained
          emitted,   \* history: shares ever put into the queue
          clock      \* history: the latest timestamp the strategy was shown

stvars == <<par, next_bin, sent, queue, emitted, clock>>

-----------------------------------------------------------------------------
(* Twap and AlmgrenChriss.                                                 *)

bin_count(p) == (p.end - p.start + p.bin_ns - 1) \div p.bin_ns

Scheduled == {"twap", "almgren_chriss"}

\* Twap's split: the leading bins take one share of the remainder.
twap_schedule(p) ==
  [i \in 1 .. bin_count(p) |->
     (p.total \div bin_count(p)) + (IF i <= p.total % bin_count(p) THEN 1 ELSE 0)]

\* AlmgrenChriss's: llround(total / n) for every bin, the difference from the
\* total put on the last one, which is clamped at zero.
rounded(p) == (2 * p.total + bin_count(p)) \div (2 * bin_count(p))

almgren_chriss_schedule(p) ==
  LET n == bin_count(p)
  IN  [i \in 1 .. n |-> IF i < n THEN rounded(p)
                        ELSE Max({0, rounded(p) + p.total - n * rounded(p)})]

schedule(p) == IF p.kind = "twap" THEN twap_schedule(p) ELSE almgren_chriss_schedule(p)

boundary(p, i) == p.start + i * p.bin_ns

\* What the constructors accept; anything else throws.
Constructible(p) ==
  CASE p.kind \in Scheduled ->
         p.start < p.end /\ p.bin_ns > 0 /\ bin_count(p) \in 1 .. kMaxScheduleBins
    [] p.kind = "vwap" -> p.start < p.end
    [] p.kind = "pov"  -> TRUE

-----------------------------------------------------------------------------
(* Vwap and its VolumeCurve.                                               *)

kVolumeCurveBuckets == 13
kCurveScale == 1000000

\* kRelativeWeights, doubled to be integers.
kRelativeWeights == <<30, 18, 14, 12, 10, 9, 9, 10, 11, 12, 14, 18, 32>>

\* The sum of the first weights.
running(i) == SumFunctionOnSet(kRelativeWeights, 1 .. i)

\* cumulative_: the rounded share of the day up to the end of each bucket.
cumulative_weight ==
  LET total == running(kVolumeCurveBuckets)
  IN  [i \in 0 .. kVolumeCurveBuckets - 1 |->
        IF i = kVolumeCurveBuckets - 1 THEN kCurveScale
        ELSE (2 * running(i + 1) * kCurveScale + total) \div (2 * total)]

\* Mutant: no case for the end of the window.
bucket_position_no_end(elapsed, span) ==
  LET scaled == elapsed * kVolumeCurveBuckets
  IN  [index |-> Min({scaled \div span, kVolumeCurveBuckets - 1}), remainder |-> scaled % span]

bucket_position(elapsed, span) ==
  LET scaled == elapsed * kVolumeCurveBuckets
  IN  IF elapsed >= span THEN [index |-> kVolumeCurveBuckets - 1, remainder |-> span]
      ELSE [index     |-> Min({scaled \div span, kVolumeCurveBuckets - 1}),
            remainder |-> scaled % span]

target_shares(p, now) ==
  LET span   == p.end - p.start
      pos    == bucket_position(now - p.start, span)
      before == IF pos.index = 0 THEN 0 ELSE cumulative_weight[pos.index - 1]
      within == ((cumulative_weight[pos.index] - before) * pos.remainder) \div span
  IN  Min({p.total, (p.total * (before + within)) \div kCurveScale})

-----------------------------------------------------------------------------

StrategyInit ==
  /\ par \in {p \in Parents : Constructible(p)}
  /\ next_bin = 0 /\ sent = 0
  /\ queue = << >> /\ emitted = 0 /\ clock = 0

Full == ~has_room(queue)

\* ChildOrderQueue::push, which returns ~Full.
Push(shares) ==
  IF Full THEN UNCHANGED <<queue, emitted>>
  ELSE queue' = Append(queue, shares) /\ emitted' = emitted + shares

Shown(ts) == clock' = Max({clock, ts}) /\ UNCHANGED par

\* Mutant: the bin is consumed whether or not its child fits.
Crossed_all(now) == {i \in next_bin + 1 .. bin_count(par) : boundary(par, i) <= now}

\* Mutant: a bin is due when it begins.
Crossed_early(now) ==
  {i \in next_bin + 1 .. bin_count(par) :
     boundary(par, i - 1) <= now /\ Len(queue) + i - next_bin <= kMaxChildOrders}

\* Bins whose boundary has come and that the queue still has room for.
Crossed(now) ==
  {i \in next_bin + 1 .. bin_count(par) :
     boundary(par, i) <= now /\ Len(queue) + i - next_bin <= kMaxChildOrders}

\* advance(), the same loop in both: the bins it crosses, and the children
\* that fit.
advance(now) ==
  /\ par.kind \in Scheduled
  /\ LET n    == Cardinality(Crossed(now))
         room == Min({n, kMaxChildOrders - Len(queue)})
         new  == [i \in 1 .. room |-> schedule(par)[next_bin + i]]
     IN  /\ next_bin' = next_bin + n
         /\ queue' = queue \o new
         /\ emitted' = emitted + SumFunctionOnSet(new, 1 .. room)
  /\ Shown(now) /\ UNCHANGED sent

\* Vwap::on_trade_tick_impl: catch up with the curve, if it is ahead.
VwapTick(ts) ==
  /\ par.kind = "vwap"
  /\ LET to_send == Min({target_shares(par, ts), par.total}) - sent
     IN  IF ts \in par.start .. par.end /\ sent < par.total /\ to_send > 0
         THEN Push(to_send) /\ sent' = IF Full THEN sent ELSE sent + to_send
         ELSE UNCHANGED <<queue, emitted, sent>>
  /\ Shown(ts) /\ UNCHANGED next_bin

PovSlice(print) == Min({(print * par.bps) \div 10000, par.total - sent})

\* Pov::on_trade_tick_impl: the result of push is not looked at.
PovTick(ts, print) ==
  /\ par.kind = "pov"
  /\ IF sent < par.total /\ (par.end = 0 \/ ts <= par.end) /\ PovSlice(print) > 0
     THEN Push(PovSlice(print)) /\ sent' = sent + PovSlice(print)
     ELSE UNCHANGED <<queue, emitted, sent>>
  /\ Shown(ts) /\ UNCHANGED next_bin

\* The caller takes the children: ChildOrderQueue::clear.
TakeChildren ==
  /\ queue # << >> /\ queue' = << >>
  /\ UNCHANGED <<par, next_bin, sent, emitted, clock>>

StrategyNext ==
  \/ TakeChildren
  \/ \E ts \in Time : \/ advance(ts) \/ VwapTick(ts)
                      \/ \E print \in Prints : PovTick(ts, print)

StrategySpec == StrategyInit /\ [][StrategyNext]_stvars

-----------------------------------------------------------------------------

done == IF par.kind \in Scheduled THEN next_bin >= bin_count(par) ELSE sent >= par.total

\* How many shares x beyond the parent's a strategy may hand over: none, but
\* for an AlmgrenChriss of n bins, whose leading bins are each rounded on their
\* own and whose last one cannot take back more than it has.  The bound falls
\* from (n - 1) / 2 to nothing as the parent grows to n(n - 1) / 2 shares.
Overshoot(p, x) ==
  \/ x = 0
  \/ /\ p.kind = "almgren_chriss"
     /\ 2 * bin_count(p) * x <= bin_count(p) * (bin_count(p) - 1) - 2 * p.total

\* "so the integer schedule still sums exactly to total_shares", "the integer
\* schedule always sums exactly to total_shares": false for AlmgrenChriss with
\* few shares in many bins.
SumsExactly == done /\ par.kind \in Scheduled => emitted = par.total

\* "don't drop the remainder": a strategy other than Pov that says it is done
\* has handed over all of the parent's shares, whatever a full queue refused on
\* the way, and no more of them than the rounding accounts for.
DoneMeansAll ==
  done /\ par.kind # "pov" => emitted >= par.total /\ Overshoot(par, emitted - par.total)

\* What the schedule allows by a given time.
Entitled(ts) ==
  CASE par.kind \in Scheduled ->
         SumFunctionOnSet(schedule(par), {i \in 1 .. bin_count(par) : boundary(par, i) <= ts})
    [] par.kind = "vwap" -> IF ts < par.start THEN 0 ELSE target_shares(par, Min({ts, par.end}))
    [] par.kind = "pov"  -> par.total

\* "one child order ... for every bin boundary crossed", "target_shares(now)":
\* a strategy is never ahead of its schedule, even when timestamps go back, and
\* never past its parent ("max_shares is a hard budget cap", "clamped so
\* cumulative sent never exceeds total_shares") but for AlmgrenChriss's
\* rounding.
NeverAhead ==
  /\ emitted <= Entitled(clock)
  /\ emitted <= par.total \/ Overshoot(par, emitted - par.total)

\* "fills exactly by end_ts": a tick at end_ts that finds room in the queue
\* completes a Vwap, however many earlier children were refused.
FilledByEnd == [][par.kind = "vwap" /\ VwapTick(par.end) /\ ~Full => emitted' = par.total]_stvars

=============================================================================

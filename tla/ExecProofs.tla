----------------------------- MODULE ExecProofs -----------------------------
(***************************************************************************)
(* The promises of RiskGate and apply, for every set of orders and limits, *)
(* every batch and every capacity of the accepted queue; then of the gate  *)
(* in front of a FillSimulator, for every market data and every capacity   *)
(* of the fill queue: the fills and the totals are those of the orders.    *)
(*                                                                         *)
(* Then the strategies, for every parent order their constructors accept,  *)
(* every sequence of timestamps, in order or not, and every capacity of    *)
(* the child queue.  What a scheduled strategy has emitted is the sum of   *)
(* its first bins, so everything rests on two facts about numbers: each    *)
(* schedule sums to the parent's shares, for AlmgrenChriss up to what its  *)
(* rounding may add (RoundingBound), and the target of a Vwap rises with   *)
(* time to exactly the parent's shares at the end of its window.           *)
(***************************************************************************)
EXTENDS ExecChain, Strategies, SequenceTheorems, FiniteSetTheorems, TLAPS

\* The fold behind Sim!FilledOrders.
Took(a, os) == Sim!TakeFilled(os, a)

INSTANCE FoldLemmas WITH Step <- Took

\* A breach noted since the last reset has latched the kill switch.
Latched == breach # << >> => gate.tripped

\* The inductive invariant: the limits are compared with the gate's totals,
\* the promise is about the orders that left, and the latch keeps the two
\* histories together.
Inv ==
  /\ TypeOK
  /\ breach = << >> \/ breach = <<breach[1]>>
  /\ TotalsAreOfTheSent /\ LimitsHold /\ Latched /\ NothingAfterBreach

\* An order's notional value is a natural number.
LEMMA NotionalNat == ASSUME NEW o \in Orders PROVE notional(o) \in Nat
<1>1. o.price \in Nat /\ o.shares \in Nat
  BY GateAssumption
<1>2. \A a, b \in Nat : a * b \in Nat
  OBVIOUS
<1> QED
  BY <1>1, <1>2 DEF notional

\* An order that passes check() meets an untripped gate and leaves both
\* totals within the limits.
LEMMA PassMeansRoom ==
  ASSUME TypeOK, NEW o \in Orders, reason(gate, o) = "None"
  PROVE  /\ ~gate.tripped
         /\ gate.shares + o.shares <= limits.max_cumulative_shares
         /\ gate.notional + notional(o) <= limits.max_cumulative_notional
<1>1. /\ ~gate.tripped
      /\ ~over(gate.shares, o.shares, limits.max_cumulative_shares)
      /\ ~over(gate.notional, notional(o), limits.max_cumulative_notional)
  BY DEF reason
<1>2. /\ gate.shares \in Nat /\ gate.notional \in Nat /\ o.shares \in Nat
      /\ limits.max_cumulative_shares \in Nat /\ limits.max_cumulative_notional \in Nat
  BY GateAssumption DEF TypeOK
<1> QED
  BY <1>1, <1>2, NotionalNat DEF over

\* check() alone changes at most the kill switch, and sets it on a breach.
LEMMA CheckLatches ==
  ASSUME TypeOK, NEW o \in Orders
  PROVE  /\ check(gate, o) \in [tripped : BOOLEAN, shares : Nat, notional : Nat]
         /\ check(gate, o).shares = gate.shares
         /\ check(gate, o).notional = gate.notional
         /\ check(gate, o).tripped <=> (gate.tripped \/ reason(gate, o) \in Cumulative)
BY DEF check, TypeOK

\* record() adds one order to the totals and leaves the latch.
LEMMA RecordAdds ==
  ASSUME NEW g \in [tripped : BOOLEAN, shares : Nat, notional : Nat], NEW o \in Orders
  PROVE  /\ record(g, o) \in [tripped : BOOLEAN, shares : Nat, notional : Nat]
         /\ record(g, o).shares = g.shares + o.shares
         /\ record(g, o).notional = g.notional + notional(o)
<1>1. o.shares \in Nat /\ notional(o) \in Nat
  BY NotionalNat, GateAssumption
<1>2. g.shares + o.shares \in Nat /\ g.notional + notional(o) \in Nat
  BY <1>1
<1> QED
  BY <1>2 DEF record

\* A breach that is noted by a check.
LEMMA NotedBreach ==
  ASSUME Inv, NEW o \in Orders
  PROVE  LET b == Noted(gate, o, passed, breach)
         IN  /\ b = << >> \/ b = <<b[1]>>
             /\ Len(b) <= 1
             /\ b # << >> => b[1] = passed /\ check(gate, o).tripped
<1>1. Len(breach) <= 1 /\ (breach = << >> \/ breach = <<breach[1]>>)
  BY DEF Inv, TypeOK
<1>2. CASE breach = << >> /\ reason(gate, o) \in Cumulative
  <2>1. Noted(gate, o, passed, breach) = <<passed>>
    BY <1>2 DEF Noted
  <2>2. check(gate, o).tripped
    BY <1>2, CheckLatches DEF Inv
  <2>3. <<passed>>[1] = passed /\ Len(<<passed>>) = 1
    OBVIOUS
  <2> QED
    BY <2>1, <2>2, <2>3
<1>3. CASE ~(breach = << >> /\ reason(gate, o) \in Cumulative)
  <2>1. Noted(gate, o, passed, breach) = breach
    BY <1>3 DEF Noted
  <2>2. breach # << >> => breach[1] = passed /\ check(gate, o).tripped
    BY CheckLatches DEF Inv, NothingAfterBreach, Latched
  <2> QED
    BY <1>1, <2>1, <2>2
<1> QED
  BY <1>2, <1>3

\* A new gate satisfies the invariant.
LEMMA InitInv == Init => Inv
<1> SUFFICES ASSUME Init PROVE Inv
  OBVIOUS
<1>1. TypeOK
  BY GateAssumption, QueueAssumption DEF Init, TypeOK, NewGate, NoTotals
<1>2. TotalsAreOfTheSent /\ LimitsHold
  BY GateAssumption DEF Init, TotalsAreOfTheSent, LimitsHold, NewGate, NoTotals
<1> QED
  BY <1>1, <1>2 DEF Init, Inv, Latched, NothingAfterBreach, NoTotals

\* The body of apply's loop keeps the invariant.
LEMMA GateOneStep == Inv /\ GateOne => Inv'
<1> SUFFICES ASSUME Inv, GateOne PROVE Inv'
  OBVIOUS
<1> DEFINE o == Head(in)
           g == check(gate, o)
           ok == reason(gate, o) = "None"
           pushed == ok /\ has_room(accepted)
<1>1. /\ in # << >> /\ in' = Tail(in) /\ limits' = limits /\ reference_price' = reference_price
      /\ gate' = IF pushed THEN record(g, o) ELSE g
      /\ accepted' = IF pushed THEN Append(accepted, o) ELSE accepted
      /\ passed' = IF pushed THEN Plus(passed, o) ELSE passed
      /\ breach' = Noted(gate, o, passed, breach)
  BY DEF GateOne, recorded
<1>2. o \in Orders /\ in' \in Seq(Orders)
  BY <1>1 DEF Inv, TypeOK
<1>3. o.shares \in Nat /\ notional(o) \in Nat
  BY <1>2, NotionalNat, GateAssumption
<1>4. /\ g \in [tripped : BOOLEAN, shares : Nat, notional : Nat]
      /\ g.shares = gate.shares /\ g.notional = gate.notional
      /\ g.tripped <=> (gate.tripped \/ reason(gate, o) \in Cumulative)
  BY <1>2, CheckLatches DEF Inv
<1>5. /\ breach' = << >> \/ breach' = <<breach'[1]>>
      /\ Len(breach') <= 1
      /\ breach' # << >> => breach'[1] = passed /\ g.tripped
  BY <1>1, <1>2, NotedBreach
<1> HIDE DEF o, g
<1>6. CASE pushed
  <2>1. ~gate.tripped /\ ~g.tripped
    BY <1>2, <1>4, <1>6, PassMeansRoom DEF Inv, Cumulative
  <2>2. breach' = << >>
    BY <1>5, <2>1
  <2>3. /\ gate' \in [tripped : BOOLEAN, shares : Nat, notional : Nat]
        /\ gate'.shares = gate.shares + o.shares
        /\ gate'.notional = gate.notional + notional(o)
    BY <1>1, <1>2, <1>4, <1>6, RecordAdds
  <2>4. /\ passed' \in [shares : Nat, notional : Nat]
        /\ passed'.shares = passed.shares + o.shares
        /\ passed'.notional = passed.notional + notional(o)
    BY <1>1, <1>3, <1>6 DEF Plus, Inv, TypeOK
  <2>5. accepted' \in Seq(Orders) /\ Len(accepted') <= kMaxChildOrders
    BY <1>1, <1>2, <1>6, GateAssumption, QueueAssumption DEF Inv, TypeOK, has_room
  <2>6. TypeOK'
    BY <1>1, <1>2, <1>5, <2>3, <2>4, <2>5 DEF Inv, TypeOK
  <2>7. TotalsAreOfTheSent' /\ LimitsHold'
    BY <1>1, <1>2, <1>6, <2>3, <2>4, PassMeansRoom DEF Inv, TotalsAreOfTheSent, LimitsHold
  <2> QED
    BY <2>2, <2>4, <2>6, <2>7 DEF Inv, Latched, NothingAfterBreach
<1>7. CASE ~pushed
  <2>1. gate' = g /\ accepted' = accepted /\ passed' = passed
    BY <1>1, <1>7
  <2>2. TypeOK'
    BY <1>1, <1>2, <1>4, <1>5, <2>1 DEF Inv, TypeOK
  <2>3. TotalsAreOfTheSent' /\ LimitsHold' /\ Latched' /\ NothingAfterBreach'
    BY <1>1, <1>4, <1>5, <2>1
       DEF Inv, TotalsAreOfTheSent, LimitsHold, Latched, NothingAfterBreach
  <2> QED
    BY <1>5, <2>1, <2>2, <2>3 DEF Inv
<1> QED
  BY <1>6, <1>7

\* A what-if check may latch; it sends nothing.
LEMMA WhatIfStep == Inv /\ WhatIf => Inv'
<1> SUFFICES ASSUME Inv, WhatIf PROVE Inv'
  OBVIOUS
<1>1. PICK o \in Orders : gate' = check(gate, o) /\ breach' = Noted(gate, o, passed, breach)
  BY DEF WhatIf
<1>2. UNCHANGED <<limits, reference_price, in, accepted, passed>>
  BY DEF WhatIf
<1>3. /\ gate' \in [tripped : BOOLEAN, shares : Nat, notional : Nat]
      /\ gate'.shares = gate.shares /\ gate'.notional = gate.notional
  BY <1>1, CheckLatches DEF Inv
<1>4. /\ breach' = << >> \/ breach' = <<breach'[1]>>
      /\ Len(breach') <= 1
      /\ breach' # << >> => breach'[1] = passed /\ gate'.tripped
  BY <1>1, NotedBreach
<1>5. TypeOK'
  BY <1>2, <1>3, <1>4 DEF Inv, TypeOK
<1> QED
  BY <1>2, <1>3, <1>4, <1>5
     DEF Inv, TotalsAreOfTheSent, LimitsHold, Latched, NothingAfterBreach

\* reset() forgets the totals, the latch and the history together.
LEMMA ResetStep == Inv /\ Reset => Inv'
<1> SUFFICES ASSUME Inv, Reset PROVE Inv'
  OBVIOUS
<1>1. TypeOK'
  BY DEF Inv, TypeOK, Reset, NewGate, NoTotals
<1>2. TotalsAreOfTheSent' /\ LimitsHold'
  BY GateAssumption
     DEF Inv, TypeOK, Reset, TotalsAreOfTheSent, LimitsHold, NewGate, NoTotals
<1> QED
  BY <1>1, <1>2 DEF Reset, Inv, Latched, NothingAfterBreach, NoTotals

\* The other actions leave the gate and both histories alone.
LEMMA CallerStep == Inv /\ (Apply \/ SetReferencePrice \/ Drain \/ UNCHANGED vars) => Inv'
<1> SUFFICES ASSUME Inv, Apply \/ SetReferencePrice \/ Drain \/ UNCHANGED vars PROVE Inv'
  OBVIOUS
<1>1. UNCHANGED <<limits, gate, passed, breach>>
  BY DEF Apply, SetReferencePrice, Drain, vars
<1>2. CASE Apply
  <2>1. in' \in Seq(Orders)
    BY <1>2, GateAssumption DEF Apply
  <2> QED
    BY <1>1, <1>2, <2>1
       DEF Apply, Inv, TypeOK, TotalsAreOfTheSent, LimitsHold, Latched, NothingAfterBreach
<1>3. CASE SetReferencePrice \/ UNCHANGED vars
  BY <1>1, <1>3
     DEF SetReferencePrice, vars, Inv, TypeOK, TotalsAreOfTheSent, LimitsHold, Latched,
         NothingAfterBreach
<1>4. CASE Drain
  BY <1>1, <1>4, GateAssumption, QueueAssumption
     DEF Drain, Inv, TypeOK, TotalsAreOfTheSent, LimitsHold, Latched, NothingAfterBreach
<1> QED
  BY <1>2, <1>3, <1>4

\* Every call keeps it.
LEMMA Invariance == Spec => []Inv
<1>1. Inv /\ [Next]_vars => Inv'
  BY GateOneStep, WhatIfStep, ResetStep, CallerStep DEF Next
<1> QED
  BY <1>1, InitInv, PTL DEF Spec

\* The gate and the queues keep their types, for every capacity.
THEOREM TypeCorrect == Spec => []TypeOK
<1>1. Inv => TypeOK
  BY DEF Inv
<1> QED
  BY <1>1, Invariance, PTL

\* The cumulative limits are a hard ceiling on what leaves the gate, for
\* every set of limits and orders.
THEOREM HardCeiling == Spec => []LimitsHold
<1>1. Inv => LimitsHold
  BY DEF Inv
<1> QED
  BY <1>1, Invariance, PTL

\* The gate accounts for exactly the orders that were taken.
THEOREM AccountsExactly == Spec => []TotalsAreOfTheSent
<1>1. Inv => TotalsAreOfTheSent
  BY DEF Inv
<1> QED
  BY <1>1, Invariance, PTL

\* The kill switch lets nothing through from the first breach to reset().
THEOREM KillSwitchHolds == Spec => []NothingAfterBreach
<1>1. Inv => NothingAfterBreach
  BY DEF Inv
<1> QED
  BY <1>1, Invariance, PTL

-----------------------------------------------------------------------------
(* The gate in front of the simulator.                                     *)

\* Every step of the chain is a step of the gate or leaves it alone, so the
\* gate's invariant survives a caller that walks the accepted queue in pieces.
LEMMA ChainKeepsGate == Inv /\ [ChainNext]_<<vars, simvars, walked>> => Inv'
<1> SUFFICES ASSUME Inv, [ChainNext]_<<vars, simvars, walked>> PROVE Inv'
  OBVIOUS
<1>1. Apply \/ GateOne \/ WhatIf \/ Reset \/ SetReferencePrice \/ Drain \/ UNCHANGED vars
  BY DEF ChainNext, Gating, Market, HandOver, Clear
<1> QED BY <1>1, GateOneStep, WhatIfStep, ResetStep, CallerStep

\* The gate's promises hold for the chain: the limits are a ceiling on what
\* is handed to the simulator, its totals are those of the orders accepted,
\* and a breach lets nothing through until reset().
THEOREM ChainGate == ChainSpec => [](TypeOK /\ LimitsHold /\ TotalsAreOfTheSent /\ NothingAfterBreach)
<1>1. Inv => TypeOK /\ LimitsHold /\ TotalsAreOfTheSent /\ NothingAfterBreach
  BY DEF Inv
<1>2. ChainInit => Inv
  BY InitInv DEF ChainInit
<1> QED BY <1>1, <1>2, ChainKeepsGate, PTL DEF ChainSpec

-----------------------------------------------------------------------------
(* Arithmetic of the 32-bit counters.                                      *)

\* What is congruent and small is equal.
LEMMA ModUnique ==
  ASSUME NEW m \in Nat \ {0}, NEW c \in Int, NEW d \in Int,
         NEW r \in 0 .. m - 1, NEW t \in 0 .. m - 1, m * c + r = m * d + t
  PROVE  r = t
<1>1. m * (c - d) = t - r
  OBVIOUS
<1>2. CASE c - d >= 1
  <2>1. m * (c - d) >= m
    BY <1>2
  <2> QED BY <1>1, <2>1
<1>3. CASE c - d <= -1
  <2>1. m * (c - d) <= -m
    BY <1>3
  <2> QED BY <1>1, <2>1
<1>4. CASE c - d = 0
  BY <1>1, <1>4
<1> QED BY <1>2, <1>3, <1>4

\* Counting modulo m step by step is counting modulo m at the end.
LEMMA ModAdd ==
  ASSUME NEW m \in Nat \ {0}, NEW a \in Nat, NEW n \in Nat
  PROVE  ((a % m) + n) % m = (a + n) % m
<1> DEFINE x == (a % m) + n
           y == a + n
<1>1. a % m \in 0 .. m - 1 /\ a = m * (a \div m) + (a % m) /\ a \div m \in Int
  OBVIOUS
<1>2. x \in Nat /\ y \in Nat
  BY <1>1
<1>3. x = m * (x \div m) + (x % m) /\ x % m \in 0 .. m - 1 /\ x \div m \in Int
  BY <1>2
<1>4. y = m * (y \div m) + (y % m) /\ y % m \in 0 .. m - 1 /\ y \div m \in Int
  BY <1>2
<1>5. y = m * (a \div m) + x
  BY <1>1
<1> HIDE DEF x, y
<1>6. m * ((a \div m) + (x \div m)) = m * (a \div m) + m * (x \div m)
  <2>1. \A u, v, w \in Int : u * (v + w) = u * v + u * w
    OBVIOUS
  <2>2. PICK v \in Int, w \in Int : v = a \div m /\ w = x \div m
    BY <1>1, <1>3
  <2>3. m * (v + w) = m * v + m * w
    BY <2>1
  <2> QED BY <2>2, <2>3
<1>7. m * ((a \div m) + (x \div m)) + (x % m) = m * (y \div m) + (y % m)
  BY <1>1, <1>2, <1>3, <1>4, <1>5, <1>6
<1>8. (a \div m) + (x \div m) \in Int
  BY <1>1, <1>3
<1>9. x % m = y % m
  BY <1>3, <1>4, <1>7, <1>8, ModUnique
<1> QED BY <1>9 DEF x, y

-----------------------------------------------------------------------------
(* Sums over the elements of a sequence.                                   *)

\* One element more at the end, for sums of what val gives of the indices.
LEMMA SumLonger ==
  ASSUME NEW n \in Nat, NEW e, NEW f, DOMAIN e = 1 .. n, DOMAIN f = 1 .. n + 1,
         \A i \in 1 .. n : f[i] = e[i], \A i \in 1 .. n + 1 : f[i] \in Nat
  PROVE  /\ SumFunction(e) \in Nat
         /\ SumFunction(f) = SumFunction(e) + f[n + 1]
<1>1. IsFiniteSet(1 .. n)
  BY FS_Interval
<1>2. 1 .. n + 1 = (1 .. n) \cup {n + 1} /\ n + 1 \notin 1 .. n
  OBVIOUS
<1>3. SumFunctionOnSet(f, (1 .. n) \cup {n + 1}) = f[n + 1] + SumFunctionOnSet(f, 1 .. n)
  BY <1>1, <1>2, SumAdd
<1>4. SumFunctionOnSet(f, 1 .. n) = SumFunctionOnSet(e, 1 .. n)
  BY <1>1, SumSame
<1>5. SumFunctionOnSet(e, 1 .. n) \in Nat
  <2>1. \A i \in 1 .. n : e[i] \in Nat
    BY <1>2
  <2> QED BY <1>1, <2>1, SumNat
<1>6. f[n + 1] \in Nat
  BY <1>2
<1>7. SumFunction(e) = SumFunctionOnSet(e, 1 .. n) /\ SumFunction(f) = SumFunctionOnSet(f, 1 .. n + 1)
  BY DEF SumFunction
<1>8. PICK x \in Nat, y \in Nat : x = SumFunctionOnSet(e, 1 .. n) /\ y = f[n + 1]
  BY <1>5, <1>6
<1>9. SumFunctionOnSet(f, 1 .. n + 1) = y + x
  BY <1>2, <1>3, <1>4, <1>8
<1>10. y + x = x + y
  OBVIOUS
<1> QED BY <1>7, <1>8, <1>9, <1>10

-----------------------------------------------------------------------------
(* The simulator.                                                          *)

FillType == [side : {"Buy", "Sell"}, price : Nat \ {0}, shares : Nat]
AttemptType == [order : Orders, filled : BOOLEAN]

SimType ==
  /\ bbo.bid \in Nat /\ bbo.ask \in Nat /\ last_trade_price \in Nat
  /\ fills \in Seq(FillType) /\ attempts \in Seq(AttemptType)
  /\ Sim!FilledOrders \in Seq(Orders)
  /\ walked \in Nat /\ walked <= Len(accepted)

\* The inductive invariant of the chain.  That the i-th fill is that of the
\* i-th order that filled needs both histories to grow together.
ChainInv == Inv /\ SimType /\ FillsRespectLimits /\ TotalsMatchFills

\* The simulator's sums and folds are those of FoldLemmas.
LEMMA SimFolds ==
  /\ Sim!FilledOrders = FoldAll(attempts, << >>)
  /\ \A f : Sim!SumFunction(f) = SumFunction(f)
<1>1. Sim!FilledOrders = FoldAll(attempts, << >>)
  BY DEF Sim!FilledOrders, Sim!FoldLeft, Sim!MapThenFoldSet, Sim!Max, FoldAll, MapThenFoldSet,
     Max, Took
<1>2. \A f : Sim!SumFunction(f) = SumFunction(f)
  BY DEF Sim!SumFunction, Sim!SumFunctionOnSet, Sim!FoldFunctionOnSet, Sim!MapThenFoldSet,
     SumFunction, SumFunctionOnSet, FoldFunctionOnSet, MapThenFoldSet
<1> QED BY <1>1, <1>2

\* A price at which an order fills is one it accepts.
LEMMA FillPrice ==
  ASSUME SimType, NEW o \in Orders
  PROVE  /\ Sim!fill_price(o) \in Nat
         /\ Sim!fill_price(o) # 0 /\ ~o.market =>
              IF o.side = "Buy" THEN Sim!fill_price(o) <= o.price ELSE Sim!fill_price(o) >= o.price
<1>1. o.price \in Nat /\ o.market \in BOOLEAN /\ o.side \in {"Buy", "Sell"}
  BY GateAssumption, ChainAssumption
<1>2. bbo.bid \in Nat /\ bbo.ask \in Nat /\ last_trade_price \in Nat
  BY DEF SimType
<1>3. CASE o.market
  BY <1>1, <1>2, <1>3 DEF Sim!fill_price
<1>4. CASE ~o.market /\ o.side = "Buy"
  BY <1>1, <1>2, <1>4 DEF Sim!fill_price
<1>5. CASE ~o.market /\ o.side = "Sell"
  BY <1>1, <1>2, <1>5 DEF Sim!fill_price
<1> QED BY <1>1, <1>3, <1>4, <1>5

SharesIn(s)   == [i \in DOMAIN s |-> s[i].shares]
NotionalIn(s) == [i \in DOMAIN s |-> s[i].price * s[i].shares]
TriedIn(s)    == [i \in DOMAIN s |-> s[i].order.shares]

\* A product of natural numbers is one.
LEMMA TimesNat == ASSUME NEW x \in Nat, NEW y \in Nat PROVE x * y \in Nat
OBVIOUS

\* One fill more adds its shares and its notional value.
LEMMA FillsLonger ==
  ASSUME NEW s \in Seq(FillType), NEW f \in FillType
  PROVE  /\ SumFunction(SharesIn(s)) \in Nat /\ SumFunction(NotionalIn(s)) \in Nat
         /\ SumFunction(SharesIn(Append(s, f))) = SumFunction(SharesIn(s)) + f.shares
         /\ SumFunction(NotionalIn(Append(s, f))) = SumFunction(NotionalIn(s)) + f.price * f.shares
<1> DEFINE n == Len(s)
           t == Append(s, f)
<1>1. /\ n \in Nat /\ DOMAIN s = 1 .. n /\ DOMAIN t = 1 .. n + 1
      /\ t[n + 1] = f /\ \A i \in 1 .. n : t[i] = s[i] /\ s[i] \in FillType
  OBVIOUS
<1>2. \A i \in 1 .. n + 1 : t[i] \in FillType
  <2> SUFFICES ASSUME NEW i \in 1 .. n + 1 PROVE t[i] \in FillType
    OBVIOUS
  <2>1. CASE i = n + 1
    BY <1>1, <2>1
  <2>2. CASE i \in 1 .. n
    BY <1>1, <2>2
  <2> QED BY <1>1, <2>1, <2>2
<1> HIDE DEF n, t
<1>3. n + 1 \in 1 .. n + 1 /\ \A i \in 1 .. n : i \in 1 .. n + 1
  BY <1>1
<1>4. /\ SumFunction(SharesIn(s)) \in Nat
      /\ SumFunction(SharesIn(t)) = SumFunction(SharesIn(s)) + SharesIn(t)[n + 1]
  <2>1. DOMAIN SharesIn(s) = 1 .. n /\ DOMAIN SharesIn(t) = 1 .. n + 1
    BY <1>1 DEF SharesIn
  <2>2. \A i \in 1 .. n : SharesIn(t)[i] = SharesIn(s)[i]
    BY <1>1, <1>3 DEF SharesIn
  <2>3. \A i \in 1 .. n + 1 : SharesIn(t)[i] \in Nat
    BY <1>1, <1>2 DEF SharesIn, FillType
  <2> QED BY <1>1, <2>1, <2>2, <2>3, SumLonger
<1>5. /\ SumFunction(NotionalIn(s)) \in Nat
      /\ SumFunction(NotionalIn(t)) = SumFunction(NotionalIn(s)) + NotionalIn(t)[n + 1]
  <2>1. DOMAIN NotionalIn(s) = 1 .. n /\ DOMAIN NotionalIn(t) = 1 .. n + 1
    BY <1>1 DEF NotionalIn
  <2>2. \A i \in 1 .. n : NotionalIn(t)[i] = NotionalIn(s)[i]
    BY <1>1, <1>3 DEF NotionalIn
  <2>3. \A i \in 1 .. n + 1 : NotionalIn(t)[i] \in Nat
    <3> SUFFICES ASSUME NEW i \in 1 .. n + 1 PROVE NotionalIn(t)[i] \in Nat
      OBVIOUS
    <3>1. t[i].price \in Nat /\ t[i].shares \in Nat
      BY <1>2 DEF FillType
    <3>2. t[i].price * t[i].shares \in Nat
      BY <3>1, TimesNat
    <3>3. NotionalIn(t)[i] = t[i].price * t[i].shares
      BY <1>1 DEF NotionalIn
    <3> QED BY <3>2, <3>3
  <2> QED BY <1>1, <2>1, <2>2, <2>3, SumLonger
<1>6. SharesIn(t)[n + 1] = f.shares /\ NotionalIn(t)[n + 1] = f.price * f.shares
  BY <1>1, <1>3 DEF SharesIn, NotionalIn
<1> QED BY <1>4, <1>5, <1>6 DEF t

\* One order more adds its shares to those attempted.
LEMMA AttemptsLonger ==
  ASSUME NEW s \in Seq(AttemptType), NEW a \in AttemptType
  PROVE  /\ SumFunction(TriedIn(s)) \in Nat
         /\ SumFunction(TriedIn(Append(s, a))) = SumFunction(TriedIn(s)) + a.order.shares
<1> DEFINE n == Len(s)
           t == Append(s, a)
<1>1. /\ n \in Nat /\ DOMAIN s = 1 .. n /\ DOMAIN t = 1 .. n + 1
      /\ t[n + 1] = a /\ \A i \in 1 .. n : t[i] = s[i] /\ s[i] \in AttemptType
  OBVIOUS
<1>2. \A i \in 1 .. n + 1 : t[i] \in AttemptType
  <2> SUFFICES ASSUME NEW i \in 1 .. n + 1 PROVE t[i] \in AttemptType
    OBVIOUS
  <2>1. CASE i = n + 1
    BY <1>1, <2>1
  <2>2. CASE i \in 1 .. n
    BY <1>1, <2>2
  <2> QED BY <1>1, <2>1, <2>2
<1> HIDE DEF n, t
<1>3. n + 1 \in 1 .. n + 1 /\ \A i \in 1 .. n : i \in 1 .. n + 1
  BY <1>1
<1>4. DOMAIN TriedIn(s) = 1 .. n /\ DOMAIN TriedIn(t) = 1 .. n + 1
  BY <1>1 DEF TriedIn
<1>5. \A i \in 1 .. n : TriedIn(t)[i] = TriedIn(s)[i]
  BY <1>1, <1>3 DEF TriedIn
<1>6. \A i \in 1 .. n + 1 : TriedIn(t)[i] \in Nat
  BY <1>1, <1>2, GateAssumption DEF TriedIn, AttemptType
<1>7. TriedIn(t)[n + 1] = a.order.shares
  BY <1>1, <1>3 DEF TriedIn
<1>8. /\ SumFunction(TriedIn(s)) \in Nat
      /\ SumFunction(TriedIn(t)) = SumFunction(TriedIn(s)) + TriedIn(t)[n + 1]
  BY <1>1, <1>4, <1>5, <1>6, SumLonger
<1> QED BY <1>7, <1>8 DEF t

\* What TotalsMatchFills says, with the sums of the proof.
TotalsOf(sf, sa, nt, f, a) ==
  /\ sf = SumFunction(SharesIn(f)) % ShareMod
  /\ nt = SumFunction(NotionalIn(f))
  /\ sa = SumFunction(TriedIn(a)) % ShareMod

\* It is the same, in a state and in the next.
LEMMA TotalsAre ==
  /\ TotalsMatchFills <=> TotalsOf(shares_filled, shares_attempted, notional_, fills, attempts)
  /\ TotalsMatchFills' <=>
       TotalsOf(shares_filled', shares_attempted', notional_', fills', attempts')
<1>1. \A f : Sim!SumFunction(f) = SumFunction(f)
  BY SimFolds
<1>2. TotalsMatchFills <=> TotalsOf(shares_filled, shares_attempted, notional_, fills, attempts)
  BY <1>1 DEF TotalsMatchFills, Sim!TotalsMatchFills, TotalsOf, SharesIn, NotionalIn, TriedIn
<1>3. TotalsMatchFills' <=>
        TotalsOf(shares_filled', shares_attempted', notional_', fills', attempts')
  BY <1>1 DEF TotalsMatchFills, Sim!TotalsMatchFills, TotalsOf, SharesIn, NotionalIn, TriedIn
<1> QED BY <1>2, <1>3

\* fill() of one order: the two histories and the totals move together, also
\* when the fill queue is full.
LEMMA FillStep ==
  ASSUME ChainInv, NEW o \in Orders, Sim!Fill(o)
  PROVE  /\ fills' \in Seq(FillType) /\ attempts' \in Seq(AttemptType)
         /\ Sim!FilledOrders' \in Seq(Orders)
         /\ FillsRespectLimits' /\ TotalsMatchFills'
<1> DEFINE p == Sim!fill_price(o)
           pushed == p # 0 /\ Sim!has_room
           f == [side |-> o.side, price |-> p, shares |-> o.shares]
           a == [order |-> o, filled |-> pushed]
           n == IF pushed THEN o.shares ELSE 0
<1>1. o.shares \in Nat /\ o.side \in {"Buy", "Sell"} /\ o.price \in Nat
  BY GateAssumption, ChainAssumption
<1>2. /\ p \in Nat
      /\ p # 0 /\ ~o.market => IF o.side = "Buy" THEN p <= o.price ELSE p >= o.price
  BY FillPrice DEF ChainInv
<1>3. /\ fills \in Seq(FillType) /\ attempts \in Seq(AttemptType) /\ Sim!FilledOrders \in Seq(Orders)
  BY DEF ChainInv, SimType
<1>4. /\ shares_attempted' = (shares_attempted + o.shares) % ShareMod
      /\ fills' = IF pushed THEN Append(fills, f) ELSE fills
      /\ shares_filled' = (shares_filled + n) % ShareMod
      /\ notional_' = notional_ + p * n
      /\ attempts' = Append(attempts, a)
  BY DEF Sim!Fill, Sim!counts
<1>5. a \in AttemptType /\ a.order = o /\ (a.filled <=> pushed)
  BY DEF AttemptType
<1>6. pushed => f \in FillType
  BY <1>1, <1>2 DEF FillType
<1>7. f.side = o.side /\ f.price = p /\ f.shares = o.shares
  OBVIOUS
<1> HIDE DEF p, f, a
<1>8. attempts' \in Seq(AttemptType) /\ fills' \in Seq(FillType)
  BY <1>3, <1>4, <1>5, <1>6
<1>9. Sim!FilledOrders' = IF pushed THEN Append(Sim!FilledOrders, o) ELSE Sim!FilledOrders
  <2>1. Sim!FilledOrders = FoldAll(attempts, << >>)
    BY SimFolds
  <2>2. Sim!FilledOrders' = FoldAll(attempts', << >>)
    BY DEF Sim!FilledOrders, Sim!FoldLeft, Sim!MapThenFoldSet, Sim!Max, FoldAll, MapThenFoldSet,
       Max, Took
  <2>3. FoldAll(Append(attempts, a), << >>) = Took(a, FoldAll(attempts, << >>))
    BY <1>3, <1>5, FoldAppend
  <2>4. Took(a, Sim!FilledOrders) = IF pushed THEN Append(Sim!FilledOrders, o) ELSE Sim!FilledOrders
    BY <1>5 DEF Took, Sim!TakeFilled
  <2> QED BY <1>4, <2>1, <2>2, <2>3, <2>4
<1>10. Sim!FilledOrders' \in Seq(Orders)
  BY <1>3, <1>9
<1>11. FillsRespectLimits'
  <2>1. PICK os \in Seq(Orders) : os = Sim!FilledOrders
    BY <1>3
  <2>2. PICK fs \in Seq(FillType) : fs = fills
    BY <1>3
  <2>3. /\ Len(fs) = Len(os)
        /\ \A i \in 1 .. Len(fs) :
             /\ fs[i].side = os[i].side /\ fs[i].shares = os[i].shares /\ fs[i].price > 0
             /\ ~os[i].market => IF os[i].side = "Buy" THEN fs[i].price <= os[i].price
                                 ELSE fs[i].price >= os[i].price
    BY <2>1, <2>2 DEF ChainInv, FillsRespectLimits, Sim!FillsRespectLimits
  <2>4. CASE ~pushed
    <3>1. fills' = fs /\ Sim!FilledOrders' = os
      BY <1>4, <1>9, <2>1, <2>2, <2>4
    <3> QED BY <2>3, <3>1 DEF FillsRespectLimits, Sim!FillsRespectLimits
  <2>5. CASE pushed
    <3> DEFINE ft == Append(fs, f)
               ot == Append(os, o)
    <3>1. fills' = ft /\ Sim!FilledOrders' = ot
      BY <1>4, <1>9, <2>1, <2>2, <2>5
    <3>2. Len(ft) = Len(fs) + 1 /\ Len(ot) = Len(os) + 1 /\ Len(fs) \in Nat
      BY <1>6, <2>5
    <3>3. ASSUME NEW i \in 1 .. Len(ft)
          PROVE  /\ ft[i].side = ot[i].side /\ ft[i].shares = ot[i].shares /\ ft[i].price > 0
                 /\ ~ot[i].market => IF ot[i].side = "Buy" THEN ft[i].price <= ot[i].price
                                     ELSE ft[i].price >= ot[i].price
      <4>1. CASE i = Len(fs) + 1
        <5>1. ft[i] = f /\ ot[i] = o
          BY <1>6, <2>3, <2>5, <3>2, <4>1
        <5>2. p > 0
          BY <1>2, <2>5
        <5>3. f.price > 0 /\ (~o.market => IF o.side = "Buy" THEN f.price <= o.price
                                          ELSE f.price >= o.price)
          BY <1>2, <1>7, <2>5, <5>2
        <5> HIDE DEF ft, ot
        <5> QED BY <1>7, <5>1, <5>3
      <4>2. CASE i \in 1 .. Len(fs)
        <5>1. ft[i] = fs[i] /\ ot[i] = os[i]
          BY <1>6, <2>3, <2>5, <4>2
        <5> HIDE DEF ft, ot
        <5> QED BY <2>3, <4>2, <5>1
      <4>3. i = Len(fs) + 1 \/ i \in 1 .. Len(fs)
        BY <3>2
      <4> HIDE DEF ft, ot
      <4> QED BY <4>1, <4>2, <4>3
    <3> HIDE DEF ft, ot
    <3> QED BY <2>3, <3>1, <3>2, <3>3 DEF FillsRespectLimits, Sim!FillsRespectLimits
  <2> QED BY <2>4, <2>5
<1>12. TotalsMatchFills'
  <2>1. /\ shares_filled = SumFunction(SharesIn(fills)) % ShareMod
        /\ notional_ = SumFunction(NotionalIn(fills))
        /\ shares_attempted = SumFunction(TriedIn(attempts)) % ShareMod
    BY TotalsAre DEF ChainInv, TotalsOf
  <2>2. shares_attempted' = SumFunction(TriedIn(attempts')) % ShareMod
    <3>1. PICK x \in Nat : x = SumFunction(TriedIn(attempts))
      BY <1>3, <1>5, AttemptsLonger
    <3>2. SumFunction(TriedIn(attempts')) = x + o.shares
      BY <1>3, <1>4, <1>5, <3>1, AttemptsLonger
    <3>3. ((x % ShareMod) + o.shares) % ShareMod = (x + o.shares) % ShareMod
      BY <1>1, ChainAssumption, ModAdd
    <3> QED BY <1>4, <2>1, <3>1, <3>2, <3>3
  <2>3. CASE pushed
    <3>1. n = o.shares
      BY <2>3
    <3>2. PICK x \in Nat, y \in Nat :
            x = SumFunction(SharesIn(fills)) /\ y = SumFunction(NotionalIn(fills))
      BY <1>3, <1>6, <2>3, FillsLonger
    <3>3. /\ SumFunction(SharesIn(fills')) = x + o.shares
          /\ SumFunction(NotionalIn(fills')) = y + p * o.shares
      BY <1>3, <1>4, <1>6, <1>7, <2>3, <3>2, FillsLonger
    <3>4. ((x % ShareMod) + o.shares) % ShareMod = (x + o.shares) % ShareMod
      BY <1>1, ChainAssumption, ModAdd
    <3>5. shares_filled' = SumFunction(SharesIn(fills')) % ShareMod
      BY <1>4, <2>1, <3>1, <3>2, <3>3, <3>4
    <3>6. notional_' = SumFunction(NotionalIn(fills'))
      BY <1>4, <2>1, <3>1, <3>2, <3>3
    <3> QED BY <2>2, <3>5, <3>6, TotalsAre DEF TotalsOf
  <2>4. CASE ~pushed
    <3>1. n = 0 /\ fills' = fills
      BY <1>4, <2>4
    <3>2. [side |-> "Buy", price |-> 1, shares |-> 0] \in FillType
      BY DEF FillType
    <3>3. PICK x \in Nat, y \in Nat :
            x = SumFunction(SharesIn(fills)) /\ y = SumFunction(NotionalIn(fills))
      BY <1>3, <3>2, FillsLonger
    <3>4. ((x % ShareMod) + 0) % ShareMod = (x + 0) % ShareMod
      BY ChainAssumption, ModAdd
    <3>5. shares_filled' = x % ShareMod
      BY <1>4, <2>1, <3>1, <3>3, <3>4
    <3>6. notional_' = y
      BY <1>2, <1>4, <2>1, <3>1, <3>3
    <3> QED BY <2>2, <3>1, <3>3, <3>5, <3>6, TotalsAre DEF TotalsOf
  <2> QED BY <2>3, <2>4
<1> QED BY <1>8, <1>10, <1>11, <1>12

\* A step that evaluates no order leaves the fills, the histories and the
\* totals as they are.
LEMMA SimSame ==
  ASSUME UNCHANGED <<fills, shares_filled, shares_attempted, notional_, attempts>>
  PROVE  /\ Sim!FilledOrders' = Sim!FilledOrders
         /\ FillsRespectLimits => FillsRespectLimits'
         /\ TotalsMatchFills => TotalsMatchFills'
<1>1. Sim!FilledOrders' = Sim!FilledOrders
  BY DEF Sim!FilledOrders
<1>2. FillsRespectLimits => FillsRespectLimits'
  BY <1>1 DEF FillsRespectLimits, Sim!FillsRespectLimits
<1>3. TotalsMatchFills => TotalsMatchFills'
  BY TotalsAre
<1> QED BY <1>1, <1>2, <1>3

\* A chain that has done nothing.
LEMMA ChainInvInit == ChainInit => ChainInv
<1> SUFFICES ASSUME ChainInit PROVE ChainInv
  OBVIOUS
<1>1. Inv
  BY InitInv DEF ChainInit
<1>2. /\ fills = << >> /\ attempts = << >> /\ walked = 0 /\ accepted = << >>
      /\ bbo = [bid |-> 0, ask |-> 0] /\ last_trade_price = 0
      /\ shares_filled = 0 /\ shares_attempted = 0 /\ notional_ = 0
  BY DEF ChainInit, Init, Sim!Init
<1>3. Sim!FilledOrders = << >>
  <2>1. FoldAll(<< >>, << >>) = << >>
    BY FoldEmpty
  <2> QED BY <1>2, <2>1, SimFolds
<1>4. SimType
  BY <1>2, <1>3 DEF SimType
<1>5. FillsRespectLimits
  BY <1>2, <1>3 DEF FillsRespectLimits, Sim!FillsRespectLimits
<1>6. TotalsMatchFills
  <2>1. DOMAIN << >> = {}
    OBVIOUS
  <2>2. \A e : DOMAIN e = {} => SumFunction(e) = 0
    BY SumEmpty DEF SumFunction
  <2>3. /\ SumFunction(SharesIn(<< >>)) = 0 /\ SumFunction(NotionalIn(<< >>)) = 0
        /\ SumFunction(TriedIn(<< >>)) = 0
    <3>1. DOMAIN SharesIn(<< >>) = {} /\ DOMAIN NotionalIn(<< >>) = {} /\ DOMAIN TriedIn(<< >>) = {}
      BY <2>1 DEF SharesIn, NotionalIn, TriedIn
    <3> QED BY <2>2, <3>1
  <2>4. 0 % ShareMod = 0
    BY ChainAssumption
  <2> QED BY <1>2, <2>3, <2>4, TotalsAre DEF TotalsOf
<1> QED BY <1>1, <1>4, <1>5, <1>6 DEF ChainInv

\* Every step of the chain keeps the invariant.
LEMMA ChainInvStep == ChainInv /\ [ChainNext]_<<vars, simvars, walked>> => ChainInv'
<1> SUFFICES ASSUME ChainInv, [ChainNext]_<<vars, simvars, walked>> PROVE ChainInv'
  OBVIOUS
<1>1. Inv'
  BY ChainKeepsGate DEF ChainInv
<1>2. accepted \in Seq(Orders) /\ accepted' \in Seq(Orders)
  BY <1>1 DEF ChainInv, Inv, TypeOK
<1>3. SimType /\ walked \in Nat /\ walked <= Len(accepted)
  BY DEF ChainInv, SimType
<1>4. CASE HandOver
  <2>1. PICK o \in Orders : o = accepted[walked + 1] /\ Sim!Fill(o)
    BY <1>2, <1>3, <1>4 DEF HandOver
  <2>2. walked' \in Nat /\ walked' <= Len(accepted')
    BY <1>2, <1>3, <1>4 DEF HandOver, vars
  <2>3. bbo' = bbo /\ last_trade_price' = last_trade_price
    BY <2>1 DEF Sim!Fill
  <2>4. /\ fills' \in Seq(FillType) /\ attempts' \in Seq(AttemptType)
        /\ Sim!FilledOrders' \in Seq(Orders)
        /\ FillsRespectLimits' /\ TotalsMatchFills'
    BY <2>1, FillStep
  <2>5. SimType'
    BY <1>3, <2>2, <2>3, <2>4 DEF SimType
  <2> QED BY <1>1, <2>4, <2>5 DEF ChainInv
<1>5. CASE Gating \/ Market \/ Clear \/ UNCHANGED <<vars, simvars, walked>>
  <2>1. UNCHANGED <<fills, shares_filled, shares_attempted, notional_, attempts>>
    BY <1>5 DEF Gating, Market, Clear, simvars, Sim!OnBboChange, Sim!OnTradeTick
  <2>2. Sim!FilledOrders' = Sim!FilledOrders /\ FillsRespectLimits' /\ TotalsMatchFills'
    BY <2>1, SimSame DEF ChainInv
  <2>3. walked' \in Nat /\ walked' <= Len(accepted')
    <3>1. walked' = 0 \/ (walked' = walked /\ accepted' = accepted)
      BY <1>5 DEF Gating, Market, Clear, vars
    <3>2. Len(accepted') \in Nat
      BY <1>2
    <3> QED BY <1>3, <3>1, <3>2
  <2>4. /\ bbo'.bid \in Nat /\ bbo'.ask \in Nat /\ last_trade_price' \in Nat
    <3>1. CASE Market
      BY <1>3, <3>1, ChainAssumption DEF Market, Sim!OnBboChange, Sim!OnTradeTick, SimType
    <3>2. CASE ~Market
      BY <1>3, <1>5, <3>2 DEF Gating, Clear, simvars, SimType
    <3> QED BY <3>1, <3>2
  <2>5. SimType'
    BY <1>3, <2>1, <2>2, <2>3, <2>4 DEF SimType
  <2> QED BY <1>1, <2>2, <2>5 DEF ChainInv
<1> QED BY <1>4, <1>5 DEF ChainNext

\* However the market data, the batches and the caller's walk over the
\* accepted queue interleave, the fills are those of the orders that filled,
\* in order and in full, and no limit order fills at a price worse than its
\* limit or at no price.
THEOREM FillsTheorem == ChainSpec => []FillsRespectLimits
<1>1. ChainInv => FillsRespectLimits
  BY DEF ChainInv
<1> QED BY <1>1, ChainInvInit, ChainInvStep, PTL DEF ChainSpec

\* The totals behind fill_rate and vwap_price are those of the fills kept and
\* of the orders evaluated, for every capacity of the fill queue and every
\* width of the counters.
THEOREM TotalsTheorem == ChainSpec => []TotalsMatchFills
<1>1. ChainInv => TotalsMatchFills
  BY DEF ChainInv
<1> QED BY <1>1, ChainInvInit, ChainInvStep, PTL DEF ChainSpec

-----------------------------------------------------------------------------
(* The schedules.                                                          *)

\* What the constructors let through has at least one bin.
LEMMA Bins ==
  ASSUME NEW p \in Parents, Constructible(p), p.kind \in Scheduled
  PROVE  /\ p.total \in Nat /\ p.start \in Nat /\ p.end \in Nat /\ p.bin_ns \in Nat \ {0}
         /\ bin_count(p) \in Nat \ {0}
<1>1. p.start < p.end /\ p.bin_ns > 0 /\ bin_count(p) \in 1 .. kMaxScheduleBins
  BY DEF Constructible, Scheduled
<1>2. p.total \in Nat /\ p.start \in Nat /\ p.end \in Nat /\ p.bin_ns \in Nat
  BY StrategyAssumption DEF Scheduled
<1> QED BY <1>1, <1>2

\* Twap hands out every share, and never more than the parent has.
LEMMA TwapSums ==
  ASSUME NEW p \in Parents, Constructible(p), p.kind = "twap"
  PROVE  /\ \A i \in 1 .. bin_count(p) : schedule(p)[i] \in Nat
         /\ SumFunctionOnSet(schedule(p), 1 .. bin_count(p)) = p.total
<1> DEFINE n == bin_count(p)
           q == p.total \div n
           r == p.total % n
           F == [k \in 0 .. n |-> k * q + (IF k <= r THEN k ELSE r)]
<1>1. n \in Nat \ {0} /\ p.total \in Nat BY Bins DEF Scheduled
<1>3. schedule(p) = [i \in 1 .. n |-> q + (IF i <= r THEN 1 ELSE 0)]
  BY DEF schedule, twap_schedule
<1> HIDE DEF n
<1>2. q \in Nat /\ r \in Nat /\ r < n /\ p.total = n * q + r
  <2>1. q \in Nat /\ r \in Nat /\ r < n BY <1>1, DivNat
  <2>3. p.total \in Int BY <1>1
  <2>2. p.total = n * q + r BY <1>1, <2>3, DivDef, Zenon
  <2> QED BY <2>1, <2>2
<1> HIDE DEF q, r
<1>4. \A i \in 1 .. n : schedule(p)[i] \in Nat BY <1>1, <1>2, <1>3
<1>5. F[0] = 0 BY <1>1, <1>2
<1>6. ASSUME NEW k \in 0 .. n - 1 PROVE F[k + 1] = F[k] + schedule(p)[k + 1]
  <2>1. k \in 0 .. n /\ k + 1 \in 0 .. n /\ k + 1 \in 1 .. n BY <1>1
  <2>2. (k + 1) * q = k * q + q BY <1>1, <1>2
  <2>3. F[k + 1] = (k + 1) * q + (IF k + 1 <= r THEN k + 1 ELSE r) BY <2>1
  <2>4. F[k] = k * q + (IF k <= r THEN k ELSE r) BY <2>1
  <2>5. schedule(p)[k + 1] = q + (IF k + 1 <= r THEN 1 ELSE 0) BY <1>3, <2>1
  <2>6. PICK z \in Nat : z = k * q BY <1>1, <1>2
  <2>7. CASE k + 1 <= r
    <3>1. F[k + 1] = z + q + k + 1 /\ F[k] = z + k /\ schedule(p)[k + 1] = q + 1
      BY <1>1, <1>2, <2>2, <2>3, <2>4, <2>5, <2>6, <2>7
    <3> QED BY <1>1, <1>2, <3>1
  <2>8. CASE ~(k + 1 <= r)
    <3>1. F[k + 1] = z + q + r /\ F[k] = z + r /\ schedule(p)[k + 1] = q
      BY <1>1, <1>2, <2>2, <2>3, <2>4, <2>5, <2>6, <2>8
    <3>2. z + q + r = (z + r) + q BY <1>2
    <3> QED BY <3>1, <3>2, Zenon
  <2> QED BY <2>7, <2>8
<1>7. SumFunctionOnSet(schedule(p), 1 .. n) = F[n]
  <2>1. n \in Nat /\ n \in 0 .. n BY <1>1
  <2> HIDE DEF F
  <2>2. \A k \in 0 .. n - 1 : F[k + 1] = F[k] + schedule(p)[k + 1] BY <1>6
  <2>4. PICK f : f = schedule(p) OBVIOUS
  <2>5. PICK e : e = F OBVIOUS
  <2>6. /\ \A i \in 1 .. n : f[i] \in Nat
        /\ e[0] = 0 /\ \A k \in 0 .. n - 1 : e[k + 1] = e[k] + f[k + 1]
    BY <2>2, <2>4, <2>5, <1>4, <1>5
  <2>7. SumFunctionOnSet(f, 1 .. n) = e[n]
    BY <2>1, <2>6, SumClosed
  <2> QED BY <2>4, <2>5, <2>7
<1>8. F[n] = p.total BY <1>1, <1>2
<1> QED BY <1>4, <1>7, <1>8 DEF n


\* AlmgrenChriss hands out the larger of the parent's shares and of what the
\* rounding gave the leading bins.
LEMMA AlmgrenSums ==
  ASSUME NEW p \in Parents, Constructible(p), p.kind = "almgren_chriss"
  PROVE  /\ \A i \in 1 .. bin_count(p) : schedule(p)[i] \in Nat
         /\ rounded(p) \in Nat
         /\ SumFunctionOnSet(schedule(p), 1 .. bin_count(p)) =
              Max({p.total, (bin_count(p) - 1) * rounded(p)})
<1> DEFINE n == bin_count(p)
           r == rounded(p)
           last == Max({0, r + p.total - n * r})
           F == [k \in 0 .. n |-> IF k < n THEN k * r ELSE (n - 1) * r + last]
<1>1. n \in Nat \ {0} /\ p.total \in Nat BY Bins DEF Scheduled
<1>2. r \in Nat
  <2> HIDE DEF n
  <2>1. 2 * p.total + n \in Nat /\ 2 * n \in Nat \ {0} BY <1>1
  <2>2. PICK a \in Nat, c \in Nat \ {0} : a = 2 * p.total + n /\ c = 2 * n BY <2>1
  <2>3. r = a \div c BY <2>2 DEF n, rounded
  <2> QED BY <2>3, DivNat
<1>3. schedule(p) = [i \in 1 .. n |-> IF i < n THEN r ELSE last]
  BY DEF schedule, almgren_chriss_schedule
<1> HIDE DEF n, r
<1>4. PICK z \in Nat : z = (n - 1) * r BY <1>1, <1>2
<1>5. n * r = z + r BY <1>1, <1>2, <1>4
<1>6. last = IF z <= p.total THEN p.total - z ELSE 0
  <2>1. PICK T \in Nat : T = p.total BY <1>1
  <2>2. r + T - n * r = T - z BY <1>2, <1>5
  <2>3. PICK y \in Int : y = T - z OBVIOUS
  <2>4. Max({0, y}) = IF 0 >= y THEN 0 ELSE y BY MinMaxPair
  <2>5. last = Max({0, y}) BY <2>1, <2>2, <2>3
  <2> QED BY <2>1, <2>3, <2>4, <2>5
<1>7. last \in Nat /\ z + last = Max({p.total, z})
  <2>1. PICK T \in Nat : T = p.total BY <1>1
  <2>2. Max({T, z}) = IF T >= z THEN T ELSE z BY MinMaxPair
  <2> HIDE DEF last
  <2> QED BY <1>6, <2>1, <2>2
<1> HIDE DEF last
<1>8. \A i \in 1 .. n : schedule(p)[i] \in Nat BY <1>2, <1>3, <1>7
<1>9. SumFunctionOnSet(schedule(p), 1 .. n) = F[n]
  <2>1. F[0] = 0 BY <1>1, <1>2
  <2>2. ASSUME NEW k \in 0 .. n - 1 PROVE F[k + 1] = F[k] + schedule(p)[k + 1]
    <3>1. k \in 0 .. n /\ k + 1 \in 0 .. n /\ k + 1 \in 1 .. n /\ k < n BY <1>1
    <3>2. PICK y \in Nat : y = k * r BY <1>1, <1>2
    <3>3. (k + 1) * r = y + r BY <1>1, <1>2, <3>2
    <3>4. F[k] = y BY <3>1, <3>2
    <3>5. CASE k + 1 < n
      <4>1. F[k + 1] = y + r /\ schedule(p)[k + 1] = r BY <1>3, <3>1, <3>3, <3>5
      <4> QED BY <3>4, <4>1
    <3>6. CASE ~(k + 1 < n)
      <4>1. k = n - 1 BY <1>1, <3>6
      <4>2. F[k + 1] = y + last /\ schedule(p)[k + 1] = last BY <1>3, <3>1, <3>2, <3>6, <4>1
      <4> QED BY <3>4, <4>2
    <3> QED BY <3>5, <3>6
  <2>3. PICK f, e : f = schedule(p) /\ e = F OBVIOUS
  <2> HIDE DEF F
  <2>4. /\ \A i \in 1 .. n : f[i] \in Nat
        /\ e[0] = 0 /\ \A k \in 0 .. n - 1 : e[k + 1] = e[k] + f[k + 1]
    BY <1>8, <2>1, <2>2, <2>3
  <2>5. n \in Nat BY <1>1
  <2>6. SumFunctionOnSet(f, 1 .. n) = e[n] BY <2>4, <2>5, SumClosed
  <2> QED BY <2>3, <2>6
<1>10. F[n] = z + last BY <1>1, <1>4
<1> QED BY <1>2, <1>4, <1>7, <1>8, <1>9, <1>10 DEF n, r

\* What the rounding gives the leading bins of an AlmgrenChriss exceeds the
\* parent by no more than Overshoot allows.
LEMMA RoundingBound ==
  ASSUME NEW p \in Parents, Constructible(p), p.kind = "almgren_chriss"
  PROVE  2 * bin_count(p) * ((bin_count(p) - 1) * rounded(p) - p.total)
           <= bin_count(p) * (bin_count(p) - 1) - 2 * p.total
<1> DEFINE n == bin_count(p)
           r == rounded(p)
           m == n - 1
<1>1. n \in Nat \ {0} /\ p.total \in Nat BY Bins DEF Scheduled
<1>2. r \in Nat BY AlmgrenSums
<1>3. PICK T \in Nat : T = p.total BY <1>1
<1>5. 2 * n * r <= 2 * T + n
  <2> HIDE DEF n
  <2>1. PICK a \in Nat, c \in Nat \ {0} : a = 2 * p.total + n /\ c = 2 * n BY <1>1
  <2>2. r = a \div c BY <2>1 DEF n, rounded
  <2>3. c * r <= a BY <2>1, <2>2, DivNat
  <2> QED BY <1>3, <2>1, <2>3
<1> HIDE DEF n, r
<1>6. m \in Nat BY <1>1
<1>7. 2 * n * (m * r) <= m * (2 * T + n)
  <2>1. PICK x \in Nat, y \in Nat : x = 2 * n * r /\ y = 2 * T + n BY <1>1, <1>2
  <2>2. m * x <= m * y BY <1>5, <1>6, <2>1, TimesMono
  <2>3. m * (2 * n * r) = 2 * n * (m * r) BY <1>1, <1>2, <1>6
  <2> QED BY <2>1, <2>2, <2>3
<1>8. m * (2 * T + n) = 2 * n * T - 2 * T + n * m
  <2>1. m * (2 * T + n) = m * (2 * T) + n * m BY <1>1, <1>6
  <2>2. m * (2 * T) = n * (2 * T) - 2 * T BY <1>1
  <2> QED BY <1>1, <2>1, <2>2
<1>9. 2 * n * (m * r - T) <= n * m - 2 * T
  <2>1. PICK x \in Nat, y \in Nat, w \in Nat :
          x = 2 * n * (m * r) /\ y = 2 * n * T /\ w = n * m
    BY <1>1, <1>2, <1>6
  <2>2. x <= y - 2 * T + w BY <1>7, <1>8, <2>1
  <2>3. 2 * n * (m * r - T) = x - y
    <3>1. PICK u \in Nat, c \in Nat : u = m * r /\ c = 2 * n BY <1>1, <1>2, <1>6
    <3>2. c * (u - T) = c * u - c * T BY <3>1
    <3> QED BY <2>1, <3>1, <3>2
  <2> QED BY <2>1, <2>2, <2>3
<1> QED BY <1>3, <1>9 DEF n, r

\* The bound is for what was handed over as well, whatever part that is of the
\* excess.
LEMMA LessOvershoot ==
  ASSUME NEW n \in Nat \ {0}, NEW x \in Nat, NEW y \in Nat, x <= y, NEW c \in Int,
         2 * n * y <= c
  PROVE  2 * n * x <= c
<1>1. PICK k \in Nat : k = 2 * n OBVIOUS
<1>2. k * x <= k * y BY <1>1, TimesMono
<1>3. PICK u \in Nat, v \in Nat : u = k * x /\ v = k * y BY <1>1
<1> QED BY <1>1, <1>2, <1>3

\* Either schedule hands out all of the parent's shares, and no more than the
\* rounding accounts for.
LEMMA ScheduleSums ==
  ASSUME NEW p \in Parents, Constructible(p), p.kind \in Scheduled
  PROVE  LET S == SumFunctionOnSet(schedule(p), 1 .. bin_count(p))
         IN  /\ \A i \in 1 .. bin_count(p) : schedule(p)[i] \in Nat
             /\ S \in Nat /\ S >= p.total /\ Overshoot(p, S - p.total)
<1> DEFINE S == SumFunctionOnSet(schedule(p), 1 .. bin_count(p))
<1>0. bin_count(p) \in Nat \ {0} /\ p.total \in Nat BY Bins
<1>1. CASE p.kind = "twap"
  <2>1. S = p.total /\ \A i \in 1 .. bin_count(p) : schedule(p)[i] \in Nat BY <1>1, TwapSums
  <2> HIDE DEF S
  <2>2. S \in Nat /\ S >= p.total /\ S - p.total = 0 BY <1>0, <2>1
  <2> QED BY <2>1, <2>2 DEF Overshoot, S
<1>2. CASE p.kind = "almgren_chriss"
  <2>1. PICK n \in Nat \ {0}, r \in Nat, T \in Nat :
          n = bin_count(p) /\ r = rounded(p) /\ T = p.total
    BY <1>0, <1>2, AlmgrenSums
  <2>2. PICK z \in Nat : z = (n - 1) * r
    BY <2>1
  <2>3. S = Max({T, z}) /\ \A i \in 1 .. bin_count(p) : schedule(p)[i] \in Nat
    BY <1>2, <2>1, <2>2, AlmgrenSums
  <2>4. Max({T, z}) = IF T >= z THEN T ELSE z BY MinMaxPair
  <2> HIDE DEF S
  <2>5. CASE T >= z
    <3>1. S \in Nat /\ S >= T /\ S - T = 0 BY <2>3, <2>4, <2>5
    <3> QED BY <2>1, <2>3, <3>1 DEF Overshoot, S
  <2>6. CASE ~(T >= z)
    <3>1. S = z /\ S \in Nat /\ S >= T BY <2>3, <2>4, <2>6
    <3>2. 2 * n * (z - T) <= n * (n - 1) - 2 * T BY <1>2, <2>1, <2>2, RoundingBound
    <3>3. Overshoot(p, S - p.total) BY <1>2, <2>1, <3>1, <3>2 DEF Overshoot
    <3> QED BY <2>1, <2>3, <3>1, <3>3 DEF S
  <2> QED BY <2>5, <2>6
<1> QED BY <1>1, <1>2 DEF Scheduled


-----------------------------------------------------------------------------
(* The volume curve.                                                       *)

\* The partial sums of the weights rise.
LEMMA RunningRises ==
  /\ \A i \in 0 .. 13 : running(i) \in Nat
  /\ \A i, j \in 0 .. 13 : i <= j => running(i) <= running(j)
  /\ running(13) > 0
<1>1. \A i \in 1 .. 13 : kRelativeWeights[i] \in Nat BY DEF kRelativeWeights
<1>2. kRelativeWeights[1] > 0 BY DEF kRelativeWeights
<1> HIDE DEF kRelativeWeights
<1>3. \A i \in 0 .. 13 : IsFiniteSet(1 .. i) /\ 1 .. i \subseteq 1 .. 13
  <2> TAKE i \in 0 .. 13
  <2>1. IsFiniteSet(1 .. i) BY FS_Interval
  <2> QED BY <2>1
<1>4. ASSUME NEW i \in 0 .. 13 PROVE running(i) \in Nat
  <2>1. \A x \in 1 .. i : kRelativeWeights[x] \in Nat BY <1>1, <1>3
  <2>2. IsFiniteSet(1 .. i) BY <1>3
  <2> QED BY <2>1, <2>2, SumNat DEF running
<1>5. ASSUME NEW i \in 0 .. 13, NEW j \in 0 .. 13, i <= j PROVE running(i) <= running(j)
  <2>1. \A x \in 1 .. j : kRelativeWeights[x] \in Nat BY <1>1, <1>3
  <2>2. IsFiniteSet(1 .. j) BY <1>3
  <2>3. 1 .. i \in SUBSET (1 .. j) BY <1>5
  <2> QED BY <2>1, <2>2, <2>3, SumPart DEF running
<1>6. running(0 + 1) = running(0) + kRelativeWeights[0 + 1]
  <2>1. \A x \in 1 .. 0 + 1 : kRelativeWeights[x] \in Nat BY <1>1
  <2> QED BY <2>1, SumNext DEF running
<1>7. running(1) = kRelativeWeights[1]
  <2>1. running(0) = 0 BY SumNone DEF running
  <2>2. kRelativeWeights[1] \in Nat BY <1>1
  <2>3. 0 + 1 = 1 OBVIOUS
  <2> QED BY <1>6, <2>1, <2>2, <2>3
<1>8. running(1) <= running(13) BY <1>5
<1>9. running(13) > 0 BY <1>2, <1>4, <1>7, <1>8
<1> QED BY <1>4, <1>5, <1>9

\* cumulative_ rises to kCurveScale.
LEMMA CurveRises ==
  /\ \A i \in 0 .. 12 : cumulative_weight[i] \in Nat
  /\ \A i, j \in 0 .. 12 : i <= j => cumulative_weight[i] <= cumulative_weight[j]
  /\ cumulative_weight[12] = kCurveScale
<1> DEFINE R == running(13)
           W(i) == 2 * running(i + 1) * kCurveScale + R
           D == 2 * R
<1>1. kVolumeCurveBuckets = 13 /\ kCurveScale \in Nat \ {0}
  BY DEF kVolumeCurveBuckets, kCurveScale
<1>2. cumulative_weight = [i \in 0 .. 12 |-> IF i = 12 THEN kCurveScale ELSE W(i) \div D]
  BY <1>1 DEF cumulative_weight
<1>3. R \in Nat \ {0} /\ D \in Nat \ {0} BY RunningRises
<1>4. ASSUME NEW i \in 0 .. 12 PROVE running(i + 1) \in Nat /\ W(i) \in Nat
  <2>1. running(i + 1) \in Nat BY RunningRises
  <2>2. PICK x \in Nat : x = running(i + 1) BY <2>1
  <2>3. 2 * x * kCurveScale \in Nat BY <1>1
  <2> QED BY <1>3, <2>2, <2>3
<1>5. ASSUME NEW i \in 0 .. 12, NEW j \in 0 .. 12, i <= j PROVE W(i) <= W(j)
  <2>1. PICK x \in Nat, y \in Nat : x = running(i + 1) /\ y = running(j + 1) BY <1>4
  <2>2. x <= y
    <3>1. i + 1 \in 0 .. 13 /\ j + 1 \in 0 .. 13 /\ i + 1 <= j + 1 BY <1>5
    <3> QED BY <2>1, <3>1, RunningRises
  <2>3. PICK k \in Nat : k = kCurveScale BY <1>1
  <2>4. k * (2 * x) <= k * (2 * y)
    <3>1. 2 * x \in Int /\ 2 * y \in Int /\ 2 * x <= 2 * y BY <2>2
    <3> QED BY <3>1, TimesMono
  <2>5. 2 * x * k = k * (2 * x) /\ 2 * y * k = k * (2 * y) OBVIOUS
  <2>6. 2 * x * k + R <= 2 * y * k + R BY <1>3, <2>4, <2>5
  <2> QED BY <2>1, <2>3, <2>6
<1>6. W(12) \div D = kCurveScale
  <2>1. PICK k \in Nat : k = kCurveScale BY <1>1
  <2>2. W(12) = 2 * R * k + R BY <2>1
  <2>3. 2 * R * k + R = D * k + R OBVIOUS
  <2>4. R \in 0 .. D - 1 BY <1>3
  <2>5. PICK w \in Int : w = W(12) BY <1>4
  <2>6. w = D * k + R BY <2>2, <2>3, <2>5
  <2> HIDE DEF D, R
  <2>7. w \div D = k BY <1>3, <2>4, <2>6, DivUnique
  <2> QED BY <2>1, <2>5, <2>7
<1> HIDE DEF W, D
<1>7. \A i \in 0 .. 12 : cumulative_weight[i] = W(i) \div D BY <1>2, <1>6
<1>8. \A i \in 0 .. 12 : cumulative_weight[i] \in Nat BY <1>3, <1>4, <1>7, DivNat
<1>9. ASSUME NEW i \in 0 .. 12, NEW j \in 0 .. 12, i <= j
      PROVE  cumulative_weight[i] <= cumulative_weight[j]
  <2>1. W(i) \in Int /\ W(j) \in Int /\ W(i) <= W(j) BY <1>4, <1>5, <1>9
  <2>2. W(i) \div D <= W(j) \div D BY <1>3, <2>1, DivMono
  <2> QED BY <1>7, <2>2
<1>10. cumulative_weight[12] = kCurveScale BY <1>2
<1> QED BY <1>8, <1>9, <1>10

\* Where a moment lies: index buckets and a part of the next, which is the
\* whole only at the end of the window.
LEMMA Position ==
  ASSUME NEW e \in Nat, NEW s \in Nat \ {0}
  PROVE  /\ bucket_position(e, s).index \in 0 .. 12
         /\ bucket_position(e, s).remainder \in 0 .. s
         /\ s * bucket_position(e, s).index + bucket_position(e, s).remainder =
              13 * (IF e >= s THEN s ELSE e)
         /\ bucket_position(e, s).remainder = s => bucket_position(e, s).index = 12
         /\ e >= s => bucket_position(e, s) = [index |-> 12, remainder |-> s]
<1> DEFINE pos == bucket_position(e, s)
<1>1. kVolumeCurveBuckets = 13 BY DEF kVolumeCurveBuckets
<1>2. CASE e >= s
  <2>1. pos = [index |-> 12, remainder |-> s] BY <1>1, <1>2 DEF bucket_position
  <2>2. pos.index = 12 /\ pos.remainder = s BY <2>1
  <2>3. s * 12 + s = 13 * s OBVIOUS
  <2> QED BY <1>2, <2>1, <2>2, <2>3
<1>3. CASE ~(e >= s)
  <2>1. PICK a \in Nat : a = e * 13 OBVIOUS
  <2>2. pos = [index |-> Min({a \div s, 12}), remainder |-> a % s]
    BY <1>1, <1>3, <2>1 DEF bucket_position
  <2>3. PICK q \in Nat, r \in Nat : q = a \div s /\ r = a % s BY DivNat
  <2>4. r < s /\ a = s * q + r
    <3>1. a \in Int OBVIOUS
    <3>2. a = s * (a \div s) + (a % s) BY <3>1, DivDef, Zenon
    <3>3. a % s < s BY DivNat
    <3> QED BY <2>3, <3>2, <3>3
  <2>5. q <= 12
    <3> SUFFICES ASSUME q >= 13 PROVE FALSE OBVIOUS
    <3>1. s * 13 <= s * q BY TimesMono
    <3>2. PICK z \in Nat : z = s * q OBVIOUS
    <3> QED BY <1>3, <2>1, <2>4, <3>1, <3>2
  <2>6. Min({q, 12}) = q BY <2>5, MinMaxPair
  <2>7. pos.index = q /\ pos.remainder = r BY <2>2, <2>3, <2>6
  <2>8. s * q + r = 13 * e BY <2>1, <2>4
  <2> HIDE DEF pos
  <2>9. pos.index \in 0 .. 12 /\ pos.remainder \in 0 .. s /\ pos.remainder # s BY <2>4, <2>5, <2>7
  <2> QED BY <1>3, <2>7, <2>8, <2>9 DEF pos
<1> QED BY <1>2, <1>3


\* The curve before a bucket, and after a part of it.
CurveBefore(i) == IF i = 0 THEN 0 ELSE cumulative_weight[i - 1]
CurveAt(i, r, s) == CurveBefore(i) + ((cumulative_weight[i] - CurveBefore(i)) * r) \div s

\* It lies between its values at the two ends of the bucket and rises in
\* between.
LEMMA CurveWithin ==
  ASSUME NEW i \in 0 .. 12, NEW s \in Nat \ {0}, NEW r \in 0 .. s
  PROVE  /\ CurveAt(i, r, s) \in Nat
         /\ CurveBefore(i) \in Nat
         /\ CurveBefore(i) <= CurveAt(i, r, s) /\ CurveAt(i, r, s) <= cumulative_weight[i]
         /\ \A t \in 0 .. s : r <= t => CurveAt(i, r, s) <= CurveAt(i, t, s)
         /\ r = s => CurveAt(i, r, s) = cumulative_weight[i]
<1>1. PICK b \in Nat, c \in Nat : b = CurveBefore(i) /\ c = cumulative_weight[i] /\ b <= c
  <2>1. CASE i = 0 BY <2>1, CurveRises DEF CurveBefore
  <2>2. CASE i # 0
    <3>1. i - 1 \in 0 .. 12 /\ i - 1 <= i BY <2>2
    <3> QED BY <2>2, <3>1, CurveRises DEF CurveBefore
  <2> QED BY <2>1, <2>2
<1>2. PICK d \in Nat : d = c - b BY <1>1
<1> DEFINE X(t) == (d * t) \div s
<1>3. \A t \in 0 .. s : CurveAt(i, t, s) = b + X(t) BY <1>1, <1>2 DEF CurveAt
<1>4. ASSUME NEW t \in 0 .. s PROVE X(t) \in Nat
  <2>1. PICK a \in Nat : a = d * t OBVIOUS
  <2> QED BY <2>1, DivNat
<1>5. ASSUME NEW t \in 0 .. s, NEW u \in 0 .. s, t <= u PROVE X(t) <= X(u)
  <2>1. d * t <= d * u BY <1>5, TimesMono
  <2>2. PICK a \in Int, e \in Int : a = d * t /\ e = d * u OBVIOUS
  <2>3. a \div s <= e \div s BY <2>1, <2>2, DivMono
  <2> QED BY <2>2, <2>3
<1>6. X(s) = d
  <2>1. d \in Int OBVIOUS
  <2> QED BY <2>1, DivMultiple
<1> HIDE DEF X
<1>7. X(r) \in Nat /\ X(r) <= d
  <2>1. s \in 0 .. s /\ r <= s OBVIOUS
  <2> QED BY <1>4, <1>5, <1>6, <2>1
<1>8. ASSUME NEW t \in 0 .. s, r <= t PROVE CurveAt(i, r, s) <= CurveAt(i, t, s)
  <2>1. X(r) <= X(t) /\ X(t) \in Nat BY <1>4, <1>5, <1>8
  <2> QED BY <1>3, <1>7, <2>1
<1>9. CurveAt(i, r, s) = b + X(r) BY <1>3
<1>10. r = s => CurveAt(i, r, s) = c BY <1>2, <1>6, <1>9
<1> QED BY <1>1, <1>2, <1>7, <1>8, <1>9, <1>10

\* The curve at a moment of the window.
Curve(e, s) == CurveAt(bucket_position(e, s).index, bucket_position(e, s).remainder, s)

\* A later moment has no less of the curve behind it, and the end has all.
LEMMA CurveMono ==
  ASSUME NEW e \in Nat, NEW f \in Nat, e <= f, NEW s \in Nat \ {0}
  PROVE  Curve(e, s) \in Nat /\ Curve(e, s) <= Curve(f, s) /\ Curve(s, s) = kCurveScale
<1>1. PICK i \in 0 .. 12, r \in 0 .. s :
        /\ i = bucket_position(e, s).index /\ r = bucket_position(e, s).remainder
        /\ s * i + r = 13 * (IF e >= s THEN s ELSE e)
        /\ r = s => i = 12
  BY Position
<1>2. PICK j \in 0 .. 12, t \in 0 .. s :
        /\ j = bucket_position(f, s).index /\ t = bucket_position(f, s).remainder
        /\ s * j + t = 13 * (IF f >= s THEN s ELSE f)
        /\ t = s => j = 12
  BY Position
<1>3. Curve(e, s) = CurveAt(i, r, s) /\ Curve(f, s) = CurveAt(j, t, s) BY <1>1, <1>2 DEF Curve
<1>4. s * i + r <= s * j + t
  <2>1. PICK x \in Int, y \in Int : x = s * i + r /\ y = s * j + t OBVIOUS
  <2>2. x <= y BY <1>1, <1>2, <2>1
  <2> QED BY <2>1, <2>2
<1>5. /\ CurveAt(i, r, s) \in Nat /\ CurveAt(j, t, s) \in Nat
      /\ CurveAt(i, r, s) <= cumulative_weight[i]
      /\ CurveBefore(j) <= CurveAt(j, t, s) /\ CurveBefore(j) \in Nat
      /\ cumulative_weight[i] \in Nat
  BY CurveWithin, CurveRises
<1>9. Curve(e, s) <= Curve(f, s)
  <2>1. CASE i = j
    <3>1. PICK z \in Nat : z = s * i OBVIOUS
    <3>2. r <= t BY <1>4, <2>1, <3>1
    <3> QED BY <1>3, <2>1, <3>2, CurveWithin
  <2>2. CASE i < j
    <3>1. CurveBefore(j) = cumulative_weight[j - 1] BY <2>2 DEF CurveBefore
    <3>2. j - 1 \in 0 .. 12 /\ i <= j - 1 BY <2>2
    <3>3. cumulative_weight[i] <= cumulative_weight[j - 1] BY <3>2, CurveRises
    <3> QED BY <1>3, <1>5, <3>1, <3>3
  <2>3. CASE i > j
    <3>1. s * (j + 1) <= s * i BY <2>3, TimesMono
    <3>2. s * (j + 1) = s * j + s BY Distributes
    <3>3. PICK x \in Nat, y \in Nat : x = s * i /\ y = s * j OBVIOUS
    <3>4. t = s BY <1>4, <3>1, <3>2, <3>3
    <3> QED BY <1>2, <2>3, <3>4
  <2> QED BY <2>1, <2>2, <2>3
<1>10. Curve(s, s) = kCurveScale
  <2>1. bucket_position(s, s) = [index |-> 12, remainder |-> s] BY Position
  <2>2. Curve(s, s) = CurveAt(12, s, s) BY <2>1 DEF Curve
  <2>3. 12 \in 0 .. 12 /\ s \in 0 .. s OBVIOUS
  <2>4. CurveAt(12, s, s) = cumulative_weight[12] BY <2>3, CurveWithin
  <2> QED BY <2>2, <2>4, CurveRises
<1> QED BY <1>3, <1>5, <1>9, <1>10

\* What the constructor of Vwap lets through has a window.
LEMMA VwapWindow ==
  ASSUME NEW p \in Parents, Constructible(p), p.kind = "vwap"
  PROVE  p.total \in Nat /\ p.start \in Nat /\ p.end \in Nat /\ p.start < p.end
<1>1. p.start < p.end BY DEF Constructible, Scheduled
<1>2. p.total \in Nat /\ p.start \in Nat /\ p.end \in Nat BY StrategyAssumption
<1> QED BY <1>1, <1>2

\* The target of a Vwap rises to the whole parent and never passes it.
LEMMA TargetRises ==
  ASSUME NEW p \in Parents, Constructible(p), p.kind = "vwap",
         NEW t \in p.start .. p.end, NEW u \in p.start .. p.end, t <= u
  PROVE  /\ target_shares(p, t) \in 0 .. p.total
         /\ target_shares(p, t) <= target_shares(p, u)
         /\ target_shares(p, p.end) = p.total
<1> DEFINE s == p.end - p.start
           T(v) == (p.total * Curve(v - p.start, s)) \div kCurveScale
<1>1. /\ p.total \in Nat /\ p.start \in Nat /\ p.end \in Nat /\ p.start < p.end
      /\ t \in Nat /\ u \in Nat
  BY VwapWindow
<1>2. s \in Nat \ {0} BY <1>1
<1>3. kCurveScale \in Nat \ {0} BY DEF kCurveScale
<1>4. ASSUME NEW v \in p.start .. p.end
      PROVE  target_shares(p, v) = Min({p.total, T(v)}) /\ T(v) \in Nat
  <2>1. target_shares(p, v) = Min({p.total, T(v)})
    BY DEF target_shares, Curve, CurveAt, CurveBefore
  <2>2. v - p.start \in Nat BY <1>1
  <2>3. Curve(v - p.start, s) \in Nat BY <1>2, <2>2, CurveMono
  <2>4. PICK a \in Nat : a = p.total * Curve(v - p.start, s) BY <1>1, <2>3
  <2>5. a \div kCurveScale \in Nat BY <1>3, DivNat
  <2> QED BY <2>1, <2>4, <2>5
<1>5. T(t) <= T(u)
  <2>1. t - p.start \in Nat /\ u - p.start \in Nat /\ t - p.start <= u - p.start BY <1>1
  <2>2. PICK x \in Nat, y \in Nat : x = Curve(t - p.start, s) /\ y = Curve(u - p.start, s)
    BY <1>2, <2>1, CurveMono
  <2>3. x <= y BY <1>2, <2>1, <2>2, CurveMono
  <2>4. p.total * x <= p.total * y BY <1>1, <2>3, TimesMono
  <2>5. PICK a \in Int, b \in Int : a = p.total * x /\ b = p.total * y BY <1>1
  <2>6. a \div kCurveScale <= b \div kCurveScale BY <1>3, <2>4, <2>5, DivMono
  <2> QED BY <2>2, <2>5, <2>6
<1>6. T(p.end) = p.total
  <2>1. Curve(s, s) = kCurveScale
    <3>1. s \in Nat /\ s <= s BY <1>2
    <3> QED BY <1>2, <3>1, CurveMono
  <2>2. (p.total * kCurveScale) \div kCurveScale = p.total
    <3>1. p.total \in Int BY <1>1
    <3> QED BY <1>3, <3>1, DivMultiple
  <2> QED BY <2>1, <2>2
<1> HIDE DEF T
<1>7. p.end \in p.start .. p.end BY <1>1
<1>8. T(t) \in Nat /\ T(u) \in Nat /\ T(p.end) \in Nat BY <1>4, <1>7
<1>9. ASSUME NEW v \in p.start .. p.end, T(v) \in Nat
      PROVE  target_shares(p, v) = IF p.total <= T(v) THEN p.total ELSE T(v)
  <2>1. PICK a \in Int, b \in Int : a = p.total /\ b = T(v) BY <1>1, <1>9
  <2>2. Min({a, b}) = IF a <= b THEN a ELSE b BY MinMaxPair
  <2> QED BY <1>4, <2>1, <2>2
<1>10. target_shares(p, t) = IF p.total <= T(t) THEN p.total ELSE T(t) BY <1>8, <1>9
<1>11. target_shares(p, u) = IF p.total <= T(u) THEN p.total ELSE T(u) BY <1>8, <1>9
<1>12. target_shares(p, p.end) = p.total BY <1>1, <1>6, <1>7, <1>8, <1>9
<1> QED BY <1>1, <1>5, <1>8, <1>10, <1>11, <1>12

-----------------------------------------------------------------------------
(* The strategies, step by step.                                           *)

Handed(k) == SumFunctionOnSet(schedule(par), 1 .. k)

\* A scheduled strategy has emitted exactly its first bins, and the boundary
\* of the last of them was shown to it; Vwap has emitted what it counts as
\* sent, never beyond its target at the latest moment of the window it saw;
\* Pov counts what it could not push as well.
ScheduledInv ==
  /\ next_bin \in 0 .. bin_count(par) /\ sent = 0
  /\ emitted = Handed(next_bin)
  /\ next_bin > 0 => boundary(par, next_bin) <= clock

VwapInv ==
  /\ emitted = sent /\ sent \in 0 .. par.total
  /\ sent > 0 => /\ par.start <= clock
                 /\ sent <= target_shares(par, IF clock <= par.end THEN clock ELSE par.end)

PovInv == sent \in 0 .. par.total /\ emitted \in 0 .. sent

StrategyInv ==
  /\ par \in Parents /\ Constructible(par)
  /\ queue \in Seq(Nat) /\ Len(queue) <= kMaxChildOrders
  /\ clock \in Nat /\ next_bin \in Nat /\ emitted \in Nat
  /\ par.kind \in Scheduled => ScheduledInv
  /\ par.kind = "vwap" => VwapInv
  /\ par.kind = "pov" => PovInv

\* The latest timestamp is one of the two.
LEMMA LatestShown ==
  ASSUME StrategyInv, NEW ts \in Time, Shown(ts)
  PROVE  ts \in Nat /\ clock' \in Nat /\ clock <= clock' /\ ts <= clock' /\ par' = par
         /\ clock' \in {clock, ts}
<1>1. ts \in Nat /\ clock \in Nat BY StrategyAssumption DEF StrategyInv
<1>2. clock' = Max({clock, ts}) /\ par' = par BY DEF Shown
<1>3. Max({clock, ts}) = IF clock >= ts THEN clock ELSE ts BY <1>1, MinMaxPair
<1> QED BY <1>1, <1>2, <1>3

\* The bins that advance() crosses follow one another.
LEMMA CrossedIsInterval ==
  ASSUME NEW now \in Nat, NEW p \in Parents, par = p, Constructible(p), p.kind \in Scheduled,
         next_bin \in 0 .. bin_count(p), queue \in Seq(Nat)
  PROVE  \E c \in Nat :
           /\ Crossed(now) = next_bin + 1 .. next_bin + c /\ Cardinality(Crossed(now)) = c
           /\ next_bin + c <= bin_count(p)
           /\ c > 0 => /\ boundary(p, next_bin + c) <= now
                       /\ Len(queue) + c <= kMaxChildOrders
<1> DEFINE n == bin_count(p)
           C == Crossed(now)
<1>1. n \in Nat \ {0} /\ p.start \in Nat /\ p.bin_ns \in Nat \ {0} /\ next_bin \in Nat BY Bins
<1>2. C \subseteq 1 .. n /\ \A i \in C : next_bin + 1 <= i BY <1>1 DEF Crossed
<1>3. Len(queue) \in Nat /\ kMaxChildOrders \in Nat BY QueueAssumption, LenProperties
<1>4. CASE C = {}
  <2>1. C = next_bin + 1 .. next_bin + 0 BY <1>1, <1>4
  <2>2. Cardinality(C) = 0 BY <1>4, FS_EmptySet
  <2>3. next_bin + 0 <= n BY <1>1
  <2> HIDE DEF C
  <2>4. \E c \in Nat : /\ C = next_bin + 1 .. next_bin + c /\ Cardinality(C) = c
                       /\ next_bin + c <= n /\ ~(c > 0)
    BY <2>1, <2>2, <2>3
  <2> QED BY <2>4 DEF C
<1>5. CASE C # {}
  <2>1. n \in Nat BY <1>1
  <2>2. Max(C) \in C /\ \A y \in C : y <= Max(C) BY <1>2, <1>5, <2>1, MaxOf
  <2>3. PICK m \in C : \A y \in C : y <= m BY <2>2
  <2>4. m \in next_bin + 1 .. n /\ boundary(p, m) <= now
        /\ Len(queue) + m - next_bin <= kMaxChildOrders
    BY <2>3 DEF Crossed
  <2>5. ASSUME NEW i \in next_bin + 1 .. m PROVE i \in C
    <3>1. i \in next_bin + 1 .. n BY <1>1, <2>4
    <3>2. boundary(p, i) <= now
      <4>1. PICK b \in Nat : b = p.bin_ns BY <1>1
      <4>2. b * i <= b * m BY <1>1, <2>4, TimesMono
      <4>3. i * b = b * i /\ m * b = b * m BY <1>1, <2>4
      <4>4. PICK x \in Int, y \in Int : x = i * b /\ y = m * b BY <1>1, <2>4
      <4>5. boundary(p, i) = p.start + x /\ boundary(p, m) = p.start + y
        BY <4>1, <4>4 DEF boundary
      <4>6. x <= y
        <5>1. x = b * i /\ y = b * m BY <4>3, <4>4
        <5> QED BY <4>2, <5>1
      <4>7. p.start + y <= now BY <2>4, <4>5
      <4>8. p.start + x <= p.start + y BY <1>1, <4>6
      <4>9. p.start + x <= now BY <1>1, <4>7, <4>8
      <4> QED BY <4>5, <4>9
    <3>3. Len(queue) + i - next_bin <= kMaxChildOrders BY <1>1, <1>3, <2>4
    <3> QED BY <3>1, <3>2, <3>3 DEF Crossed
  <2>12. ASSUME NEW i \in C PROVE i \in next_bin + 1 .. m
    <3>1. i \in 1 .. n /\ next_bin + 1 <= i /\ i <= m BY <1>2, <2>3
    <3> QED BY <1>1, <2>4, <3>1
  <2>6. C = next_bin + 1 .. m
    <3> HIDE DEF C
    <3> QED BY <2>5, <2>12
  <2>7. PICK c \in Nat : c = m - next_bin /\ c > 0 BY <1>1, <2>4
  <2>8. m = next_bin + c BY <1>1, <2>4, <2>7
  <2>9. Cardinality(next_bin + 1 .. m) = c
    <3>1. Cardinality(next_bin + 1 .. m) =
            IF next_bin + 1 > m THEN 0 ELSE m - (next_bin + 1) + 1
      BY <1>1, <2>4, FS_Interval
    <3> QED BY <1>1, <2>4, <2>7, <3>1
  <2>10. Len(queue) + c <= kMaxChildOrders BY <1>1, <1>3, <2>4, <2>7
  <2>11. next_bin + c <= n BY <2>4, <2>8
  <2> QED BY <2>4, <2>6, <2>7, <2>8, <2>9, <2>10, <2>11
<1> QED BY <1>4, <1>5

\* The bins of a schedule hold natural numbers.
LEMMA ScheduleNat ==
  ASSUME NEW p \in Parents, Constructible(p), p.kind \in Scheduled
  PROVE  \A i \in 1 .. bin_count(p) : schedule(p)[i] \in Nat
BY TwapSums, AlmgrenSums DEF Scheduled

\* advance(): what it emits is the schedule of the bins it crosses.
LEMMA AdvanceKeeps == ASSUME StrategyInv, NEW now \in Time, advance(now) PROVE StrategyInv'
<1>1. par.kind \in Scheduled /\ ScheduledInv /\ par \in Parents /\ Constructible(par)
  BY DEF advance, StrategyInv
<1>2. now \in Nat BY StrategyAssumption
<1>3. queue \in Seq(Nat) /\ Len(queue) \in Nat /\ Len(queue) <= kMaxChildOrders
      /\ kMaxChildOrders \in Nat
  BY QueueAssumption, LenProperties DEF StrategyInv
<1>4. PICK c \in Nat :
        /\ Cardinality(Crossed(now)) = c
        /\ next_bin + c <= bin_count(par)
        /\ c > 0 => boundary(par, next_bin + c) <= now /\ Len(queue) + c <= kMaxChildOrders
  <2>1. next_bin \in 0 .. bin_count(par) BY <1>1 DEF ScheduledInv
  <2> QED BY <1>1, <1>2, <1>3, <2>1, CrossedIsInterval
<1>5. Min({c, kMaxChildOrders - Len(queue)}) = c
  <2>1. PICK k \in Int : k = kMaxChildOrders - Len(queue) BY <1>3
  <2>2. c <= k BY <1>3, <1>4, <2>1
  <2> QED BY <2>1, <2>2, MinMaxPair
<1> DEFINE new == [i \in 1 .. c |-> schedule(par)[next_bin + i]]
<1>6. /\ next_bin' = next_bin + c /\ queue' = queue \o new
      /\ emitted' = emitted + SumFunctionOnSet(new, 1 .. c)
      /\ sent' = sent /\ Shown(now)
  BY <1>4, <1>5 DEF advance
<1>7. par' = par /\ clock' \in Nat /\ clock <= clock' /\ now <= clock' BY <1>6, LatestShown
<1>8. next_bin \in Nat /\ bin_count(par) \in Nat BY <1>1, Bins DEF ScheduledInv
<1>9. \A i \in 1 .. bin_count(par) : schedule(par)[i] \in Nat BY <1>1, ScheduleNat
<1>10. \A i \in 1 .. c : next_bin + i \in 1 .. bin_count(par) BY <1>4, <1>8
<1>11. new \in Seq(Nat) /\ Len(new) = c
  <2>1. new \in [1 .. c -> Nat] BY <1>9, <1>10
  <2> QED BY <2>1, SeqDef, LenProperties
<1>12. queue' \in Seq(Nat) /\ Len(queue') <= kMaxChildOrders
  <2>1. queue \o new \in Seq(Nat) /\ Len(queue \o new) = Len(queue) + c
    BY <1>3, <1>11, ConcatProperties
  <2> QED BY <1>3, <1>4, <1>6, <2>1
<1>13. emitted' = SumFunctionOnSet(schedule(par), 1 .. next_bin + c)
  <2>1. \A i \in 1 .. next_bin + c : schedule(par)[i] \in Nat BY <1>4, <1>8, <1>9
  <2>2. PICK f, g : f = schedule(par) /\ g = new OBVIOUS
  <2>3. \A i \in 1 .. c : g[i] = f[next_bin + i] BY <2>2
  <2>4. \A i \in 1 .. next_bin + c : f[i] \in Nat BY <2>1, <2>2
  <2>5. PICK a \in Nat : a = next_bin BY <1>8
  <2>6. SumFunctionOnSet(f, 1 .. a + c) = SumFunctionOnSet(f, 1 .. a) + SumFunctionOnSet(g, 1 .. c)
    BY <2>3, <2>4, <2>5, SumShift
  <2>7. emitted = SumFunctionOnSet(f, 1 .. a) BY <1>1, <2>2, <2>5 DEF ScheduledInv, Handed
  <2> QED BY <1>6, <2>2, <2>5, <2>6, <2>7
<1>14. emitted' \in Nat
  <2>1. IsFiniteSet(1 .. next_bin + c) BY <1>8, FS_Interval
  <2>2. \A i \in 1 .. next_bin + c : schedule(par)[i] \in Nat BY <1>4, <1>8, <1>9
  <2> QED BY <1>13, <2>1, <2>2, SumNat
<1>15. next_bin' > 0 => boundary(par, next_bin') <= clock'
  <2>1. CASE c > 0
    <3>1. PICK b \in Int : b = boundary(par, next_bin + c) BY <1>1, <1>8, Bins DEF boundary
    <3> QED BY <1>2, <1>4, <1>6, <1>7, <2>1, <3>1
  <2>2. CASE c = 0
    <3>1. next_bin' = next_bin BY <1>6, <1>8, <2>2
    <3>2. PICK b \in Int : b = boundary(par, next_bin) BY <1>1, <1>8, Bins DEF boundary
    <3>3. clock \in Nat BY DEF StrategyInv
    <3> QED BY <1>1, <1>7, <3>1, <3>2, <3>3 DEF ScheduledInv
  <2> QED BY <2>1, <2>2
<1>16. ScheduledInv'
  <2>1. next_bin' \in 0 .. bin_count(par') BY <1>4, <1>6, <1>7, <1>8
  <2>2. emitted' = SumFunctionOnSet(schedule(par'), 1 .. next_bin') BY <1>6, <1>7, <1>13
  <2> QED BY <1>1, <1>6, <1>7, <1>15, <2>1, <2>2 DEF ScheduledInv, Handed
<1>17. par'.kind # "vwap" /\ par'.kind # "pov" BY <1>1, <1>7 DEF Scheduled
<1> QED BY <1>1, <1>6, <1>7, <1>8, <1>12, <1>14, <1>16, <1>17 DEF StrategyInv

\* Vwap catches up with its target and no further.
LEMMA VwapKeeps == ASSUME StrategyInv, NEW ts \in Time, VwapTick(ts) PROVE StrategyInv'
<1>1. par.kind = "vwap" /\ VwapInv /\ par \in Parents /\ Constructible(par)
  BY DEF VwapTick, StrategyInv
<1>2. par.total \in Nat /\ par.start \in Nat /\ par.end \in Nat /\ par.start < par.end
  BY <1>1, VwapWindow
<1>3. par' = par /\ clock' \in Nat /\ clock <= clock' /\ ts <= clock' /\ ts \in Nat
      /\ clock' \in {clock, ts}
  BY LatestShown DEF VwapTick
<1>4. clock \in Nat /\ sent \in Nat /\ emitted \in Nat /\ emitted = sent /\ sent <= par.total
      /\ queue \in Seq(Nat) /\ Len(queue) \in Nat /\ Len(queue) <= kMaxChildOrders
      /\ kMaxChildOrders \in Nat /\ next_bin' = next_bin /\ next_bin \in Nat
  BY <1>1, <1>2, QueueAssumption, LenProperties DEF StrategyInv, VwapInv, VwapTick
<1> DEFINE Seen(c) == IF c <= par.end THEN c ELSE par.end
           T(v) == target_shares(par, v)
<1>5. ASSUME NEW v \in par.start .. par.end, NEW u \in par.start .. par.end, v <= u
      PROVE  T(v) \in Nat /\ T(v) <= par.total /\ T(v) <= T(u) /\ T(u) \in Nat
  BY <1>1, <1>2, <1>5, TargetRises
<1> HIDE DEF T
<1>6. CASE UNCHANGED <<queue, emitted, sent>>
  <2>1. ASSUME sent > 0
        PROVE  par.start <= clock' /\ sent <= T(Seen(clock'))
    <3>1. par.start <= clock /\ sent <= T(Seen(clock)) BY <1>1, <2>1 DEF VwapInv, T
    <3>2. Seen(clock) \in par.start .. par.end /\ Seen(clock') \in par.start .. par.end
          /\ Seen(clock) <= Seen(clock')
      BY <1>2, <1>3, <1>4, <3>1
    <3> HIDE DEF Seen
    <3>3. T(Seen(clock)) \in Nat /\ T(Seen(clock')) \in Nat /\ T(Seen(clock)) <= T(Seen(clock'))
      BY <1>5, <3>2
    <3> QED BY <1>3, <1>4, <3>1, <3>3, <1>2
  <2>2. VwapInv' BY <1>1, <1>3, <1>6, <2>1 DEF VwapInv, T
  <2> QED BY <1>1, <1>3, <1>4, <1>6, <2>2 DEF StrategyInv, Scheduled
<1>7. CASE ~UNCHANGED <<queue, emitted, sent>>
  <2> DEFINE q == Min({target_shares(par, ts), par.total}) - sent
  <2>1. ts \in par.start .. par.end /\ q > 0 /\ Push(q) /\ sent' = IF Full THEN sent ELSE sent + q
    BY <1>7 DEF VwapTick
  <2>2. T(ts) \in Nat /\ T(ts) <= par.total BY <1>5, <2>1
  <2>3. q = T(ts) - sent
    <3>1. PICK x \in Int, y \in Int : x = T(ts) /\ y = par.total BY <1>2, <2>2
    <3>2. Min({x, y}) = x BY <2>2, <3>1, MinMaxPair
    <3> QED BY <3>1, <3>2 DEF T
  <2>4. q \in Nat BY <1>4, <2>1, <2>2, <2>3
  <2> HIDE DEF q
  <2>5. ~Full BY <1>7, <2>1 DEF Push
  <2>6. queue' = Append(queue, q) /\ emitted' = emitted + q /\ sent' = sent + q
    BY <2>1, <2>5 DEF Push
  <2>7. sent' = T(ts) /\ emitted' = sent' BY <1>4, <2>2, <2>3, <2>6
  <2>8. queue' \in Seq(Nat) /\ Len(queue') <= kMaxChildOrders
    <3>1. Append(queue, q) \in Seq(Nat) /\ Len(Append(queue, q)) = Len(queue) + 1
      BY <1>4, <2>4, AppendProperties
    <3> QED BY <1>4, <2>5, <2>6, <3>1 DEF Full, has_room
  <2>9. par.start <= clock' /\ T(ts) <= T(Seen(clock'))
    <3>1. Seen(clock') \in par.start .. par.end /\ ts <= Seen(clock') BY <1>2, <1>3, <2>1
    <3> HIDE DEF Seen
    <3>2. T(ts) <= T(Seen(clock')) BY <1>5, <2>1, <3>1
    <3> QED BY <1>2, <1>3, <2>1, <3>2
  <2>10. VwapInv' BY <1>2, <1>3, <2>2, <2>7, <2>9 DEF VwapInv, T
  <2> QED BY <1>1, <1>3, <1>4, <2>2, <2>7, <2>8, <2>10 DEF StrategyInv, Scheduled
<1> QED BY <1>6, <1>7

\* Pov never goes past its budget.
LEMMA PovKeeps ==
  ASSUME StrategyInv, NEW ts \in Time, NEW print \in Prints, PovTick(ts, print)
  PROVE  StrategyInv'
<1>1. par.kind = "pov" /\ PovInv /\ par \in Parents /\ Constructible(par)
  BY DEF PovTick, StrategyInv
<1>2. par.total \in Nat /\ par.bps \in Nat /\ print \in Nat BY <1>1, StrategyAssumption
<1>3. par' = par /\ clock' \in Nat BY LatestShown DEF PovTick
<1>4. sent \in Nat /\ emitted \in Nat /\ emitted <= sent /\ sent <= par.total
      /\ queue \in Seq(Nat) /\ Len(queue) \in Nat /\ Len(queue) <= kMaxChildOrders
      /\ kMaxChildOrders \in Nat /\ next_bin' = next_bin /\ next_bin \in Nat
  BY <1>1, <1>2, QueueAssumption, LenProperties DEF StrategyInv, PovInv, PovTick
<1>5. CASE UNCHANGED <<queue, emitted, sent>>
  <2>1. PovInv' BY <1>1, <1>3, <1>5 DEF PovInv
  <2> QED BY <1>1, <1>3, <1>4, <1>5, <2>1 DEF StrategyInv, Scheduled
<1>6. CASE ~UNCHANGED <<queue, emitted, sent>>
  <2>1. PovSlice(print) > 0 /\ Push(PovSlice(print)) /\ sent' = sent + PovSlice(print)
    BY <1>6 DEF PovTick
  <2>2. PICK q \in Nat : q = PovSlice(print) /\ q <= par.total - sent
    <3>1. PICK a \in Nat : a = print * par.bps BY <1>2
    <3>6. 10000 \in Nat \ {0} /\ par.total - sent \in Int BY <1>2, <1>4
    <3>7. a \div 10000 \in Nat BY <3>6, DivNat
    <3>2. PICK x \in Nat, y \in Int : x = a \div 10000 /\ y = par.total - sent
      BY <3>6, <3>7
    <3>3. PovSlice(print) = Min({x, y}) BY <3>1, <3>2 DEF PovSlice
    <3>4. Min({x, y}) = IF x <= y THEN x ELSE y BY MinMaxPair
    <3>5. y \in Nat BY <1>2, <1>4, <3>2
    <3> QED BY <3>2, <3>3, <3>4, <3>5
  <2>3. sent' = sent + q /\ sent' <= par.total /\ sent' \in Nat BY <1>2, <1>4, <2>1, <2>2
  <2>4. /\ emitted' \in Nat /\ emitted' <= sent'
        /\ queue' \in Seq(Nat) /\ Len(queue') <= kMaxChildOrders
    <3>1. CASE Full BY <1>4, <2>1, <2>2, <2>3, <3>1 DEF Push
    <3>2. CASE ~Full
      <4>1. queue' = Append(queue, q) /\ emitted' = emitted + q BY <2>1, <2>2, <3>2 DEF Push
      <4>2. Append(queue, q) \in Seq(Nat) /\ Len(Append(queue, q)) = Len(queue) + 1
        BY <1>4, <2>2, AppendProperties
      <4>3. Len(queue) < kMaxChildOrders BY <3>2 DEF Full, has_room
      <4> QED BY <1>4, <2>2, <2>3, <4>1, <4>2, <4>3
    <3> QED BY <3>1, <3>2
  <2>5. PovInv' BY <1>2, <1>3, <2>3, <2>4 DEF PovInv
  <2> QED BY <1>1, <1>3, <1>4, <2>4, <2>5 DEF StrategyInv, Scheduled
<1> QED BY <1>5, <1>6

\* The inductive invariant of the four strategies, for every parent the
\* constructors accept, every order of timestamps and every use of the queue.
THEOREM StrategyInvariant == StrategySpec => []StrategyInv
<1>1. StrategyInit => StrategyInv
  <2> SUFFICES ASSUME StrategyInit PROVE StrategyInv OBVIOUS
  <2>1. /\ par \in Parents /\ Constructible(par) /\ next_bin = 0 /\ sent = 0
        /\ queue = << >> /\ emitted = 0 /\ clock = 0
    BY DEF StrategyInit
  <2>2. << >> \in Seq(Nat) /\ Len(<< >>) = 0 /\ 0 <= kMaxChildOrders BY QueueAssumption, EmptySeq
  <2>3. ASSUME par.kind \in Scheduled PROVE ScheduledInv
    <3>1. bin_count(par) \in Nat BY <2>1, <2>3, Bins
    <3>2. Handed(0) = 0 BY SumNone DEF Handed
    <3> QED BY <2>1, <3>1, <3>2 DEF ScheduledInv
  <2>4. par.total \in Nat BY <2>1, StrategyAssumption
  <2>5. VwapInv /\ PovInv BY <2>1, <2>4 DEF VwapInv, PovInv
  <2> QED BY <2>1, <2>2, <2>3, <2>5 DEF StrategyInv
<1>2. StrategyInv /\ [StrategyNext]_stvars => StrategyInv'
  <2> SUFFICES ASSUME StrategyInv, [StrategyNext]_stvars PROVE StrategyInv' OBVIOUS
  <2>1. ASSUME NEW ts \in Time, advance(ts) PROVE StrategyInv' BY <2>1, AdvanceKeeps
  <2>2. ASSUME NEW ts \in Time, VwapTick(ts) PROVE StrategyInv' BY <2>2, VwapKeeps
  <2>3. ASSUME NEW ts \in Time, NEW print \in Prints, PovTick(ts, print) PROVE StrategyInv'
    BY <2>3, PovKeeps
  <2>4. CASE TakeChildren
    <3>1. << >> \in Seq(Nat) /\ Len(<< >>) = 0 /\ 0 <= kMaxChildOrders BY QueueAssumption, EmptySeq
    <3>2. queue' = << >> /\ UNCHANGED <<par, next_bin, sent, emitted, clock>>
      BY <2>4 DEF TakeChildren
    <3> QED BY <3>1, <3>2 DEF StrategyInv, ScheduledInv, VwapInv, PovInv, Handed
  <2>5. CASE UNCHANGED stvars
    BY <2>5 DEF stvars, StrategyInv, ScheduledInv, VwapInv, PovInv, Handed
  <2> QED BY <2>1, <2>2, <2>3, <2>4, <2>5 DEF StrategyNext
<1> QED BY <1>1, <1>2, PTL DEF StrategySpec

\* A strategy other than Pov that says it is done has emitted its parent's
\* shares, and no more than the rounding accounts for.
LEMMA InvImpliesAll == ASSUME StrategyInv PROVE DoneMeansAll
<1> SUFFICES ASSUME done, par.kind # "pov"
             PROVE  emitted >= par.total /\ Overshoot(par, emitted - par.total)
  BY DEF DoneMeansAll
<1>1. par \in Parents /\ Constructible(par) BY DEF StrategyInv
<1>2. CASE par.kind \in Scheduled
  <2>1. next_bin = bin_count(par)
    <3>1. next_bin >= bin_count(par) BY <1>2 DEF done
    <3>2. next_bin \in 0 .. bin_count(par) BY <1>2 DEF StrategyInv, ScheduledInv
    <3>3. bin_count(par) \in Nat BY <1>1, <1>2, Bins
    <3> QED BY <3>1, <3>2, <3>3
  <2>2. LET S == Handed(bin_count(par)) IN S >= par.total /\ Overshoot(par, S - par.total)
    BY <1>1, <1>2, ScheduleSums DEF Handed
  <2>3. emitted = Handed(bin_count(par)) BY <1>2, <2>1 DEF StrategyInv, ScheduledInv
  <2> QED BY <2>2, <2>3
<1>3. CASE par.kind = "vwap"
  <2>1. sent >= par.total BY <1>3 DEF done, Scheduled
  <2>2. par.total \in Nat BY <1>1, StrategyAssumption
  <2>3. emitted = par.total BY <1>3, <2>1, <2>2 DEF StrategyInv, VwapInv
  <2>4. emitted >= par.total /\ emitted - par.total = 0 BY <2>2, <2>3
  <2> QED BY <2>4 DEF Overshoot
<1> QED BY <1>1, <1>2, <1>3, StrategyAssumption DEF Scheduled

\* A strategy is never ahead of its schedule nor, but for the rounding, past
\* its parent.
LEMMA InvImpliesNeverAhead == ASSUME StrategyInv PROVE NeverAhead
<1>1. par \in Parents /\ Constructible(par) /\ clock \in Nat /\ par.total \in Nat
  BY StrategyAssumption DEF StrategyInv
<1>2. CASE par.kind \in Scheduled
  <2> DEFINE n == bin_count(par)
             Due == {i \in 1 .. n : boundary(par, i) <= clock}
  <2>1. n \in Nat /\ par.start \in Nat /\ par.bin_ns \in Nat BY <1>1, <1>2, Bins
  <2>2. next_bin \in 0 .. n /\ emitted = Handed(next_bin)
        /\ (next_bin > 0 => boundary(par, next_bin) <= clock)
    BY <1>2 DEF StrategyInv, ScheduledInv
  <2>3. ASSUME NEW i \in 1 .. next_bin PROVE i \in Due
    <3>1. i \in 1 .. n /\ next_bin > 0 /\ next_bin \in Nat BY <2>1, <2>2
    <3>2. PICK b \in Nat, m \in Nat : b = par.bin_ns /\ m = next_bin BY <2>1, <3>1
    <3>3. b * i <= b * m BY <3>1, <3>2, TimesMono
    <3>4. PICK x \in Int, y \in Int : x = i * b /\ y = m * b BY <3>1
    <3>5. x <= y
      <4>1. i * b = b * i /\ m * b = b * m BY <3>1
      <4> QED BY <3>3, <3>4, <4>1
    <3>6. boundary(par, i) = par.start + x /\ boundary(par, next_bin) = par.start + y
      BY <3>2, <3>4 DEF boundary
    <3>7. boundary(par, i) <= clock BY <1>1, <2>1, <2>2, <3>1, <3>4, <3>5, <3>6
    <3> QED BY <3>1, <3>7
  <2>4. 1 .. next_bin \in SUBSET Due BY <2>3
  <2>5. IsFiniteSet(1 .. n) BY <2>1, FS_Interval
  <2>6. IsFiniteSet(Due) BY <2>5, FS_Subset
  <2>7. \A i \in 1 .. n : schedule(par)[i] \in Nat BY <1>1, <1>2, ScheduleNat
  <2>8. \A i \in Due : schedule(par)[i] \in Nat BY <2>7
  <2>9. SumFunctionOnSet(schedule(par), 1 .. next_bin) <= SumFunctionOnSet(schedule(par), Due)
    <3> HIDE DEF Due
    <3> QED BY <2>4, <2>6, <2>8, SumPart
  <2>10. 1 .. next_bin \in SUBSET (1 .. n) BY <2>1, <2>2
  <2>11. SumFunctionOnSet(schedule(par), 1 .. next_bin) <= SumFunctionOnSet(schedule(par), 1 .. n)
    <3> HIDE DEF n
    <3> QED BY <2>5, <2>7, <2>10, SumPart
  <2>12. Entitled(clock) = SumFunctionOnSet(schedule(par), Due) BY <1>2 DEF Entitled, Scheduled
  <2>13. emitted \in Nat BY DEF StrategyInv
  <2>14. PICK S \in Nat : S = SumFunctionOnSet(schedule(par), 1 .. n)
    BY <1>1, <1>2, ScheduleSums
  <2>15. emitted <= S BY <2>2, <2>11, <2>14 DEF Handed
  <2>16. S >= par.total /\ Overshoot(par, S - par.total) BY <1>1, <1>2, <2>14, ScheduleSums
  <2>17. emitted <= par.total \/ Overshoot(par, emitted - par.total)
    <3> HIDE DEF n
    <3> SUFFICES ASSUME ~(emitted <= par.total) PROVE Overshoot(par, emitted - par.total)
      OBVIOUS
    <3>1. PICK x \in Nat, y \in Nat : x = emitted - par.total /\ y = S - par.total
      BY <1>1, <2>13, <2>15, <2>16
    <3>2. x <= y /\ y # 0 BY <1>1, <2>13, <2>15, <3>1
    <3>3. par.kind = "almgren_chriss" /\ 2 * n * y <= n * (n - 1) - 2 * par.total
      BY <2>16, <3>1, <3>2 DEF Overshoot, n
    <3>4. PICK c \in Int : c = n * (n - 1) - 2 * par.total BY <1>1, <2>1
    <3>5. n \in Nat \ {0} BY <1>1, <1>2, Bins DEF n
    <3>6. 2 * n * y <= c BY <3>3, <3>4
    <3>7. 2 * n * x <= c BY <3>2, <3>4, <3>5, <3>6, LessOvershoot
    <3> QED BY <3>1, <3>3, <3>4, <3>7 DEF Overshoot, n
  <2> QED BY <2>2, <2>9, <2>12, <2>17 DEF NeverAhead, Handed
<1>3. CASE par.kind = "vwap"
  <2>1. par.start \in Nat /\ par.end \in Nat /\ par.start < par.end BY <1>1, <1>3, VwapWindow
  <2>2. VwapInv BY <1>3 DEF StrategyInv
  <2>3. emitted = sent /\ sent \in Nat /\ sent <= par.total BY <1>1, <2>2 DEF VwapInv
  <2>4. Min({clock, par.end}) = IF clock <= par.end THEN clock ELSE par.end
    BY <1>1, <2>1, MinMaxPair
  <2>5. Entitled(clock) = IF clock < par.start THEN 0
                          ELSE target_shares(par, IF clock <= par.end THEN clock ELSE par.end)
    BY <1>3, <2>4 DEF Entitled, Scheduled
  <2>6. CASE sent > 0
    <3>1. par.start <= clock
          /\ sent <= target_shares(par, IF clock <= par.end THEN clock ELSE par.end)
      BY <2>2, <2>6 DEF VwapInv
    <3> QED BY <1>1, <2>1, <2>3, <2>5, <3>1 DEF NeverAhead
  <2>7. CASE sent = 0
    <3>1. CASE clock < par.start BY <2>3, <2>5, <2>7, <3>1 DEF NeverAhead
    <3>2. CASE ~(clock < par.start)
      <4>1. PICK v \in par.start .. par.end : v = IF clock <= par.end THEN clock ELSE par.end
        BY <1>1, <2>1, <3>2
      <4>2. v \in Nat /\ v <= v BY <2>1
      <4>3. target_shares(par, v) \in 0 .. par.total BY <1>1, <1>3, <4>2, TargetRises
      <4> QED BY <1>1, <2>3, <2>5, <2>7, <3>2, <4>1, <4>3 DEF NeverAhead
    <3> QED BY <3>1, <3>2
  <2> QED BY <2>3, <2>6, <2>7
<1>4. CASE par.kind = "pov"
  <2>1. PovInv BY <1>4 DEF StrategyInv
  <2>2. Entitled(clock) = par.total BY <1>4 DEF Entitled, Scheduled
  <2> QED BY <1>1, <2>1, <2>2 DEF PovInv, NeverAhead
<1> QED BY <1>1, <1>2, <1>3, <1>4, StrategyAssumption DEF Scheduled

\* A strategy that reports done() has handed out its whole parent order; only
\* the rounding loop of almgren_chriss.hpp may hand out more, and by no more
\* than Overshoot.
THEOREM AllSent == StrategySpec => []DoneMeansAll
<1>1. StrategyInv => DoneMeansAll BY InvImpliesAll
<1> QED BY <1>1, StrategyInvariant, PTL

\* No strategy emits more than its schedule allows at the clock (TWAP and
\* Almgren-Chriss by bins, VWAP by its curve) nor more than its parent, POV
\* too; Almgren-Chriss by no more than its rounding.
THEOREM WithinSchedule == StrategySpec => []NeverAhead
<1>1. StrategyInv => NeverAhead BY InvImpliesNeverAhead
<1> QED BY <1>1, StrategyInvariant, PTL

\* A VWAP order ticked at end_ts with room in its queue has sent its whole
\* parent after the call: the curve of vwap.hpp ends at total_shares exactly.
THEOREM VwapFills == StrategySpec => FilledByEnd
<1>1. StrategyInv /\ [StrategyNext]_stvars =>
        [par.kind = "vwap" /\ VwapTick(par.end) /\ ~Full => emitted' = par.total]_stvars
  <2> SUFFICES ASSUME StrategyInv, par.kind = "vwap", VwapTick(par.end), ~Full
               PROVE  emitted' = par.total
    OBVIOUS
  <2>1. par \in Parents /\ Constructible(par) /\ emitted = sent /\ sent \in 0 .. par.total
    BY DEF StrategyInv, VwapInv
  <2>2. par.total \in Nat /\ par.start \in Nat /\ par.end \in Nat /\ par.start < par.end
    BY <2>1, VwapWindow
  <2>3. target_shares(par, par.end) = par.total
    <3>1. par.end \in par.start .. par.end /\ par.end <= par.end BY <2>2
    <3> QED BY <2>1, <3>1, TargetRises
  <2>4. Min({par.total, par.total}) = par.total BY <2>2, MinMaxPair
  <2>5. IF par.end \in par.start .. par.end /\ sent < par.total /\ par.total - sent > 0
        THEN Push(par.total - sent)
        ELSE UNCHANGED <<queue, emitted, sent>>
    BY <2>3, <2>4 DEF VwapTick
  <2>6. CASE sent < par.total
    <3>1. Push(par.total - sent) BY <2>1, <2>2, <2>5, <2>6
    <3>2. emitted' = emitted + (par.total - sent) BY <3>1 DEF Push
    <3> QED BY <2>1, <2>2, <3>2
  <2>7. CASE ~(sent < par.total)
    <3>1. sent = par.total BY <2>1, <2>2, <2>7
    <3> QED BY <2>1, <2>5, <2>7, <3>1
  <2> QED BY <2>6, <2>7
<1> QED BY <1>1, StrategyInvariant, PTL DEF StrategySpec, FilledByEnd

=============================================================================

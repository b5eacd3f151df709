----------------------------- MODULE BookProofs -----------------------------
(***************************************************************************)
(* Both books, for every finite set of references, every set of prices and *)
(* of sizes, every tick, window and allocation ceiling.                    *)
(*                                                                         *)
(* OrderBook: the book stays well formed and its ladders count exactly the *)
(* resting orders and add up exactly their shares.  These go together.     *)
(* That a level never survives its last order needs the exact count; that  *)
(* the level of a resting order exists at all, which sub_in does not take  *)
(* for granted, is the same fact read the other way; and that the clamp of *)
(* sub_in never bites, so that nothing is lost from the shares of a level, *)
(* needs the exact sum.                                                    *)
(*                                                                         *)
(* LadderBook: a ladder is LadderOf(lo, hi, b), the flat image of the      *)
(* OrderBook value b over the range lo .. hi, with the best slots and the  *)
(* level counts b determines.  Every mutator turns the ladder of b into    *)
(* the ladder of what OrderBook's mutator makes of b (IsLadder), so all    *)
(* that holds of b carries over.                                           *)
(*                                                                         *)
(* The comparison: under any frames the ladder of a locate is that of its  *)
(* OrderBook until the ladder has no slot for a price; the books are then  *)
(* one order apart (FuzzInv).  Under the frames of the synthetic session   *)
(* there is always a slot, every book holds its symbol's pool of open      *)
(* orders, and so every message is applied (SessionInv).                   *)
(*                                                                         *)
(* Everything is proved of the operators on values (BookOps, LadderOps),   *)
(* so that replace is remove followed by add in the proof as it is in the  *)
(* code, and so that it serves one book and the tables of many alike.      *)
(***************************************************************************)
EXTENDS OrderBook, LadderBook, BookComparison, FiniteSetTheorems, TLAPS

Plus(x, y) == x + y

INSTANCE FoldLemmas WITH Step <- Plus

-----------------------------------------------------------------------------
(* The invariant, of a book value.                                         *)

RestingIn(b, s, p) == {r \in DOMAIN b.orders : b.orders[r].side = s /\ b.orders[r].price = p}

WellFormed(b) ==
  /\ IsFiniteSet(DOMAIN b.orders)
  /\ \A r \in DOMAIN b.orders : b.orders[r] \in OrderType(Nat, Nat)
  /\ DOMAIN b.levels = Side
  /\ \A s \in Side :
       /\ DOMAIN b.levels[s] \subseteq Nat
       /\ \A p \in DOMAIN b.levels[s] : b.levels[s][p] \in [shares : Nat, orders : Nat]

Counted(b, s, p) ==
  /\ RestingIn(b, s, p) = {} <=> p \notin DOMAIN b.levels[s]
  /\ p \in DOMAIN b.levels[s] => b.levels[s][p].orders = Cardinality(RestingIn(b, s, p))

SharesOf(b) == [r \in DOMAIN b.orders |-> b.orders[r].shares]

SharesAt(b, s, p) == SumFunctionOnSet(SharesOf(b), RestingIn(b, s, p))

Summed(b, s, p) == p \in DOMAIN b.levels[s] => b.levels[s][p].shares = SharesAt(b, s, p)

BookInv(b) ==
  /\ WellFormed(b)
  /\ \A s \in Side, p \in Nat : Counted(b, s, p) /\ Summed(b, s, p)

-----------------------------------------------------------------------------
(* Sets of resting orders.                                                 *)

\* The orders resting at a price are finitely many.
LEMMA RestingFinite ==
  ASSUME NEW b, WellFormed(b), NEW s, NEW p
  PROVE  /\ IsFiniteSet(RestingIn(b, s, p))
         /\ Cardinality(RestingIn(b, s, p)) \in Nat
         /\ Cardinality(RestingIn(b, s, p)) = 0 <=> RestingIn(b, s, p) = {}
<1>1. RestingIn(b, s, p) \subseteq DOMAIN b.orders BY DEF RestingIn
<1>2. IsFiniteSet(RestingIn(b, s, p)) BY <1>1, FS_Subset DEF WellFormed
<1> QED BY <1>2, FS_CardinalityType, FS_EmptySet

\* Their shares add up to a natural number.
LEMMA SharesNat ==
  ASSUME NEW b, WellFormed(b), NEW s, NEW p
  PROVE  /\ \A r \in RestingIn(b, s, p) : SharesOf(b)[r] = b.orders[r].shares
         /\ \A r \in RestingIn(b, s, p) : SharesOf(b)[r] \in Nat
         /\ SharesAt(b, s, p) \in Nat
<1>1. IsFiniteSet(RestingIn(b, s, p)) BY RestingFinite
<1>2. \A r \in RestingIn(b, s, p) : SharesOf(b)[r] = b.orders[r].shares
  BY DEF SharesOf, RestingIn
<1>3. \A r \in RestingIn(b, s, p) : b.orders[r].shares \in Nat
  BY DEF RestingIn, WellFormed, OrderType
<1>4. SharesAt(b, s, p) \in Nat BY <1>1, <1>2, <1>3, SumNat DEF SharesAt
<1> QED BY <1>2, <1>3, <1>4

\* A level that no order joined, left or shrank at keeps its sum.
LEMMA SharesSame ==
  ASSUME NEW b, NEW c, NEW s, NEW p, WellFormed(b),
         RestingIn(c, s, p) = RestingIn(b, s, p),
         \A r \in RestingIn(b, s, p) : r \in DOMAIN c.orders /\ c.orders[r] = b.orders[r]
  PROVE  SharesAt(c, s, p) = SharesAt(b, s, p)
<1>1. IsFiniteSet(RestingIn(b, s, p)) BY RestingFinite
<1>2. \A r \in RestingIn(b, s, p) : SharesOf(c)[r] = SharesOf(b)[r]
  BY DEF SharesOf, RestingIn
<1> QED BY <1>1, <1>2, SumSame DEF SharesAt

\* The clamp of reduce and sub_in.
LEMMA AtMostType ==
  ASSUME NEW x \in Nat, NEW y \in Nat
  PROVE  AtMost(x, y) \in Nat /\ AtMost(x, y) <= x /\ AtMost(x, y) <= y
BY DEF AtMost

-----------------------------------------------------------------------------
(* add.                                                                    *)

\* add, accepted or refused, keeps the invariant.
LEMMA AddKeeps ==
  ASSUME NEW b, BookInv(b),
         NEW r, NEW s \in Side, NEW q \in Nat, NEW p \in Nat
  PROVE  BookInv(add(b, r, s, q, p).book) /\ add(b, r, s, q, p).ok \in BOOLEAN
<1>1. CASE r \in DOMAIN b.orders BY <1>1 DEF add
<1>2. CASE r \notin DOMAIN b.orders
  <2> DEFINE o == [shares |-> q, price |-> p, side |-> s]
             c == [orders |-> Put(b.orders, r, o),
                   levels |-> [b.levels EXCEPT ![s] = add_to(@, p, q)]]
             old == IF p \in DOMAIN b.levels[s] THEN b.levels[s][p] ELSE EmptyLevel
             l == [shares |-> old.shares + q, orders |-> old.orders + 1]
  <2>1. add(b, r, s, q, p) = [ok |-> TRUE, book |-> c] BY <1>2 DEF add
  <2>2. old.shares \in Nat /\ old.orders \in Nat
    BY DEF BookInv, WellFormed, EmptyLevel
  <2>3. /\ DOMAIN c.orders = DOMAIN b.orders \cup {r}
        /\ c.orders[r] = o
        /\ \A x \in DOMAIN b.orders : c.orders[x] = b.orders[x]
    BY <1>2 DEF Put
  <2>4. /\ DOMAIN c.levels = Side
        /\ \A t \in Side : t # s => c.levels[t] = b.levels[t]
        /\ DOMAIN c.levels[s] = DOMAIN b.levels[s] \cup {p}
        /\ c.levels[s][p] = l
        /\ \A x \in DOMAIN b.levels[s] : x # p => c.levels[s][x] = b.levels[s][x]
    BY DEF BookInv, WellFormed, add_to, Put
  <2> HIDE DEF c
  <2>5. WellFormed(c)
    <3>1. o \in OrderType(Nat, Nat) BY DEF OrderType
    <3>2. l \in [shares : Nat, orders : Nat] BY <2>2
    <3> HIDE DEF o, l
    <3>3. IsFiniteSet(DOMAIN c.orders) BY <2>3, FS_AddElement DEF BookInv, WellFormed
    <3>4. \A x \in DOMAIN c.orders : c.orders[x] \in OrderType(Nat, Nat)
      BY <2>3, <3>1 DEF BookInv, WellFormed
    <3>5. ASSUME NEW t \in Side
          PROVE  /\ DOMAIN c.levels[t] \subseteq Nat
                 /\ \A x \in DOMAIN c.levels[t] : c.levels[t][x] \in [shares : Nat, orders : Nat]
      BY <2>4, <3>2 DEF BookInv, WellFormed
    <3> QED BY <2>4, <3>3, <3>4, <3>5 DEF WellFormed
  <2>6. ASSUME NEW t \in Side, NEW x \in Nat PROVE Counted(c, t, x)
    <3>0. Counted(b, t, x) BY DEF BookInv
    <3>1. CASE t = s /\ x = p
      <4>1. RestingIn(c, t, x) = RestingIn(b, t, x) \cup {r} BY <2>3, <3>1 DEF RestingIn
      <4>2. r \notin RestingIn(b, t, x) BY <1>2 DEF RestingIn
      <4>3. /\ IsFiniteSet(RestingIn(b, t, x)) /\ Cardinality(RestingIn(b, t, x)) \in Nat
            /\ Cardinality(RestingIn(b, t, x)) = 0 <=> RestingIn(b, t, x) = {}
        BY RestingFinite DEF BookInv
      <4>4. Cardinality(RestingIn(c, t, x)) = Cardinality(RestingIn(b, t, x)) + 1
        BY <4>1, <4>2, <4>3, FS_AddElement
      <4>5. old.orders = Cardinality(RestingIn(b, t, x))
        BY <3>0, <3>1, <4>3 DEF Counted, EmptyLevel
      <4>6. c.levels[t][x].orders = Cardinality(RestingIn(c, t, x))
        BY <2>4, <3>1, <4>4, <4>5
      <4>7. RestingIn(c, t, x) # {} /\ x \in DOMAIN c.levels[t] BY <2>4, <3>1, <4>1
      <4> QED BY <4>6, <4>7 DEF Counted
    <3>2. CASE ~(t = s /\ x = p)
      <4>1. RestingIn(c, t, x) = RestingIn(b, t, x) BY <1>2, <2>3, <3>2 DEF RestingIn
      <4>2. /\ x \in DOMAIN c.levels[t] <=> x \in DOMAIN b.levels[t]
            /\ x \in DOMAIN b.levels[t] => c.levels[t][x] = b.levels[t][x]
        BY <2>4, <3>2
      <4> QED BY <3>0, <4>1, <4>2 DEF Counted
    <3> QED BY <3>1, <3>2
  <2>7. ASSUME NEW t \in Side, NEW x \in Nat PROVE Summed(c, t, x)
    <3>0. Counted(b, t, x) /\ Summed(b, t, x) /\ WellFormed(b) BY DEF BookInv
    <3>1. CASE t = s /\ x = p
      <4> DEFINE R == RestingIn(b, s, p)
      <4>1. RestingIn(c, s, p) = R \cup {r} /\ r \notin R BY <1>2, <2>3 DEF RestingIn
      <4>2. IsFiniteSet(R) /\ \A y \in R : SharesOf(b)[y] \in Nat
        BY <3>0, RestingFinite, SharesNat
      <4>3. SharesOf(c)[r] = q /\ \A y \in R : SharesOf(c)[y] = SharesOf(b)[y]
        BY <2>3 DEF SharesOf, RestingIn
      <4> HIDE DEF R
      <4>4. SharesAt(c, s, p) = q + SumFunctionOnSet(SharesOf(c), R)
        BY <4>1, <4>2, <4>3, SumAdd DEF SharesAt
      <4>5. SumFunctionOnSet(SharesOf(c), R) = SharesAt(b, s, p)
        BY <4>2, <4>3, SumSame DEF SharesAt, R
      <4>6. old.shares = SharesAt(b, s, p)
        <5>1. CASE p \in DOMAIN b.levels[s] BY <3>0, <3>1, <5>1 DEF Summed
        <5>2. CASE p \notin DOMAIN b.levels[s]
          <6>1. R = {} BY <3>0, <3>1, <5>2 DEF Counted, R
          <6> QED BY <5>2, <6>1, SumEmpty DEF SharesAt, EmptyLevel, R
        <5> QED BY <5>1, <5>2
      <4> QED BY <2>2, <2>4, <3>1, <4>4, <4>5, <4>6 DEF Summed
    <3>2. CASE ~(t = s /\ x = p)
      <4>1. RestingIn(c, t, x) = RestingIn(b, t, x) BY <1>2, <2>3, <3>2 DEF RestingIn
      <4>2. \A y \in RestingIn(b, t, x) : y \in DOMAIN c.orders /\ c.orders[y] = b.orders[y]
        BY <2>3 DEF RestingIn
      <4>3. SharesAt(c, t, x) = SharesAt(b, t, x) BY <3>0, <4>1, <4>2, SharesSame
      <4>4. /\ x \in DOMAIN c.levels[t] <=> x \in DOMAIN b.levels[t]
            /\ x \in DOMAIN b.levels[t] => c.levels[t][x] = b.levels[t][x]
        BY <2>4, <3>2
      <4> QED BY <3>0, <4>3, <4>4 DEF Summed
    <3> QED BY <3>1, <3>2
  <2>8. BookInv(c) BY <2>5, <2>6, <2>7 DEF BookInv
  <2> QED BY <2>1, <2>8
<1> QED BY <1>1, <1>2

-----------------------------------------------------------------------------
(* remove, and reduce.                                                     *)

\* The level of a resting order exists and counts it.
LEMMA LevelOf ==
  ASSUME NEW b, BookInv(b), NEW r \in DOMAIN b.orders
  PROVE  LET o == b.orders[r]
         IN  /\ o.shares \in Nat /\ o.price \in Nat /\ o.side \in Side
             /\ r \in RestingIn(b, o.side, o.price)
             /\ o.price \in DOMAIN b.levels[o.side]
             /\ b.levels[o.side][o.price].shares \in Nat
             /\ b.levels[o.side][o.price].orders = Cardinality(RestingIn(b, o.side, o.price))
             /\ b.levels[o.side][o.price].orders \in Nat \ {0}
             /\ b.levels[o.side][o.price].shares = SharesAt(b, o.side, o.price)
             /\ o.shares <= b.levels[o.side][o.price].shares
<1> DEFINE o == b.orders[r]
<1>1. o.shares \in Nat /\ o.price \in Nat /\ o.side \in Side
  BY DEF BookInv, WellFormed, OrderType
<1>2. r \in RestingIn(b, o.side, o.price) BY DEF RestingIn
<1>3. Counted(b, o.side, o.price) BY <1>1 DEF BookInv
<1>4. /\ o.price \in DOMAIN b.levels[o.side]
      /\ b.levels[o.side][o.price].orders = Cardinality(RestingIn(b, o.side, o.price))
  BY <1>2, <1>3 DEF Counted
<1>5. /\ Cardinality(RestingIn(b, o.side, o.price)) \in Nat
      /\ Cardinality(RestingIn(b, o.side, o.price)) # 0
  BY <1>2, RestingFinite DEF BookInv
<1>6. b.levels[o.side][o.price].shares \in Nat
  BY <1>1, <1>4 DEF BookInv, WellFormed
<1>7. b.levels[o.side][o.price].shares = SharesAt(b, o.side, o.price)
  BY <1>1, <1>4 DEF BookInv, Summed
<1>8. o.shares <= SharesAt(b, o.side, o.price)
  <2> DEFINE R == RestingIn(b, o.side, o.price)
  <2>1. IsFiniteSet(R) /\ SharesOf(b)[r] = o.shares /\ \A y \in R : SharesOf(b)[y] \in Nat
    BY <1>2, RestingFinite, SharesNat DEF BookInv
  <2>2. IsFiniteSet(R \ {r}) BY <2>1, FS_Subset
  <2> HIDE DEF R
  <2>3. SumFunctionOnSet(SharesOf(b), R \ {r}) \in Nat BY <2>1, <2>2, SumNat
  <2>4. SharesAt(b, o.side, o.price) = o.shares + SumFunctionOnSet(SharesOf(b), R \ {r})
    BY <1>2, <2>1, SumRemove DEF SharesAt, R
  <2> QED BY <1>1, <2>3, <2>4
<1> QED BY <1>1, <1>2, <1>4, <1>5, <1>6, <1>7, <1>8

\* An order goes, with its shares.
LEMMA GoneKeeps ==
  ASSUME NEW b, BookInv(b), NEW r \in DOMAIN b.orders, NEW q \in Nat, q = b.orders[r].shares
  PROVE  LET o == b.orders[r]
         IN  BookInv([orders |-> Erase(b.orders, r),
                      levels |-> level_sub(b.levels, o.side, o.price, q, TRUE)])
<1> DEFINE s == b.orders[r].side
           p == b.orders[r].price
           m == b.levels[s]
           l == [shares |-> m[p].shares - AtMost(q, m[p].shares), orders |-> m[p].orders - 1]
           c == [orders |-> Erase(b.orders, r), levels |-> level_sub(b.levels, s, p, q, TRUE)]
<1> HIDE DEF s, p, m, l, c
<1>1. /\ p \in Nat /\ s \in Side /\ r \in RestingIn(b, s, p) /\ p \in DOMAIN m
      /\ m[p].shares \in Nat /\ m[p].orders = Cardinality(RestingIn(b, s, p))
      /\ m[p].orders \in Nat \ {0} /\ m[p].shares = SharesAt(b, s, p) /\ q <= m[p].shares
  BY LevelOf DEF s, p, m
<1>2. /\ DOMAIN c.orders = DOMAIN b.orders \ {r}
      /\ \A x \in DOMAIN c.orders : c.orders[x] = b.orders[x]
  BY DEF Erase, c
<1>3. sub_in(m, p, q, TRUE) = IF l.orders = 0 THEN Erase(m, p) ELSE Put(m, p, l)
  BY <1>1 DEF sub_in, l
<1>4. /\ DOMAIN b.levels = Side
      /\ DOMAIN m \subseteq Nat /\ \A x \in DOMAIN m : m[x] \in [shares : Nat, orders : Nat]
  BY <1>1 DEF BookInv, WellFormed, m
<1>5. /\ DOMAIN c.levels = Side
      /\ \A t \in Side : t # s => c.levels[t] = b.levels[t]
      /\ c.levels[s] = IF l.orders = 0 THEN Erase(m, p) ELSE Put(m, p, l)
  BY <1>1, <1>3, <1>4 DEF level_sub, c, m
<1>6. /\ DOMAIN c.levels[s] = IF l.orders = 0 THEN DOMAIN m \ {p} ELSE DOMAIN m
      /\ l.orders # 0 => c.levels[s][p] = l
      /\ \A x \in DOMAIN m : x # p => c.levels[s][x] = m[x]
  BY <1>1, <1>5 DEF Erase, Put
<1>7. WellFormed(c)
  <2>1. l \in [shares : Nat, orders : Nat]
    <3>1. AtMost(q, m[p].shares) \in Nat /\ AtMost(q, m[p].shares) <= m[p].shares
      BY <1>1, AtMostType
    <3> QED BY <1>1, <3>1 DEF l
  <2>2. /\ IsFiniteSet(DOMAIN c.orders)
        /\ \A x \in DOMAIN c.orders : c.orders[x] \in OrderType(Nat, Nat)
    BY <1>2, FS_RemoveElement DEF BookInv, WellFormed
  <2>3. ASSUME NEW t \in Side
        PROVE  /\ DOMAIN c.levels[t] \subseteq Nat
               /\ \A x \in DOMAIN c.levels[t] : c.levels[t][x] \in [shares : Nat, orders : Nat]
    <3>1. CASE t # s BY <1>5, <3>1 DEF BookInv, WellFormed
    <3>2. CASE t = s BY <1>4, <1>6, <2>1, <3>2
    <3> QED BY <3>1, <3>2
  <2> QED BY <1>5, <2>2, <2>3 DEF WellFormed
<1>8. ASSUME NEW t \in Side, NEW x \in Nat PROVE Counted(c, t, x)
  <2>0. Counted(b, t, x) BY DEF BookInv
  <2>1. CASE t = s /\ x = p
    <3>1. RestingIn(c, s, p) = RestingIn(b, s, p) \ {r} BY <1>2 DEF RestingIn
    <3>2. IsFiniteSet(RestingIn(b, s, p)) BY RestingFinite DEF BookInv
    <3>3. Cardinality(RestingIn(c, s, p)) = Cardinality(RestingIn(b, s, p)) - 1
      BY <1>1, <3>1, <3>2, FS_RemoveElement
    <3>4. Cardinality(RestingIn(c, s, p)) = 0 <=> RestingIn(c, s, p) = {}
      BY <1>7, RestingFinite
    <3>5. l.orders = Cardinality(RestingIn(c, s, p)) BY <1>1, <3>3 DEF l
    <3> QED BY <1>1, <1>6, <2>1, <3>4, <3>5 DEF Counted
  <2>2. CASE ~(t = s /\ x = p)
    <3>1. RestingIn(c, t, x) = RestingIn(b, t, x) BY <1>2, <2>2 DEF RestingIn, s, p
    <3>2. /\ x \in DOMAIN c.levels[t] <=> x \in DOMAIN b.levels[t]
          /\ x \in DOMAIN b.levels[t] => c.levels[t][x] = b.levels[t][x]
      BY <1>5, <1>6, <2>2 DEF m
    <3> QED BY <2>0, <3>1, <3>2 DEF Counted
  <2> QED BY <2>1, <2>2
<1>9. ASSUME NEW t \in Side, NEW x \in Nat PROVE Summed(c, t, x)
  <2>0. Summed(b, t, x) /\ WellFormed(b) BY DEF BookInv
  <2>1. CASE t = s /\ x = p
    <3> DEFINE R == RestingIn(b, s, p)
    <3>1. RestingIn(c, s, p) = R \ {r} /\ r \in R BY <1>1, <1>2 DEF RestingIn
    <3>2. /\ IsFiniteSet(R) /\ SharesOf(b)[r] = q /\ \A y \in R : SharesOf(b)[y] \in Nat
      BY <1>1, <2>0, RestingFinite, SharesNat
    <3>3. IsFiniteSet(R \ {r}) BY <3>2, FS_Subset
    <3>4. \A y \in R \ {r} : SharesOf(c)[y] = SharesOf(b)[y]
      BY <1>2 DEF SharesOf, RestingIn
    <3> HIDE DEF R
    <3>5. SharesAt(b, s, p) = q + SumFunctionOnSet(SharesOf(b), R \ {r})
      BY <3>1, <3>2, SumRemove DEF SharesAt, R
    <3>6. SharesAt(c, s, p) = SumFunctionOnSet(SharesOf(b), R \ {r})
      BY <3>1, <3>3, <3>4, SumSame DEF SharesAt
    <3>7. SumFunctionOnSet(SharesOf(b), R \ {r}) \in Nat BY <3>2, <3>3, SumNat
    <3>8. AtMost(q, m[p].shares) = q BY <1>1 DEF AtMost
    <3>9. l.shares = m[p].shares - q BY <3>8 DEF l
    <3>10. l.shares = SharesAt(c, s, p) BY <1>1, <3>5, <3>6, <3>7, <3>9
    <3> QED BY <1>6, <2>1, <3>10 DEF Summed
  <2>2. CASE ~(t = s /\ x = p)
    <3>1. RestingIn(c, t, x) = RestingIn(b, t, x) BY <1>2, <2>2 DEF RestingIn, s, p
    <3>2. \A y \in RestingIn(b, t, x) : y \in DOMAIN c.orders /\ c.orders[y] = b.orders[y]
      BY <1>2, <3>1 DEF RestingIn
    <3>3. SharesAt(c, t, x) = SharesAt(b, t, x) BY <2>0, <3>1, <3>2, SharesSame
    <3>4. /\ x \in DOMAIN c.levels[t] <=> x \in DOMAIN b.levels[t]
          /\ x \in DOMAIN b.levels[t] => c.levels[t][x] = b.levels[t][x]
      BY <1>5, <1>6, <2>2 DEF m
    <3> QED BY <2>0, <3>3, <3>4 DEF Summed
  <2> QED BY <2>1, <2>2
<1>10. BookInv(c) BY <1>7, <1>8, <1>9 DEF BookInv
<1> QED BY SMTT(30), <1>10 DEF c, s, p

\* An order shrinks and stays: its level keeps its count and its place.
LEMMA ShrinkKeeps ==
  ASSUME NEW b, BookInv(b), NEW r \in DOMAIN b.orders, NEW q \in Nat, q <= b.orders[r].shares
  PROVE  LET o == b.orders[r]
         IN  BookInv([orders |-> [b.orders EXCEPT ![r].shares = @ - q],
                      levels |-> level_sub(b.levels, o.side, o.price, q, FALSE)])
<1> DEFINE s == b.orders[r].side
           p == b.orders[r].price
           m == b.levels[s]
           l == [shares |-> m[p].shares - AtMost(q, m[p].shares), orders |-> m[p].orders]
           c == [orders |-> [b.orders EXCEPT ![r].shares = @ - q],
                 levels |-> level_sub(b.levels, s, p, q, FALSE)]
<1> HIDE DEF s, p, m, l, c
<1>1. /\ b.orders[r].shares \in Nat /\ p \in Nat /\ s \in Side
      /\ r \in RestingIn(b, s, p) /\ p \in DOMAIN m
      /\ m[p].shares \in Nat /\ m[p].orders = Cardinality(RestingIn(b, s, p))
      /\ m[p].orders \in Nat \ {0} /\ m[p].shares = SharesAt(b, s, p)
      /\ b.orders[r].shares <= m[p].shares
  BY LevelOf DEF s, p, m
<1>2. /\ DOMAIN c.orders = DOMAIN b.orders
      /\ \A x \in DOMAIN b.orders : x # r => c.orders[x] = b.orders[x]
      /\ c.orders[r] = [b.orders[r] EXCEPT !.shares = @ - q]
  BY DEF c
<1>3. sub_in(m, p, q, FALSE) = Put(m, p, l) BY <1>1 DEF sub_in, l
<1>4. /\ DOMAIN b.levels = Side
      /\ DOMAIN m \subseteq Nat /\ \A x \in DOMAIN m : m[x] \in [shares : Nat, orders : Nat]
  BY <1>1 DEF BookInv, WellFormed, m
<1>5. /\ DOMAIN c.levels = Side
      /\ \A t \in Side : t # s => c.levels[t] = b.levels[t]
      /\ c.levels[s] = Put(m, p, l)
  BY <1>1, <1>3, <1>4 DEF level_sub, c, m
<1>6. /\ DOMAIN c.levels[s] = DOMAIN m
      /\ c.levels[s][p] = l
      /\ \A x \in DOMAIN m : x # p => c.levels[s][x] = m[x]
  BY <1>1, <1>5 DEF Put
<1>7. /\ c.orders[r] \in OrderType(Nat, Nat)
      /\ c.orders[r].side = s /\ c.orders[r].price = p
  <2>1. b.orders[r] \in OrderType(Nat, Nat) BY DEF BookInv, WellFormed
  <2> QED BY <1>1, <1>2, <2>1 DEF OrderType, s, p
<1>8. WellFormed(c)
  <2>1. l \in [shares : Nat, orders : Nat]
    <3>1. AtMost(q, m[p].shares) \in Nat /\ AtMost(q, m[p].shares) <= m[p].shares
      BY <1>1, AtMostType
    <3> QED BY <1>1, <3>1 DEF l
  <2>2. /\ IsFiniteSet(DOMAIN c.orders)
        /\ \A x \in DOMAIN c.orders : c.orders[x] \in OrderType(Nat, Nat)
    BY <1>2, <1>7 DEF BookInv, WellFormed
  <2>3. ASSUME NEW t \in Side
        PROVE  /\ DOMAIN c.levels[t] \subseteq Nat
               /\ \A x \in DOMAIN c.levels[t] : c.levels[t][x] \in [shares : Nat, orders : Nat]
    <3>1. CASE t # s BY <1>5, <3>1 DEF BookInv, WellFormed
    <3>2. CASE t = s BY <1>4, <1>6, <2>1, <3>2
    <3> QED BY <3>1, <3>2
  <2> QED BY <1>5, <2>2, <2>3 DEF WellFormed
<1>9. ASSUME NEW t \in Side, NEW x \in Nat PROVE Counted(c, t, x)
  <2>0. Counted(b, t, x) BY DEF BookInv
  <2>1. RestingIn(c, t, x) = RestingIn(b, t, x) BY <1>2, <1>7 DEF RestingIn, s, p
  <2>2. l.orders = m[p].orders BY DEF l
  <2>3. /\ x \in DOMAIN c.levels[t] <=> x \in DOMAIN b.levels[t]
        /\ x \in DOMAIN b.levels[t] => c.levels[t][x].orders = b.levels[t][x].orders
    <3>1. CASE t # s BY <1>5, <3>1
    <3>2. CASE t = s BY <1>1, <1>6, <2>2, <3>2 DEF m
    <3> QED BY <3>1, <3>2
  <2> QED BY <2>0, <2>1, <2>3 DEF Counted
<1>10. ASSUME NEW t \in Side, NEW x \in Nat PROVE Summed(c, t, x)
  <2>0. Summed(b, t, x) /\ WellFormed(b) BY DEF BookInv
  <2>1. CASE t = s /\ x = p
    <3> DEFINE R == RestingIn(b, s, p)
    <3>1. RestingIn(c, s, p) = R /\ r \in R BY <1>1, <1>2, <1>7 DEF RestingIn, s, p
    <3>2. /\ IsFiniteSet(R) /\ SharesOf(b)[r] = b.orders[r].shares
          /\ \A y \in R : SharesOf(b)[y] \in Nat
      BY <1>1, <2>0, RestingFinite, SharesNat
    <3>3. IsFiniteSet(R \ {r}) BY <3>2, FS_Subset
    <3>4. \A y \in R \ {r} : SharesOf(c)[y] = SharesOf(b)[y]
      BY <1>2 DEF SharesOf, RestingIn
    <3>5. SharesOf(c)[r] = b.orders[r].shares - q
      <4>1. b.orders[r] \in OrderType(Nat, Nat) BY DEF BookInv, WellFormed
      <4> QED BY <1>2, <4>1 DEF SharesOf, OrderType
    <3>6. \A y \in R : SharesOf(c)[y] \in Nat BY <1>1, <3>2, <3>4, <3>5
    <3> HIDE DEF R
    <3>7. SharesAt(b, s, p) = b.orders[r].shares + SumFunctionOnSet(SharesOf(b), R \ {r})
      BY <3>1, <3>2, SumRemove DEF SharesAt, R
    <3>8. SharesAt(c, s, p) = (b.orders[r].shares - q) + SumFunctionOnSet(SharesOf(c), R \ {r})
      BY <3>1, <3>2, <3>5, <3>6, SumRemove DEF SharesAt
    <3>9. SumFunctionOnSet(SharesOf(c), R \ {r}) = SumFunctionOnSet(SharesOf(b), R \ {r})
      BY <3>3, <3>4, SumSame
    <3>10. SumFunctionOnSet(SharesOf(b), R \ {r}) \in Nat BY <3>2, <3>3, SumNat
    <3>11. AtMost(q, m[p].shares) = q BY <1>1 DEF AtMost
    <3>12. l.shares = m[p].shares - q BY <3>11 DEF l
    <3>13. l.shares = SharesAt(c, s, p) BY <1>1, <3>7, <3>8, <3>9, <3>10, <3>12
    <3> QED BY <1>6, <2>1, <3>13 DEF Summed
  <2>2. CASE ~(t = s /\ x = p)
    <3>1. RestingIn(c, t, x) = RestingIn(b, t, x) BY <1>2, <1>7 DEF RestingIn, s, p
    <3>2. \A y \in RestingIn(b, t, x) : y \in DOMAIN c.orders /\ c.orders[y] = b.orders[y]
      BY <1>2, <2>2 DEF RestingIn, s, p
    <3>3. SharesAt(c, t, x) = SharesAt(b, t, x) BY <2>0, <3>1, <3>2, SharesSame
    <3>4. /\ x \in DOMAIN c.levels[t] <=> x \in DOMAIN b.levels[t]
          /\ x \in DOMAIN b.levels[t] => c.levels[t][x] = b.levels[t][x]
      BY <1>5, <1>6, <2>2 DEF m
    <3> QED BY <2>0, <3>3, <3>4 DEF Summed
  <2> QED BY <2>1, <2>2
<1>11. BookInv(c) BY <1>8, <1>9, <1>10 DEF BookInv
<1> QED BY SMTT(30), <1>11 DEF c, s, p

\* remove keeps the invariant.
LEMMA RemoveKeeps ==
  ASSUME NEW b, BookInv(b), NEW r
  PROVE  BookInv(remove(b, r).book) /\ remove(b, r).ok \in BOOLEAN
<1>1. CASE r \notin DOMAIN b.orders BY <1>1 DEF remove
<1>2. CASE r \in DOMAIN b.orders
  <2>1. b.orders[r].shares \in Nat BY <1>2, LevelOf
  <2> QED BY <1>2, <2>1, GoneKeeps DEF remove
<1> QED BY <1>1, <1>2

\* execute and cancel keep the invariant, however large the message.
LEMMA ReduceKeeps ==
  ASSUME NEW b, BookInv(b), NEW r, NEW q \in Nat
  PROVE  BookInv(reduce(b, r, q).book) /\ reduce(b, r, q).ok \in BOOLEAN
<1>1. CASE r \notin DOMAIN b.orders BY <1>1 DEF reduce
<1>2. CASE r \in DOMAIN b.orders
  <2> DEFINE n == AtMost(q, b.orders[r].shares)
  <2>1. b.orders[r].shares \in Nat BY <1>2, LevelOf
  <2>2. n \in Nat /\ n <= b.orders[r].shares BY <2>1, AtMostType
  <2>3. CASE b.orders[r].shares = n
    <3> HIDE DEF n
    <3> QED BY <1>2, <2>2, <2>3, GoneKeeps DEF reduce, n
  <2>4. CASE b.orders[r].shares # n
    <3> HIDE DEF n
    <3> QED BY <1>2, <2>2, <2>4, ShrinkKeeps DEF reduce, n
  <2> QED BY SMTT(30), <2>3, <2>4
<1> QED BY <1>1, <1>2

\* replace keeps the invariant, also when its add is refused.
LEMMA ReplaceKeeps ==
  ASSUME NEW b, BookInv(b), NEW r, NEW n, NEW q \in Nat, NEW p \in Nat
  PROVE  BookInv(replace(b, r, n, q, p).book) /\ replace(b, r, n, q, p).ok \in BOOLEAN
<1>1. CASE r \notin DOMAIN b.orders BY <1>1 DEF replace
<1>2. CASE r \in DOMAIN b.orders
  <2>1. b.orders[r].side \in Side BY <1>2, LevelOf
  <2>2. BookInv(remove(b, r).book) BY RemoveKeeps
  <2> QED BY <1>2, <2>1, <2>2, AddKeeps DEF replace
<1> QED BY <1>1, <1>2

-----------------------------------------------------------------------------
(* What the calls do to the locator.                                       *)

\* add rests the order under its reference or changes nothing.
LEMMA AddOrders ==
  ASSUME NEW b, NEW r, NEW s, NEW q, NEW p
  PROVE  /\ r \in DOMAIN b.orders => add(b, r, s, q, p).book = b /\ add(b, r, s, q, p).ok = FALSE
         /\ r \notin DOMAIN b.orders =>
              /\ add(b, r, s, q, p).book.orders =
                   Put(b.orders, r, [shares |-> q, price |-> p, side |-> s])
              /\ add(b, r, s, q, p).ok = TRUE
BY DEF add

\* remove takes the order out.
LEMMA RemoveOrders ==
  ASSUME NEW b, NEW r
  PROVE  /\ r \notin DOMAIN b.orders => remove(b, r).book = b /\ remove(b, r).ok = FALSE
         /\ r \in DOMAIN b.orders =>
              remove(b, r).book.orders = Erase(b.orders, r) /\ remove(b, r).ok = TRUE
BY DEF remove

\* What is left of the orders after an execute or a cancel.
Shrunk(o, r, q) == IF o[r].shares <= q THEN Erase(o, r) ELSE [o EXCEPT ![r].shares = @ - q]

\* reduce takes the shares off the order, and the order out with the last.
LEMMA ReduceOrders ==
  ASSUME NEW b, BookInv(b), NEW r, NEW q \in Nat
  PROVE  /\ r \notin DOMAIN b.orders => reduce(b, r, q).book = b /\ reduce(b, r, q).ok = FALSE
         /\ r \in DOMAIN b.orders =>
              /\ reduce(b, r, q).book.orders = Shrunk(b.orders, r, q)
              /\ reduce(b, r, q).ok = TRUE
<1>1. CASE r \notin DOMAIN b.orders BY <1>1 DEF reduce
<1>2. CASE r \in DOMAIN b.orders
  <2> DEFINE n == b.orders[r].shares
  <2>1. n \in Nat BY <1>2, LevelOf
  <2>2. reduce(b, r, q).ok = TRUE BY <1>2 DEF reduce
  <2>3. CASE n <= q
    <3>1. AtMost(q, n) = n BY <2>1, <2>3 DEF AtMost
    <3> QED BY <1>2, <2>2, <2>3, <3>1 DEF reduce, Shrunk
  <2>4. CASE ~(n <= q)
    <3>1. AtMost(q, n) = q /\ n # q BY <2>1, <2>4 DEF AtMost
    <3> QED BY <1>2, <2>2, <2>4, <3>1 DEF reduce, Shrunk
  <2> QED BY <2>3, <2>4
<1> QED BY <1>1, <1>2

-----------------------------------------------------------------------------
(* What BookSpec makes of the orders of a book.                           *)

\* The prices of a ladder are those of the resting orders.
LEMMA PricesAre ==
  ASSUME NEW b, BookInv(b), NEW s \in Side
  PROVE  DOMAIN b.levels[s] = Abstract!PricesOf(b.orders, s)
<1>1. DOMAIN b.levels[s] \subseteq Nat BY DEF BookInv, WellFormed
<1>2. Abstract!PricesOf(b.orders, s) \subseteq Nat
  BY DEF BookInv, WellFormed, OrderType, Abstract!PricesOf, Abstract!On
<1>3. ASSUME NEW p \in Nat
      PROVE  p \in DOMAIN b.levels[s] <=> p \in Abstract!PricesOf(b.orders, s)
  <2>1. p \in DOMAIN b.levels[s] <=> RestingIn(b, s, p) # {} BY DEF BookInv, Counted
  <2>2. RestingIn(b, s, p) # {} <=> p \in Abstract!PricesOf(b.orders, s)
    BY DEF RestingIn, Abstract!PricesOf, Abstract!On
  <2> QED BY <2>1, <2>2
<1> QED BY <1>1, <1>2, <1>3

\* A ladder has finitely many prices, so it has a best one.
LEMMA BestExists ==
  ASSUME NEW b, BookInv(b), NEW s \in Side, DOMAIN b.levels[s] # {}
  PROVE  Max(DOMAIN b.levels[s]) \in DOMAIN b.levels[s] /\ Min(DOMAIN b.levels[s]) \in DOMAIN b.levels[s]
<1> DEFINE D == DOMAIN b.levels[s]
           R == {r \in DOMAIN b.orders : b.orders[r].side = s}
           f == [r \in R |-> b.orders[r].price]
<1>1. D \subseteq Nat BY DEF BookInv, WellFormed
<1>2. IsFiniteSet(R) BY FS_Subset DEF BookInv, WellFormed
<1>3. D = Abstract!PricesOf(b.orders, s) BY PricesAre
<1>4. D = {f[r] : r \in R} BY <1>3 DEF Abstract!PricesOf, Abstract!On
<1> HIDE DEF D, R
<1>5. f \in Surjection(R, D) BY <1>4 DEF Surjection
<1> HIDE DEF f
<1>6. IsFiniteSet(D) BY <1>2, <1>5, FS_Surjection
<1>7. Max(D) \in D BY <1>1, <1>6, MaxNat DEF D
<1>8. Min(D) \in D BY <1>1, MinNat DEF D
<1> QED BY <1>7, <1>8 DEF D

\* What BookSpec adds up at a price is what the level holds.
LEMMA SharesAre ==
  ASSUME NEW b, BookInv(b), NEW s \in Side, NEW p \in DOMAIN b.levels[s]
  PROVE  Abstract!SharesAt(b.orders, s, p) = b.levels[s][p].shares
<1> DEFINE R == RestingIn(b, s, p)
           e == [r \in R |-> b.orders[r].shares]
<1>1. {r \in Abstract!On(b.orders, s) : b.orders[r].price = p} = R
  BY DEF Abstract!On, RestingIn
<1>2. Abstract!SharesAt(b.orders, s, p) = Abstract!SumFunction(e)
  BY <1>1 DEF Abstract!SharesAt
<1>3. DOMAIN e = R OBVIOUS
<1>4. p \in Nat BY DEF BookInv, WellFormed
<1>5. b.levels[s][p].shares = SumFunctionOnSet(SharesOf(b), R)
  BY <1>4 DEF BookInv, Summed, SharesAt
<1>6. IsFiniteSet(R) /\ \A r \in R : SharesOf(b)[r] = e[r]
  BY RestingFinite, SharesNat DEF BookInv
<1> HIDE DEF e, R
<1>7. SumFunctionOnSet(SharesOf(b), R) = SumFunctionOnSet(e, R) BY <1>6, SumSame
<1>8. Abstract!SumFunction(e) = SumFunctionOnSet(e, R)
  BY <1>3 DEF Abstract!SumFunction, Abstract!SumFunctionOnSet, Abstract!FoldFunctionOnSet,
     Abstract!MapThenFoldSet, SumFunctionOnSet, FoldFunctionOnSet, MapThenFoldSet
<1> QED BY <1>2, <1>5, <1>7, <1>8

\* The getters of a book show what BookSpec defines from its orders.
LEMMA ViewIs ==
  ASSUME NEW b, BookInv(b)
  PROVE  OrderBookView(b) = Abstract!ViewOf(b.orders)
<1>1. ASSUME NEW s \in Side PROVE best(b, s) = Abstract!TopOf(b.orders, s)
  <2> DEFINE D == DOMAIN b.levels[s]
             p == IF s = "Buy" THEN Max(D) ELSE Min(D)
  <2>1. D = Abstract!PricesOf(b.orders, s) BY PricesAre
  <2>2. CASE D = {}
    BY <2>1, <2>2 DEF best, Abstract!TopOf, NoQuote, Abstract!NoQuote
  <2>3. CASE D # {}
    <3>1. p \in D BY <2>3, BestExists
    <3>2. Abstract!SharesAt(b.orders, s, p) = b.levels[s][p].shares BY <3>1, SharesAre
    <3>3. Abstract!TopOf(b.orders, s) = [price |-> p, shares |-> Abstract!SharesAt(b.orders, s, p)]
      BY <2>1, <2>3 DEF Abstract!TopOf, Abstract!Max, Abstract!Min, Max, Min
    <3>4. best(b, s) = [price |-> p, shares |-> b.levels[s][p].shares]
      BY <2>3 DEF best
    <3> QED BY <3>2, <3>3, <3>4
  <2> QED BY <2>2, <2>3
<1>2. \A s \in Side : DOMAIN b.levels[s] = Abstract!PricesOf(b.orders, s) BY PricesAre
<1>3. \A S : Abstract!Cardinality(S) = Cardinality(S) BY DEF Abstract!Cardinality, Cardinality
<1>4. Abstract!Side = Side BY DEF Abstract!Side, Side
<1> QED BY <1>1, <1>2, <1>3, <1>4 DEF OrderBookView, Abstract!ViewOf

-----------------------------------------------------------------------------
(* The specification.                                                      *)

\* The orders of a book carry references and prices of the calls.
Within(o) == DOMAIN o \subseteq Ref /\ \A r \in DOMAIN o : o[r].price \in Price

Inv == BookInv(book) /\ Within(book.orders) /\ ret \in BOOLEAN

\* The empty book is a book.
LEMMA EmptyInv == BookInv(EmptyBook)
<1>1. /\ DOMAIN EmptyBook.orders = {} /\ DOMAIN EmptyBook.levels = Side
      /\ \A s \in Side : DOMAIN EmptyBook.levels[s] = {}
  BY DEF EmptyBook, EmptyMap
<1>2. WellFormed(EmptyBook) BY <1>1, FS_EmptySet DEF WellFormed
<1>3. \A s \in Side, p \in Nat : Counted(EmptyBook, s, p) /\ Summed(EmptyBook, s, p)
  BY <1>1 DEF Counted, RestingIn, Summed
<1> QED BY <1>2, <1>3 DEF BookInv

\* The specification begins with it.
LEMMA InvInit == Init => Inv
<1> SUFFICES ASSUME Init PROVE Inv OBVIOUS
<1>1. book = EmptyBook /\ ret = TRUE BY DEF Init
<1>2. Within(EmptyBook.orders) BY DEF EmptyBook, EmptyMap, Within
<1> QED BY <1>1, <1>2, EmptyInv DEF Inv

\* The references and prices of the orders stay those of the calls.
LEMMA PutWithin ==
  ASSUME NEW o, Within(o), NEW r \in Ref, NEW s, NEW q, NEW p \in Price
  PROVE  Within(Put(o, r, [shares |-> q, price |-> p, side |-> s]))
BY DEF Within, Put

\* Orders that go take nothing with them but themselves.
LEMMA EraseWithin == ASSUME NEW o, Within(o), NEW r PROVE Within(Erase(o, r))
BY DEF Within, Erase

\* An order that shrinks keeps its price.
LEMMA ReducedWithin ==
  ASSUME NEW b, BookInv(b), Within(b.orders), NEW r \in DOMAIN b.orders, NEW q
  PROVE  Within(Shrunk(b.orders, r, q))
<1> DEFINE o == b.orders
           c == [o EXCEPT ![r].shares = @ - q]
<1>1. o[r] \in OrderType(Nat, Nat) BY DEF BookInv, WellFormed
<1>2. DOMAIN c = DOMAIN o /\ \A x \in DOMAIN o : c[x].price = o[x].price BY <1>1 DEF OrderType
<1>3. Within(c)
  <2> HIDE DEF c
  <2> QED BY <1>2 DEF Within
<1> QED BY <1>3, EraseWithin DEF Shrunk

\* So they do over whole calls.
LEMMA CallsWithin ==
  ASSUME NEW b, BookInv(b), Within(b.orders), NEW r
  PROVE  /\ r \in Ref => \A s, q : \A p \in Price : Within(add(b, r, s, q, p).book.orders)
         /\ \A q \in Nat : Within(reduce(b, r, q).book.orders)
         /\ Within(remove(b, r).book.orders)
<1>1. ASSUME r \in Ref, NEW s, NEW q, NEW p \in Price
      PROVE  Within(add(b, r, s, q, p).book.orders)
  <2>1. CASE r \in DOMAIN b.orders
    <3>1. add(b, r, s, q, p).book = b BY <2>1 DEF add
    <3> QED BY <3>1
  <2>2. CASE r \notin DOMAIN b.orders
    <3>1. add(b, r, s, q, p).book.orders = Put(b.orders, r, [shares |-> q, price |-> p, side |-> s])
      BY <2>2 DEF add
    <3> QED BY <1>1, <3>1, PutWithin
  <2> QED BY <2>1, <2>2
<1>2. ASSUME NEW q \in Nat PROVE Within(reduce(b, r, q).book.orders)
  <2>1. CASE r \notin DOMAIN b.orders
    <3>1. reduce(b, r, q).book = b BY <2>1, ReduceOrders
    <3> QED BY <3>1
  <2>2. CASE r \in DOMAIN b.orders
    <3>1. reduce(b, r, q).book.orders = Shrunk(b.orders, r, q) BY <2>2, ReduceOrders
    <3> QED BY <2>2, <3>1, ReducedWithin
  <2> QED BY <2>1, <2>2
<1>3. Within(remove(b, r).book.orders)
  <2>1. CASE r \notin DOMAIN b.orders
    <3>1. remove(b, r).book = b BY <2>1, RemoveOrders
    <3> QED BY <3>1
  <2>2. CASE r \in DOMAIN b.orders
    <3>1. remove(b, r).book.orders = Erase(b.orders, r) BY <2>2, RemoveOrders
    <3> QED BY <3>1, EraseWithin
  <2> QED BY <2>1, <2>2
<1> QED BY <1>1, <1>2, <1>3

\* Every mutator keeps the invariant.
LEMMA InvStep == Inv /\ [Next]_vars => Inv'
<1> SUFFICES ASSUME BookInv(book), Within(book.orders), ret \in BOOLEAN, [Next]_vars
             PROVE  BookInv(book') /\ Within(book.orders') /\ ret' \in BOOLEAN
  BY DEF Inv, BookInv, WellFormed, Counted, Summed, SharesAt, SharesOf, RestingIn, Within
<1>1. ASSUME NEW r \in Ref, NEW s \in Side, NEW q \in Shares, NEW p \in Price, AddOrder(r, s, q, p)
      PROVE  BookInv(book') /\ Within(book.orders') /\ ret' \in BOOLEAN
  <2>1. q \in Nat /\ p \in Nat BY BookAssumption
  <2>2. book' = add(book, r, s, q, p).book /\ ret' = add(book, r, s, q, p).ok
    BY <1>1 DEF AddOrder, Returns
  <2>3. BookInv(book') /\ ret' \in BOOLEAN BY <2>1, <2>2, AddKeeps
  <2>4. Within(book.orders') BY <2>2, CallsWithin
  <2> QED BY <2>3, <2>4
<1>2. ASSUME NEW r \in Ref, NEW q \in Shares, ReduceOrder(r, q)
      PROVE  BookInv(book') /\ Within(book.orders') /\ ret' \in BOOLEAN
  <2>1. q \in Nat BY BookAssumption
  <2>2. book' = reduce(book, r, q).book /\ ret' = reduce(book, r, q).ok
    BY <1>2 DEF ReduceOrder, Returns
  <2>3. BookInv(book') /\ ret' \in BOOLEAN BY <2>1, <2>2, ReduceKeeps
  <2>4. Within(book.orders') BY <2>1, <2>2, CallsWithin
  <2> QED BY <2>3, <2>4
<1>3. ASSUME NEW r \in Ref, RemoveOrder(r)
      PROVE  BookInv(book') /\ Within(book.orders') /\ ret' \in BOOLEAN
  <2>2. book' = remove(book, r).book /\ ret' = remove(book, r).ok
    BY <1>3 DEF RemoveOrder, Returns
  <2>3. BookInv(book') /\ ret' \in BOOLEAN BY <2>2, RemoveKeeps
  <2>4. Within(book.orders') BY <2>2, CallsWithin
  <2> QED BY <2>3, <2>4
<1>4. ASSUME NEW r \in Ref, NEW n \in Ref, NEW q \in Shares, NEW p \in Price,
             ReplaceOrder(r, n, q, p)
      PROVE  BookInv(book') /\ Within(book.orders') /\ ret' \in BOOLEAN
  <2>1. q \in Nat /\ p \in Nat BY BookAssumption
  <2>2. book' = replace(book, r, n, q, p).book /\ ret' = replace(book, r, n, q, p).ok
    BY <1>4 DEF ReplaceOrder, Returns
  <2>3. BookInv(book') /\ ret' \in BOOLEAN BY <2>1, <2>2, ReplaceKeeps
  <2>4. CASE r \notin DOMAIN book.orders BY <2>2, <2>3, <2>4 DEF replace
  <2>5. CASE r \in DOMAIN book.orders
    <3> DEFINE c == remove(book, r).book
               s == book.orders[r].side
    <3>1. book' = add(c, n, s, q, p).book BY <2>2, <2>5 DEF replace
    <3>2. BookInv(c) /\ Within(c.orders) BY CallsWithin, RemoveKeeps
    <3> HIDE DEF c, s
    <3>3. Within(book.orders') BY <3>1, <3>2, CallsWithin
    <3> QED BY <2>3, <3>3
  <2> QED BY <2>4, <2>5
<1>5. CASE UNCHANGED vars BY <1>5 DEF vars
<1> QED BY <1>1, <1>2, <1>3, <1>4, <1>5 DEF Next

\* A level has the price of an order that rests on it.
LEMMA LevelPrices ==
  ASSUME NEW b, BookInv(b), Within(b.orders), NEW s \in Side
  PROVE  DOMAIN b.levels[s] \subseteq Price
<1> SUFFICES ASSUME NEW p \in DOMAIN b.levels[s] PROVE p \in Price OBVIOUS
<1>1. p \in Nat BY DEF BookInv, WellFormed
<1>2. RestingIn(b, s, p) # {} BY <1>1 DEF BookInv, Counted
<1> QED BY <1>2 DEF RestingIn, Within

\* The book is well formed in every reachable state.
THEOREM TypeCorrect == Spec => []TypeOK
<1>1. Inv => TypeOK
  <2> SUFFICES ASSUME BookInv(book), Within(book.orders), ret \in BOOLEAN PROVE TypeOK
    BY DEF Inv
  <2>1. \A r \in DOMAIN book.orders : book.orders[r] \in OrderType(Nat, Price)
    BY DEF BookInv, WellFormed, Within, OrderType
  <2>2. \A s \in Side : DOMAIN book.levels[s] \subseteq Price BY LevelPrices
  <2> QED BY <2>1, <2>2 DEF BookInv, WellFormed, Within, TypeOK
<1> QED BY <1>1, InvInit, InvStep, PTL DEF Spec

\* Added up the way a reader would.
LEMMA SharesAdded ==
  ASSUME NEW b, BookInv(b), NEW s, NEW p
  PROVE  SumFunction([r \in RestingIn(b, s, p) |-> b.orders[r].shares]) = SharesAt(b, s, p)
<1> DEFINE R == RestingIn(b, s, p)
           e == [r \in R |-> b.orders[r].shares]
<1>1. IsFiniteSet(R) /\ \A r \in R : SharesOf(b)[r] = e[r]
  BY RestingFinite, SharesNat DEF BookInv
<1>2. DOMAIN e = R OBVIOUS
<1> HIDE DEF e, R
<1>3. SumFunctionOnSet(SharesOf(b), R) = SumFunctionOnSet(e, R) BY <1>1, SumSame
<1> QED BY <1>2, <1>3 DEF SumFunction, SharesAt, e, R

\* The shares of a level are exactly those of the orders resting on it, so
\* neither clamp ever takes off less, or more, than the order gave up.
THEOREM SharesExact == Spec => []LevelsSumShares
<1>1. Inv => LevelsSumShares
  <2> SUFFICES ASSUME BookInv(book), NEW s \in Side, NEW p \in DOMAIN book.levels[s]
               PROVE  book.levels[s][p].shares =
                        SumFunction([r \in RestingAt(s, p) |-> book.orders[r].shares])
    BY DEF Inv, LevelsSumShares
  <2>1. RestingAt(s, p) = RestingIn(book, s, p) BY DEF RestingAt, RestingIn
  <2>2. p \in Nat BY DEF BookInv, WellFormed
  <2>3. book.levels[s][p].shares = SharesAt(book, s, p) BY <2>2 DEF BookInv, Summed
  <2> QED BY <2>1, <2>3, SharesAdded
<1> QED BY <1>1, InvInit, InvStep, PTL DEF Spec

\* No phantom level and no missing one, and every level counts exactly its
\* orders, after any sequence of messages.
THEOREM LevelsExact == Spec => []LevelsCountOrders
<1>1. Inv => LevelsCountOrders
  <2> SUFFICES ASSUME BookInv(book) PROVE LevelsCountOrders BY DEF Inv
  <2>1. \A s, p : RestingAt(s, p) = RestingIn(book, s, p) BY DEF RestingAt, RestingIn
  <2>2. \A s \in Side : DOMAIN book.levels[s] \subseteq Nat BY DEF BookInv, WellFormed
  <2> QED BY <2>1, <2>2, BookAssumption DEF LevelsCountOrders, BookInv, Counted
<1> QED BY <1>1, InvInit, InvStep, PTL DEF Spec

\* Before and after every call the getters show the orders.
LEMMA ShowsOrders == Inv => OrderBookView(book) = Abstract!ViewOf(book.orders)
BY ViewIs DEF Inv

\* The book implements the ladder-free specification: what its getters return
\* is what the resting orders say, and a call that returns false has changed
\* nothing except for a replace onto a live reference, which has dropped the
\* original.
THEOREM Refinement == Spec => ImplementsBookSpec
<1>1. Init => Abstract!Init
  <2> SUFFICES ASSUME Init PROVE Abstract!Init OBVIOUS
  <2>1. book.orders = EmptyMap /\ ret = TRUE BY DEF Init, EmptyBook
  <2>2. OrderBookView(book) = Abstract!ViewOf(book.orders) BY InvInit, ShowsOrders
  <2> QED BY <2>1, <2>2 DEF Abstract!Init, Abstract!EmptyMap, EmptyMap
<1>2. Inv /\ Inv' /\ [Next]_vars => [Abstract!Next]_(Abstract!vars)
  <2> SUFFICES ASSUME Inv, Inv', [Next]_vars PROVE [Abstract!Next]_(Abstract!vars) OBVIOUS
  <2> DEFINE o == book.orders
  <2>1. OrderBookView(book') = Abstract!ViewOf(book.orders')
    <3>1. PICK c : c = book' OBVIOUS
    <3>2. BookInv(c) BY <3>1 DEF Inv
    <3> QED BY <3>1, <3>2, ViewIs
  <2>2. \A x, ok : book.orders' = x /\ ret' = ok => Abstract!Becomes(x, ok)
    BY <2>1 DEF Abstract!Becomes
  <2>3. /\ \A m, k, v : Abstract!Put(m, k, v) = Put(m, k, v)
        /\ \A m, k : Abstract!Erase(m, k) = Erase(m, k)
        /\ Abstract!Side = Side
    BY DEF Abstract!Put, Put, Abstract!Erase, Erase, Abstract!Side, Side
  <2>4. ASSUME NEW r \in Ref, NEW s \in Side, NEW q \in Shares, NEW p \in Price, AddOrder(r, s, q, p)
        PROVE  Abstract!Add(r, s, q, p)
    <3>1. book' = add(book, r, s, q, p).book /\ ret' = add(book, r, s, q, p).ok
      BY <2>4 DEF AddOrder, Returns
    <3>2. CASE r \in DOMAIN o
      <4>0. add(book, r, s, q, p).book = book /\ add(book, r, s, q, p).ok = FALSE
        BY <3>2 DEF add
      <4>1. book.orders' = o /\ ret' = FALSE BY <3>1, <4>0
      <4> QED BY <2>2, <3>2, <4>1 DEF Abstract!Add, Abstract!Enter
    <3>3. CASE r \notin DOMAIN o
      <4>0. /\ add(book, r, s, q, p).book.orders = Put(o, r, [shares |-> q, price |-> p, side |-> s])
            /\ add(book, r, s, q, p).ok = TRUE
        BY <3>3 DEF add
      <4>1. book.orders' = Put(o, r, [shares |-> q, price |-> p, side |-> s]) /\ ret' = TRUE
        BY <3>1, <4>0
      <4> QED BY <2>2, <2>3, <3>3, <4>1 DEF Abstract!Add, Abstract!Enter
    <3> QED BY <3>2, <3>3
  <2>5. ASSUME NEW r \in Ref, NEW q \in Shares, ReduceOrder(r, q)
        PROVE  Abstract!Reduce(r, q)
    <3>1. book' = reduce(book, r, q).book /\ ret' = reduce(book, r, q).ok
      BY <2>5 DEF ReduceOrder, Returns
    <3>2. CASE r \notin DOMAIN o
      <4>1. book.orders' = o /\ ret' = FALSE BY <3>1, <3>2 DEF reduce
      <4> QED BY <2>2, <3>2, <4>1 DEF Abstract!Reduce, Abstract!Unknown
    <3>3. CASE r \in DOMAIN o
      <4>1. o[r].shares \in Nat /\ q \in Nat
        BY <3>3, BookAssumption DEF Inv, BookInv, WellFormed, OrderType
      <4>2. ret' = TRUE BY <3>1, <3>3 DEF reduce
      <4>3. CASE o[r].shares <= q
        <5>1. AtMost(q, o[r].shares) = o[r].shares BY <4>1, <4>3 DEF AtMost
        <5>2. book.orders' = Erase(o, r) BY <3>1, <3>3, <5>1 DEF reduce
        <5> QED BY <2>2, <2>3, <3>3, <4>2, <4>3, <5>2 DEF Abstract!Reduce
      <4>4. CASE ~(o[r].shares <= q)
        <5>1. AtMost(q, o[r].shares) = q /\ o[r].shares # q BY <4>1, <4>4 DEF AtMost
        <5>2. book.orders' = [o EXCEPT ![r].shares = @ - q] BY <3>1, <3>3, <5>1 DEF reduce
        <5> QED BY <2>2, <3>3, <4>2, <4>4, <5>2 DEF Abstract!Reduce
      <4> QED BY <4>3, <4>4
    <3> QED BY <3>2, <3>3
  <2>6. ASSUME NEW r \in Ref, RemoveOrder(r)
        PROVE  Abstract!Remove(r)
    <3>1. book' = remove(book, r).book /\ ret' = remove(book, r).ok
      BY <2>6 DEF RemoveOrder, Returns
    <3>2. CASE r \notin DOMAIN o
      <4>1. book.orders' = o /\ ret' = FALSE BY <3>1, <3>2, RemoveOrders
      <4> QED BY <2>2, <3>2, <4>1 DEF Abstract!Remove, Abstract!Unknown
    <3>3. CASE r \in DOMAIN o
      <4>1. book.orders' = Erase(o, r) /\ ret' = TRUE BY <3>1, <3>3, RemoveOrders
      <4> QED BY <2>2, <2>3, <3>3, <4>1 DEF Abstract!Remove
    <3> QED BY <3>2, <3>3
  <2>7. ASSUME NEW r \in Ref, NEW n \in Ref, NEW q \in Shares, NEW p \in Price,
               ReplaceOrder(r, n, q, p)
        PROVE  Abstract!Replace(r, n, q, p)
    <3>1. book' = replace(book, r, n, q, p).book /\ ret' = replace(book, r, n, q, p).ok
      BY <2>7 DEF ReplaceOrder, Returns
    <3>2. CASE r \notin DOMAIN o
      <4>1. book.orders' = o /\ ret' = FALSE BY <3>1, <3>2 DEF replace
      <4> QED BY <2>2, <3>2, <4>1 DEF Abstract!Replace, Abstract!Unknown
    <3>3. CASE r \in DOMAIN o
      <4> DEFINE b == remove(book, r).book
                 s == o[r].side
      <4>1. b.orders = Erase(o, r) BY <3>3, RemoveOrders
      <4>2. book' = add(b, n, s, q, p).book /\ ret' = add(b, n, s, q, p).ok
        BY <3>1, <3>3 DEF replace
      <4> HIDE DEF b, s
      <4>3. CASE n \in DOMAIN Erase(o, r)
        <5>0. add(b, n, s, q, p).book = b /\ add(b, n, s, q, p).ok = FALSE
          BY <4>1, <4>3 DEF add
        <5>1. book.orders' = Erase(o, r) /\ ret' = FALSE BY <4>1, <4>2, <5>0
        <5> QED BY <2>2, <2>3, <3>3, <4>3, <5>1 DEF Abstract!Replace, Abstract!Enter
      <4>4. CASE n \notin DOMAIN Erase(o, r)
        <5>0. /\ add(b, n, s, q, p).book.orders =
                   Put(b.orders, n, [shares |-> q, price |-> p, side |-> s])
              /\ add(b, n, s, q, p).ok = TRUE
          BY <4>1, <4>4 DEF add
        <5>1. /\ book.orders' = Put(Erase(o, r), n, [shares |-> q, price |-> p, side |-> s])
              /\ ret' = TRUE
          BY <4>1, <4>2, <5>0
        <5> QED BY <2>2, <2>3, <3>3, <4>4, <5>1 DEF Abstract!Replace, Abstract!Enter, s
      <4> QED BY <4>3, <4>4
    <3> QED BY <3>2, <3>3
  <2>8. CASE UNCHANGED vars BY <2>8 DEF vars, Abstract!vars
  <2> QED BY <2>3, <2>4, <2>5, <2>6, <2>7, <2>8 DEF Next, Abstract!Next
<1> QED BY <1>1, <1>2, InvInit, InvStep, PTL DEF Spec, ImplementsBookSpec, Abstract!Spec

-----------------------------------------------------------------------------
(* The tick grid of a ladder.                                              *)

Tick == LB!tick_size

\* The tick is at least 1, whatever the caller passed.
LEMMA TickPositive == Tick \in Nat \ {0}
BY LadderOpsAssumption DEF Tick, LB!tick_size

\* Prices on the grid are multiples of the tick, and so are their distances.
LEMMA GridSlot ==
  ASSUME NEW lo \in Nat, NEW p \in Nat, lo <= p, lo % Tick = 0, p % Tick = 0
  PROVE  /\ (p - lo) % Tick = 0
         /\ (p - lo) \div Tick \in Nat
         /\ lo + ((p - lo) \div Tick) * Tick = p
<1> DEFINE a == lo \div Tick
           k == p \div Tick
<1>1. a \in Int /\ k \in Int /\ lo = Tick * a /\ p = Tick * k
  BY TickPositive, DivDef
<1> HIDE DEF a, k
<1>2. p - lo = Tick * (k - a) BY <1>1, TickPositive, Distributes
<1>3. (p - lo) % Tick = 0 /\ (p - lo) \div Tick = k - a
  BY <1>1, <1>2, TickPositive, DivMultiple
<1>4. (p - lo) \div Tick \in Nat BY TickPositive, DivNat
<1>5. (k - a) * Tick = Tick * (k - a) BY <1>1, TickPositive
<1>6. lo + (p - lo) = p OBVIOUS
<1> QED BY <1>2, <1>3, <1>4, <1>5, <1>6

\* A price at a whole number of ticks from the grid is on it.
LEMMA GridOn ==
  ASSUME NEW lo \in Nat, NEW p \in Nat, lo <= p, lo % Tick = 0, (p - lo) % Tick = 0
  PROVE  p % Tick = 0
<1> DEFINE a == lo \div Tick
           x == p - lo
           d == x \div Tick
<1>0. x \in Int /\ x % Tick = 0 OBVIOUS
<1> HIDE DEF x
<1>1. a \in Int /\ d \in Int /\ lo = Tick * a /\ x = Tick * d
  <2>1. a \in Int /\ lo = Tick * a + (lo % Tick) BY TickPositive, DivDef
  <2>2. d \in Int /\ x = Tick * d + (x % Tick) BY <1>0, TickPositive, DivDef
  <2> HIDE DEF a, d
  <2> QED BY <1>0, <2>1, <2>2, TickPositive
<1> HIDE DEF a, d
<1>2. p = Tick * (a + d) BY <1>1, TickPositive, Distributes DEF x
<1>3. a + d \in Int BY <1>1
<1> QED BY <1>2, <1>3, TickPositive, DivMultiple

\* The price of a slot is on the grid, and the slot of that price is the slot.
LEMMA GridPrice ==
  ASSUME NEW lo \in Nat, NEW i \in Nat, lo % Tick = 0
  PROVE  /\ lo + i * Tick \in Nat /\ lo <= lo + i * Tick
         /\ ((lo + i * Tick) - lo) \div Tick = i
         /\ (lo + i * Tick) % Tick = 0
<1> DEFINE d == i * Tick
<1>1. d \in Nat BY TickPositive
<1>2. d % Tick = 0 /\ d \div Tick = i BY TickPositive, DivMultiple
<1> HIDE DEF d
<1>3. (lo + d) - lo = d /\ lo + d \in Nat /\ lo <= lo + d BY <1>1
<1>4. (lo + d) % Tick = 0 BY <1>2, <1>3, GridOn
<1> QED BY <1>2, <1>3, <1>4 DEF d

\* A slot is one of the array exactly when its price is within the range.
LEMMA GridIn ==
  ASSUME NEW lo \in Nat, NEW hi \in Nat, lo <= hi, lo % Tick = 0, NEW i \in Nat
  PROVE  i \in 0 .. LB!ticks(lo, hi) - 1 <=> lo + i * Tick <= hi
<1> DEFINE n == (hi - lo) \div Tick
<1>1. n \in Nat /\ Tick * n <= hi - lo /\ i * Tick \in Nat /\ n * Tick = Tick * n /\ i * Tick = Tick * i
  BY TickPositive, DivNat
<1>2. LB!ticks(lo, hi) = n + 1 BY DEF LB!ticks, Tick
<1>3. (i * Tick) \div Tick = i BY TickPositive, DivMultiple
<1> HIDE DEF n
<1>4. ASSUME i <= n PROVE lo + i * Tick <= hi
  <2>1. Tick * i <= Tick * n BY <1>1, <1>4, TickPositive, TimesMono
  <2> QED BY <1>1, <2>1, TickPositive
<1>5. ASSUME lo + i * Tick <= hi PROVE i <= n
  <2>1. i * Tick <= hi - lo BY <1>1, <1>5
  <2>2. (i * Tick) \div Tick <= n BY <1>1, <2>1, TickPositive, DivMono DEF n
  <2> QED BY <1>3, <2>2
<1> QED BY <1>1, <1>2, <1>4, <1>5

\* Slots are ordered as their prices.
LEMMA GridOrder ==
  ASSUME NEW lo \in Nat, NEW p \in Nat, NEW x \in Nat, lo <= p, lo <= x, p <= x
  PROVE  (p - lo) \div Tick <= (x - lo) \div Tick
BY TickPositive, DivMono

\* Distinct prices of the grid have distinct slots.
LEMMA GridApart ==
  ASSUME NEW lo \in Nat, NEW p \in Nat, NEW x \in Nat, lo <= p, lo <= x, lo % Tick = 0,
         p % Tick = 0, x % Tick = 0, (p - lo) \div Tick = (x - lo) \div Tick
  PROVE  p = x
<1>1. lo + ((p - lo) \div Tick) * Tick = p BY GridSlot
<1>2. lo + ((x - lo) \div Tick) * Tick = x BY GridSlot
<1> QED BY <1>1, <1>2

\* A range that begins earlier has every slot further up by the same offset.
LEMMA GridShift ==
  ASSUME NEW lo \in Nat, NEW less \in Nat, less <= lo, lo % Tick = 0, less % Tick = 0
  PROVE  LET off == (lo - less) \div Tick
         IN  /\ off \in Nat
             /\ \A i \in Nat : i >= off =>
                  i - off \in Nat /\ lo + (i - off) * Tick = less + i * Tick
             /\ \A p \in Nat : lo <= p /\ p % Tick = 0 =>
                  (p - less) \div Tick = (p - lo) \div Tick + off
<1> DEFINE off == (lo - less) \div Tick
<1>1. off \in Nat /\ less + off * Tick = lo BY GridSlot
<1> HIDE DEF off
<1>2. ASSUME NEW i \in Nat, i >= off
      PROVE  i - off \in Nat /\ lo + (i - off) * Tick = less + i * Tick
  <2>1. Tick * (i - off) = Tick * i - Tick * off BY <1>1, TickPositive, Distributes
  <2>2. (i - off) * Tick = Tick * (i - off) /\ i * Tick = Tick * i /\ off * Tick = Tick * off
        /\ Tick * i \in Nat /\ Tick * off \in Nat
    BY <1>1, TickPositive
  <2> QED BY <1>1, <1>2, <2>1, <2>2
<1>3. ASSUME NEW p \in Nat, lo <= p, p % Tick = 0
      PROVE  (p - less) \div Tick = (p - lo) \div Tick + off
  <2> DEFINE k == (p - lo) \div Tick
  <2>1. k \in Nat /\ lo + k * Tick = p BY <1>3, GridSlot
  <2> HIDE DEF k
  <2>2. k + off \in Nat /\ k + off >= off /\ (k + off) - off = k BY <1>1, <2>1
  <2>3. lo + k * Tick = less + (k + off) * Tick BY <1>2, <2>2
  <2>4. (p - less) \div Tick = k + off BY <2>1, <2>2, <2>3, GridPrice
  <2> QED BY <2>4 DEF k
<1> QED BY <1>1, <1>2, <1>3 DEF off

-----------------------------------------------------------------------------
(* The ladder of a book.  A LadderBook is determined by its range and by   *)
(* the OrderBook that holds the same orders: every mutator of LadderOps    *)
(* turns the ladder of a book into the ladder of what the mutator of       *)
(* BookOps makes of that book.                                             *)

LevelAt(b, s, p) == IF p \in DOMAIN b.levels[s] THEN b.levels[s][p] ELSE EmptyLevel

BestPrice(D, s) == IF s = "Buy" THEN Max(D) ELSE Min(D)

BestSlot(lo, D, s) == IF D = {} THEN -1 ELSE (BestPrice(D, s) - lo) \div Tick

LadderOf(lo, hi, b) ==
  [min_price |-> lo, max_price |-> hi, num_ticks |-> LB!ticks(lo, hi),
   levels |-> [s \in Side |-> [i \in 0 .. LB!ticks(lo, hi) - 1 |-> LevelAt(b, s, lo + i * Tick)]],
   best   |-> [s \in Side |-> BestSlot(lo, DOMAIN b.levels[s], s)],
   count  |-> [s \in Side |-> Cardinality(DOMAIN b.levels[s])],
   orders |-> b.orders]

\* The range is one of the grid, and every level of the book has a slot in it.
OnGrid(lo, hi) == lo \in Nat /\ hi \in Nat /\ lo <= hi /\ hi <= UINT32_MAX /\ lo % Tick = 0
Fits(lo, hi, b) ==
  /\ OnGrid(lo, hi)
  /\ \A s \in Side : \A p \in DOMAIN b.levels[s] : p \in Nat /\ lo <= p /\ p <= hi /\ p % Tick = 0

\* The operators LadderOps takes from its own imports are those of BookOps.
LEMMA SameOps ==
  /\ \A S : LB!Min(S) = Min(S) /\ LB!Max(S) = Max(S)
  /\ LB!Side = Side /\ LB!EmptyLevel = EmptyLevel /\ LB!EmptyMap = EmptyMap
  /\ \A m, k, v : LB!Put(m, k, v) = Put(m, k, v)
  /\ \A m, k : LB!Erase(m, k) = Erase(m, k)
BY DEF LB!Min, Min, LB!Max, Max, LB!Side, Side, LB!EmptyLevel, EmptyLevel, LB!EmptyMap, EmptyMap,
   LB!Put, Put, LB!Erase, Erase

\* The best price of a side.
IsBest(D, s, x) == x \in D /\ \A y \in D : IF s = "Buy" THEN y <= x ELSE x <= y

\* It exists, and nothing else is best.
LEMMA BestIs ==
  ASSUME NEW D, IsFiniteSet(D), D \subseteq Nat, D # {}, NEW s
  PROVE  IsBest(D, s, BestPrice(D, s)) /\ \A x : IsBest(D, s, x) => BestPrice(D, s) = x
<1>1. Max(D) \in D /\ \A y \in D : y <= Max(D) BY MaxNat
<1>2. Min(D) \in D /\ \A y \in D : Min(D) <= y BY MinNat
<1>3. IsBest(D, s, BestPrice(D, s)) BY <1>1, <1>2 DEF IsBest, BestPrice
<1>4. ASSUME NEW x, IsBest(D, s, x) PROVE BestPrice(D, s) = x
  <2> DEFINE z == BestPrice(D, s)
  <2> HIDE DEF z
  <2>1. IsBest(D, s, z) BY <1>3 DEF z
  <2>2. x \in Nat /\ z \in Nat BY <1>4, <2>1 DEF IsBest
  <2>3. x <= z /\ z <= x BY <1>4, <2>1 DEF IsBest
  <2> QED BY <2>2, <2>3 DEF z
<1> QED BY <1>3, <1>4

\* A side of a book has finitely many levels, each with orders.
LEMMA SideFinite ==
  ASSUME NEW b, BookInv(b), NEW s \in Side
  PROVE  /\ DOMAIN b.levels[s] \subseteq Nat
         /\ IsFiniteSet(DOMAIN b.levels[s])
         /\ \A p \in DOMAIN b.levels[s] : b.levels[s][p].orders \in Nat \ {0}
<1> DEFINE D == DOMAIN b.levels[s]
           R == {r \in DOMAIN b.orders : b.orders[r].side = s}
           f == [r \in R |-> b.orders[r].price]
<1>1. D \subseteq Nat BY DEF BookInv, WellFormed
<1>2. IsFiniteSet(R) BY FS_Subset DEF BookInv, WellFormed
<1>3. D = Abstract!PricesOf(b.orders, s) BY PricesAre
<1>4. D = {f[r] : r \in R} BY <1>3 DEF Abstract!PricesOf, Abstract!On
<1>5. IsFiniteSet(D)
  <2> HIDE DEF D, R
  <2>1. f \in Surjection(R, D) BY <1>4 DEF Surjection
  <2> HIDE DEF f
  <2> QED BY <1>2, <2>1, FS_Surjection
<1>6. ASSUME NEW p \in D PROVE b.levels[s][p].orders \in Nat \ {0}
  <2>1. Counted(b, s, p) /\ p \in Nat BY <1>1 DEF BookInv
  <2>2. RestingIn(b, s, p) # {} BY <2>1 DEF Counted
  <2>3. Cardinality(RestingIn(b, s, p)) \in Nat /\ Cardinality(RestingIn(b, s, p)) # 0
    BY <2>2, RestingFinite DEF BookInv
  <2> QED BY <2>1, <2>3 DEF Counted
<1> QED BY <1>1, <1>5, <1>6

\* The range the constructor and grow_to_include put around a price.
LEMMA WindowAround ==
  ASSUME NEW base \in 0 .. UINT32_MAX
  PROVE  LET lo == LB!snap_to_tick(LB!window_low(base))
             hi == LB!window_high(base)
         IN  OnGrid(lo, hi) /\ lo <= base /\ base <= hi
<1> DEFINE w  == LB!window(base)
           l  == LB!window_low(base)
           lo == LB!snap_to_tick(l)
           hi == LB!window_high(base)
<1>0. UINT32_MAX \in Nat /\ base \in Nat /\ base <= UINT32_MAX BY LadderOpsAssumption
<1>1. w \in Nat
  <2>1. base * WindowNum \in Nat BY <1>0, LadderOpsAssumption
  <2> QED BY <2>1, LadderOpsAssumption, DivNat DEF LB!window
<1>2. l \in Nat /\ l <= base BY <1>0, <1>1 DEF LB!window_low
<1>3. lo \in Nat /\ lo <= l /\ lo % Tick = 0
  <2> DEFINE k == l \div Tick
  <2>1. k \in Nat /\ Tick * k <= l BY <1>2, TickPositive, DivNat
  <2>2. lo = k * Tick BY DEF LB!snap_to_tick, Tick
  <2> HIDE DEF k, l, lo
  <2>3. k * Tick = Tick * k /\ Tick * k \in Nat BY <2>1, TickPositive
  <2>4. (Tick * k) % Tick = 0 BY <2>1, TickPositive, DivMultiple
  <2> QED BY <2>1, <2>2, <2>3, <2>4
<1>4. hi \in Nat /\ base <= hi /\ hi <= UINT32_MAX
  <2>1. hi = Min({base + w, UINT32_MAX}) BY SameOps DEF LB!window_high
  <2> HIDE DEF w, hi
  <2>2. base + w \in Nat BY <1>0, <1>1
  <2> QED BY <1>0, <1>1, <2>1, <2>2, MinMaxPair
<1> HIDE DEF w, l, lo, hi
<1>5. OnGrid(lo, hi) /\ lo <= base /\ base <= hi BY <1>0, <1>2, <1>3, <1>4 DEF OnGrid
<1> QED BY <1>5 DEF lo, hi, l

\* A new ladder is the ladder of the empty book.
LEMMA LadderNew ==
  ASSUME NEW base \in 0 .. UINT32_MAX
  PROVE  LET lo == LB!snap_to_tick(LB!window_low(base))
             hi == LB!window_high(base)
         IN  Fits(lo, hi, EmptyBook) /\ LB!NewLadder(base) = LadderOf(lo, hi, EmptyBook)
<1> DEFINE lo == LB!snap_to_tick(LB!window_low(base))
           hi == LB!window_high(base)
<1>5. LB!NewLadder(base) =
        [min_price |-> lo, max_price |-> hi, num_ticks |-> LB!ticks(lo, hi),
         levels |-> [s \in Side |-> [i \in 0 .. LB!ticks(lo, hi) - 1 |-> EmptyLevel]],
         best   |-> [s \in Side |-> -1], count |-> [s \in Side |-> 0], orders |-> EmptyMap]
  BY SameOps DEF LB!NewLadder, LB!NoIdx
<1>6. \A s \in Side : DOMAIN EmptyBook.levels[s] = {} BY DEF EmptyBook, EmptyMap
<1>7. Fits(lo, hi, EmptyBook) BY <1>6, WindowAround DEF Fits
<1> HIDE DEF lo, hi
<1>8. LadderOf(lo, hi, EmptyBook) = LB!NewLadder(base)
  <2>1. \A s \in Side : \A p : LevelAt(EmptyBook, s, p) = EmptyLevel BY <1>6 DEF LevelAt
  <2>2. \A s \in Side : BestSlot(lo, DOMAIN EmptyBook.levels[s], s) = -1 BY <1>6 DEF BestSlot
  <2>3. \A s \in Side : Cardinality(DOMAIN EmptyBook.levels[s]) = 0 BY <1>6, FS_EmptySet
  <2>4. EmptyBook.orders = EmptyMap BY DEF EmptyBook
  <2> QED BY <1>5, <2>1, <2>2, <2>3, <2>4 DEF LadderOf
<1> QED BY <1>7, <1>8 DEF lo, hi

\* Re-homed into a wider range, it is the ladder of the same book.
LEMMA LadderResize ==
  ASSUME NEW b, BookInv(b), NEW lo, NEW hi, Fits(lo, hi, b),
         NEW less \in Nat, NEW more \in Nat, less <= lo, hi <= more, OnGrid(less, more)
  PROVE  /\ Fits(less, more, b)
         /\ LB!resize_range(LadderOf(lo, hi, b), less, more) = LadderOf(less, more, b)
<1> DEFINE L == LadderOf(lo, hi, b)
           off == (lo - less) \div Tick
           n == LB!ticks(lo, hi)
           m == LB!ticks(less, more)
<1>0. /\ lo \in Nat /\ hi \in Nat /\ lo <= hi /\ lo % Tick = 0
      /\ less <= more /\ more <= UINT32_MAX /\ less % Tick = 0
      /\ \A s \in Side : \A p \in DOMAIN b.levels[s] : p \in Nat /\ lo <= p /\ p <= hi /\ p % Tick = 0
  BY DEF Fits, OnGrid
<1>1. Fits(less, more, b)
  <2>1. ASSUME NEW s \in Side, NEW p \in DOMAIN b.levels[s]
        PROVE  p \in Nat /\ less <= p /\ p <= more /\ p % Tick = 0
    BY <1>0
  <2> QED BY <2>1 DEF Fits
<1>2. /\ off \in Nat
      /\ \A i \in Nat : i >= off => i - off \in Nat /\ lo + (i - off) * Tick = less + i * Tick
      /\ \A p \in Nat : lo <= p /\ p % Tick = 0 =>
           (p - less) \div Tick = (p - lo) \div Tick + off
  BY <1>0, GridShift
<1>3. /\ L.min_price = lo /\ L.max_price = hi /\ L.num_ticks = n /\ L.orders = b.orders
      /\ L.count = [s \in Side |-> Cardinality(DOMAIN b.levels[s])]
      /\ \A s \in Side : L.best[s] = BestSlot(lo, DOMAIN b.levels[s], s)
      /\ \A s \in Side : \A i \in 0 .. n - 1 : L.levels[s][i] = LevelAt(b, s, lo + i * Tick)
  BY DEF LadderOf
<1>4. LB!resize_range(L, less, more) =
        [L EXCEPT !.min_price = less, !.max_price = more, !.num_ticks = m,
                  !.levels = [s \in Side |-> [i \in 0 .. m - 1 |->
                     IF i - off \in 0 .. n - 1 THEN L.levels[s][i - off] ELSE EmptyLevel]],
                  !.best = [s \in Side |-> IF L.best[s] = -1 THEN -1 ELSE L.best[s] + off]]
  BY <1>3, SameOps DEF LB!resize_range, LB!NoIdx, Tick
<1> HIDE DEF off, n, m
<1>5. ASSUME NEW s \in Side, NEW i \in 0 .. m - 1
      PROVE  (IF i - off \in 0 .. n - 1 THEN L.levels[s][i - off] ELSE EmptyLevel) =
               LevelAt(b, s, less + i * Tick)
  <2>0. m \in Int /\ n \in Int /\ i \in Nat
    <3>1. \A x \in Int : x \div Tick \in Int BY TickPositive, DivDef
    <3>2. m \in Int /\ n \in Int BY <1>0, <3>1 DEF m, n, LB!ticks, Tick
    <3> QED BY <3>2
  <2>1. CASE i - off \in 0 .. n - 1
    <3>1. L.levels[s][i - off] = LevelAt(b, s, lo + (i - off) * Tick) BY <1>3, <2>1
    <3>2. i >= off BY <1>2, <2>0, <2>1
    <3> QED BY <1>2, <2>0, <2>1, <3>1, <3>2
  <2>2. CASE i - off \notin 0 .. n - 1
    <3> DEFINE p == less + i * Tick
    <3>1. SUFFICES ASSUME p \in DOMAIN b.levels[s] PROVE FALSE BY <2>2 DEF LevelAt
    <3>2. p \in Nat /\ lo <= p /\ p <= hi /\ p % Tick = 0 BY <1>0, <3>1
    <3>3. (p - less) \div Tick = i BY <1>0, <2>0, GridPrice
    <3> HIDE DEF p
    <3>4. (p - lo) \div Tick \in Nat /\ lo + ((p - lo) \div Tick) * Tick = p BY <1>0, <3>2, GridSlot
    <3>5. (p - lo) \div Tick = i - off BY <1>2, <2>0, <3>2, <3>3, <3>4
    <3>6. i - off \in 0 .. n - 1 BY <1>0, <3>2, <3>4, <3>5, GridIn DEF n
    <3> QED BY <2>2, <3>6
  <2> QED BY <2>1, <2>2
<1>6. ASSUME NEW s \in Side
      PROVE  (IF L.best[s] = -1 THEN -1 ELSE L.best[s] + off) =
               BestSlot(less, DOMAIN b.levels[s], s)
  <2> DEFINE D == DOMAIN b.levels[s]
             x == BestPrice(D, s)
  <2>1. CASE D = {} BY <1>3, <2>1 DEF BestSlot
  <2>2. CASE D # {}
    <3>1. x \in D BY <2>2, SideFinite, BestIs DEF IsBest
    <3>2. x \in Nat /\ lo <= x /\ x % Tick = 0 BY <1>0, <3>1
    <3> HIDE DEF x, D
    <3>3. (x - lo) \div Tick \in Nat BY <1>0, <3>2, GridSlot
    <3>4. L.best[s] = (x - lo) \div Tick BY <1>3, <2>2 DEF BestSlot, x, D
    <3>5. BestSlot(less, D, s) = (x - less) \div Tick BY <2>2 DEF BestSlot, x
    <3> QED BY <1>2, <3>2, <3>3, <3>4, <3>5 DEF D
  <2> QED BY <2>1, <2>2
<1>7. LB!resize_range(L, less, more) =
        [L EXCEPT !.min_price = less, !.max_price = more, !.num_ticks = m,
                  !.levels = [s \in Side |-> [i \in 0 .. m - 1 |-> LevelAt(b, s, less + i * Tick)]],
                  !.best = [s \in Side |-> BestSlot(less, DOMAIN b.levels[s], s)]]
  <2>1. [s \in Side |-> [i \in 0 .. m - 1 |->
           IF i - off \in 0 .. n - 1 THEN L.levels[s][i - off] ELSE EmptyLevel]] =
        [s \in Side |-> [i \in 0 .. m - 1 |-> LevelAt(b, s, less + i * Tick)]]
    BY <1>5
  <2>2. [s \in Side |-> IF L.best[s] = -1 THEN -1 ELSE L.best[s] + off] =
        [s \in Side |-> BestSlot(less, DOMAIN b.levels[s], s)]
    BY <1>6
  <2> HIDE DEF L
  <2> QED BY <1>4, <2>1, <2>2, Zenon
<1>8. LB!resize_range(L, less, more) = LadderOf(less, more, b)
  BY <1>7 DEF LadderOf, m
<1> QED BY <1>1, <1>8

\* Growth to include a price keeps the book, and the price is then in range.
LEMMA LadderGrow ==
  ASSUME NEW b, BookInv(b), NEW lo, NEW hi, Fits(lo, hi, b), NEW p \in 0 .. UINT32_MAX
  PROVE  LET L    == LadderOf(lo, hi, b)
             less == LB!new_min(L, p)
             more == LB!new_max(L, p)
         IN  /\ Fits(less, more, b) /\ less <= p /\ p <= more
             /\ LB!grow_to_include(L, p) = LadderOf(less, more, b)
<1> DEFINE L == LadderOf(lo, hi, b)
           less == LB!new_min(L, p)
           more == LB!new_max(L, p)
           x == LB!snap_to_tick(LB!window_low(p))
           y == LB!window_high(p)
<1>1. lo \in Nat /\ hi \in Nat /\ lo <= hi /\ hi <= UINT32_MAX /\ lo % Tick = 0 /\ p \in Nat
  BY DEF Fits, OnGrid
<1>2. /\ x \in Nat /\ y \in Nat /\ x <= y /\ y <= UINT32_MAX /\ x % Tick = 0
      /\ x <= p /\ p <= y
  BY WindowAround DEF OnGrid
<1>3. L.min_price = lo /\ L.max_price = hi BY DEF LadderOf
<1>4. /\ less = IF p < lo THEN Min({lo, x}) ELSE lo
      /\ more = IF p > hi THEN Max({hi, y}) ELSE hi
  BY <1>3, SameOps DEF LB!new_min, LB!new_max
<1>5. LB!grow_to_include(L, p) = LB!resize_range(L, less, more) BY DEF LB!grow_to_include
<1> HIDE DEF L, less, more, x, y
<1>6. Min({lo, x}) = (IF lo <= x THEN lo ELSE x) /\ Max({hi, y}) = (IF hi >= y THEN hi ELSE y)
  <2>1. lo \in Int /\ hi \in Int /\ x \in Int /\ y \in Int BY <1>1, <1>2
  <2> QED BY <2>1, MinMaxPair
<1>7. /\ less \in Nat /\ more \in Nat /\ less <= lo /\ hi <= more /\ less <= p /\ p <= more
      /\ OnGrid(less, more)
  BY <1>1, <1>2, <1>4, <1>6 DEF OnGrid
<1>8. Fits(less, more, b) /\ LB!resize_range(L, less, more) = LadderOf(less, more, b)
  BY <1>7, LadderResize DEF L
<1> QED BY <1>5, <1>7, <1>8 DEF L, less, more

-----------------------------------------------------------------------------
(* The cached best slot.                                                   *)

\* Prices of one grid.
GridSet(lo, D) ==
  /\ lo \in Nat /\ lo % Tick = 0
  /\ IsFiniteSet(D) /\ \A p \in D : p \in Nat /\ lo <= p /\ p % Tick = 0

\* On a grid, the order of slots is that of prices.
LEMMA SlotOrder ==
  ASSUME NEW lo \in Nat, NEW p \in Nat, NEW x \in Nat, lo <= p, lo <= x, lo % Tick = 0,
         p % Tick = 0, x % Tick = 0
  PROVE  /\ (p - lo) \div Tick \in Nat /\ (x - lo) \div Tick \in Nat
         /\ p <= x <=> (p - lo) \div Tick <= (x - lo) \div Tick
<1>1. (p - lo) \div Tick \in Nat /\ (x - lo) \div Tick \in Nat BY GridSlot
<1>2. p <= x => (p - lo) \div Tick <= (x - lo) \div Tick BY GridOrder
<1>3. x <= p => (x - lo) \div Tick <= (p - lo) \div Tick BY GridOrder
<1>4. (p - lo) \div Tick = (x - lo) \div Tick => p = x BY GridApart
<1> QED BY <1>1, <1>2, <1>3, <1>4

\* An order joins: the best slot moves exactly when the new price is better.
LEMMA BestAdd ==
  ASSUME NEW lo, NEW D, GridSet(lo, D), NEW p \in Nat, lo <= p, p % Tick = 0, NEW s \in Side
  PROVE  LET i == (p - lo) \div Tick
             k == BestSlot(lo, D, s)
         IN  BestSlot(lo, D \cup {p}, s) =
               IF k = -1 \/ (s = "Buy" /\ i > k) \/ (s = "Sell" /\ i < k) THEN i ELSE k
<1> DEFINE i == (p - lo) \div Tick
           k == BestSlot(lo, D, s)
           E == D \cup {p}
           z == BestPrice(D, s)
<1>1. lo \in Nat /\ lo % Tick = 0 /\ IsFiniteSet(D) /\ D \subseteq Nat /\ E \subseteq Nat /\ E # {}
  BY DEF GridSet
<1>2. IsFiniteSet(E) BY <1>1, FS_AddElement
<1>3. \A x : IsBest(E, s, x) => BestSlot(lo, E, s) = (x - lo) \div Tick
  <2>1. \A x : IsBest(E, s, x) => BestPrice(E, s) = x BY <1>1, <1>2, BestIs
  <2> QED BY <1>1, <2>1 DEF BestSlot
<1>4. CASE D = {}
  <2>1. k = -1 BY <1>4 DEF BestSlot
  <2>2. IsBest(E, s, p) BY <1>4 DEF IsBest
  <2> QED BY <1>3, <2>1, <2>2
<1>5. CASE D # {}
  <2>1. IsBest(D, s, z) BY <1>1, <1>5, BestIs
  <2>2. k = (z - lo) \div Tick BY <1>5 DEF BestSlot
  <2> HIDE DEF z
  <2>3. z \in Nat /\ lo <= z /\ z % Tick = 0 BY <2>1 DEF IsBest, GridSet
  <2>4. /\ k \in Nat /\ i \in Nat /\ (p <= z <=> i <= k) /\ (z <= p <=> k <= i)
    BY <1>1, <2>2, <2>3, SlotOrder
  <2>5. CASE (s = "Buy" /\ i > k) \/ (s = "Sell" /\ i < k)
    <3>1. IsBest(E, s, p)
      <4>1. \A y \in D : y \in Nat /\ (IF s = "Buy" THEN y <= z ELSE z <= y)
        BY <1>1, <2>1 DEF IsBest
      <4>2. IF s = "Buy" THEN z <= p ELSE p <= z BY <2>3, <2>4, <2>5
      <4> QED BY <2>3, <4>1, <4>2 DEF IsBest
    <3> HIDE DEF i, k, E
    <3>2. BestSlot(lo, E, s) = (p - lo) \div Tick BY <1>3, <3>1
    <3> QED BY <2>5, <3>2 DEF i, k, E
  <2>6. CASE ~((s = "Buy" /\ i > k) \/ (s = "Sell" /\ i < k))
    <3>1. IsBest(E, s, z)
      <4>1. IF s = "Buy" THEN p <= z ELSE z <= p BY <2>4, <2>6 DEF Side
      <4> QED BY <2>1, <4>1 DEF IsBest
    <3> HIDE DEF i, k, E
    <3>2. BestSlot(lo, E, s) = k BY <1>3, <2>2, <3>1
    <3>3. k # -1 BY <2>4
    <3> QED BY <2>6, <3>2, <3>3 DEF i, k, E
  <2> QED BY <2>5, <2>6
<1> QED BY <1>4, <1>5

\* The nearest slot past i, away from the inside of the market, that D has a
\* price in.
NextSlot(lo, D, s, i, n) ==
  LET down == {j \in 0 .. i - 1 : lo + j * Tick \in D}
      up   == {j \in i + 1 .. n - 1 : lo + j * Tick \in D}
  IN  IF s = "Buy" THEN IF down = {} THEN -1 ELSE Max(down)
                   ELSE IF up = {} THEN -1 ELSE Min(up)

\* A level goes: the best slot moves exactly when it was the best, and then to
\* the nearest slot that still has orders.
LEMMA BestSub ==
  ASSUME NEW lo, NEW D, GridSet(lo, D), NEW p \in D, NEW s \in Side, NEW n \in Nat,
         \A x \in D : (x - lo) \div Tick < n
  PROVE  BestSlot(lo, D \ {p}, s) =
           IF BestSlot(lo, D, s) # (p - lo) \div Tick THEN BestSlot(lo, D, s)
           ELSE NextSlot(lo, D, s, (p - lo) \div Tick, n)
<1> DEFINE i    == (p - lo) \div Tick
           k    == BestSlot(lo, D, s)
           down == {j \in 0 .. i - 1 : lo + j * Tick \in D}
           up   == {j \in i + 1 .. n - 1 : lo + j * Tick \in D}
           E    == D \ {p}
           z    == BestPrice(D, s)
<1>0. SUFFICES BestSlot(lo, D \ {p}, s) =
                 IF k # i THEN k ELSE IF s = "Buy" THEN IF down = {} THEN -1 ELSE Max(down)
                                                   ELSE IF up = {} THEN -1 ELSE Min(up)
  BY DEF NextSlot
<1>1. /\ lo \in Nat /\ lo % Tick = 0 /\ IsFiniteSet(D) /\ D \subseteq Nat /\ E \subseteq Nat /\ D # {}
      /\ p \in Nat /\ lo <= p /\ p % Tick = 0 /\ \A x \in D : x \in Nat /\ lo <= x /\ x % Tick = 0
  BY DEF GridSet
<1>2. IsFiniteSet(E) BY <1>1, FS_RemoveElement
<1>3. IsBest(D, s, z) BY <1>1, BestIs
<1>4. k = (z - lo) \div Tick BY <1>1 DEF BestSlot
<1>5. i \in Nat /\ lo + i * Tick = p BY <1>1, GridSlot
<1>6. ASSUME NEW x \in E
      PROVE  LET j == (x - lo) \div Tick
             IN  /\ j \in Nat /\ j < n /\ lo + j * Tick = x /\ j # i
                 /\ x <= p <=> j <= i
                 /\ \A y \in E : x <= y <=> j <= (y - lo) \div Tick
  <2> DEFINE j == (x - lo) \div Tick
  <2>1. x \in Nat /\ lo <= x /\ x % Tick = 0 /\ x # p BY <1>1
  <2>2. j \in Nat /\ lo + j * Tick = x BY <1>1, <2>1, GridSlot
  <2>3. j < n OBVIOUS
  <2>4. x <= p <=> j <= i BY <1>1, <2>1, SlotOrder
  <2>5. j # i BY <1>1, <2>1, GridApart
  <2>6. \A y \in E : x <= y <=> j <= (y - lo) \div Tick BY <1>1, <2>1, SlotOrder
  <2> QED BY <2>2, <2>3, <2>4, <2>5, <2>6
<1>7. ASSUME NEW j \in Nat, j # i, lo + j * Tick \in D
      PROVE  lo + j * Tick \in E /\ ((lo + j * Tick) - lo) \div Tick = j
  <2>1. ((lo + j * Tick) - lo) \div Tick = j BY <1>1, GridPrice
  <2>2. lo + j * Tick # p
    <3> DEFINE x == lo + j * Tick
    <3> HIDE DEF x
    <3>1. (x - lo) \div Tick = j BY <2>1 DEF x
    <3>2. x # p BY <1>7, <3>1
    <3> QED BY <3>2 DEF x
  <2> QED BY <1>7, <2>1, <2>2
<1>8. \A x : IsBest(E, s, x) => BestSlot(lo, E, s) = (x - lo) \div Tick
  <2>1. ASSUME NEW x, IsBest(E, s, x) PROVE BestPrice(E, s) = x /\ E # {}
    <3>1. E # {} BY <2>1 DEF IsBest
    <3> QED BY <1>1, <1>2, <2>1, <3>1, BestIs
  <2> QED BY <2>1 DEF BestSlot
<1>9. CASE z # p
  <2>1. IsBest(E, s, z) BY <1>3, <1>9 DEF IsBest
  <2>2. BestSlot(lo, E, s) = k BY <1>4, <1>8, <2>1
  <2>3. z \in E BY <1>3, <1>9 DEF IsBest
  <2>4. k # i BY <1>4, <1>6, <2>3
  <2> HIDE DEF i, k, E, down, up
  <2> QED BY <2>2, <2>4 DEF i, k, E, down, up
<1>10. CASE z = p
  <2>1. k = i BY <1>4, <1>10
  <2>2. \A x \in E : IF s = "Buy" THEN x <= p ELSE p <= x BY <1>3, <1>10 DEF IsBest
  <2>3. CASE E = {}
    <3>1. \A j \in Nat : j # i => lo + j * Tick \notin D BY <1>7, <2>3
    <3>2. down = {} /\ up = {} BY <1>5, <3>1
    <3>3. BestSlot(lo, E, s) = -1 BY <2>3 DEF BestSlot
    <3> HIDE DEF i, k, E, down, up
    <3> QED BY <2>1, <3>2, <3>3 DEF i, k, E, down, up
  <2>4. CASE E # {}
    <3> DEFINE y == BestPrice(E, s)
               j == (y - lo) \div Tick
    <3>1. IsBest(E, s, y) BY <1>1, <1>2, <2>4, BestIs
    <3>2. y \in E BY <3>1 DEF IsBest
    <3>3. BestSlot(lo, E, s) = j BY <1>8, <3>1
    <3> HIDE DEF y
    <3>4. j \in Nat /\ j < n /\ lo + j * Tick = y /\ j # i /\ (y <= p <=> j <= i) BY <1>6, <3>2
    <3>5. ASSUME NEW h \in Nat, h # i, lo + h * Tick \in D
          PROVE  IF s = "Buy" THEN h <= j ELSE j <= h
      <4> DEFINE x == lo + h * Tick
      <4>1. x \in E /\ (x - lo) \div Tick = h BY <1>7, <3>5
      <4> HIDE DEF x
      <4>2. (x <= y <=> h <= j) /\ (y <= x <=> j <= h) BY <1>6, <3>2, <4>1
      <4>3. IF s = "Buy" THEN x <= y ELSE y <= x BY <3>1, <4>1 DEF IsBest
      <4> QED BY <4>2, <4>3
    <3> HIDE DEF j
    <3>6. CASE s = "Buy"
      <4>1. j <= i BY <2>2, <3>2, <3>4, <3>6
      <4>2. j \in down BY <1>5, <3>2, <3>4, <4>1
      <4>3. \A h \in down : h <= j BY <1>5, <3>5, <3>6
      <4>4. down \subseteq Nat /\ IsFiniteSet(down)
        <5>1. IsFiniteSet(0 .. i - 1) BY <1>5, FS_Interval
        <5>2. down \subseteq 0 .. i - 1 OBVIOUS
        <5>3. 0 .. i - 1 \subseteq Nat BY <1>5
        <5> HIDE DEF down
        <5> QED BY <5>1, <5>2, <5>3, FS_Subset
      <4> HIDE DEF down
      <4>5. Max(down) \in down /\ \A h \in down : h <= Max(down) BY <4>2, <4>4, MaxNat
      <4>6. Max(down) = j
        <5>1. Max(down) \in Nat /\ Max(down) <= j /\ j <= Max(down) BY <4>2, <4>3, <4>4, <4>5
        <5> QED BY <3>4, <5>1
      <4> HIDE DEF i, k, E
      <4> QED BY <2>1, <3>3, <3>6, <4>2, <4>6 DEF i, k, E, down
    <3>7. CASE s # "Buy"
      <4>0. s = "Sell" BY <3>7 DEF Side
      <4>1. i <= j
        <5>1. p <= y BY <2>2, <3>2, <3>7
        <5>2. y \in Nat /\ y # p BY <1>1, <3>2
        <5> QED BY <1>1, <1>5, <3>4, <5>1, <5>2
      <4>2. j \in up BY <1>5, <3>2, <3>4, <4>1
      <4>3. \A h \in up : j <= h BY <1>5, <3>5, <3>7
      <4>4. up \subseteq Nat BY <1>5
      <4> HIDE DEF up
      <4>5. Min(up) \in up /\ \A h \in up : Min(up) <= h BY <4>2, <4>4, MinNat
      <4>6. Min(up) = j
        <5>1. Min(up) \in Nat /\ Min(up) <= j /\ j <= Min(up) BY <4>2, <4>3, <4>4, <4>5
        <5> QED BY <3>4, <5>1
      <4> HIDE DEF i, k, E
      <4> QED BY <2>1, <3>3, <3>7, <4>2, <4>6 DEF i, k, E, up
    <3> QED BY <3>6, <3>7
  <2> QED BY <2>3, <2>4
<1> QED BY <1>9, <1>10

-----------------------------------------------------------------------------
(* The mutators on the ladder of a book.                                   *)

\* What the ladder of a book looks like at a price of the grid.
LEMMA LadderFields ==
  ASSUME NEW b, BookInv(b), NEW lo, NEW hi, Fits(lo, hi, b)
  PROVE  LET L == LadderOf(lo, hi, b)
             n == LB!ticks(lo, hi)
         IN  /\ n \in Nat /\ L.num_ticks = n /\ L.orders = b.orders
             /\ \A p : LB!idx(L, p) = (p - lo) \div Tick
             /\ \A p : LB!in_range(L, p) <=> lo <= p /\ p <= hi
             /\ \A s \in Side : L.best[s] = BestSlot(lo, DOMAIN b.levels[s], s)
             /\ \A s \in Side : L.count[s] = Cardinality(DOMAIN b.levels[s])
             /\ \A s \in Side, i \in 0 .. n - 1 : L.levels[s][i] = LevelAt(b, s, lo + i * Tick)
             /\ \A s \in Side : GridSet(lo, DOMAIN b.levels[s])
             /\ \A p \in Nat : lo <= p /\ p <= hi /\ p % Tick = 0 =>
                  LET i == (p - lo) \div Tick
                  IN  /\ i \in 0 .. n - 1 /\ lo + i * Tick = p
                      /\ \A j \in 0 .. n - 1 : j # i => lo + j * Tick # p
<1> DEFINE L == LadderOf(lo, hi, b)
           n == LB!ticks(lo, hi)
<1>1. lo \in Nat /\ hi \in Nat /\ lo <= hi /\ lo % Tick = 0 BY DEF Fits, OnGrid
<1>2. n \in Nat
  <2>1. (hi - lo) \div Tick \in Nat BY <1>1, TickPositive, DivNat
  <2> QED BY <2>1 DEF LB!ticks, Tick
<1>3. /\ L.num_ticks = n /\ L.orders = b.orders /\ L.min_price = lo /\ L.max_price = hi
      /\ \A s \in Side : L.best[s] = BestSlot(lo, DOMAIN b.levels[s], s)
      /\ \A s \in Side : L.count[s] = Cardinality(DOMAIN b.levels[s])
      /\ \A s \in Side, i \in 0 .. n - 1 : L.levels[s][i] = LevelAt(b, s, lo + i * Tick)
  BY DEF LadderOf
<1> HIDE DEF L
<1>4. /\ \A p : LB!idx(L, p) = (p - lo) \div Tick
      /\ \A p : LB!in_range(L, p) <=> lo <= p /\ p <= hi
  BY <1>3 DEF LB!idx, LB!in_range, Tick
<1>5. \A s \in Side : GridSet(lo, DOMAIN b.levels[s])
  <2>1. \A s \in Side : IsFiniteSet(DOMAIN b.levels[s]) BY SideFinite
  <2> QED BY <1>1, <2>1 DEF GridSet, Fits
<1>6. ASSUME NEW p \in Nat, lo <= p, p <= hi, p % Tick = 0
      PROVE  LET i == (p - lo) \div Tick
             IN  /\ i \in 0 .. n - 1 /\ lo + i * Tick = p
                 /\ \A j \in 0 .. n - 1 : j # i => lo + j * Tick # p
  <2> DEFINE i == (p - lo) \div Tick
  <2>1. i \in Nat /\ lo + i * Tick = p BY <1>1, <1>6, GridSlot
  <2>2. i \in 0 .. n - 1
    <3> HIDE DEF i
    <3> QED BY <1>1, <1>6, <2>1, GridIn
  <2>3. ASSUME NEW j \in 0 .. n - 1, lo + j * Tick = p PROVE j = i
    <3>1. j \in Nat BY <1>2
    <3>2. ((lo + j * Tick) - lo) \div Tick = j BY <1>1, <3>1, GridPrice
    <3> QED BY <2>3, <3>2
  <2> QED BY <2>1, <2>2, <2>3
<1> QED BY <1>2, <1>3, <1>4, <1>5, <1>6 DEF L

\* Several updates of a record are made one after the other.
LEMMA OneByOne ==
  ASSUME NEW L, NEW x, NEW s, NEW i, NEW new, NEW card, NEW z
  PROVE  [L EXCEPT !.orders = x, !.levels[s][i] = new, !.count[s] = card, !.best[s] = z] =
         [[[[L EXCEPT !.orders = x] EXCEPT !.levels[s][i] = new] EXCEPT !.count[s] = card]
           EXCEPT !.best[s] = z]
OBVIOUS

\* A ladder with another locator, and one slot of one side edited.
Edited(L, x, s, i, new, card, z) ==
  [L EXCEPT !.orders = x, !.levels[s][i] = new, !.count[s] = card, !.best[s] = z]

\* Book c has the levels of b but for the one in slot i of side s, which is new.
OneLevel(lo, hi, b, c, s, i, new) ==
  /\ s \in Side /\ i \in 0 .. LB!ticks(lo, hi) - 1
  /\ \A t \in Side : t # s => c.levels[t] = b.levels[t]
  /\ \A t \in Side, j \in 0 .. LB!ticks(lo, hi) - 1 :
       LevelAt(c, t, lo + j * Tick) =
         IF t = s /\ j = i THEN new ELSE LevelAt(b, t, lo + j * Tick)

\* A ladder whose locator and one level change is the ladder of the book so
\* changed.
LEMMA LadderEdit ==
  ASSUME NEW lo, NEW hi, NEW b, NEW c, NEW s, NEW i, NEW new, OneLevel(lo, hi, b, c, s, i, new)
  PROVE  Edited(LadderOf(lo, hi, b), c.orders, s, i, new, Cardinality(DOMAIN c.levels[s]),
                BestSlot(lo, DOMAIN c.levels[s], s)) = LadderOf(lo, hi, c)
<1> DEFINE x  == c.orders
           n  == LB!ticks(lo, hi)
           lv == [t \in Side |-> [j \in 0 .. n - 1 |-> LevelAt(b, t, lo + j * Tick)]]
           bs == [t \in Side |-> BestSlot(lo, DOMAIN b.levels[t], t)]
           ct == [t \in Side |-> Cardinality(DOMAIN b.levels[t])]
           lw == [t \in Side |-> [j \in 0 .. n - 1 |-> LevelAt(c, t, lo + j * Tick)]]
           bt == [t \in Side |-> BestSlot(lo, DOMAIN c.levels[t], t)]
           cu == [t \in Side |-> Cardinality(DOMAIN c.levels[t])]
           card == Cardinality(DOMAIN c.levels[s])
           z  == BestSlot(lo, DOMAIN c.levels[s], s)
<1>0. /\ s \in Side /\ i \in 0 .. n - 1
      /\ \A t \in Side : t # s => c.levels[t] = b.levels[t]
      /\ \A t \in Side, j \in 0 .. n - 1 :
           LevelAt(c, t, lo + j * Tick) =
             IF t = s /\ j = i THEN new ELSE LevelAt(b, t, lo + j * Tick)
  BY DEF OneLevel
<1>1. LadderOf(lo, hi, b) = [min_price |-> lo, max_price |-> hi, num_ticks |-> n, levels |-> lv,
                             best |-> bs, count |-> ct, orders |-> b.orders]
  BY DEF LadderOf
<1>2. LadderOf(lo, hi, c) = [min_price |-> lo, max_price |-> hi, num_ticks |-> n, levels |-> lw,
                             best |-> bt, count |-> cu, orders |-> c.orders]
  BY DEF LadderOf
<1>3. [lv EXCEPT ![s][i] = new] = lw
  <2> HIDE DEF n
  <2>0. i \in 0 .. n - 1 BY <1>0
  <2>1. \A t \in Side, j \in 0 .. n - 1 :
          lw[t][j] = IF t = s /\ j = i THEN new ELSE lv[t][j]
    BY <1>0
  <2>2. /\ lv = [t \in Side |-> [j \in 0 .. n - 1 |-> lv[t][j]]]
        /\ lw = [t \in Side |-> [j \in 0 .. n - 1 |-> lw[t][j]]]
    OBVIOUS
  <2> HIDE DEF lv, lw
  <2>3. [lv EXCEPT ![s][i] = new] =
          [t \in Side |-> IF t = s THEN [lv[t] EXCEPT ![i] = new] ELSE lv[t]]
    BY <1>0, <2>2
  <2>4. ASSUME NEW t \in Side
        PROVE  (IF t = s THEN [lv[t] EXCEPT ![i] = new] ELSE lv[t]) = [j \in 0 .. n - 1 |-> lw[t][j]]
    <3>1. lv[t] = [j \in 0 .. n - 1 |-> lv[t][j]] BY <2>2
    <3>2. [lv[t] EXCEPT ![i] = new] = [j \in 0 .. n - 1 |-> IF j = i THEN new ELSE lv[t][j]]
      BY <3>1
    <3>3. CASE t = s
      <4>1. \A j \in 0 .. n - 1 : lw[t][j] = IF j = i THEN new ELSE lv[t][j] BY <2>1, <3>3
      <4> QED BY <3>2, <3>3, <4>1
    <3>4. CASE t # s
      <4>1. \A j \in 0 .. n - 1 : lw[t][j] = lv[t][j] BY <2>1, <3>4
      <4> QED BY <3>1, <3>4, <4>1
    <3> QED BY <3>3, <3>4
  <2> QED BY <2>2, <2>3, <2>4
<1>4. [bs EXCEPT ![s] = z] = bt BY <1>0
<1>5. [ct EXCEPT ![s] = card] = cu BY <1>0
<1> HIDE DEF x, lv, bs, ct, lw, bt, cu, n, card, z
<1>6. [LadderOf(lo, hi, b) EXCEPT !.orders = x, !.levels[s][i] = new, !.count[s] = card, !.best[s] = z] =
        [min_price |-> lo, max_price |-> hi, num_ticks |-> n, levels |-> [lv EXCEPT ![s][i] = new],
         best |-> [bs EXCEPT ![s] = z], count |-> [ct EXCEPT ![s] = card], orders |-> x]
  <2> DEFINE Rec(v, e, d, y) == [min_price |-> lo, max_price |-> hi, num_ticks |-> n, levels |-> v,
                                 best |-> e, count |-> d, orders |-> y]
             lx == [lv EXCEPT ![s][i] = new]
             cx == [ct EXCEPT ![s] = card]
  <2>1. [Rec(lv, bs, ct, b.orders) EXCEPT !.orders = x] = Rec(lv, bs, ct, x) OBVIOUS
  <2>2. [Rec(lv, bs, ct, x) EXCEPT !.levels[s][i] = new] = Rec(lx, bs, ct, x) OBVIOUS
  <2>3. [Rec(lx, bs, ct, x) EXCEPT !.count[s] = card] = Rec(lx, bs, cx, x)
    <3> HIDE DEF lx
    <3> QED OBVIOUS
  <2>4. [Rec(lx, bs, cx, x) EXCEPT !.best[s] = z] = Rec(lx, [bs EXCEPT ![s] = z], cx, x)
    <3> HIDE DEF lx, cx
    <3> QED OBVIOUS
  <2>5. LadderOf(lo, hi, b) = Rec(lv, bs, ct, b.orders) BY <1>1
  <2> HIDE DEF Rec
  <2>6. [Rec(lv, bs, ct, b.orders) EXCEPT !.orders = x, !.levels[s][i] = new, !.count[s] = card,
                                          !.best[s] = z] = Rec(lx, [bs EXCEPT ![s] = z], cx, x)
    <3>1. PICK R0, R1, R2, R3 : /\ R0 = Rec(lv, bs, ct, b.orders) /\ R1 = Rec(lv, bs, ct, x)
                                /\ R2 = Rec(lx, bs, ct, x) /\ R3 = Rec(lx, bs, cx, x)
      OBVIOUS
    <3> HIDE DEF lx, cx
    <3>2. /\ [R0 EXCEPT !.orders = x] = R1 /\ [R1 EXCEPT !.levels[s][i] = new] = R2
          /\ [R2 EXCEPT !.count[s] = card] = R3
          /\ [R3 EXCEPT !.best[s] = z] = Rec(lx, [bs EXCEPT ![s] = z], cx, x)
      BY <2>1, <2>2, <2>3, <2>4, <3>1
    <3>3. [R0 EXCEPT !.orders = x, !.levels[s][i] = new, !.count[s] = card, !.best[s] = z] =
            [[[[R0 EXCEPT !.orders = x] EXCEPT !.levels[s][i] = new] EXCEPT !.count[s] = card]
              EXCEPT !.best[s] = z]
      BY OneByOne
    <3> QED BY <3>1, <3>2, <3>3
  <2> QED BY <2>5, <2>6 DEF Rec
<1> QED BY <1>2, <1>3, <1>4, <1>5, <1>6 DEF card, z, x, Edited

\* An order rests: the ladder of the book with the order.
LEMMA LadderRest ==
  ASSUME NEW b, BookInv(b), NEW lo, NEW hi, Fits(lo, hi, b),
         NEW r, r \notin DOMAIN b.orders, NEW s \in Side, NEW q \in Nat,
         NEW p \in Nat, lo <= p, p <= hi, p % Tick = 0
  PROVE  LET c == add(b, r, s, q, p).book
         IN  /\ Fits(lo, hi, c)
             /\ LB!rest(LadderOf(lo, hi, b), r, s, q, p) = LadderOf(lo, hi, c)
<1> DEFINE L == LadderOf(lo, hi, b)
           n == LB!ticks(lo, hi)
           o == [shares |-> q, price |-> p, side |-> s]
           c == [orders |-> Put(b.orders, r, o),
                 levels |-> [b.levels EXCEPT ![s] = add_to(@, p, q)]]
           D == DOMAIN b.levels[s]
           i == (p - lo) \div Tick
           l == LevelAt(b, s, p)
           new == [shares |-> l.shares + q, orders |-> l.orders + 1]
           k == BestSlot(lo, D, s)
           z == IF k = -1 \/ (s = "Buy" /\ i > k) \/ (s = "Sell" /\ i < k) THEN i ELSE k
<1>1. add(b, r, s, q, p).book = c BY DEF add
<1>2. DOMAIN b.levels = Side BY DEF BookInv, WellFormed
<1>3. /\ \A t \in Side : t # s => c.levels[t] = b.levels[t]
      /\ DOMAIN c.levels[s] = D \cup {p} /\ c.levels[s][p] = new
      /\ \A x \in D : x # p => c.levels[s][x] = b.levels[s][x]
  BY <1>2 DEF add_to, Put, LevelAt
<1>4. c.orders = Put(b.orders, r, o) OBVIOUS
<1> HIDE DEF c
<1>5. /\ n \in Nat /\ L.num_ticks = n /\ L.orders = b.orders /\ LB!idx(L, p) = i
      /\ L.best[s] = k /\ L.count[s] = Cardinality(D)
      /\ \A t \in Side, j \in 0 .. n - 1 : L.levels[t][j] = LevelAt(b, t, lo + j * Tick)
      /\ GridSet(lo, D)
      /\ i \in 0 .. n - 1 /\ lo + i * Tick = p
      /\ \A j \in 0 .. n - 1 : j # i => lo + j * Tick # p
  BY LadderFields
<1>6. L.levels[s][i] = l BY <1>5
<1>7. Fits(lo, hi, c)
  <2>1. ASSUME NEW t \in Side, NEW x \in DOMAIN c.levels[t]
        PROVE  x \in Nat /\ lo <= x /\ x <= hi /\ x % Tick = 0
    BY <1>3 DEF Fits
  <2> QED BY <2>1 DEF Fits
<1>8. LB!rest(L, r, s, q, p) =
        Edited(L, Put(b.orders, r, o), s, i, new,
               IF l.orders = 0 THEN Cardinality(D) + 1 ELSE Cardinality(D), z)
  <2>1. LB!best_after_add(L, s, i) = z BY <1>5 DEF LB!best_after_add, LB!NoIdx
  <2>2. LB!rest(L, r, s, q, p) =
        [L EXCEPT !.orders = LB!Put(@, r, o), !.levels[s][i] = new,
                  !.count[s] = IF l.orders = 0 THEN @ + 1 ELSE @,
                  !.best[s] = LB!best_after_add(L, s, i)]
    BY <1>5, <1>6 DEF LB!rest
  <2>3. LB!Put(b.orders, r, o) = Put(b.orders, r, o) BY SameOps
  <2> HIDE DEF L, o, new, z, i, l, D
  <2> QED BY <1>5, <2>1, <2>2, <2>3 DEF Edited
<1>9. ASSUME NEW t \in Side, NEW j \in 0 .. n - 1
      PROVE  LevelAt(c, t, lo + j * Tick) =
               IF t = s /\ j = i THEN new ELSE LevelAt(b, t, lo + j * Tick)
  <2>1. CASE t # s BY <1>3, <2>1 DEF LevelAt
  <2>2. CASE t = s /\ j = i BY <1>3, <1>5, <2>2 DEF LevelAt
  <2>3. CASE t = s /\ j # i
    <3>1. lo + j * Tick # p BY <1>5, <2>3
    <3> HIDE DEF new
    <3> QED BY <1>3, <2>3, <3>1 DEF LevelAt
  <2> QED BY <2>1, <2>2, <2>3
<1>10. Cardinality(DOMAIN c.levels[s]) = IF l.orders = 0 THEN Cardinality(D) + 1 ELSE Cardinality(D)
  <2>1. IsFiniteSet(D) /\ \A x \in D : b.levels[s][x].orders # 0 BY SideFinite
  <2>2. CASE p \in D
    <3>1. D \cup {p} = D /\ l.orders # 0 BY <2>1, <2>2 DEF LevelAt
    <3> QED BY <1>3, <3>1
  <2>3. CASE p \notin D
    <3>1. l.orders = 0 BY <2>3 DEF LevelAt, EmptyLevel
    <3> QED BY <1>3, <2>1, <2>3, <3>1, FS_AddElement
  <2> QED BY <2>2, <2>3
<1>11. BestSlot(lo, DOMAIN c.levels[s], s) = z BY <1>3, <1>5, BestAdd
<1>12. Edited(L, Put(b.orders, r, o), s, i, new, Cardinality(DOMAIN c.levels[s]),
              BestSlot(lo, DOMAIN c.levels[s], s)) = LadderOf(lo, hi, c)
  <2> HIDE DEF l, new, z, k, i, o, D
  <2>1. OneLevel(lo, hi, b, c, s, i, new) BY <1>3, <1>5, <1>9 DEF OneLevel
  <2> HIDE DEF L, n
  <2>2. Edited(LadderOf(lo, hi, b), c.orders, s, i, new, Cardinality(DOMAIN c.levels[s]),
              BestSlot(lo, DOMAIN c.levels[s], s)) = LadderOf(lo, hi, c)
    BY <2>1, LadderEdit
  <2> QED BY <1>4, <2>2 DEF L
<1>13. LB!rest(L, r, s, q, p) = LadderOf(lo, hi, c)
  <2> HIDE DEF L, l, new, z, k, i, o, D
  <2> QED BY <1>8, <1>10, <1>11, <1>12
<1> QED BY <1>1, <1>7, <1>13

\* The last order of a level holds all its shares.
LEMMA LastShares ==
  ASSUME NEW b, BookInv(b), NEW r \in DOMAIN b.orders,
         b.levels[b.orders[r].side][b.orders[r].price].orders = 1
  PROVE  b.levels[b.orders[r].side][b.orders[r].price].shares = b.orders[r].shares
<1> DEFINE s == b.orders[r].side
           p == b.orders[r].price
           R == RestingIn(b, s, p)
<1>1. /\ b.orders[r].shares \in Nat /\ r \in R /\ Cardinality(R) = 1
      /\ b.levels[s][p].shares = SharesAt(b, s, p)
  BY LevelOf
<1>2. IsFiniteSet(R) /\ SharesOf(b)[r] = b.orders[r].shares /\ \A y \in R : SharesOf(b)[y] \in Nat
  BY <1>1, RestingFinite, SharesNat DEF BookInv
<1> HIDE DEF R
<1>3. R \ {r} = {}
  <2>1. IsFiniteSet(R \ {r}) /\ Cardinality(R \ {r}) = 0 BY <1>1, <1>2, FS_RemoveElement
  <2> QED BY <2>1, FS_EmptySet
<1>4. SharesAt(b, s, p) = b.orders[r].shares + SumFunctionOnSet(SharesOf(b), R \ {r})
  BY <1>1, <1>2, SumRemove DEF SharesAt, R
<1>5. SumFunctionOnSet(SharesOf(b), R \ {r}) = 0 BY <1>3, SumEmpty
<1> QED BY SMTT(30), <1>1, <1>4, <1>5

\* The locator first, the rest after.
LEMMA LocatorFirst ==
  ASSUME NEW L, NEW x, NEW s, NEW i, NEW new, NEW card, NEW z
  PROVE  [[L EXCEPT !.orders = x] EXCEPT !.levels[s][i] = new, !.count[s] = card, !.best[s] = z] =
         Edited(L, x, s, i, new, card, z)
BY DEF Edited

\* Shares come off the level of an order, all of them when the order goes: the
\* ladder of the book with the level so reduced.
LEMMA LadderSub ==
  ASSUME NEW b, BookInv(b), NEW lo, NEW hi, Fits(lo, hi, b),
         NEW r \in DOMAIN b.orders, NEW q \in Nat, NEW gone \in BOOLEAN, NEW x,
         gone => q = b.orders[r].shares
  PROVE  LET s == b.orders[r].side
             p == b.orders[r].price
             c == [orders |-> x, levels |-> level_sub(b.levels, s, p, q, gone)]
         IN  /\ Fits(lo, hi, c)
             /\ LB!level_sub([LadderOf(lo, hi, b) EXCEPT !.orders = x], s, p, q, gone) =
                  LadderOf(lo, hi, c)
<1> DEFINE L == LadderOf(lo, hi, b)
           M == [L EXCEPT !.orders = x]
           n == LB!ticks(lo, hi)
           s == b.orders[r].side
           p == b.orders[r].price
           m == b.levels[s]
           D == DOMAIN m
           c == [orders |-> x, levels |-> level_sub(b.levels, s, p, q, gone)]
           i == (p - lo) \div Tick
           left == m[p].shares - AtMost(q, m[p].shares)
           some == IF gone THEN m[p].orders - 1 ELSE m[p].orders
           new == [shares |-> left, orders |-> some]
           k == BestSlot(lo, D, s)
           z == IF some = 0 /\ k = i THEN LB!next_best(M, s, i) ELSE k
<1>1. /\ b.orders[r].shares \in Nat /\ p \in Nat /\ s \in Side /\ p \in D
      /\ m[p].shares \in Nat /\ m[p].orders \in Nat \ {0}
      /\ m[p] \in [shares : Nat, orders : Nat]
  BY LevelOf DEF BookInv, WellFormed
<1>2. lo <= p /\ p <= hi /\ p % Tick = 0 BY <1>1 DEF Fits
<1>3. DOMAIN b.levels = Side BY SMTT(30) DEF BookInv, WellFormed
<1>4. some = 0 => new = EmptyLevel
  <2>1. ASSUME some = 0 PROVE left = 0
    <3>1. gone /\ m[p].orders = 1 BY <1>1, <2>1
    <3>2. m[p].shares = q BY <3>1, LastShares
    <3> QED BY SMTT(30), <3>2 DEF AtMost
  <2> QED BY <2>1 DEF EmptyLevel
<1>5. sub_in(m, p, q, gone) = IF some = 0 THEN Erase(m, p) ELSE Put(m, p, new)
  <2>1. (IF gone /\ m[p].orders > 0 THEN m[p].orders - 1 ELSE m[p].orders) = some BY <1>1
  <2> HIDE DEF some, m, p
  <2> QED BY SMTT(30), <1>1, <2>1 DEF sub_in
<1>6. /\ \A t \in Side : t # s => c.levels[t] = b.levels[t]
      /\ c.levels[s] = IF some = 0 THEN Erase(m, p) ELSE Put(m, p, new)
  BY <1>1, <1>3, <1>5 DEF level_sub
<1>7. c.orders = x OBVIOUS
<1> HIDE DEF c, new
<1>8. /\ DOMAIN c.levels[s] = IF some = 0 THEN D \ {p} ELSE D
      /\ some # 0 => c.levels[s][p] = new
      /\ \A y \in D : y # p => c.levels[s][y] = m[y]
  BY <1>1, <1>6 DEF Erase, Put
<1>9. Fits(lo, hi, c)
  <2>1. ASSUME NEW t \in Side, NEW y \in DOMAIN c.levels[t]
        PROVE  y \in Nat /\ lo <= y /\ y <= hi /\ y % Tick = 0
    <3>1. y \in DOMAIN b.levels[t] BY <1>6, <1>8
    <3> QED BY <3>1 DEF Fits
  <2> QED BY <2>1 DEF Fits
<1>10. /\ n \in Nat /\ L.num_ticks = n /\ LB!idx(L, p) = i
       /\ L.best[s] = k /\ L.count[s] = Cardinality(D)
       /\ \A t \in Side, j \in 0 .. n - 1 : L.levels[t][j] = LevelAt(b, t, lo + j * Tick)
       /\ GridSet(lo, D)
       /\ i \in 0 .. n - 1 /\ lo + i * Tick = p
       /\ \A j \in 0 .. n - 1 : j # i => lo + j * Tick # p
  BY <1>1, <1>2, LadderFields
<1>11. /\ M.num_ticks = L.num_ticks /\ M.levels = L.levels /\ M.best = L.best /\ M.count = L.count
       /\ M.min_price = L.min_price
  BY DEF LadderOf
<1> HIDE DEF L, M
<1>12. LB!idx(M, p) = i /\ M.levels[s][i] = m[p] /\ M.best[s] = k /\ M.count[s] = Cardinality(D)
  BY <1>1, <1>10, <1>11 DEF LB!idx, LevelAt
<1>13. LB!level_sub(M, s, p, q, gone) =
         [M EXCEPT !.levels[s][i] = new,
                   !.count[s] = IF some = 0 THEN Cardinality(D) - 1 ELSE Cardinality(D),
                   !.best[s] = z]
  <2>1. LB!Min({q, m[p].shares}) = AtMost(q, m[p].shares)
    <3> DEFINE v == m[p].shares
    <3>1. v \in Nat BY <1>1
    <3> HIDE DEF v
    <3>2. LB!Min({q, v}) = Min({q, v}) BY SameOps
    <3>3. Min({q, v}) = IF q <= v THEN q ELSE v BY <3>1, MinMaxPair
    <3>4. LB!Min({q, v}) = AtMost(q, v) BY <3>1, <3>2, <3>3 DEF AtMost
    <3> QED BY <3>4 DEF v
  <2>2. [shares |-> m[p].shares - LB!Min({q, m[p].shares}),
         orders |-> IF gone /\ m[p].orders > 0 THEN m[p].orders - 1 ELSE m[p].orders] = new
    <3>1. (IF gone /\ m[p].orders > 0 THEN m[p].orders - 1 ELSE m[p].orders) = some BY <1>1
    <3> HIDE DEF some, m, p
    <3> QED BY <2>1, <3>1 DEF new
  <2>3. new.orders = some BY DEF new
  <2>4. LB!level_sub(M, s, p, q, gone) =
          [M EXCEPT !.levels[s][i] = new, !.count[s] = IF new.orders = 0 THEN @ - 1 ELSE @,
                    !.best[s] = IF new.orders = 0 /\ @ = i THEN LB!next_best(M, s, i) ELSE @]
    <3> HIDE DEF i
    <3> QED BY <1>12, <2>2 DEF LB!level_sub
  <2> HIDE DEF i, s, D, k, some
  <2> QED BY <1>12, <2>3, <2>4
<1>14. ASSUME NEW t \in Side, NEW j \in 0 .. n - 1
       PROVE  LevelAt(c, t, lo + j * Tick) =
                IF t = s /\ j = i THEN new ELSE LevelAt(b, t, lo + j * Tick)
  <2>1. CASE t # s BY SMTT(30), <1>6, <2>1 DEF LevelAt
  <2>2. CASE t = s /\ j = i
    <3>1. CASE some = 0 BY <1>4, <1>8, <1>10, <2>2, <3>1 DEF LevelAt
    <3>2. CASE some # 0 BY <1>1, <1>8, <1>10, <2>2, <3>2 DEF LevelAt
    <3> QED BY <3>1, <3>2
  <2>3. CASE t = s /\ j # i
    <3> DEFINE y == lo + j * Tick
    <3>1. y # p BY <1>10, <2>3
    <3> HIDE DEF y
    <3>2. y \in DOMAIN c.levels[s] <=> y \in D BY <1>8, <3>1
    <3>3. LevelAt(c, s, y) = LevelAt(b, s, y) BY <1>8, <3>1, <3>2 DEF LevelAt
    <3> QED BY <2>3, <3>3 DEF y
  <2> QED BY <2>1, <2>2, <2>3
<1>15. Cardinality(DOMAIN c.levels[s]) = IF some = 0 THEN Cardinality(D) - 1 ELSE Cardinality(D)
  <2>1. IsFiniteSet(D) BY <1>1, SideFinite
  <2> HIDE DEF D, s, some, p
  <2>2. CASE some = 0
    <3>1. Cardinality(D \ {p}) = Cardinality(D) - 1 BY <1>1, <2>1, FS_RemoveElement
    <3> QED BY <1>8, <2>2, <3>1
  <2>3. CASE some # 0 BY <1>8, <2>3
  <2> QED BY SMTT(30), <2>2, <2>3
<1>16. BestSlot(lo, DOMAIN c.levels[s], s) = z
  <2>1. CASE some # 0 BY <1>8, <2>1
  <2>2. CASE some = 0
    <3> DEFINE down == {j \in 0 .. i - 1 : lo + j * Tick \in D}
               up   == {j \in i + 1 .. n - 1 : lo + j * Tick \in D}
    <3>1. ASSUME NEW y \in D PROVE (y - lo) \div Tick < n
      <4>1. y \in Nat /\ lo <= y /\ y <= hi /\ y % Tick = 0 BY <1>1 DEF Fits
      <4>2. (y - lo) \div Tick \in 0 .. n - 1 BY <4>1, LadderFields
      <4> QED BY <1>10, <4>2
    <3>2. BestSlot(lo, D \ {p}, s) = IF k # i THEN k ELSE NextSlot(lo, D, s, i, n)
      <4> HIDE DEF D, s, p, n
      <4>1. p \in D /\ s \in Side /\ n \in Nat /\ GridSet(lo, D) BY SMTT(30), <1>1, <1>10
      <4> QED BY <3>1, <4>1, BestSub
    <3>3. ASSUME NEW j \in 0 .. n - 1 PROVE M.levels[s][j].orders > 0 <=> lo + j * Tick \in D
      <4>1. M.levels[s][j] = LevelAt(b, s, lo + j * Tick) BY SMTT(30), <1>1, <1>10, <1>11
      <4>2. \A y \in D : b.levels[s][y].orders \in Nat \ {0} BY <1>1, SideFinite
      <4> QED BY SMTT(30), <4>1, <4>2 DEF LevelAt, EmptyLevel
    <3>4. /\ 0 .. i - 1 \subseteq 0 .. n - 1
          /\ i + 1 .. M.num_ticks - 1 \subseteq 0 .. n - 1 /\ M.num_ticks = n
      <4> HIDE DEF i, n
      <4> QED BY <1>10, <1>11
    <3>5. /\ {j \in 0 .. i - 1 : M.levels[s][j].orders > 0} = down
          /\ {j \in i + 1 .. M.num_ticks - 1 : M.levels[s][j].orders > 0} = up
      BY SMTT(30), <3>3, <3>4
    <3>6. LB!next_best(M, s, i) = NextSlot(lo, D, s, i, n)
      <4>1. LB!next_best(M, s, i) = IF s = "Buy" THEN IF down = {} THEN -1 ELSE Max(down)
                                                 ELSE IF up = {} THEN -1 ELSE Min(up)
        <5> HIDE DEF down, up, s, i
        <5> QED BY <3>5, SameOps DEF LB!next_best, LB!NoIdx
      <4> QED BY <4>1 DEF NextSlot
    <3> HIDE DEF down, up, s, i, k, D, p
    <3> QED BY <1>8, <2>2, <3>2, <3>6
  <2> QED BY <2>1, <2>2
<1>17. LB!level_sub(M, s, p, q, gone) = LadderOf(lo, hi, c)
  <2> HIDE DEF s, p, D, i, k, z, m, n, some
  <2>1. OneLevel(lo, hi, b, c, s, i, new) BY <1>1, <1>6, <1>10, <1>14 DEF OneLevel, n
  <2>2. Edited(L, x, s, i, new, Cardinality(DOMAIN c.levels[s]),
               BestSlot(lo, DOMAIN c.levels[s], s)) = LadderOf(lo, hi, c)
    BY <1>7, <2>1, LadderEdit DEF L
  <2>3. [M EXCEPT !.levels[s][i] = new, !.count[s] = Cardinality(DOMAIN c.levels[s]),
                  !.best[s] = BestSlot(lo, DOMAIN c.levels[s], s)] =
        Edited(L, x, s, i, new, Cardinality(DOMAIN c.levels[s]), BestSlot(lo, DOMAIN c.levels[s], s))
    BY LocatorFirst DEF M
  <2> QED BY <1>13, <1>15, <1>16, <2>2, <2>3
<1> QED BY SMTT(30), <1>9, <1>17 DEF c, M, L

\* L is the ladder of book b, for some range.
IsLadder(L, b) == BookInv(b) /\ \E lo, hi : Fits(lo, hi, b) /\ L = LadderOf(lo, hi, b)

\* Whether there is room for a price, by growing if need be.
RoomFor(L, p) == LB!in_range(L, p) \/ LB!can_grow(L, p)

\* The ladder add puts the order into.
Grown(L, p) == IF LB!in_range(L, p) THEN L ELSE LB!grow_to_include(L, p)

\* add in one of four ways.
LEMMA AddCases ==
  ASSUME NEW L, NEW r, NEW s, NEW q, NEW p
  PROVE  /\ ~RoomFor(L, p) => LB!add(L, r, s, q, p) = [ok |-> FALSE, lad |-> L]
         /\ RoomFor(L, p) /\ (~LB!on_grid(Grown(L, p), p) \/ r \in DOMAIN Grown(L, p).orders) =>
              LB!add(L, r, s, q, p) = [ok |-> FALSE, lad |-> Grown(L, p)]
         /\ RoomFor(L, p) /\ LB!on_grid(Grown(L, p), p) /\ r \notin DOMAIN Grown(L, p).orders =>
              LB!add(L, r, s, q, p) = [ok |-> TRUE, lad |-> LB!rest(Grown(L, p), r, s, q, p)]
BY DEF LB!add, RoomFor, Grown

\* add on a ladder does what it does to the book, or refuses a reference that is
\* live or a price the ladder has no slot for.  Only then may the range have
\* grown all the same.
LEMMA LadderAdds ==
  ASSUME NEW L, NEW b, IsLadder(L, b),
         NEW r, NEW s \in Side, NEW q \in Nat, NEW p \in 0 .. UINT32_MAX
  PROVE  LET a == LB!add(L, r, s, q, p)
         IN  /\ a.ok \in BOOLEAN
             /\ a.ok => r \notin DOMAIN b.orders /\ IsLadder(a.lad, add(b, r, s, q, p).book)
             /\ ~a.ok => IsLadder(a.lad, b) /\ (r \in DOMAIN b.orders \/ NoSlotFor(a.lad, p))
             /\ L.num_ticks <= kMaxTicks => a.lad.num_ticks <= kMaxTicks
<1> DEFINE a == LB!add(L, r, s, q, p)
           G == Grown(L, p)
           c == add(b, r, s, q, p).book
<1>0. BookInv(b) /\ p \in Nat /\ BookInv(c) BY AddKeeps DEF IsLadder
<1>1. PICK lo, hi : Fits(lo, hi, b) /\ L = LadderOf(lo, hi, b) BY DEF IsLadder
<1> HIDE DEF a, c, G
<1>2. CASE ~RoomFor(L, p)
  <2>1. a.ok = FALSE /\ a.lad = L BY <1>2, AddCases DEF a
  <2>2. NoSlotFor(a.lad, p) BY <1>2, <2>1 DEF NoSlotFor, RoomFor
  <2> QED BY <2>1, <2>2 DEF a
<1>3. CASE RoomFor(L, p)
  <2>1. PICK less, more : /\ Fits(less, more, b) /\ less <= p /\ p <= more
                          /\ G = LadderOf(less, more, b)
                          /\ L.num_ticks <= kMaxTicks => LB!ticks(less, more) <= kMaxTicks
    <3>1. CASE LB!in_range(L, p)
      <4>1. lo <= p /\ p <= hi /\ L.num_ticks = LB!ticks(lo, hi) BY <1>0, <1>1, <3>1, LadderFields
      <4>2. G = LadderOf(lo, hi, b) BY <1>1, <3>1 DEF G, Grown
      <4> QED BY <1>1, <4>1, <4>2
    <3>2. CASE ~LB!in_range(L, p)
      <4>1. LB!can_grow(L, p) BY <1>3, <3>2 DEF RoomFor
      <4>2. LB!ticks(LB!new_min(L, p), LB!new_max(L, p)) <= kMaxTicks BY <4>1 DEF LB!can_grow
      <4>3. /\ Fits(LB!new_min(L, p), LB!new_max(L, p), b)
            /\ LB!new_min(L, p) <= p /\ p <= LB!new_max(L, p)
            /\ LB!grow_to_include(L, p) = LadderOf(LB!new_min(L, p), LB!new_max(L, p), b)
        BY <1>0, <1>1, LadderGrow
      <4>4. G = LadderOf(LB!new_min(L, p), LB!new_max(L, p), b) BY <3>2, <4>3 DEF G, Grown
      <4> QED BY <4>2, <4>3, <4>4
    <3> QED BY <3>1, <3>2
  <2>2. /\ G.orders = b.orders /\ G.min_price = less /\ G.num_ticks = LB!ticks(less, more)
        /\ less \in Nat /\ less % Tick = 0
    BY <2>1 DEF LadderOf, Fits, OnGrid
  <2>3. IsLadder(G, b) BY <1>0, <2>1 DEF IsLadder
  <2>4. CASE ~LB!on_grid(G, p) \/ r \in DOMAIN G.orders
    <3>1. a.ok = FALSE /\ a.lad = G BY <1>3, <2>4, AddCases DEF a, G
    <3>2. ~LB!on_grid(G, p) => NoSlotFor(G, p)
      <4>1. (p - less) % Tick # 0 => p % Tick # 0 BY <1>0, <2>1, <2>2, GridSlot
      <4> QED BY <2>2, <4>1 DEF LB!on_grid, NoSlotFor, Tick
    <3> QED BY <2>1, <2>2, <2>3, <2>4, <3>1, <3>2 DEF a
  <2>5. CASE LB!on_grid(G, p) /\ r \notin DOMAIN G.orders
    <3>1. a.ok = TRUE /\ a.lad = LB!rest(G, r, s, q, p) BY <1>3, <2>5, AddCases DEF a, G
    <3>2. p % Tick = 0 BY <1>0, <2>1, <2>2, <2>5, GridOn DEF LB!on_grid, Tick
    <3>3. Fits(less, more, c) /\ LB!rest(G, r, s, q, p) = LadderOf(less, more, c)
      BY <1>0, <2>1, <2>2, <2>5, <3>2, LadderRest DEF c
    <3>4. IsLadder(a.lad, c) BY <1>0, <3>1, <3>3 DEF IsLadder
    <3>5. a.lad.num_ticks = LB!ticks(less, more) BY <3>1, <3>3 DEF LadderOf
    <3> QED BY <2>1, <2>2, <2>5, <3>1, <3>4, <3>5 DEF a, c
  <2> QED BY <2>4, <2>5
<1> QED BY <1>2, <1>3

\* execute, cancel and delete do to a ladder what they do to the book.
LEMMA LadderReduces ==
  ASSUME NEW L, NEW b, IsLadder(L, b), NEW r, NEW q \in Nat
  PROVE  LET a == LB!reduce(L, r, q)
             c == reduce(b, r, q)
         IN  a.ok = c.ok /\ IsLadder(a.lad, c.book) /\ a.lad.num_ticks = L.num_ticks
<1> DEFINE a == LB!reduce(L, r, q)
           c == reduce(b, r, q)
<1>0. BookInv(b) /\ BookInv(c.book) BY ReduceKeeps DEF IsLadder
<1>1. PICK lo, hi : Fits(lo, hi, b) /\ L = LadderOf(lo, hi, b) BY DEF IsLadder
<1>2. L.orders = b.orders /\ L.num_ticks = LB!ticks(lo, hi) BY <1>1 DEF LadderOf
<1>3. CASE r \notin DOMAIN b.orders
  <2>1. a.ok = FALSE /\ a.lad = L BY <1>2, <1>3 DEF LB!reduce
  <2>2. c.ok = FALSE /\ c.book = b BY <1>3 DEF reduce
  <2> QED BY <2>1, <2>2
<1>4. CASE r \in DOMAIN b.orders
  <2> DEFINE o == b.orders[r]
             qty == AtMost(q, o.shares)
             gone == o.shares = qty
             x == IF gone THEN Erase(b.orders, r) ELSE [b.orders EXCEPT ![r].shares = @ - qty]
             d == [orders |-> x, levels |-> level_sub(b.levels, o.side, o.price, qty, gone)]
  <2>1. o.shares \in Nat BY <1>0, <1>4, LevelOf
  <2>2. c.ok = TRUE /\ c.book = d BY <1>4 DEF reduce
  <2>3. qty \in Nat BY <2>1, AtMostType
  <2>4. LB!Min({q, o.shares}) = qty
    <3> DEFINE v == o.shares
    <3>1. v \in Nat BY <2>1
    <3> HIDE DEF v
    <3>2. LB!Min({q, v}) = Min({q, v}) BY SameOps
    <3>3. Min({q, v}) = IF q <= v THEN q ELSE v BY <3>1, MinMaxPair
    <3>4. LB!Min({q, v}) = AtMost(q, v) BY <3>1, <3>2, <3>3 DEF AtMost
    <3> QED BY <3>4 DEF v
  <2>5. LB!Erase(L.orders, r) = Erase(b.orders, r) BY <1>2, SameOps
  <2>6. /\ a.ok = TRUE
        /\ a.lad = LB!level_sub([L EXCEPT !.orders = x], o.side, o.price, qty, gone)
    <3> HIDE DEF qty
    <3> QED BY <1>2, <1>4, <2>4, <2>5 DEF LB!reduce
  <2>7. Fits(lo, hi, d) /\ a.lad = LadderOf(lo, hi, d)
    <3>1. gone \in BOOLEAN /\ (gone => qty = b.orders[r].shares) OBVIOUS
    <3> HIDE DEF qty, gone, x, a
    <3> QED BY <1>0, <1>1, <1>4, <2>3, <2>6, <3>1, LadderSub
  <2> HIDE DEF d, a, c
  <2>8. a.lad.num_ticks = L.num_ticks BY <1>2, <2>7 DEF LadderOf
  <2> QED BY <1>0, <2>2, <2>6, <2>7, <2>8 DEF IsLadder, a, c
<1> QED BY <1>3, <1>4

\* So does a delete.
LEMMA LadderRemoves ==
  ASSUME NEW L, NEW b, IsLadder(L, b), NEW r
  PROVE  LET a == LB!remove(L, r)
             c == remove(b, r)
         IN  a.ok = c.ok /\ IsLadder(a.lad, c.book) /\ a.lad.num_ticks = L.num_ticks
<1> DEFINE a == LB!remove(L, r)
           c == remove(b, r)
<1>0. BookInv(b) /\ BookInv(c.book) BY RemoveKeeps DEF IsLadder
<1>1. PICK lo, hi : Fits(lo, hi, b) /\ L = LadderOf(lo, hi, b) BY DEF IsLadder
<1>2. L.orders = b.orders /\ L.num_ticks = LB!ticks(lo, hi) BY <1>1 DEF LadderOf
<1>3. CASE r \notin DOMAIN b.orders
  <2>1. a.ok = FALSE /\ a.lad = L BY <1>2, <1>3 DEF LB!remove
  <2>2. c.ok = FALSE /\ c.book = b BY <1>3 DEF remove
  <2> QED BY <2>1, <2>2
<1>4. CASE r \in DOMAIN b.orders
  <2> DEFINE o == b.orders[r]
             x == Erase(b.orders, r)
             d == [orders |-> x, levels |-> level_sub(b.levels, o.side, o.price, o.shares, TRUE)]
  <2>1. o.shares \in Nat BY <1>0, <1>4, LevelOf
  <2>2. c.ok = TRUE /\ c.book = d BY <1>4 DEF remove
  <2>3. LB!Erase(L.orders, r) = x BY <1>2, SameOps
  <2>4. [L EXCEPT !.orders = LB!Erase(@, r)] = [L EXCEPT !.orders = x]
    <3> HIDE DEF x
    <3> QED BY <2>3
  <2>5. /\ a.ok = TRUE
        /\ a.lad = LB!level_sub([L EXCEPT !.orders = x], o.side, o.price, o.shares, TRUE)
    <3> HIDE DEF x
    <3> QED BY <1>2, <1>4, <2>4 DEF LB!remove
  <2>6. Fits(lo, hi, d) /\ a.lad = LadderOf(lo, hi, d)
    <3> DEFINE qty == o.shares
               gone == qty = qty
    <3>1. qty \in Nat /\ gone \in BOOLEAN /\ (gone => qty = b.orders[r].shares) BY <2>1
    <3>2. gone = TRUE OBVIOUS
    <3> HIDE DEF qty, gone, x, a
    <3>3. Fits(lo, hi, [orders |-> x, levels |-> level_sub(b.levels, o.side, o.price, qty, gone)])
          /\ LB!level_sub([L EXCEPT !.orders = x], o.side, o.price, qty, gone) =
             LadderOf(lo, hi, [orders |-> x, levels |-> level_sub(b.levels, o.side, o.price, qty, gone)])
      BY <1>0, <1>1, <1>4, <3>1, LadderSub
    <3> QED BY <2>5, <3>2, <3>3 DEF qty
  <2> HIDE DEF d, a, c
  <2>7. a.lad.num_ticks = L.num_ticks BY <1>2, <2>6 DEF LadderOf
  <2> QED BY <1>0, <2>2, <2>5, <2>6, <2>7 DEF IsLadder, a, c
<1> QED BY <1>3, <1>4

\* A replace is a delete and an add, on both.
LEMMA LadderReplaces ==
  ASSUME NEW L, NEW b, IsLadder(L, b), NEW r, NEW n, NEW q, NEW p
  PROVE  /\ r \notin DOMAIN b.orders => /\ LB!replace(L, r, n, q, p) = [ok |-> FALSE, lad |-> L]
                                        /\ replace(b, r, n, q, p) = [ok |-> FALSE, book |-> b]
         /\ r \in DOMAIN b.orders =>
              /\ LB!replace(L, r, n, q, p) = LB!add(LB!remove(L, r).lad, n, b.orders[r].side, q, p)
              /\ replace(b, r, n, q, p) = add(remove(b, r).book, n, b.orders[r].side, q, p)
<1>1. L.orders = b.orders BY DEF IsLadder, LadderOf
<1> QED BY <1>1 DEF LB!replace, replace

-----------------------------------------------------------------------------
(* What the ladder of a book shows.                                        *)

\* Its getters return what the book's return.
LEMMA LadderShows ==
  ASSUME NEW L, NEW b, IsLadder(L, b)
  PROVE  L.orders = b.orders /\ LadderView(L) = OrderBookView(b)
<1>0. BookInv(b) BY DEF IsLadder
<1>1. PICK lo, hi : Fits(lo, hi, b) /\ L = LadderOf(lo, hi, b) BY DEF IsLadder
<1>2. /\ L.orders = b.orders /\ L.min_price = lo
      /\ L.count = [s \in Side |-> Cardinality(DOMAIN b.levels[s])]
  BY <1>1 DEF LadderOf
<1>3. ASSUME NEW s \in Side PROVE LB!quote(L, s) = best(b, s)
  <2> DEFINE D == DOMAIN b.levels[s]
             p == BestPrice(D, s)
             k == (p - lo) \div Tick
  <2>1. L.best[s] = BestSlot(lo, D, s) BY <1>0, <1>1, LadderFields
  <2>2. CASE D = {}
    <3>1. L.best[s] = -1 BY <2>1, <2>2 DEF BestSlot
    <3> QED BY <2>2, <3>1 DEF LB!quote, best, LB!NoQuote, NoQuote, LB!NoIdx
  <2>3. CASE D # {}
    <3>1. IsFiniteSet(D) /\ D \subseteq Nat BY <1>0, SideFinite
    <3>2. p \in D BY <2>3, <3>1, BestIs DEF IsBest
    <3>3. p \in Nat /\ lo <= p /\ p <= hi /\ p % Tick = 0 BY <1>1, <3>2 DEF Fits
    <3>4. best(b, s) = [price |-> p, shares |-> b.levels[s][p].shares]
      BY <2>3 DEF best, BestPrice
    <3>5. L.best[s] = k BY <2>1, <2>3 DEF BestSlot
    <3> HIDE DEF D, p
    <3>6. k \in 0 .. LB!ticks(lo, hi) - 1 /\ lo + k * Tick = p BY <1>0, <1>1, <3>3, LadderFields
    <3>7. L.levels[s][k] = LevelAt(b, s, lo + k * Tick) BY <1>0, <1>1, <3>6, LadderFields
    <3>8. L.levels[s][k] = b.levels[s][p] BY <3>2, <3>6, <3>7 DEF LevelAt, D
    <3>9. LB!price_at(L, k) = p BY <1>2, <3>6 DEF LB!price_at, Tick
    <3>10. k # -1
      <4>1. (p - lo) \div Tick \in Nat
        <5>1. lo \in Nat /\ lo % Tick = 0 BY <1>1 DEF Fits, OnGrid
        <5> QED BY <3>3, <5>1, GridSlot
      <4> QED BY <4>1
    <3> HIDE DEF k
    <3> QED BY <3>4, <3>5, <3>8, <3>9, <3>10 DEF LB!quote, LB!NoIdx
  <2> QED BY <2>2, <2>3
<1> QED BY <1>2, <1>3 DEF LadderView, OrderBookView

\* One slot per occupied price.
LEMMA SlotsCount ==
  ASSUME NEW lo, NEW D, GridSet(lo, D), NEW n \in Nat, \A x \in D : (x - lo) \div Tick < n
  PROVE  Cardinality({i \in 0 .. n - 1 : lo + i * Tick \in D}) = Cardinality(D)
<1> DEFINE T == {i \in 0 .. n - 1 : lo + i * Tick \in D}
           f == [x \in D |-> (x - lo) \div Tick]
<1>1. IsFiniteSet(D) /\ lo \in Nat /\ lo % Tick = 0 BY DEF GridSet
<1>2. ASSUME NEW x \in D PROVE (x - lo) \div Tick \in T /\ lo + ((x - lo) \div Tick) * Tick = x
  <2>1. x \in Nat /\ lo <= x /\ x % Tick = 0 BY DEF GridSet
  <2>2. (x - lo) \div Tick \in Nat /\ lo + ((x - lo) \div Tick) * Tick = x BY <1>1, <2>1, GridSlot
  <2>3. (x - lo) \div Tick < n OBVIOUS
  <2> DEFINE k == (x - lo) \div Tick
  <2> HIDE DEF k
  <2>4. k \in T BY <2>2, <2>3 DEF k
  <2> QED BY <2>2, <2>4 DEF k
<1>3. ASSUME NEW i \in T PROVE lo + i * Tick \in D /\ ((lo + i * Tick) - lo) \div Tick = i
  <2>1. i \in Nat OBVIOUS
  <2> QED BY <1>1, <2>1, GridPrice
<1>4. f \in [D -> T] BY <1>2
<1>5. \A x, y \in D : f[x] = f[y] => x = y BY <1>2
<1>6. \A i \in T : \E x \in D : f[x] = i BY <1>3
<1> HIDE DEF f, T
<1>7. f \in Bijection(D, T)
  BY <1>4, <1>5, <1>6 DEF Bijection, Injection, Surjection, IsInjective
<1>8. ExistsBijection(D, T) BY <1>7 DEF ExistsBijection
<1>9. Cardinality(T) = Cardinality(D) BY <1>1, <1>8, FS_Bijection
<1> QED BY <1>9 DEF T

\* Every slot holds exactly the orders of its price.
LEMMA SlotsExact == ASSUME NEW b, IsLadder(lad, b) PROVE SlotsMatchOrders
<1>0. BookInv(b) BY DEF IsLadder
<1>1. PICK lo, hi : Fits(lo, hi, b) /\ lad = LadderOf(lo, hi, b) BY DEF IsLadder
<1> DEFINE n == LB!ticks(lo, hi)
<1>2. /\ lad.orders = b.orders /\ lad.num_ticks = n /\ n \in Nat /\ lad.min_price = lo
      /\ \A s \in Side : lad.count[s] = Cardinality(DOMAIN b.levels[s])
      /\ \A s \in Side, i \in 0 .. n - 1 : lad.levels[s][i] = LevelAt(b, s, lo + i * Tick)
      /\ \A s \in Side : GridSet(lo, DOMAIN b.levels[s])
      /\ \A p : LB!idx(lad, p) = (p - lo) \div Tick
      /\ \A p \in Nat : lo <= p /\ p <= hi /\ p % Tick = 0 =>
           (p - lo) \div Tick \in 0 .. n - 1 /\ lo + ((p - lo) \div Tick) * Tick = p
  <2>1. lad.min_price = lo BY <1>1 DEF LadderOf
  <2> QED BY <1>0, <1>1, <2>1, LadderFields
<1>3. \A i : LB!price_at(lad, i) = lo + i * Tick BY <1>2 DEF LB!price_at, Tick
<1> HIDE DEF n
<1>4. ASSUME NEW r \in DOMAIN lad.orders
      PROVE  LET i == LB!idx(lad, lad.orders[r].price)
             IN  i \in 0 .. lad.num_ticks - 1 /\ LB!price_at(lad, i) = lad.orders[r].price
  <2> DEFINE p == lad.orders[r].price
             s == lad.orders[r].side
  <2>1. s \in Side /\ p \in DOMAIN b.levels[s] BY <1>0, <1>2, LevelOf
  <2>2. p \in Nat /\ lo <= p /\ p <= hi /\ p % Tick = 0 BY <1>1, <2>1 DEF Fits
  <2> HIDE DEF p
  <2>3. LB!idx(lad, p) \in 0 .. lad.num_ticks - 1 /\ LB!price_at(lad, LB!idx(lad, p)) = p
    BY <1>2, <1>3, <2>2
  <2> QED BY SMTT(30), <2>3 DEF p
<1>5. ASSUME NEW s \in Side, NEW i \in 0 .. lad.num_ticks - 1
      PROVE  LET R == OnLadderAt(s, LB!price_at(lad, i))
             IN  lad.levels[s][i] = [shares |-> SumFunction([r \in R |-> lad.orders[r].shares]),
                                     orders |-> Cardinality(R)]
  <2> DEFINE p == LB!price_at(lad, i)
             R == RestingIn(b, s, p)
  <2>1. p \in Nat
    <3>1. i \in Nat /\ lo \in Nat BY <1>1, <1>2 DEF Fits, OnGrid
    <3> QED BY <1>3, <3>1, TickPositive
  <2>2. lad.levels[s][i] = LevelAt(b, s, p) BY <1>2, <1>3
  <2> HIDE DEF p
  <2>3. OnLadderAt(s, p) = R BY <1>2 DEF OnLadderAt, RestingIn
  <2>4. SumFunction([r \in R |-> lad.orders[r].shares]) = SharesAt(b, s, p)
    BY <1>0, <1>2, SharesAdded
  <2>5. LevelAt(b, s, p) = [shares |-> SharesAt(b, s, p), orders |-> Cardinality(R)]
    <3>1. CASE p \in DOMAIN b.levels[s]
      <4>1. b.levels[s][p] \in [shares : Nat, orders : Nat] BY <1>0, <3>1 DEF BookInv, WellFormed
      <4>2. b.levels[s][p].shares = SharesAt(b, s, p) /\ b.levels[s][p].orders = Cardinality(R)
        BY <1>0, <2>1, <3>1 DEF BookInv, Counted, Summed
      <4> HIDE DEF R
      <4> QED BY <3>1, <4>1, <4>2 DEF LevelAt
    <3>2. CASE p \notin DOMAIN b.levels[s]
      <4>1. R = {} BY <1>0, <2>1, <3>2 DEF BookInv, Counted
      <4>2. SharesAt(b, s, p) = 0 BY <4>1, SumEmpty DEF SharesAt
      <4>3. Cardinality(R) = 0 BY <4>1, FS_EmptySet
      <4> QED BY <3>2, <4>2, <4>3 DEF LevelAt, EmptyLevel
    <3> QED BY <3>1, <3>2
  <2> HIDE DEF R
  <2> QED BY <2>2, <2>3, <2>4, <2>5 DEF p
<1>6. ASSUME NEW s \in Side PROVE lad.count[s] = Cardinality(Occupied(s))
  <2> DEFINE D == DOMAIN b.levels[s]
  <2>1. ASSUME NEW x \in D PROVE (x - lo) \div Tick < n
    <3>1. x \in Nat /\ lo <= x /\ x <= hi /\ x % Tick = 0 BY <1>1 DEF Fits
    <3>2. (x - lo) \div Tick \in 0 .. n - 1 BY <1>2, <3>1
    <3> QED BY <1>2, <3>2
  <2>2. Occupied(s) = {i \in 0 .. n - 1 : lo + i * Tick \in D}
    <3>1. \A y \in D : b.levels[s][y].orders \in Nat \ {0} BY <1>0, SideFinite
    <3>2. ASSUME NEW i \in 0 .. n - 1 PROVE lad.levels[s][i].orders > 0 <=> lo + i * Tick \in D
      <4>1. lad.levels[s][i] = LevelAt(b, s, lo + i * Tick) BY <1>2
      <4> QED BY <3>1, <4>1 DEF LevelAt, EmptyLevel
    <3> QED BY <1>2, <3>2 DEF Occupied
  <2>3. GridSet(lo, D) BY <1>2
  <2> HIDE DEF D
  <2>4. Cardinality({i \in 0 .. n - 1 : lo + i * Tick \in D}) = Cardinality(D)
    BY <1>2, <2>1, <2>3, SlotsCount
  <2> QED BY <1>2, <2>2, <2>4 DEF D
<1> QED BY <1>4, <1>5, <1>6 DEF SlotsMatchOrders

-----------------------------------------------------------------------------
(* The specification of one LadderBook.                                    *)

LadderInv == (\E b : IsLadder(lad, b)) /\ lret \in BOOLEAN

\* A new ladder is the ladder of the empty book.
LEMMA NewIsLadder ==
  ASSUME NEW base \in 0 .. UINT32_MAX
  PROVE  IsLadder(LB!NewLadder(base), EmptyBook)
BY EmptyInv, LadderNew DEF IsLadder

\* A ladder begins as that of the empty book.
LEMMA LadderInvInit == LadderInit => LadderInv
<1> SUFFICES ASSUME LadderInit PROVE LadderInv OBVIOUS
<1>1. PICK base \in BasePrice : lad = LB!NewLadder(base) BY DEF LadderInit
<1>2. base \in 0 .. UINT32_MAX BY LadderAssumption
<1>3. IsLadder(lad, EmptyBook) BY <1>1, <1>2, NewIsLadder
<1> QED BY <1>3 DEF LadderInv, LadderInit

\* Every call leaves the ladder of a book.
LEMMA LadderCalls ==
  ASSUME NEW L, NEW b, IsLadder(L, b), NEW r \in LadderRef, NEW q \in LadderShares
  PROVE  /\ \A s \in Side, p \in LadderPrice : LET x == LB!add(L, r, s, q, p)
                                         IN  x.ok \in BOOLEAN /\ \E c : IsLadder(x.lad, c)
         /\ LET x == LB!reduce(L, r, q) IN  x.ok \in BOOLEAN /\ \E c : IsLadder(x.lad, c)
         /\ LET x == LB!remove(L, r) IN  x.ok \in BOOLEAN /\ \E c : IsLadder(x.lad, c)
         /\ \A n \in LadderRef, p \in LadderPrice : LET x == LB!replace(L, r, n, q, p)
                                        IN  x.ok \in BOOLEAN /\ \E c : IsLadder(x.lad, c)
<1>0. q \in Nat /\ BookInv(b) BY LadderAssumption DEF IsLadder
<1>1. ASSUME NEW M, NEW d, IsLadder(M, d), NEW n, NEW s \in Side, NEW p \in LadderPrice
      PROVE  LET x == LB!add(M, n, s, q, p) IN  x.ok \in BOOLEAN /\ \E c : IsLadder(x.lad, c)
  <2> DEFINE x == LB!add(M, n, s, q, p)
  <2>1. p \in 0 .. UINT32_MAX BY LadderAssumption
  <2>2. /\ x.ok \in BOOLEAN /\ (x.ok => IsLadder(x.lad, add(d, n, s, q, p).book))
        /\ (~x.ok => IsLadder(x.lad, d))
    BY <1>0, <1>1, <2>1, LadderAdds
  <2> HIDE DEF x
  <2>3. x.ok \in BOOLEAN /\ \E c : IsLadder(x.lad, c) BY <2>2
  <2> QED BY <2>3 DEF x
<1>2. LET x == LB!reduce(L, r, q) IN  x.ok \in BOOLEAN /\ \E c : IsLadder(x.lad, c)
  BY <1>0, LadderReduces, ReduceKeeps
<1>3. LB!remove(L, r).ok \in BOOLEAN /\ IsLadder(LB!remove(L, r).lad, remove(b, r).book)
  BY <1>0, LadderRemoves, RemoveKeeps
<1>4. ASSUME NEW n \in LadderRef, NEW p \in LadderPrice
      PROVE  LET x == LB!replace(L, r, n, q, p) IN  x.ok \in BOOLEAN /\ \E c : IsLadder(x.lad, c)
  <2>1. CASE r \notin DOMAIN b.orders
    <3>1. LB!replace(L, r, n, q, p) = [ok |-> FALSE, lad |-> L] BY <2>1, LadderReplaces
    <3> QED BY <3>1
  <2>2. CASE r \in DOMAIN b.orders
    <3>1. b.orders[r].side \in Side BY <1>0, <2>2, LevelOf
    <3>2. LB!replace(L, r, n, q, p) = LB!add(LB!remove(L, r).lad, n, b.orders[r].side, q, p)
      BY <2>2, LadderReplaces
    <3> QED BY SMTT(30), <1>1, <1>3, <3>1, <3>2
  <2> QED BY <2>1, <2>2
<1> QED BY <1>1, <1>2, <1>3, <1>4

\* Every step keeps the ladder that of some book.
LEMMA LadderInvStep == LadderInv /\ [LadderNext]_<<lad, lret>> => LadderInv'
<1> SUFFICES ASSUME LadderInv, [LadderNext]_<<lad, lret>>
             PROVE  (\E c : IsLadder(lad', c)) /\ lret' \in BOOLEAN
  BY DEF LadderInv
<1>1. PICK b : IsLadder(lad, b) BY DEF LadderInv
<1>2. \A x : x.ok \in BOOLEAN /\ (\E c : IsLadder(x.lad, c)) /\ LadderReturns(x) =>
               (\E c : IsLadder(lad', c)) /\ lret' \in BOOLEAN
  BY DEF LadderReturns
<1>3. ASSUME NEW r \in LadderRef, NEW s \in Side, NEW q \in LadderShares, NEW p \in LadderPrice, LadderAdd(r, s, q, p)
      PROVE  (\E c : IsLadder(lad', c)) /\ lret' \in BOOLEAN
  BY <1>1, <1>2, <1>3, LadderCalls DEF LadderAdd
<1>4. ASSUME NEW r \in LadderRef, NEW q \in LadderShares, LadderReduce(r, q)
      PROVE  (\E c : IsLadder(lad', c)) /\ lret' \in BOOLEAN
  BY <1>1, <1>2, <1>4, LadderCalls DEF LadderReduce
<1>5. ASSUME NEW r \in LadderRef, LadderRemove(r)
      PROVE  (\E c : IsLadder(lad', c)) /\ lret' \in BOOLEAN
  <2>1. LB!remove(lad, r).ok \in BOOLEAN /\ IsLadder(LB!remove(lad, r).lad, remove(b, r).book)
    <3>1. BookInv(b) BY <1>1 DEF IsLadder
    <3> QED BY <1>1, <3>1, LadderRemoves, RemoveKeeps
  <2> QED BY <1>2, <1>5, <2>1 DEF LadderRemove
<1>6. ASSUME NEW r \in LadderRef, NEW n \in LadderRef, NEW q \in LadderShares, NEW p \in LadderPrice,
             LadderReplace(r, n, q, p)
      PROVE  (\E c : IsLadder(lad', c)) /\ lret' \in BOOLEAN
  BY <1>1, <1>2, <1>6, LadderCalls DEF LadderReplace
<1>7. CASE UNCHANGED <<lad, lret>> BY <1>1, <1>7 DEF LadderInv
<1> QED BY <1>3, <1>4, <1>5, <1>6, <1>7 DEF LadderNext

\* Wherever a ladder was built and however often it grew, every resting order
\* has the slot of its price, and every slot counts and sums its orders.
THEOREM SlotsMatch == LadderSpec => []SlotsMatchOrders
<1>1. LadderInv => SlotsMatchOrders BY SlotsExact DEF LadderInv
<1> QED BY <1>1, LadderInvInit, LadderInvStep, PTL DEF LadderSpec

\* What BookSpec says of the orders is the same for both books.
LEMMA SameView == \A o : LadderAbstract!ViewOf(o) = Abstract!ViewOf(o)
<1>1. /\ \A o, s : LadderAbstract!PricesOf(o, s) = Abstract!PricesOf(o, s)
      /\ \A o, s : LadderAbstract!On(o, s) = Abstract!On(o, s)
      /\ LadderAbstract!Side = Abstract!Side /\ LadderAbstract!NoQuote = Abstract!NoQuote
      /\ \A S : LadderAbstract!Cardinality(S) = Abstract!Cardinality(S)
      /\ \A S : LadderAbstract!Max(S) = Abstract!Max(S) /\ LadderAbstract!Min(S) = Abstract!Min(S)
  BY DEF LadderAbstract!PricesOf, Abstract!PricesOf, LadderAbstract!On, Abstract!On,
     LadderAbstract!Side, Abstract!Side, LadderAbstract!NoQuote, Abstract!NoQuote,
     LadderAbstract!Cardinality, Abstract!Cardinality,
     LadderAbstract!Max, Abstract!Max, LadderAbstract!Min, Abstract!Min
<1>2. \A f : LadderAbstract!SumFunction(f) = Abstract!SumFunction(f)
  BY DEF Abstract!SumFunction, Abstract!SumFunctionOnSet, Abstract!FoldFunctionOnSet,
     Abstract!MapThenFoldSet, LadderAbstract!SumFunction, LadderAbstract!SumFunctionOnSet,
     LadderAbstract!FoldFunctionOnSet, LadderAbstract!MapThenFoldSet
<1>3. \A o, s, p : LadderAbstract!SharesAt(o, s, p) = Abstract!SharesAt(o, s, p)
  BY <1>1, <1>2 DEF LadderAbstract!SharesAt, Abstract!SharesAt
<1>4. \A o, s : LadderAbstract!TopOf(o, s) = Abstract!TopOf(o, s)
  BY <1>1, <1>3 DEF LadderAbstract!TopOf, Abstract!TopOf
<1> QED BY <1>1, <1>4 DEF LadderAbstract!ViewOf, Abstract!ViewOf

\* A ladder shows what BookSpec defines from its orders.
LEMMA LadderShowsOrders ==
  ASSUME NEW L, NEW b, IsLadder(L, b)
  PROVE  LadderView(L) = LadderAbstract!ViewOf(L.orders)
<1>1. L.orders = b.orders /\ LadderView(L) = OrderBookView(b) BY LadderShows
<1>2. OrderBookView(b) = Abstract!ViewOf(b.orders) BY ViewIs DEF IsLadder
<1> QED BY <1>1, <1>2, SameView

\* The LadderBook implements the same ladder-free specification, with leave to
\* refuse more: the cached best slots and the slot counts never show anything
\* but the resting orders, and a call that returns false has changed nothing
\* that can be seen, grown or not, except for a replace, which has dropped the
\* original.
THEOREM LadderRefinement == LadderSpec => LadderImplementsBookSpec
<1>1. LadderInit => LadderAbstract!Init
  <2> SUFFICES ASSUME LadderInit PROVE LadderAbstract!Init OBVIOUS
  <2>1. PICK base \in BasePrice : lad = LB!NewLadder(base) BY DEF LadderInit
  <2>2. base \in 0 .. UINT32_MAX BY LadderAssumption
  <2>3. IsLadder(lad, EmptyBook) BY <2>1, <2>2, NewIsLadder
  <2>4. lad.orders = EmptyMap
    <3>1. lad.orders = EmptyBook.orders BY <2>3, LadderShows
    <3> QED BY <3>1 DEF EmptyBook
  <2>5. LadderView(lad) = LadderAbstract!ViewOf(lad.orders) BY <2>3, LadderShowsOrders
  <2> QED BY <2>4, <2>5 DEF LadderAbstract!Init, LadderAbstract!EmptyMap, EmptyMap, LadderInit
<1>2. LadderInv /\ LadderInv' /\ [LadderNext]_<<lad, lret>> =>
        [LadderAbstract!Next]_(LadderAbstract!vars)
  <2> SUFFICES ASSUME LadderInv, LadderInv', [LadderNext]_<<lad, lret>>
               PROVE  [LadderAbstract!Next]_(LadderAbstract!vars)
    OBVIOUS
  <2> DEFINE o == lad.orders
  <2>1. LadderView(lad') = LadderAbstract!ViewOf(lad.orders')
    <3>1. PICK M : M = lad' OBVIOUS
    <3>2. \E c : IsLadder(M, c) BY <3>1 DEF LadderInv
    <3> QED BY <3>1, <3>2, LadderShowsOrders
  <2>2. \A x, ok : lad.orders' = x /\ lret' = ok => LadderAbstract!Becomes(x, ok)
    BY <2>1 DEF LadderAbstract!Becomes
  <2>3. /\ \A m, k, v : LadderAbstract!Put(m, k, v) = Put(m, k, v)
        /\ \A m, k : LadderAbstract!Erase(m, k) = Erase(m, k)
        /\ LadderAbstract!Side = Side
    BY DEF LadderAbstract!Put, Put, LadderAbstract!Erase, Erase, LadderAbstract!Side, Side
  <2>4. PICK b : IsLadder(lad, b) BY DEF LadderInv
  <2>5. b.orders = o /\ BookInv(b) BY <2>4, LadderShows DEF IsLadder
  <2>6. ASSUME NEW L, NEW d, IsLadder(L, d), NEW r, NEW s \in Side, NEW q \in LadderShares, NEW p \in LadderPrice,
               LadderReturns(LB!add(L, r, s, q, p))
        PROVE  LadderAbstract!Enter(d.orders, r, s, q, p)
    <3> DEFINE x == LB!add(L, r, s, q, p)
    <3>0. q \in Nat /\ p \in 0 .. UINT32_MAX BY LadderAssumption, LadderAssumption
    <3>1. lad' = x.lad /\ lret' = x.ok BY <2>6 DEF LadderReturns
    <3>2. /\ x.ok \in BOOLEAN
          /\ x.ok => r \notin DOMAIN d.orders /\ IsLadder(x.lad, add(d, r, s, q, p).book)
          /\ ~x.ok => IsLadder(x.lad, d)
      BY <2>6, <3>0, LadderAdds
    <3> HIDE DEF x
    <3>3. CASE x.ok
      <4>1. r \notin DOMAIN d.orders BY <3>2, <3>3
      <4>2. x.lad.orders = add(d, r, s, q, p).book.orders BY <3>2, <3>3, LadderShows
      <4>3. lad.orders' = Put(d.orders, r, [shares |-> q, price |-> p, side |-> s])
        <5>1. add(d, r, s, q, p).book.orders = Put(d.orders, r, [shares |-> q, price |-> p, side |-> s])
          BY <4>1 DEF add
        <5> QED BY <3>1, <4>2, <5>1
      <4>4. lret' = TRUE BY <3>1, <3>2, <3>3
      <4> QED BY <2>2, <2>3, <4>1, <4>3, <4>4 DEF LadderAbstract!Enter
    <3>4. CASE ~x.ok
      <4>1. lad.orders' = d.orders /\ lret' = FALSE BY <3>1, <3>2, <3>4, LadderShows
      <4> QED BY <2>2, <4>1 DEF LadderAbstract!Enter
    <3> QED BY <3>3, <3>4
  <2>7. ASSUME NEW r \in LadderRef, NEW s \in Side, NEW q \in LadderShares, NEW p \in LadderPrice, LadderAdd(r, s, q, p)
        PROVE  LadderAbstract!Add(r, s, q, p)
    <3>1. LadderReturns(LB!add(lad, r, s, q, p)) BY <2>7 DEF LadderAdd
    <3>2. LadderAbstract!Enter(b.orders, r, s, q, p) BY <2>4, <2>6, <3>1
    <3> QED BY <2>5, <3>2 DEF LadderAbstract!Add
  <2>8. ASSUME NEW r \in LadderRef, NEW q \in LadderShares, LadderReduce(r, q)
        PROVE  LadderAbstract!Reduce(r, q)
    <3> DEFINE x == LB!reduce(lad, r, q)
               c == reduce(b, r, q)
    <3>0. q \in Nat BY LadderAssumption
    <3>1. lad' = x.lad /\ lret' = x.ok BY <2>8 DEF LadderReduce, LadderReturns
    <3>2. x.ok = c.ok /\ IsLadder(x.lad, c.book) BY <2>4, <3>0, LadderReduces
    <3> HIDE DEF x, c
    <3>3. lad.orders' = c.book.orders /\ lret' = c.ok BY <3>1, <3>2, LadderShows
    <3>4. CASE r \notin DOMAIN o
      <4>0. c.book = b /\ c.ok = FALSE BY <2>5, <3>4 DEF c, reduce
      <4>1. lad.orders' = o /\ lret' = FALSE BY <2>5, <3>3, <4>0
      <4> QED BY <2>2, <3>4, <4>1 DEF LadderAbstract!Reduce, LadderAbstract!Unknown
    <3>5. CASE r \in DOMAIN o
      <4>0. c.book.orders = Shrunk(b.orders, r, q) /\ c.ok = TRUE
        BY <2>5, <3>0, <3>5, ReduceOrders DEF c
      <4>1. lad.orders' = Shrunk(o, r, q) /\ lret' = TRUE BY <2>5, <3>3, <4>0
      <4>2. CASE o[r].shares <= q
        <5>1. lad.orders' = Erase(o, r) BY <4>1, <4>2 DEF Shrunk
        <5> QED BY <2>2, <2>3, <3>5, <4>1, <4>2, <5>1 DEF LadderAbstract!Reduce
      <4>3. CASE ~(o[r].shares <= q)
        <5>1. lad.orders' = [o EXCEPT ![r].shares = @ - q] BY <4>1, <4>3 DEF Shrunk
        <5> QED BY <2>2, <3>5, <4>1, <4>3, <5>1 DEF LadderAbstract!Reduce
      <4> QED BY <4>2, <4>3
    <3> QED BY <3>4, <3>5
  <2>9. ASSUME NEW r \in LadderRef, LadderRemove(r) PROVE LadderAbstract!Remove(r)
    <3> DEFINE x == LB!remove(lad, r)
               c == remove(b, r)
    <3>1. lad' = x.lad /\ lret' = x.ok BY <2>9 DEF LadderRemove, LadderReturns
    <3>2. x.ok = c.ok /\ IsLadder(x.lad, c.book) BY <2>4, LadderRemoves
    <3> HIDE DEF x, c
    <3>3. lad.orders' = c.book.orders /\ lret' = c.ok BY <3>1, <3>2, LadderShows
    <3>4. CASE r \notin DOMAIN o
      <4>1. lad.orders' = o /\ lret' = FALSE BY <2>5, <3>3, <3>4, RemoveOrders DEF c
      <4> QED BY <2>2, <3>4, <4>1 DEF LadderAbstract!Remove, LadderAbstract!Unknown
    <3>5. CASE r \in DOMAIN o
      <4>1. lad.orders' = Erase(o, r) /\ lret' = TRUE BY <2>5, <3>3, <3>5, RemoveOrders DEF c
      <4> QED BY <2>2, <2>3, <3>5, <4>1 DEF LadderAbstract!Remove
    <3> QED BY <3>4, <3>5
  <2>10. ASSUME NEW r \in LadderRef, NEW n \in LadderRef, NEW q \in LadderShares, NEW p \in LadderPrice,
                LadderReplace(r, n, q, p)
         PROVE  LadderAbstract!Replace(r, n, q, p)
    <3>1. LadderReturns(LB!replace(lad, r, n, q, p)) BY <2>10 DEF LadderReplace
    <3>2. CASE r \notin DOMAIN o
      <4>1. LB!replace(lad, r, n, q, p) = [ok |-> FALSE, lad |-> lad]
        BY <2>4, <2>5, <3>2, LadderReplaces
      <4>2. lad.orders' = o /\ lret' = FALSE BY <3>1, <4>1 DEF LadderReturns
      <4> QED BY <2>2, <3>2, <4>2 DEF LadderAbstract!Replace, LadderAbstract!Unknown
    <3>3. CASE r \in DOMAIN o
      <4> DEFINE L == LB!remove(lad, r).lad
                 d == remove(b, r).book
      <4>1. IsLadder(L, d) BY <2>4, LadderRemoves
      <4>2. d.orders = Erase(o, r) BY <2>5, <3>3, RemoveOrders
      <4>3. LB!replace(lad, r, n, q, p) = LB!add(L, n, o[r].side, q, p)
        BY <2>4, <2>5, <3>3, LadderReplaces
      <4>4. o[r].side \in Side BY <2>5, <3>3, LevelOf
      <4> HIDE DEF L, d
      <4>5. LadderAbstract!Enter(d.orders, n, o[r].side, q, p)
        BY <2>6, <3>1, <4>1, <4>3, <4>4
      <4> QED BY <2>3, <3>3, <4>2, <4>5 DEF LadderAbstract!Replace
    <3> QED BY <3>2, <3>3
  <2>11. CASE UNCHANGED <<lad, lret>> BY <2>11 DEF LadderAbstract!vars
  <2> QED BY <2>3, <2>7, <2>8, <2>9, <2>10, <2>11 DEF LadderNext, LadderAbstract!Next
<1> QED BY <1>1, <1>2, LadderInvInit, LadderInvStep, PTL
    DEF LadderSpec, LadderImplementsBookSpec, LadderAbstract!Spec

-----------------------------------------------------------------------------
(* One message stream into both books.                                     *)

\* A function: it is what it maps its keys to.
IsMap(m) == m = [x \in DOMAIN m |-> m[x]]

\* The orders of a book are a map, whatever was called.
LEMMA MapsStay ==
  ASSUME NEW b, IsMap(b.orders), NEW r
  PROVE  /\ \A s, q, p : IsMap(add(b, r, s, q, p).book.orders)
         /\ \A q : IsMap(reduce(b, r, q).book.orders)
         /\ IsMap(remove(b, r).book.orders)
<1>0. /\ \A m, k, v : IsMap(Put(m, k, v))
      /\ \A m, k : IsMap(Erase(m, k))
  BY DEF IsMap, Put, Erase
<1>1. ASSUME NEW s, NEW q, NEW p PROVE IsMap(add(b, r, s, q, p).book.orders)
  <2>1. CASE r \in DOMAIN b.orders
    <3>1. add(b, r, s, q, p).book = b BY <2>1 DEF add
    <3> QED BY <3>1
  <2>2. CASE r \notin DOMAIN b.orders
    <3>1. add(b, r, s, q, p).book.orders = Put(b.orders, r, [shares |-> q, price |-> p, side |-> s])
      BY <2>2 DEF add
    <3> QED BY <1>0, <3>1
  <2> QED BY <2>1, <2>2
<1>2. ASSUME NEW q PROVE IsMap(reduce(b, r, q).book.orders)
  <2> DEFINE qty == AtMost(q, b.orders[r].shares)
  <2>1. CASE r \notin DOMAIN b.orders
    <3>1. reduce(b, r, q).book = b BY <2>1 DEF reduce
    <3> QED BY <3>1
  <2>2. CASE r \in DOMAIN b.orders
    <3>1. reduce(b, r, q).book.orders =
            IF b.orders[r].shares = qty THEN Erase(b.orders, r)
            ELSE [b.orders EXCEPT ![r].shares = @ - qty]
      BY <2>2 DEF reduce
    <3> HIDE DEF qty
    <3>2. IsMap([b.orders EXCEPT ![r].shares = @ - qty]) BY DEF IsMap
    <3> QED BY <1>0, <3>1, <3>2
  <2> QED BY <2>1, <2>2
<1>3. IsMap(remove(b, r).book.orders)
  <2>1. CASE r \notin DOMAIN b.orders
    <3>1. remove(b, r).book = b BY <2>1 DEF remove
    <3> QED BY <3>1
  <2>2. CASE r \in DOMAIN b.orders
    <3>1. remove(b, r).book.orders = Erase(b.orders, r) BY <2>2 DEF remove
    <3> QED BY <1>0, <3>1
  <2> QED BY <2>1, <2>2
<1> QED BY <1>1, <1>2, <1>3

\* The books differ in one order the ladder has no slot for.
OneApart(L, b) ==
  \E x \in DOMAIN b.orders :
    L.orders = Erase(b.orders, x) /\ NoSlotFor(L, b.orders[x].price)

\* The two answers to one message: o of the OrderBook, c of the LadderBook.
Agree(o, c) ==
  /\ o.ok \in BOOLEAN /\ c.ok \in BOOLEAN /\ BookInv(o.book) /\ IsMap(o.book.orders)
  /\ \E d : IsLadder(c.lad, d) /\ IsMap(d.orders)
  /\ o.ok = c.ok => IsLadder(c.lad, o.book)
  /\ o.ok # c.ok => OneApart(c.lad, o.book)

\* Both take an add, both refuse it, or only the ladder does.
LEMMA AddsAgree ==
  ASSUME NEW L, NEW b, IsLadder(L, b), IsMap(b.orders),
         NEW r, NEW s \in Side, NEW q \in Nat, NEW p \in 0 .. UINT32_MAX
  PROVE  /\ Agree(add(b, r, s, q, p), LB!add(L, r, s, q, p))
         /\ L.num_ticks <= kMaxTicks => LB!add(L, r, s, q, p).lad.num_ticks <= kMaxTicks
<1> DEFINE o == add(b, r, s, q, p)
           c == LB!add(L, r, s, q, p)
           v == [shares |-> q, price |-> p, side |-> s]
<1>1. /\ c.ok \in BOOLEAN
      /\ c.ok => r \notin DOMAIN b.orders /\ IsLadder(c.lad, o.book)
      /\ ~c.ok => IsLadder(c.lad, b) /\ (r \in DOMAIN b.orders \/ NoSlotFor(c.lad, p))
      /\ L.num_ticks <= kMaxTicks => c.lad.num_ticks <= kMaxTicks
  BY LadderAdds
<1>2. BookInv(b) /\ p \in Nat BY DEF IsLadder
<1>3. BookInv(o.book) /\ o.ok \in BOOLEAN BY <1>2, AddKeeps
<1>4. IsMap(o.book.orders) BY MapsStay
<1>5. /\ r \in DOMAIN b.orders => o.book = b /\ o.ok = FALSE
      /\ r \notin DOMAIN b.orders => o.ok = TRUE /\ o.book.orders = Put(b.orders, r, v)
  BY DEF add
<1> HIDE DEF o, c, v
<1>6. CASE c.ok
  <2>1. o.ok = c.ok /\ IsLadder(c.lad, o.book) BY <1>1, <1>3, <1>5, <1>6
  <2> QED BY <1>1, <1>3, <1>4, <2>1 DEF Agree, o, c
<1>7. CASE ~c.ok /\ r \in DOMAIN b.orders
  <2>1. o.ok = c.ok /\ IsLadder(c.lad, o.book) BY <1>1, <1>5, <1>7
  <2> QED BY <1>1, <1>3, <1>4, <2>1 DEF Agree, o, c
<1>8. CASE ~c.ok /\ r \notin DOMAIN b.orders
  <2>1. o.ok = TRUE /\ o.book.orders = Put(b.orders, r, v) /\ NoSlotFor(c.lad, p) /\ IsLadder(c.lad, b)
    BY <1>1, <1>5, <1>8
  <2>2. c.lad.orders = b.orders BY <2>1, LadderShows
  <2>3. /\ r \in DOMAIN Put(b.orders, r, v) /\ Put(b.orders, r, v)[r] = v BY DEF Put
  <2>4. Erase(Put(b.orders, r, v), r) = b.orders
    <3> DEFINE m == b.orders
               e == Erase(Put(m, r, v), r)
    <3> HIDE DEF m
    <3>1. DOMAIN e = DOMAIN m /\ \A x \in DOMAIN m : e[x] = m[x] BY <1>8 DEF Erase, Put, m
    <3>2. e = [x \in DOMAIN e |-> e[x]] BY DEF Erase
    <3> HIDE DEF e
    <3>3. m = [x \in DOMAIN m |-> m[x]] BY DEF IsMap, m
    <3>4. e = m BY <3>1, <3>2, <3>3
    <3> QED BY <3>4 DEF e, m
  <2>5. v.price = p BY DEF v
  <2>6. OneApart(c.lad, o.book)
    <3>1. r \in DOMAIN o.book.orders BY <2>1, <2>3
    <3>2. c.lad.orders = Erase(o.book.orders, r) BY <2>1, <2>2, <2>4
    <3>3. NoSlotFor(c.lad, o.book.orders[r].price) BY <2>1, <2>3, <2>5
    <3> QED BY <3>1, <3>2, <3>3 DEF OneApart
  <2>7. o.ok # c.ok BY <1>8, <2>1
  <2> QED BY <1>1, <1>3, <1>4, <2>1, <2>6, <2>7 DEF Agree, o, c
<1> QED BY <1>6, <1>7, <1>8

\* Every message leaves the books in agreement or one refused order apart.
LEMMA MessagesAgree ==
  ASSUME NEW f \in FuzzFrames, NEW L, NEW b, IsLadder(L, b), IsMap(b.orders)
  PROVE  /\ Agree(OnOrderBook(b, f), OnLadder(L, f))
         /\ L.num_ticks <= kMaxTicks => OnLadder(L, f).lad.num_ticks <= kMaxTicks
<1> DEFINE m == f.m
<1>0. f.m.price \in 0 .. UINT32_MAX /\ f.m.shares \in Nat /\ f.m.side \in Side /\ f.type \in Decoded
  BY TraitsAssumption DEF intact
<1>1. BookInv(b) BY DEF IsLadder
<1>2. CASE f.type \in {"A", "F"}
  <2>1. OnOrderBook(b, f) = add(b, m.ref, m.side, m.shares, m.price) BY <1>2 DEF OnOrderBook
  <2>2. OnLadder(L, f) = LB!add(L, m.ref, m.side, m.shares, m.price) BY <1>2 DEF OnLadder
  <2> QED BY <1>0, <2>1, <2>2, AddsAgree
<1>3. CASE f.type \in {"E", "C", "X"}
  <2> DEFINE o == reduce(b, m.ref, m.shares)
             c == LB!reduce(L, m.ref, m.shares)
  <2>1. OnOrderBook(b, f) = o BY <1>3 DEF OnOrderBook
  <2>2. OnLadder(L, f) = c BY <1>3 DEF OnLadder
  <2>3. c.ok = o.ok /\ IsLadder(c.lad, o.book) /\ c.lad.num_ticks = L.num_ticks
    BY <1>0, LadderReduces
  <2>4. BookInv(o.book) /\ o.ok \in BOOLEAN /\ IsMap(o.book.orders)
    BY <1>0, <1>1, ReduceKeeps, MapsStay
  <2> HIDE DEF o, c
  <2> QED BY <2>1, <2>2, <2>3, <2>4 DEF Agree
<1>4. CASE f.type = "D"
  <2> DEFINE o == remove(b, m.ref)
             c == LB!remove(L, m.ref)
  <2>1. OnOrderBook(b, f) = o BY <1>4 DEF OnOrderBook
  <2>2. OnLadder(L, f) = c BY <1>4 DEF OnLadder
  <2>3. c.ok = o.ok /\ IsLadder(c.lad, o.book) /\ c.lad.num_ticks = L.num_ticks
    BY LadderRemoves
  <2>4. BookInv(o.book) /\ o.ok \in BOOLEAN /\ IsMap(o.book.orders)
    BY <1>1, RemoveKeeps, MapsStay
  <2> HIDE DEF o, c
  <2> QED BY <2>1, <2>2, <2>3, <2>4 DEF Agree
<1>5. CASE f.type = "U"
  <2> DEFINE o == replace(b, m.ref, m.next, m.shares, m.price)
             c == LB!replace(L, m.ref, m.next, m.shares, m.price)
  <2>1. OnOrderBook(b, f) = o BY <1>5 DEF OnOrderBook
  <2>2. OnLadder(L, f) = c BY <1>5 DEF OnLadder
  <2>3. CASE m.ref \notin DOMAIN b.orders
    <3>0. L.orders = b.orders BY LadderShows
    <3>1. o = [ok |-> FALSE, book |-> b] /\ c = [ok |-> FALSE, lad |-> L]
      BY <2>3, <3>0 DEF replace, LB!replace
    <3> HIDE DEF o, c
    <3> QED BY <1>1, <2>1, <2>2, <3>1 DEF Agree
  <2>4. CASE m.ref \in DOMAIN b.orders
    <3> DEFINE d == remove(b, m.ref).book
               M == LB!remove(L, m.ref).lad
               s == b.orders[m.ref].side
    <3>1. IsLadder(M, d) /\ M.num_ticks = L.num_ticks BY LadderRemoves
    <3>2. IsMap(d.orders) BY SMTT(30), MapsStay
    <3>3. s \in Side BY <1>1, <2>4, LevelOf
    <3>4. /\ c = LB!add(M, m.next, s, m.shares, m.price)
          /\ o = add(d, m.next, s, m.shares, m.price)
      BY <2>4, LadderReplaces
    <3> HIDE DEF d, M, s, o, c
    <3> QED BY <1>0, <2>1, <2>2, <3>1, <3>2, <3>3, <3>4, AddsAgree
  <2> QED BY <2>3, <2>4
<1> QED BY <1>0, <1>2, <1>3, <1>4, <1>5 DEF Decoded

\* A frame into an OrderBook, whatever the ladder does.
LEMMA BookTakes ==
  ASSUME NEW f \in FuzzFrames, NEW b, BookInv(b), IsMap(b.orders)
  PROVE  LET o == OnOrderBook(b, f)
         IN  BookInv(o.book) /\ o.ok \in BOOLEAN /\ IsMap(o.book.orders)
<1> DEFINE m == f.m
<1>0. m.price \in Nat /\ m.shares \in Nat /\ m.side \in Side /\ f.type \in Decoded
  BY TraitsAssumption DEF intact
<1>1. CASE f.type \in {"A", "F"}
  <2>1. OnOrderBook(b, f) = add(b, m.ref, m.side, m.shares, m.price) BY <1>1 DEF OnOrderBook
  <2> QED BY <1>0, <2>1, AddKeeps, MapsStay
<1>2. CASE f.type \in {"E", "C", "X"}
  <2>1. OnOrderBook(b, f) = reduce(b, m.ref, m.shares) BY <1>2 DEF OnOrderBook
  <2> QED BY <1>0, <2>1, ReduceKeeps, MapsStay
<1>3. CASE f.type = "D"
  <2>1. OnOrderBook(b, f) = remove(b, m.ref) BY <1>3 DEF OnOrderBook
  <2> QED BY <2>1, RemoveKeeps, MapsStay
<1>4. CASE f.type = "U"
  <2> DEFINE o == replace(b, m.ref, m.next, m.shares, m.price)
             d == remove(b, m.ref).book
             s == b.orders[m.ref].side
  <2>1. OnOrderBook(b, f) = o BY <1>4 DEF OnOrderBook
  <2>2. CASE m.ref \notin DOMAIN b.orders
    <3>1. o.ok = FALSE /\ o.book = b BY <2>2 DEF replace
    <3> QED BY <2>1, <3>1
  <2>3. CASE m.ref \in DOMAIN b.orders
    <3>1. o = add(d, m.next, s, m.shares, m.price) BY <2>3 DEF replace
    <3>2. BookInv(d) /\ IsMap(d.orders) BY RemoveKeeps, MapsStay
    <3>3. s \in Side BY <2>3, LevelOf
    <3> HIDE DEF o, d, s
    <3> QED BY <1>0, <2>1, <3>1, <3>2, <3>3, AddKeeps, MapsStay
  <2> QED BY <2>2, <2>3
<1> QED BY <1>0, <1>1, <1>2, <1>3, <1>4 DEF Decoded

\* The window around a base price make accepts has no more slots than the
\* ceiling, though the constructor checks nothing.
LEMMA NewBounded ==
  ASSUME NEW base \in 0 .. kMaxSanePrice
  PROVE  LB!NewLadder(base).num_ticks <= kMaxTicks
<1> DEFINE w  == LB!window(base)
           W  == LB!window(kMaxSanePrice)
           l  == LB!window_low(base)
           lo == LB!snap_to_tick(l)
           hi == LB!window_high(base)
           k  == (hi - lo) \div Tick
           a  == (2 * W) \div Tick
<1>0. base \in Nat /\ kMaxSanePrice \in Nat /\ UINT32_MAX \in Nat /\ kMaxTicks \in Nat
      /\ base <= kMaxSanePrice /\ base <= UINT32_MAX
  BY LadderOpsAssumption, TraitsAssumption
<1>1. LB!NewLadder(base).num_ticks = k + 1 BY DEF LB!NewLadder, LB!ticks, Tick
<1>2. w \in Nat /\ W \in Nat /\ w <= W
  <2> DEFINE x == base * WindowNum
             y == kMaxSanePrice * WindowNum
  <2>0. WindowNum \in Nat /\ WindowDen \in Nat \ {0} BY LadderOpsAssumption
  <2>1. x \in Nat /\ y \in Nat /\ x <= y
    <3>1. x \in Nat /\ y \in Nat BY <1>0, <2>0
    <3>2. CASE WindowNum = 0
      <4>1. x = 0 /\ y = 0 BY <1>0, <3>2
      <4> HIDE DEF x, y
      <4> QED BY <4>1
    <3>3. CASE WindowNum # 0
      <4>1. WindowNum * base <= WindowNum * kMaxSanePrice BY <1>0, <2>0, <3>3, TimesMono
      <4>2. x = WindowNum * base /\ y = WindowNum * kMaxSanePrice BY <1>0, <2>0
      <4> HIDE DEF x, y
      <4> QED BY <3>1, <4>1, <4>2
    <3> QED BY <3>2, <3>3
  <2>2. w = x \div WindowDen /\ W = y \div WindowDen BY DEF LB!window
  <2> HIDE DEF x, y, w, W
  <2> QED BY <2>0, <2>1, <2>2, DivNat, DivMono
<1>3. l \in Nat /\ l + w >= base BY <1>0, <1>2 DEF LB!window_low
<1>4. lo \in Nat /\ lo + Tick > l
  <2> DEFINE j == l \div Tick
  <2>1. j \in Nat /\ l < Tick * j + Tick /\ Tick * j \in Nat
    <3> HIDE DEF l
    <3>1. j \in Nat BY <1>3, TickPositive, DivNat
    <3>2. l = Tick * j + (l % Tick) /\ l % Tick < Tick /\ l % Tick \in Nat BY <1>3, TickPositive, DivDef
    <3> HIDE DEF j
    <3>3. Tick * j \in Nat BY <3>1, TickPositive
    <3> QED BY <3>1, <3>2, <3>3, TickPositive
  <2>2. lo = j * Tick BY DEF LB!snap_to_tick, Tick
  <2> HIDE DEF j, l, lo
  <2>3. j * Tick = Tick * j BY <2>1, TickPositive
  <2> QED BY <1>3, <2>1, <2>2, <2>3, TickPositive
<1>5. hi \in Nat /\ hi <= base + w /\ lo <= hi
  <2>1. hi = Min({base + w, UINT32_MAX}) BY SameOps DEF LB!window_high
  <2>2. base \in 0 .. UINT32_MAX BY <1>0
  <2>3. lo <= base /\ base <= hi BY <2>2, WindowAround
  <2> HIDE DEF w, hi, lo
  <2>4. base + w \in Nat BY <1>0, <1>2
  <2>5. hi \in Nat /\ hi <= base + w BY <1>0, <2>1, <2>4, MinMaxPair
  <2> QED BY <1>0, <1>4, <2>3, <2>5
<1>6. a \in Nat /\ a + 2 <= kMaxTicks
  <2>1. a + 2 <= kMaxTicks BY TraitsAssumption DEF Tick
  <2> HIDE DEF W
  <2>2. 2 * W \in Nat BY <1>2
  <2> QED BY <2>1, <2>2, TickPositive, DivNat
<1> HIDE DEF w, l, lo, hi, W
<1>7. 2 * W < Tick * a + Tick
  <2>0. 2 * W \in Nat BY <1>2
  <2>1. 2 * W = Tick * a + ((2 * W) % Tick) /\ (2 * W) % Tick < Tick /\ (2 * W) % Tick \in Nat
    <3> DEFINE V == 2 * W
    <3>1. V \in Nat BY <2>0
    <3> HIDE DEF V
    <3>2. V = Tick * (V \div Tick) + (V % Tick) /\ V % Tick < Tick /\ V % Tick \in Nat
      BY <3>1, TickPositive, DivDef
    <3> QED BY <3>2 DEF V
  <2> HIDE DEF a
  <2>2. Tick * a \in Nat BY <1>6, TickPositive
  <2> QED BY <2>0, <2>1, <2>2, TickPositive
<1>8. k \in Nat /\ Tick * k <= hi - lo
  <2>1. hi - lo \in Nat BY <1>4, <1>5
  <2> QED BY <2>1, TickPositive, DivNat
<1> HIDE DEF a, k
<1>9. hi - lo < Tick * (a + 2)
  <2>1. hi - lo <= 2 * W + Tick BY <1>0, <1>2, <1>3, <1>4, <1>5, TickPositive
  <2>2. Tick * (a + 2) = Tick * a + Tick * 2 /\ Tick * 2 = Tick + Tick /\ Tick * a \in Nat
    BY <1>6, TickPositive, Distributes
  <2> QED BY <1>2, <1>4, <1>5, <1>7, <2>1, <2>2, TickPositive
<1>10. k < a + 2
  <2>1. ASSUME a + 2 <= k PROVE FALSE
    <3>1. Tick * (a + 2) <= Tick * k BY <1>6, <1>8, <2>1, TickPositive, TimesMono
    <3>2. Tick * (a + 2) \in Nat /\ Tick * k \in Nat BY <1>6, <1>8, TickPositive
    <3> QED BY <1>4, <1>5, <1>8, <1>9, <3>1, <3>2
  <2> QED BY <1>6, <1>8, <2>1
<1> QED BY <1>0, <1>1, <1>6, <1>8, <1>10

-----------------------------------------------------------------------------
(* The harness.                                                            *)

FuzzInv ==
  /\ ~aborted
  /\ DOMAIN candidate = DOMAIN reference
  /\ \A l \in DOMAIN reference :
       /\ BookInv(reference[l]) /\ IsMap(reference[l].orders)
       /\ candidate[l].num_ticks <= kMaxTicks
       /\ \E d : IsLadder(candidate[l], d) /\ IsMap(d.orders)
       /\ l \notin policy_diverged => IsLadder(candidate[l], reference[l])

\* The empty tables satisfy it.
LEMMA FuzzInvInit == ComparisonInit => FuzzInv
<1> SUFFICES ASSUME ComparisonInit PROVE FuzzInv OBVIOUS
<1>1. DOMAIN reference = {} /\ DOMAIN candidate = {} /\ ~aborted
  BY DEF ComparisonInit, FuzzInit, EmptyMap
<1> QED BY <1>1 DEF FuzzInv

\* What the two books of a frame's locate are when the frame arrives.
LEMMA BeforeFrame ==
  ASSUME FuzzInv, NEW f \in FuzzFrames
  PROVE  LET l == f.m.locate
             b == order_book_for(reference, l)
             L == ladder_for(candidate, l, price_hint(f))
         IN  /\ BookInv(b) /\ IsMap(b.orders) /\ L.num_ticks <= kMaxTicks
             /\ \E d : IsLadder(L, d) /\ IsMap(d.orders)
             /\ l \notin policy_diverged => IsLadder(L, b)
<1> DEFINE l == f.m.locate
           b == order_book_for(reference, l)
           L == ladder_for(candidate, l, price_hint(f))
<1>1. CASE l \in DOMAIN reference
  <2>1. b = reference[l] BY <1>1 DEF order_book_for
  <2>2. L = candidate[l] BY <1>1 DEF ladder_for, FuzzInv
  <2> HIDE DEF l, b, L
  <2>3. /\ BookInv(b) /\ IsMap(b.orders) /\ L.num_ticks <= kMaxTicks
        /\ \E d : IsLadder(L, d) /\ IsMap(d.orders)
        /\ l \notin policy_diverged => IsLadder(L, b)
    BY <1>1, <2>1, <2>2 DEF FuzzInv
  <2> QED BY <2>3 DEF l, b, L
<1>2. CASE l \notin DOMAIN reference
  <2> DEFINE h == price_hint(f)
             base == IF h # 0 /\ h <= kMaxSanePrice THEN h ELSE kFallbackBase
  <2>1. b = EmptyBook BY <1>2 DEF order_book_for
  <2>2. L = LB!NewLadder(base) BY <1>2 DEF ladder_for, make, FuzzInv
  <2>3. h \in Nat
    <3>1. f.m.price \in Nat BY TraitsAssumption
    <3> QED BY <3>1 DEF price_hint
  <2> HIDE DEF h
  <2>4. base \in 0 .. kMaxSanePrice /\ base \in 0 .. UINT32_MAX
    BY <2>3, TraitsAssumption, LadderOpsAssumption
  <2> HIDE DEF base, b, L, l
  <2>5. IsLadder(L, b) BY <2>1, <2>2, <2>4, NewIsLadder
  <2>6. L.num_ticks <= kMaxTicks BY <2>2, <2>4, NewBounded
  <2>7. IsMap(b.orders) BY <2>1 DEF EmptyBook, EmptyMap, IsMap
  <2> QED BY <2>1, <2>5, <2>6, <2>7, EmptyInv DEF l, b, L
<1> QED BY <1>1, <1>2

\* A frame into both books: what apply_and_diff keeps, and how it may end.
LEMMA FrameKeeps ==
  ASSUME FuzzInv, NEW f \in FuzzFrames, apply_and_diff(f)
  PROVE  /\ FuzzInv'
         /\ \A l \in policy_diverged' \ policy_diverged : OneApart(candidate'[l], reference'[l])
<1> DEFINE l == f.m.locate
           b == order_book_for(reference, l)
           L == ladder_for(candidate, l, price_hint(f))
           o == OnOrderBook(b, f)
           c == OnLadder(L, f)
<1>1. /\ BookInv(b) /\ IsMap(b.orders) /\ L.num_ticks <= kMaxTicks
      /\ \E d : IsLadder(L, d) /\ IsMap(d.orders)
      /\ l \notin policy_diverged => IsLadder(L, b)
  BY BeforeFrame
<1>2. /\ reference' = Put(reference, l, o.book)
      /\ candidate' = Put(candidate, l, c.lad)
      /\ policy_diverged' = IF o.ok # c.ok THEN policy_diverged \cup {l} ELSE policy_diverged
      /\ aborted' = (l \notin policy_diverged' /\ o.ok /\ OrderBookView(o.book) # LadderView(c.lad))
  BY DEF apply_and_diff
<1> HIDE DEF l, b, L
<1>3. /\ o.ok \in BOOLEAN /\ c.ok \in BOOLEAN /\ BookInv(o.book) /\ IsMap(o.book.orders)
      /\ c.lad.num_ticks <= kMaxTicks
      /\ \E d : IsLadder(c.lad, d) /\ IsMap(d.orders)
  <2>1. PICK d : IsLadder(L, d) /\ IsMap(d.orders) BY <1>1
  <2>2. Agree(OnOrderBook(d, f), c) /\ c.lad.num_ticks <= kMaxTicks BY <1>1, <2>1, MessagesAgree
  <2>3. BookInv(o.book) /\ o.ok \in BOOLEAN /\ IsMap(o.book.orders) BY <1>1, BookTakes
  <2> QED BY <2>2, <2>3 DEF Agree
<1>4. l \notin policy_diverged =>
        /\ o.ok = c.ok => IsLadder(c.lad, o.book)
        /\ o.ok # c.ok => OneApart(c.lad, o.book)
  BY <1>1, MessagesAgree DEF Agree
<1> HIDE DEF o, c
<1>5. /\ DOMAIN reference' = DOMAIN reference \cup {l} /\ DOMAIN candidate' = DOMAIN candidate \cup {l}
      /\ reference'[l] = o.book /\ candidate'[l] = c.lad
      /\ \A k \in DOMAIN reference : k # l => reference'[k] = reference[k]
      /\ \A k \in DOMAIN candidate : k # l => candidate'[k] = candidate[k]
  BY <1>2 DEF Put
<1>6. l \notin policy_diverged' => l \notin policy_diverged /\ o.ok = c.ok BY <1>2, <1>3
<1>7. l \notin policy_diverged' => IsLadder(c.lad, o.book) BY <1>4, <1>6
<1>8. ~aborted'
  <2>1. IsLadder(c.lad, o.book) => LadderView(c.lad) = OrderBookView(o.book) BY LadderShows
  <2> QED BY <1>2, <1>7, <2>1
<1>9. ASSUME NEW k \in DOMAIN reference'
      PROVE  /\ BookInv(reference'[k]) /\ IsMap(reference'[k].orders)
             /\ candidate'[k].num_ticks <= kMaxTicks
             /\ \E d : IsLadder(candidate'[k], d) /\ IsMap(d.orders)
             /\ k \notin policy_diverged' => IsLadder(candidate'[k], reference'[k])
  <2>1. CASE k = l BY <1>3, <1>5, <1>7, <2>1
  <2>2. CASE k # l
    <3>1. k \in DOMAIN reference /\ k \in DOMAIN candidate BY <1>5, <2>2 DEF FuzzInv
    <3>2. reference'[k] = reference[k] /\ candidate'[k] = candidate[k] BY <1>5, <2>2, <3>1
    <3>3. k \notin policy_diverged' => k \notin policy_diverged BY <1>2
    <3> QED BY <3>1, <3>2, <3>3 DEF FuzzInv
  <2> QED BY <2>1, <2>2
<1>10. FuzzInv'
  <2>1. DOMAIN candidate' = DOMAIN reference' BY <1>5 DEF FuzzInv
  <2> QED BY <1>8, <1>9, <2>1 DEF FuzzInv
<1>11. ASSUME NEW k \in policy_diverged' \ policy_diverged
       PROVE  OneApart(candidate'[k], reference'[k])
  <2>1. k = l /\ o.ok # c.ok /\ l \notin policy_diverged BY <1>2, <1>11
  <2> QED BY <1>4, <1>5, <2>1
<1> QED BY <1>10, <1>11

\* Every step of either harness keeps the invariant.
LEMMA FuzzInvStep == FuzzInv /\ [ComparisonNext]_cvars => FuzzInv'
<1> SUFFICES ASSUME FuzzInv, [ComparisonNext]_cvars PROVE FuzzInv' OBVIOUS
<1>1. CASE Fuzz
  <2>1. PICK f \in FuzzFrames : apply_and_diff(f) BY <1>1 DEF Fuzz
  <2> QED BY <2>1, FrameKeeps
<1>2. CASE UNCHANGED dvars BY <1>2 DEF dvars, FuzzInv
<1> QED BY <1>1, <1>2 DEF ComparisonNext, GenerateFrame, RunPass, Finished, cvars

\* As long as only the ladder's policy has not come between them, the two books
\* of every locate hold the same orders and show the same, so the differential
\* harness never aborts, whatever frames it is given.
THEOREM BooksNeverDisagree == ComparisonSpec => []BooksAgree
<1>1. FuzzInv => BooksAgree
  <2> SUFFICES ASSUME FuzzInv, NEW l \in DOMAIN reference \ policy_diverged
               PROVE  /\ reference[l].orders = candidate[l].orders
                      /\ OrderBookView(reference[l]) = LadderView(candidate[l])
    BY DEF FuzzInv, BooksAgree
  <2>1. IsLadder(candidate[l], reference[l]) BY DEF FuzzInv
  <2> QED BY <2>1, LadderShows
<1> QED BY <1>1, FuzzInvInit, FuzzInvStep, PTL DEF ComparisonSpec

\* No ladder of the table ever has more slots than the ceiling.
THEOREM LaddersStayBounded == ComparisonSpec => []LaddersBounded
<1>1. FuzzInv => LaddersBounded BY DEF FuzzInv, LaddersBounded
<1> QED BY <1>1, FuzzInvInit, FuzzInvStep, PTL DEF ComparisonSpec

\* A locate is only ever marked because the ladder has no slot for a price.
THEOREM DivergenceOnlyByPolicy == ComparisonSpec => DivergenceIsPolicy
<1> DEFINE P == \A l \in policy_diverged' \ policy_diverged :
                  \E r \in DOMAIN reference'[l].orders :
                    /\ candidate'[l].orders = Erase(reference'[l].orders, r)
                    /\ NoSlotFor(candidate'[l], reference'[l].orders[r].price)
<1>1. FuzzInv /\ [ComparisonNext]_cvars => [P]_dvars
  <2> SUFFICES ASSUME FuzzInv, [ComparisonNext]_cvars PROVE [P]_dvars OBVIOUS
  <2>1. CASE Fuzz
    <3>1. PICK f \in FuzzFrames : apply_and_diff(f) BY <2>1 DEF Fuzz
    <3>2. \A l \in policy_diverged' \ policy_diverged : OneApart(candidate'[l], reference'[l])
      BY <3>1, FrameKeeps
    <3> QED BY <3>2 DEF OneApart
  <2>2. CASE UNCHANGED dvars BY <2>2
  <2> QED BY <2>1, <2>2 DEF ComparisonNext, GenerateFrame, RunPass, Finished, cvars
<1> QED BY <1>1, FuzzInvInit, FuzzInvStep, PTL DEF ComparisonSpec, DivergenceIsPolicy

-----------------------------------------------------------------------------
(* The generated session.  A pass is a fold over its frames, one for each  *)
(* type of book.                                                           *)

BenchBookStep(f, acc) == BenchOrderBook(acc, f)
BenchLadderStep(f, acc) == BenchLadder(acc, f)

OnBooks   == INSTANCE FoldLemmas WITH Step <- BenchBookStep
OnLadders == INSTANCE FoldLemmas WITH Step <- BenchLadderStep

\* run_pass over the frames s is such a fold.
LEMMA PassFolds ==
  ASSUME NEW s, NEW b
  PROVE  /\ FoldLeft(BenchOrderBook, b, s) = OnBooks!FoldAll(s, b)
         /\ FoldLeft(BenchLadder, b, s) = OnLadders!FoldAll(s, b)
BY DEF FoldLeft, OnBooks!FoldAll, OnLadders!FoldAll, MapThenFoldSet, OnBooks!MapThenFoldSet,
   OnLadders!MapThenFoldSet, Max, OnBooks!Max, OnLadders!Max, BenchBookStep, BenchLadderStep

\* One more frame is one more step.
LEMMA PassAppend ==
  ASSUME NEW X, NEW s \in Seq(X), NEW f \in X
  PROVE  /\ OnBooks!FoldAll(Append(s, f), NoResult) = BenchOrderBook(OnBooks!FoldAll(s, NoResult), f)
         /\ OnLadders!FoldAll(Append(s, f), NoResult) = BenchLadder(OnLadders!FoldAll(s, NoResult), f)
BY OnBooks!FoldAppend, OnLadders!FoldAppend DEF BenchBookStep, BenchLadderStep
-----------------------------------------------------------------------------
(* Pools.                                                                  *)

OpenType == [ref : Nat, side : Side, price : Nat, shares : Nat \ {0}]

\* A pool names each order once, by a reference drawn before n.
IsPool(P, n) ==
  /\ P \in Seq(OpenType)
  /\ \A i \in DOMAIN P : P[i].ref < n
  /\ \A i, j \in DOMAIN P : P[i].ref = P[j].ref => i = j

\* The order of the books an entry of a pool stands for.
OrderOf(x) == [shares |-> x.shares, price |-> x.price, side |-> x.side]

\* The resting orders o are those of the pool P.
Pooled(o, P) ==
  /\ IsMap(o)
  /\ \A i \in DOMAIN P : P[i].ref \in DOMAIN o /\ o[P[i].ref] = OrderOf(P[i])
  /\ \A r \in DOMAIN o : \E i \in DOMAIN P : P[i].ref = r

\* A new reference joins the pool and the orders.
LEMMA PoolGrows ==
  ASSUME NEW P, NEW n \in Nat, IsPool(P, n), NEW x \in OpenType, x.ref = n
  PROVE  /\ IsPool(Append(P, x), n + 1)
         /\ \A o : Pooled(o, P) => /\ n \notin DOMAIN o
                                   /\ Pooled(Put(o, n, OrderOf(x)), Append(P, x))
<1> DEFINE Q == Append(P, x)
           k == Len(P)
<1>1. P \in Seq(OpenType) /\ k \in Nat /\ DOMAIN P = 1 .. k BY DEF IsPool
<1>2. Q \in Seq(OpenType) /\ DOMAIN Q = 1 .. k + 1 /\ Q[k + 1] = x /\ \A i \in 1 .. k : Q[i] = P[i]
  BY <1>1
<1> HIDE DEF Q, k
<1>3. ASSUME NEW i \in 1 .. k PROVE P[i].ref \in Nat /\ P[i].ref < n
  <2>1. P[i] \in OpenType /\ P[i].ref < n BY <1>1 DEF IsPool
  <2> QED BY <2>1 DEF OpenType
<1>4. ASSUME NEW o, Pooled(o, P) PROVE n \notin DOMAIN o BY <1>1, <1>3, <1>4 DEF Pooled
<1>5. ASSUME NEW i \in 1 .. k + 1 PROVE (i = k + 1 /\ Q[i] = x) \/ (i \in 1 .. k /\ Q[i] = P[i])
  BY <1>1, <1>2
<1>6. IsPool(Q, n + 1)
  <2>1. ASSUME NEW i \in 1 .. k + 1 PROVE Q[i].ref < n + 1 BY <1>3, <1>5
  <2>2. ASSUME NEW i \in 1 .. k + 1, NEW j \in 1 .. k + 1, Q[i].ref = Q[j].ref PROVE i = j
    <3>1. CASE i \in 1 .. k /\ j \in 1 .. k BY <1>1, <1>2, <2>2, <3>1 DEF IsPool
    <3> QED BY <1>3, <1>5, <2>2, <3>1
  <2> QED BY <1>2, <2>1, <2>2 DEF IsPool
<1>7. ASSUME NEW o, Pooled(o, P) PROVE Pooled(Put(o, n, OrderOf(x)), Q)
  <2> DEFINE m == Put(o, n, OrderOf(x))
  <2>1. IsMap(m) BY DEF IsMap, Put
  <2>2. DOMAIN m = DOMAIN o \cup {n} /\ m[n] = OrderOf(x) /\ \A r \in DOMAIN o : r # n => m[r] = o[r]
    BY DEF Put
  <2> HIDE DEF m
  <2>3. ASSUME NEW i \in 1 .. k + 1 PROVE Q[i].ref \in DOMAIN m /\ m[Q[i].ref] = OrderOf(Q[i])
    <3>1. CASE i = k + 1 BY <1>2, <2>2, <3>1
    <3>2. CASE i \in 1 .. k
      <4>1. Q[i] = P[i] /\ P[i].ref \in DOMAIN o /\ o[P[i].ref] = OrderOf(P[i])
        BY <1>1, <1>2, <1>7, <3>2 DEF Pooled
      <4>2. n \notin DOMAIN o BY <1>4, <1>7
      <4> QED BY <2>2, <4>1, <4>2
    <3> QED BY <1>5, <3>1, <3>2
  <2>4. ASSUME NEW r \in DOMAIN m PROVE \E i \in 1 .. k + 1 : Q[i].ref = r
    <3>1. CASE r = n
      <4>1. k + 1 \in 1 .. k + 1 BY <1>1
      <4> QED BY <1>2, <3>1, <4>1
    <3>2. CASE r \in DOMAIN o
      <4>1. PICK i \in 1 .. k : P[i].ref = r BY <1>1, <1>7, <3>2 DEF Pooled
      <4>2. i \in 1 .. k + 1 /\ Q[i] = P[i] BY <1>1, <1>2
      <4> QED BY <4>1, <4>2
    <3> QED BY <2>2, <3>1, <3>2
  <2> QED BY <1>2, <2>1, <2>3, <2>4 DEF Pooled, m
<1> QED BY <1>4, <1>6, <1>7 DEF Q

\* What swap_remove leaves: the last entry in the place of entry i.
LEMMA SwapRemoves ==
  ASSUME NEW P \in Seq(OpenType), NEW i \in DOMAIN P
  PROVE  LET Q == swap_remove(P, i)
         IN  /\ Q \in Seq(OpenType) /\ DOMAIN Q = 1 .. Len(P) - 1
             /\ \A j \in 1 .. Len(P) - 1 : Q[j] = IF j = i THEN P[Len(P)] ELSE P[j]
<1> DEFINE k == Len(P)
           R == [P EXCEPT ![i] = P[k]]
<1>1. k \in Nat /\ DOMAIN P = 1 .. k /\ i \in 1 .. k /\ k \in 1 .. k /\ P[k] \in OpenType OBVIOUS
<1>2. R \in Seq(OpenType) /\ Len(R) = k /\ \A j \in 1 .. k : R[j] = IF j = i THEN P[k] ELSE P[j]
  BY <1>1
<1>3. swap_remove(P, i) = SubSeq(R, 1, k - 1)
  BY <1>2 DEF swap_remove, Front, Last
<1> HIDE DEF R
<1>4. SubSeq(R, 1, k - 1) \in Seq(OpenType) /\ Len(SubSeq(R, 1, k - 1)) = k - 1
      /\ \A j \in 1 .. k - 1 : SubSeq(R, 1, k - 1)[j] = R[j]
  BY <1>1, <1>2
<1> QED BY <1>1, <1>2, <1>3, <1>4

\* An order leaves the pool and the orders.
LEMMA PoolShrinks ==
  ASSUME NEW P, NEW n \in Nat, IsPool(P, n), NEW i \in DOMAIN P
  PROVE  /\ IsPool(swap_remove(P, i), n)
         /\ \A o : Pooled(o, P) => /\ P[i].ref \in DOMAIN o
                                   /\ Pooled(Erase(o, P[i].ref), swap_remove(P, i))
<1> DEFINE Q == swap_remove(P, i)
           k == Len(P)
           r == P[i].ref
<1>1. P \in Seq(OpenType) /\ k \in Nat /\ DOMAIN P = 1 .. k /\ k \in 1 .. k BY DEF IsPool
<1>2. /\ Q \in Seq(OpenType) /\ DOMAIN Q = 1 .. k - 1
      /\ \A j \in 1 .. k - 1 : Q[j] = IF j = i THEN P[k] ELSE P[j]
  BY <1>1, SwapRemoves
<1> HIDE DEF Q, k
<1> DEFINE at(j) == IF j = i THEN k ELSE j
<1>4. ASSUME NEW j \in 1 .. k - 1
      PROVE  at(j) \in 1 .. k /\ at(j) # i /\ Q[j] = P[at(j)] /\ P[at(j)].ref # r
  <2>1. at(j) \in 1 .. k /\ at(j) # i BY <1>1
  <2>2. Q[j] = P[at(j)] BY <1>2
  <2>3. P[at(j)].ref # P[i].ref BY <1>1, <2>1 DEF IsPool
  <2> QED BY <2>1, <2>2, <2>3
<1>5. \A j, h \in 1 .. k - 1 : at(j) = at(h) => j = h BY <1>1
<1>6. ASSUME NEW h \in 1 .. k, h # i PROVE \E j \in 1 .. k - 1 : at(j) = h
  <2>1. CASE h = k
    <3>1. i \in 1 .. k - 1 BY <1>1, <1>6, <2>1
    <3> QED BY <2>1, <3>1
  <2>2. CASE h # k
    <3>1. h \in 1 .. k - 1 BY <1>1, <2>2
    <3> QED BY <1>6, <3>1
  <2> QED BY <2>1, <2>2
<1> HIDE DEF at
<1>7. IsPool(Q, n)
  <2>1. ASSUME NEW j \in 1 .. k - 1 PROVE Q[j].ref < n BY <1>1, <1>4 DEF IsPool
  <2>2. ASSUME NEW j \in 1 .. k - 1, NEW h \in 1 .. k - 1, Q[j].ref = Q[h].ref PROVE j = h
    <3>1. P[at(j)].ref = P[at(h)].ref /\ at(j) \in DOMAIN P /\ at(h) \in DOMAIN P
      BY <1>1, <1>4, <2>2
    <3> QED BY <1>5, <3>1 DEF IsPool
  <2> QED BY <1>2, <2>1, <2>2 DEF IsPool
<1>8. ASSUME NEW o, Pooled(o, P) PROVE r \in DOMAIN o /\ Pooled(Erase(o, r), Q)
  <2> DEFINE m == Erase(o, r)
  <2>0. IsMap(m) /\ DOMAIN m = DOMAIN o \ {r} /\ \A x \in DOMAIN m : m[x] = o[x]
    BY DEF IsMap, Erase
  <2> HIDE DEF m
  <2>1. ASSUME NEW j \in 1 .. k - 1 PROVE Q[j].ref \in DOMAIN m /\ m[Q[j].ref] = OrderOf(Q[j])
    <3>1. at(j) \in DOMAIN P /\ Q[j] = P[at(j)] /\ P[at(j)].ref # r BY <1>1, <1>4
    <3>2. P[at(j)].ref \in DOMAIN o /\ o[P[at(j)].ref] = OrderOf(P[at(j)]) BY <1>8, <3>1 DEF Pooled
    <3> QED BY <2>0, <3>1, <3>2
  <2>2. ASSUME NEW x \in DOMAIN m PROVE \E j \in 1 .. k - 1 : Q[j].ref = x
    <3>1. PICK h \in 1 .. k : P[h].ref = x BY <1>1, <1>8, <2>0 DEF Pooled
    <3>2. h # i BY <2>0, <3>1
    <3>3. PICK j \in 1 .. k - 1 : at(j) = h BY <1>6, <3>2
    <3> QED BY <1>4, <3>1, <3>3
  <2>3. r \in DOMAIN o BY <1>8 DEF Pooled
  <2> QED BY <1>2, <2>0, <2>1, <2>2, <2>3 DEF Pooled, m
<1> QED BY <1>7, <1>8 DEF Q

\* Some shares come off an entry of a pool, or off an order.
Fewer(m, k, q) == [m EXCEPT ![k].shares = @ - q]

\* An order loses some of its shares in the pool and in the orders.
LEMMA PoolReduces ==
  ASSUME NEW P, NEW n \in Nat, IsPool(P, n), NEW i \in DOMAIN P,
         NEW q \in Nat, q < P[i].shares
  PROVE  /\ IsPool(Fewer(P, i, q), n)
         /\ \A o : Pooled(o, P) => /\ P[i].ref \in DOMAIN o
                                   /\ o[P[i].ref].shares = P[i].shares
                                   /\ Pooled(Fewer(o, P[i].ref, q), Fewer(P, i, q))
<1> DEFINE Q == Fewer(P, i, q)
           k == Len(P)
           r == P[i].ref
<1>1. P \in Seq(OpenType) /\ k \in Nat /\ DOMAIN P = 1 .. k BY DEF IsPool
<1>2. P[i] \in OpenType /\ P[i].shares \in Nat /\ P[i].shares - q \in Nat \ {0}
  <2>1. P[i] \in OpenType BY <1>1
  <2>2. P[i].shares \in Nat BY <2>1 DEF OpenType
  <2> QED BY <2>1, <2>2
<1>3. [P[i] EXCEPT !.shares = @ - q] \in OpenType BY <1>2 DEF OpenType
<1>4. Q \in Seq(OpenType) /\ DOMAIN Q = 1 .. k
      /\ \A j \in 1 .. k : Q[j] = IF j = i THEN [P[i] EXCEPT !.shares = @ - q] ELSE P[j]
  BY <1>1, <1>3 DEF Fewer
<1> HIDE DEF Q, k
<1>5. Q[i] = [P[i] EXCEPT !.shares = @ - q] BY <1>1, <1>4
<1>6. Q[i].ref = r /\ OrderOf(Q[i]) = [OrderOf(P[i]) EXCEPT !.shares = @ - q]
  BY <1>2, <1>5 DEF OrderOf, OpenType
<1>7. \A j \in 1 .. k : Q[j].ref = P[j].ref BY <1>4, <1>6
<1>8. IsPool(Q, n) BY <1>1, <1>4, <1>7 DEF IsPool
<1>9. ASSUME NEW o, Pooled(o, P)
      PROVE  r \in DOMAIN o /\ o[r].shares = P[i].shares /\ Pooled(Fewer(o, r, q), Q)
  <2> DEFINE m == Fewer(o, r, q)
  <2>1. r \in DOMAIN o /\ o[r] = OrderOf(P[i]) BY <1>9 DEF Pooled
  <2>2. /\ DOMAIN m = DOMAIN o /\ m[r] = [o[r] EXCEPT !.shares = @ - q]
        /\ \A x \in DOMAIN o : x # r => m[x] = o[x]
    BY <2>1 DEF Fewer
  <2>3. IsMap(m) BY DEF IsMap, Fewer
  <2> HIDE DEF m
  <2>4. ASSUME NEW j \in 1 .. k PROVE Q[j].ref \in DOMAIN m /\ m[Q[j].ref] = OrderOf(Q[j])
    <3>1. CASE j = i BY <1>6, <2>1, <2>2, <3>1
    <3>2. CASE j # i
      <4>1. Q[j] = P[j] /\ P[j].ref # r BY <1>1, <1>4, <3>2 DEF IsPool
      <4>2. P[j].ref \in DOMAIN o /\ o[P[j].ref] = OrderOf(P[j]) BY <1>1, <1>9 DEF Pooled
      <4> QED BY <2>2, <4>1, <4>2
    <3> QED BY <3>1, <3>2
  <2>5. ASSUME NEW x \in DOMAIN m PROVE \E j \in 1 .. k : Q[j].ref = x
    BY <1>1, <1>7, <1>9, <2>2 DEF Pooled
  <2>6. o[r].shares = P[i].shares BY <2>1 DEF OrderOf
  <2> QED BY <1>4, <2>1, <2>3, <2>4, <2>5, <2>6 DEF Pooled, m
<1> QED BY <1>8, <1>9 DEF Q
-----------------------------------------------------------------------------
(* The ladders of the session never run out of room.                       *)

Drawn(l) == WigglePrices(kSymbols[l])

LowEnd(p)  == LB!snap_to_tick(LB!window_low(p))
HighEnd(p) == LB!window_high(p)

\* Both ends of the range come from prices drawn for the symbol.
Ranged(L, l) == \E p, q \in Drawn(l) : L.min_price = LowEnd(p) /\ L.max_price = HighEnd(q)

\* A drawn price is one of a ladder's, and its window lies within the prices.
LEMMA DrawnPrices ==
  ASSUME NEW l \in DOMAIN kSymbols, NEW p \in Drawn(l)
  PROVE  /\ p \in 1 .. kMaxSanePrice /\ p \in 0 .. UINT32_MAX /\ p \in Nat /\ p % Tick = 0
         /\ LowEnd(p) \in Nat /\ HighEnd(p) \in Nat
         /\ \A q \in Drawn(l) : LB!ticks(LowEnd(p), HighEnd(q)) <= kMaxTicks
<1>1. p \in 1 .. kMaxSanePrice /\ p % Tick = 0
  BY SymbolsAssumption DEF Drawn, Tick
<1>2. kMaxSanePrice \in Nat /\ kMaxSanePrice <= UINT32_MAX /\ UINT32_MAX \in Nat
  BY TraitsAssumption, LadderOpsAssumption
<1>3. p \in 0 .. UINT32_MAX /\ p \in Nat BY <1>1, <1>2
<1>4. LowEnd(p) \in Nat /\ HighEnd(p) \in Nat BY <1>3, WindowAround DEF OnGrid, LowEnd, HighEnd
<1>5. \A q \in Drawn(l) : LB!ticks(LowEnd(p), HighEnd(q)) <= kMaxTicks
  BY SymbolsAssumption DEF Drawn, LowEnd, HighEnd
<1> QED BY <1>1, <1>3, <1>4, <1>5

\* Growing for a drawn price leads to such a range again, and is allowed.
LEMMA RangeGrows ==
  ASSUME NEW l \in DOMAIN kSymbols, NEW L, Ranged(L, l), NEW p \in Drawn(l)
  PROVE  /\ \E x, y \in Drawn(l) : LB!new_min(L, p) = LowEnd(x) /\ LB!new_max(L, p) = HighEnd(y)
         /\ LB!can_grow(L, p)
<1>1. PICK u \in Drawn(l), v \in Drawn(l) : L.min_price = LowEnd(u) /\ L.max_price = HighEnd(v)
  BY DEF Ranged
<1>2. /\ LowEnd(u) \in Int /\ LowEnd(p) \in Int /\ HighEnd(v) \in Int /\ HighEnd(p) \in Int
  BY DrawnPrices
<1>3. PICK x \in Drawn(l) : LB!new_min(L, p) = LowEnd(x)
  <2>1. LB!new_min(L, p) = IF p < L.min_price THEN Min({LowEnd(u), LowEnd(p)}) ELSE LowEnd(u)
    BY <1>1, SameOps DEF LB!new_min, LowEnd
  <2>2. Min({LowEnd(u), LowEnd(p)}) \in {LowEnd(u), LowEnd(p)} BY <1>2, MinMaxPair
  <2> QED BY <2>1, <2>2
<1>4. PICK y \in Drawn(l) : LB!new_max(L, p) = HighEnd(y)
  <2>1. LB!new_max(L, p) = IF p > L.max_price THEN Max({HighEnd(v), HighEnd(p)}) ELSE HighEnd(v)
    BY <1>1, SameOps DEF LB!new_max, HighEnd
  <2>2. Max({HighEnd(v), HighEnd(p)}) \in {HighEnd(v), HighEnd(p)} BY <1>2, MinMaxPair
  <2> QED BY <2>1, <2>2
<1>5. LB!ticks(LowEnd(x), HighEnd(y)) <= kMaxTicks BY DrawnPrices
<1> QED BY <1>3, <1>4, <1>5 DEF LB!can_grow

\* So a ladder of the session has a slot for every drawn price.
LEMMA RoomForDrawn ==
  ASSUME NEW l \in DOMAIN kSymbols, NEW L, NEW b, IsLadder(L, b), Ranged(L, l), NEW p \in Drawn(l),
         NEW r, NEW s, NEW q
  PROVE  LET a == LB!add(L, r, s, q, p) IN  Ranged(a.lad, l) /\ ~NoSlotFor(a.lad, p)
<1> DEFINE a == LB!add(L, r, s, q, p)
           G == Grown(L, p)
<1>0. p \in Nat /\ p \in 0 .. UINT32_MAX /\ p % Tick = 0 BY DrawnPrices
<1>1. PICK lo, hi : BookInv(b) /\ Fits(lo, hi, b) /\ L = LadderOf(lo, hi, b) BY DEF IsLadder
<1>2. RoomFor(L, p) BY RangeGrows DEF RoomFor
<1>3. PICK less, more : /\ G = LadderOf(less, more, b)
                        /\ \E x, y \in Drawn(l) : less = LowEnd(x) /\ more = HighEnd(y)
  <2>1. CASE LB!in_range(L, p)
    <3>1. G = LadderOf(lo, hi, b) BY <1>1, <2>1 DEF Grown
    <3>2. L.min_price = lo /\ L.max_price = hi BY <1>1 DEF LadderOf
    <3> QED BY <3>1, <3>2 DEF Ranged
  <2>2. CASE ~LB!in_range(L, p)
    <3>1. LB!grow_to_include(L, p) = LadderOf(LB!new_min(L, p), LB!new_max(L, p), b)
      BY <1>0, <1>1, LadderGrow
    <3>2. G = LadderOf(LB!new_min(L, p), LB!new_max(L, p), b) BY <2>2, <3>1 DEF Grown
    <3>3. \E x, y \in Drawn(l) : LB!new_min(L, p) = LowEnd(x) /\ LB!new_max(L, p) = HighEnd(y)
      BY RangeGrows
    <3> HIDE DEF G
    <3> QED BY <3>2, <3>3
  <2> QED BY <2>1, <2>2
<1> HIDE DEF G
<1>4. a.lad = G \/ a.lad = LB!rest(G, r, s, q, p) BY <1>2, AddCases DEF G
<1>5. LB!rest(G, r, s, q, p).min_price = less /\ LB!rest(G, r, s, q, p).max_price = more
  BY <1>3 DEF LB!rest, LadderOf
<1>6. G.min_price = less /\ G.max_price = more BY <1>3 DEF LadderOf
<1> HIDE DEF a
<1>7. a.lad.min_price = less /\ a.lad.max_price = more BY <1>4, <1>5, <1>6
<1>8. Ranged(a.lad, l) BY <1>3, <1>7 DEF Ranged
<1>9. LB!can_grow(a.lad, p) BY <1>8, RangeGrows
<1>10. ~NoSlotFor(a.lad, p) BY <1>0, <1>9 DEF NoSlotFor, Tick
<1> QED BY <1>8, <1>10 DEF a

\* Taking shares or orders out leaves the range alone.
LEMMA RangeStays ==
  ASSUME NEW l, NEW L, NEW b, IsLadder(L, b), Ranged(L, l), NEW r
  PROVE  /\ \A q : Ranged(LB!reduce(L, r, q).lad, l)
         /\ Ranged(LB!remove(L, r).lad, l)
<1>1. PICK lo, hi : L = LadderOf(lo, hi, b) BY DEF IsLadder
<1>2. ASSUME NEW o, NEW s, NEW p, NEW q, NEW gone
      PROVE  /\ LB!level_sub([L EXCEPT !.orders = o], s, p, q, gone).min_price = L.min_price
             /\ LB!level_sub([L EXCEPT !.orders = o], s, p, q, gone).max_price = L.max_price
  BY <1>1 DEF LB!level_sub, LadderOf
<1>3. ASSUME NEW q PROVE Ranged(LB!reduce(L, r, q).lad, l)
  <2>1. LB!reduce(L, r, q).lad.min_price = L.min_price /\ LB!reduce(L, r, q).lad.max_price = L.max_price
    BY <1>2 DEF LB!reduce
  <2> QED BY <2>1 DEF Ranged
<1>4. LB!remove(L, r).lad.min_price = L.min_price /\ LB!remove(L, r).lad.max_price = L.max_price
  <2> DEFINE M == LB!level_sub([L EXCEPT !.orders = LB!Erase(L.orders, r)],
                               L.orders[r].side, L.orders[r].price, L.orders[r].shares, TRUE)
  <2>1. LB!remove(L, r).lad = IF r \notin DOMAIN L.orders THEN L ELSE M BY DEF LB!remove
  <2>2. M.min_price = L.min_price /\ M.max_price = L.max_price
    BY <1>1 DEF LB!level_sub, LadderOf
  <2> HIDE DEF M
  <2> QED BY <2>1, <2>2
<1> QED BY <1>3, <1>4 DEF Ranged
-----------------------------------------------------------------------------
(* The calls the session makes, on either book.                            *)

\* The book, the ladder, holds the orders of the pool.
Holds(b, P) == BookInv(b) /\ Pooled(b.orders, P)
HoldsLadder(L, l, P) == Ranged(L, l) /\ \E b : IsLadder(L, b) /\ Holds(b, P)

\* An add under a new reference.
LEMMA SessionAdd ==
  ASSUME NEW P, NEW n \in Nat, IsPool(P, n), NEW x \in OpenType, x.ref = n,
         NEW l \in DOMAIN kSymbols, x.price \in Drawn(l)
  PROVE  /\ \A b : Holds(b, P) =>
              LET a == add(b, n, x.side, x.shares, x.price)
              IN  a.ok = TRUE /\ Holds(a.book, Append(P, x))
         /\ \A L : HoldsLadder(L, l, P) =>
              LET a == LB!add(L, n, x.side, x.shares, x.price)
              IN  a.ok = TRUE /\ HoldsLadder(a.lad, l, Append(P, x))
<1>0. x.side \in Side /\ x.shares \in Nat /\ x.price \in Nat BY DEF OpenType
<1>1. x.price \in 0 .. UINT32_MAX BY DrawnPrices
<1>2. ASSUME NEW b, Holds(b, P)
      PROVE  LET a == add(b, n, x.side, x.shares, x.price)
             IN  n \notin DOMAIN b.orders /\ a.ok = TRUE /\ Holds(a.book, Append(P, x))
  <2> DEFINE a == add(b, n, x.side, x.shares, x.price)
  <2>1. BookInv(b) /\ Pooled(b.orders, P) BY <1>2 DEF Holds
  <2>2. n \notin DOMAIN b.orders /\ Pooled(Put(b.orders, n, OrderOf(x)), Append(P, x))
    BY <2>1, PoolGrows
  <2>3. a.ok = TRUE /\ a.book.orders = Put(b.orders, n, OrderOf(x))
    BY <2>2 DEF add, OrderOf
  <2>4. BookInv(a.book) BY <1>0, <2>1, AddKeeps
  <2> HIDE DEF a
  <2>5. a.ok = TRUE /\ Holds(a.book, Append(P, x)) BY <2>2, <2>3, <2>4 DEF Holds
  <2> QED BY <2>2, <2>5 DEF a
<1>3. ASSUME NEW L, HoldsLadder(L, l, P)
      PROVE  LET a == LB!add(L, n, x.side, x.shares, x.price)
             IN  a.ok = TRUE /\ HoldsLadder(a.lad, l, Append(P, x))
  <2> DEFINE a == LB!add(L, n, x.side, x.shares, x.price)
  <2>1. PICK b : IsLadder(L, b) /\ Holds(b, P) BY <1>3 DEF HoldsLadder
  <2> DEFINE c == add(b, n, x.side, x.shares, x.price)
  <2>2. n \notin DOMAIN b.orders /\ c.ok = TRUE /\ Holds(c.book, Append(P, x)) BY <1>2, <2>1
  <2>3. Ranged(L, l) BY <1>3 DEF HoldsLadder
  <2>4. Ranged(a.lad, l) /\ ~NoSlotFor(a.lad, x.price) BY <2>1, <2>3, RoomForDrawn
  <2>5. /\ a.ok \in BOOLEAN
        /\ a.ok => IsLadder(a.lad, c.book)
        /\ ~a.ok => n \in DOMAIN b.orders \/ NoSlotFor(a.lad, x.price)
    BY <1>0, <1>1, <2>1, LadderAdds
  <2> HIDE DEF a, c
  <2>6. a.ok = TRUE /\ HoldsLadder(a.lad, l, Append(P, x)) BY <2>2, <2>4, <2>5 DEF HoldsLadder
  <2> QED BY <2>6 DEF a
<1> QED BY <1>2, <1>3

\* A delete of an open order.
LEMMA SessionRemove ==
  ASSUME NEW P, NEW n \in Nat, IsPool(P, n), NEW i \in DOMAIN P, NEW l
  PROVE  LET r == P[i].ref
             Q == swap_remove(P, i)
         IN  /\ \A b : Holds(b, P) =>
                  r \in DOMAIN b.orders /\ remove(b, r).ok = TRUE /\ Holds(remove(b, r).book, Q)
             /\ \A L : HoldsLadder(L, l, P) =>
                  LB!remove(L, r).ok = TRUE /\ HoldsLadder(LB!remove(L, r).lad, l, Q)
<1> DEFINE r == P[i].ref
           Q == swap_remove(P, i)
<1>1. ASSUME NEW b, Holds(b, P)
      PROVE  r \in DOMAIN b.orders /\ remove(b, r).ok = TRUE /\ Holds(remove(b, r).book, Q)
  <2>1. BookInv(b) /\ Pooled(b.orders, P) BY <1>1 DEF Holds
  <2>2. r \in DOMAIN b.orders /\ Pooled(Erase(b.orders, r), Q) BY <2>1, PoolShrinks
  <2>3. remove(b, r).ok = TRUE /\ remove(b, r).book.orders = Erase(b.orders, r)
    BY <2>2, RemoveOrders
  <2>4. BookInv(remove(b, r).book) BY <2>1, RemoveKeeps
  <2> HIDE DEF r, Q
  <2> QED BY <2>2, <2>3, <2>4 DEF Holds
<1>2. ASSUME NEW L, HoldsLadder(L, l, P)
      PROVE  LB!remove(L, r).ok = TRUE /\ HoldsLadder(LB!remove(L, r).lad, l, Q)
  <2> HIDE DEF r, Q
  <2>1. PICK b : IsLadder(L, b) /\ Holds(b, P) BY <1>2 DEF HoldsLadder
  <2>2. remove(b, r).ok = TRUE /\ Holds(remove(b, r).book, Q) BY <1>1, <2>1
  <2>3. LB!remove(L, r).ok = remove(b, r).ok /\ IsLadder(LB!remove(L, r).lad, remove(b, r).book)
    BY <2>1, LadderRemoves
  <2>4. Ranged(LB!remove(L, r).lad, l)
    <3>1. Ranged(L, l) BY <1>2 DEF HoldsLadder
    <3> QED BY <2>1, <3>1, RangeStays
  <2> QED BY <2>2, <2>3, <2>4 DEF HoldsLadder
<1> QED BY <1>1, <1>2

\* An execute or a cancel of some of an open order.
LEMMA SessionReduce ==
  ASSUME NEW P, NEW n \in Nat, IsPool(P, n), NEW i \in DOMAIN P, NEW l, NEW q \in 1 .. P[i].shares
  PROVE  LET r == P[i].ref
             Q == Drained(P, i, q)
         IN  /\ IsPool(Q, n)
             /\ \A b : Holds(b, P) => reduce(b, r, q).ok = TRUE /\ Holds(reduce(b, r, q).book, Q)
             /\ \A L : HoldsLadder(L, l, P) =>
                  LB!reduce(L, r, q).ok = TRUE /\ HoldsLadder(LB!reduce(L, r, q).lad, l, Q)
<1> DEFINE r == P[i].ref
           Q == Drained(P, i, q)
<1>0. P[i].shares \in Nat /\ q \in Nat /\ q <= P[i].shares
  <2>1. P[i] \in OpenType BY DEF IsPool
  <2> QED BY <2>1 DEF OpenType
<1>1. /\ IsPool(Q, n)
      /\ \A o : Pooled(o, P) => r \in DOMAIN o /\ Pooled(Shrunk(o, r, q), Q)
  <2>1. CASE P[i].shares = q
    <3>1. Q = swap_remove(P, i) BY <2>1 DEF Drained
    <3>2. ASSUME NEW o, Pooled(o, P) PROVE Shrunk(o, r, q) = Erase(o, r)
      <4>1. o[r] = OrderOf(P[i]) BY <3>2 DEF Pooled
      <4>2. o[r].shares = q BY <2>1, <4>1 DEF OrderOf
      <4> QED BY <1>0, <4>2 DEF Shrunk
    <3> QED BY <3>1, <3>2, PoolShrinks
  <2>2. CASE P[i].shares # q
    <3>0. q < P[i].shares BY <1>0, <2>2
    <3>1. Q = Fewer(P, i, q) BY <2>2 DEF Drained, Fewer
    <3>2. /\ IsPool(Fewer(P, i, q), n)
          /\ \A o : Pooled(o, P) => /\ r \in DOMAIN o /\ o[r].shares = P[i].shares
                                    /\ Pooled(Fewer(o, r, q), Fewer(P, i, q))
      BY <1>0, <3>0, PoolReduces
    <3> HIDE DEF Q
    <3>3. ASSUME NEW o, Pooled(o, P) PROVE Shrunk(o, r, q) = Fewer(o, r, q)
      <4>1. o[r].shares = P[i].shares BY <3>2, <3>3
      <4> QED BY <1>0, <3>0, <4>1 DEF Shrunk, Fewer
    <3> QED BY <3>1, <3>2, <3>3
  <2> QED BY <2>1, <2>2
<1> HIDE DEF r, Q
<1>2. ASSUME NEW b, Holds(b, P) PROVE reduce(b, r, q).ok = TRUE /\ Holds(reduce(b, r, q).book, Q)
  <2>1. BookInv(b) /\ Pooled(b.orders, P) BY <1>2 DEF Holds
  <2>2. r \in DOMAIN b.orders /\ Pooled(Shrunk(b.orders, r, q), Q) BY <1>1, <2>1
  <2>3. reduce(b, r, q).ok = TRUE /\ reduce(b, r, q).book.orders = Shrunk(b.orders, r, q)
    BY <1>0, <2>1, <2>2, ReduceOrders
  <2>4. BookInv(reduce(b, r, q).book) BY <1>0, <2>1, ReduceKeeps
  <2> QED BY <2>2, <2>3, <2>4 DEF Holds
<1>3. ASSUME NEW L, HoldsLadder(L, l, P)
      PROVE  LB!reduce(L, r, q).ok = TRUE /\ HoldsLadder(LB!reduce(L, r, q).lad, l, Q)
  <2>1. PICK b : IsLadder(L, b) /\ Holds(b, P) BY <1>3 DEF HoldsLadder
  <2>2. reduce(b, r, q).ok = TRUE /\ Holds(reduce(b, r, q).book, Q) BY <1>2, <2>1
  <2>3. LB!reduce(L, r, q).ok = reduce(b, r, q).ok
        /\ IsLadder(LB!reduce(L, r, q).lad, reduce(b, r, q).book)
    BY <1>0, <2>1, LadderReduces
  <2>4. Ranged(LB!reduce(L, r, q).lad, l)
    <3>1. Ranged(L, l) BY <1>3 DEF HoldsLadder
    <3> QED BY <2>1, <3>1, RangeStays
  <2> QED BY <2>2, <2>3, <2>4 DEF HoldsLadder
<1> QED BY <1>1, <1>2, <1>3 DEF r, Q
-----------------------------------------------------------------------------
(* The frames of the session.                                              *)

SessionFrames == [type : Decoded, good : BOOLEAN,
                  m : [locate : DOMAIN kSymbols, ref : Nat, next : Nat, side : Side,
                       shares : Nat, price : Nat]]

\* Either book that holds the pool P applies the frame, and then holds Q.
Takes(f, l, P, Q) ==
  /\ \A b : Holds(b, P) => OnOrderBook(b, f).ok = TRUE /\ Holds(OnOrderBook(b, f).book, Q)
  /\ \A L : HoldsLadder(L, l, P) =>
       OnLadder(L, f).ok = TRUE /\ HoldsLadder(OnLadder(L, f).lad, l, Q)

\* A generated frame: it is for l, turns the pool P into Q, and is an add when
\* the pool is empty.
Generated(f, l, P, Q) ==
  /\ f \in SessionFrames /\ f.m.locate = l
  /\ P = << >> => price_hint(f) \in Drawn(l)
  /\ Takes(f, l, P, Q)

FrameOf(t, l, ref, next, side, shares, price) ==
  [type |-> t, good |-> TRUE,
   m |-> [locate |-> l, ref |-> ref, next |-> next, side |-> side, shares |-> shares,
          price |-> price]]

\* The fields of a frame that is written.
LEMMA FrameFields ==
  ASSUME NEW t \in Decoded, NEW l \in DOMAIN kSymbols, NEW ref \in Nat, NEW next \in Nat,
         NEW side \in Side, NEW shares \in Nat, NEW price \in Nat
  PROVE  LET f == FrameOf(t, l, ref, next, side, shares, price)
         IN  /\ f \in SessionFrames /\ f.type = t /\ f.m.locate = l /\ f.m.ref = ref
             /\ f.m.next = next /\ f.m.side = side /\ f.m.shares = shares /\ f.m.price = price
BY DEF FrameOf, SessionFrames

\* An add.
LEMMA AddGenerated ==
  ASSUME NEW P, NEW n \in Nat, IsPool(P, n), NEW l \in DOMAIN kSymbols,
         NEW side \in Side, NEW price \in Drawn(l), NEW shares \in LotShares
  PROVE  LET x == OpenOrder(n, side, price, shares)
             Q == Append(P, x)
         IN  /\ IsPool(Q, n + 1)
             /\ Generated(FrameOf("A", l, n, 0, side, shares, price), l, P, Q)
<1> DEFINE x == OpenOrder(n, side, price, shares)
           Q == Append(P, x)
           f == FrameOf("A", l, n, 0, side, shares, price)
<1>1. price \in Nat /\ shares \in Nat \ {0} BY DrawnPrices, SessionAssumption
<1>2. x \in OpenType /\ x.ref = n /\ x.side = side /\ x.shares = shares /\ x.price = price
  BY <1>1 DEF OpenOrder, OpenType
<1>3. /\ f \in SessionFrames /\ f.type = "A" /\ f.m.locate = l /\ f.m.ref = n
      /\ f.m.side = side /\ f.m.shares = shares /\ f.m.price = price
  <2>1. "A" \in Decoded /\ 0 \in Nat /\ shares \in Nat BY <1>1 DEF Decoded
  <2> QED BY <1>1, <2>1, FrameFields
<1> HIDE DEF x, f
<1>4. IsPool(Q, n + 1) BY <1>2, PoolGrows
<1>5. price_hint(f) = price BY <1>3 DEF price_hint
<1>6. Takes(f, l, P, Q)
  <2>1. \A b : OnOrderBook(b, f) = add(b, n, x.side, x.shares, x.price)
    BY <1>2, <1>3 DEF OnOrderBook
  <2>2. \A L : OnLadder(L, f) = LB!add(L, n, x.side, x.shares, x.price)
    BY <1>2, <1>3 DEF OnLadder
  <2>3. x.price \in Drawn(l) BY <1>2
  <2>4. /\ \A b : Holds(b, P) => /\ add(b, n, x.side, x.shares, x.price).ok = TRUE
                                 /\ Holds(add(b, n, x.side, x.shares, x.price).book, Q)
        /\ \A L : HoldsLadder(L, l, P) =>
             /\ LB!add(L, n, x.side, x.shares, x.price).ok = TRUE
             /\ HoldsLadder(LB!add(L, n, x.side, x.shares, x.price).lad, l, Q)
    BY <1>2, <2>3, SessionAdd
  <2> HIDE DEF Q
  <2> QED BY <2>1, <2>2, <2>4 DEF Takes
<1>7. Generated(f, l, P, Q) BY <1>3, <1>5, <1>6 DEF Generated
<1> QED BY <1>4, <1>7 DEF x, f

\* An execute or a cancel.
LEMMA ReduceGenerated ==
  ASSUME NEW P, NEW n \in Nat, IsPool(P, n), NEW l \in DOMAIN kSymbols,
         NEW t \in {"E", "C", "X"}, NEW i \in DOMAIN P, NEW q \in 1 .. P[i].shares
  PROVE  LET Q == Drained(P, i, q)
         IN  /\ IsPool(Q, n)
             /\ Generated(FrameOf(t, l, P[i].ref, 0, "Sell", q, 0), l, P, Q)
<1> DEFINE Q == Drained(P, i, q)
           r == P[i].ref
           f == FrameOf(t, l, r, 0, "Sell", q, 0)
<1>1. P[i].shares \in Nat /\ r \in Nat /\ q \in Nat
  <2>1. P[i] \in OpenType BY DEF IsPool
  <2>2. P[i].shares \in Nat /\ r \in Nat BY <2>1 DEF OpenType
  <2> QED BY <2>2
<1>2. f \in SessionFrames /\ f.type = t /\ f.m.locate = l /\ f.m.ref = r /\ f.m.shares = q
  <2>1. t \in Decoded /\ 0 \in Nat /\ "Sell" \in Side BY DEF Decoded, Side
  <2> HIDE DEF r
  <2> QED BY <1>1, <2>1 DEF FrameOf, SessionFrames
<1>3. /\ IsPool(Q, n)
      /\ \A b : Holds(b, P) => reduce(b, r, q).ok = TRUE /\ Holds(reduce(b, r, q).book, Q)
      /\ \A L : HoldsLadder(L, l, P) =>
           LB!reduce(L, r, q).ok = TRUE /\ HoldsLadder(LB!reduce(L, r, q).lad, l, Q)
  BY SessionReduce
<1>4. P # << >> OBVIOUS
<1> HIDE DEF f, r, Q
<1>5. \A b : OnOrderBook(b, f) = reduce(b, r, q) BY <1>2 DEF OnOrderBook
<1>6. \A L : OnLadder(L, f) = LB!reduce(L, r, q) BY <1>2 DEF OnLadder
<1>7. Takes(f, l, P, Q) BY <1>3, <1>5, <1>6 DEF Takes
<1> QED BY <1>2, <1>3, <1>4, <1>7 DEF Generated, f, r, Q

\* A delete.
LEMMA DeleteGenerated ==
  ASSUME NEW P, NEW n \in Nat, IsPool(P, n), NEW l \in DOMAIN kSymbols, NEW i \in DOMAIN P
  PROVE  LET Q == swap_remove(P, i)
         IN  /\ IsPool(Q, n)
             /\ Generated(FrameOf("D", l, P[i].ref, 0, "Sell", 0, 0), l, P, Q)
<1> DEFINE Q == swap_remove(P, i)
           r == P[i].ref
           f == FrameOf("D", l, r, 0, "Sell", 0, 0)
<1>1. r \in Nat
  <2>1. P[i] \in OpenType BY DEF IsPool
  <2> QED BY <2>1 DEF OpenType
<1>2. f \in SessionFrames /\ f.type = "D" /\ f.m.locate = l /\ f.m.ref = r
  <2>1. "D" \in Decoded /\ 0 \in Nat /\ "Sell" \in Side BY DEF Decoded, Side
  <2> QED BY <1>1, <2>1, FrameFields
<1>3. /\ \A b : Holds(b, P) => remove(b, r).ok = TRUE /\ Holds(remove(b, r).book, Q)
      /\ \A L : HoldsLadder(L, l, P) =>
           LB!remove(L, r).ok = TRUE /\ HoldsLadder(LB!remove(L, r).lad, l, Q)
  BY SessionRemove
<1>4. IsPool(Q, n) BY PoolShrinks
<1>5. P # << >> OBVIOUS
<1> HIDE DEF f, r, Q
<1>6. \A b : OnOrderBook(b, f) = remove(b, r) BY <1>2 DEF OnOrderBook
<1>7. \A L : OnLadder(L, f) = LB!remove(L, r) BY <1>2 DEF OnLadder
<1>8. Takes(f, l, P, Q) BY <1>3, <1>6, <1>7 DEF Takes
<1> QED BY <1>2, <1>4, <1>5, <1>8 DEF Generated, f, r, Q

\* A replace: the delete and then the add under the new reference.
LEMMA ReplaceGenerated ==
  ASSUME NEW P, NEW n \in Nat, IsPool(P, n), NEW l \in DOMAIN kSymbols, NEW i \in DOMAIN P,
         NEW price \in Drawn(l), NEW shares \in LotShares
  PROVE  LET Q == Append(swap_remove(P, i), OpenOrder(n, P[i].side, price, shares))
         IN  /\ IsPool(Q, n + 1)
             /\ Generated(FrameOf("U", l, P[i].ref, n, "Sell", shares, price), l, P, Q)
<1> DEFINE R == swap_remove(P, i)
           s == P[i].side
           x == OpenOrder(n, s, price, shares)
           Q == Append(R, x)
           r == P[i].ref
           f == FrameOf("U", l, r, n, "Sell", shares, price)
<1>1. r \in Nat /\ s \in Side /\ price \in Nat /\ shares \in Nat \ {0}
  <2>1. P[i] \in OpenType BY DEF IsPool
  <2>2. r \in Nat /\ s \in Side BY <2>1 DEF OpenType
  <2> QED BY <2>2, DrawnPrices, SessionAssumption
<1>2. x \in OpenType /\ x.ref = n /\ x.side = s /\ x.shares = shares /\ x.price = price
  BY <1>1 DEF OpenOrder, OpenType
<1>3. /\ f \in SessionFrames /\ f.type = "U" /\ f.m.locate = l /\ f.m.ref = r
      /\ f.m.next = n /\ f.m.shares = shares /\ f.m.price = price
  <2>1. "U" \in Decoded /\ "Sell" \in Side /\ shares \in Nat BY <1>1 DEF Decoded, Side
  <2> HIDE DEF r
  <2> QED BY SMTT(30), <1>1, <2>1, FrameFields
<1>4. IsPool(R, n) BY PoolShrinks
<1>5. P # << >> OBVIOUS
<1>6. /\ \A b : Holds(b, P) => /\ r \in DOMAIN b.orders
                               /\ Holds(remove(b, r).book, R)
      /\ \A L : HoldsLadder(L, l, P) => HoldsLadder(LB!remove(L, r).lad, l, R)
  BY SessionRemove
<1>7. ASSUME NEW b, Holds(b, P) PROVE b.orders[r].side = s
  <2>1. b.orders[r] = OrderOf(P[i]) BY <1>7 DEF Holds, Pooled
  <2> QED BY <2>1 DEF OrderOf
<1> HIDE DEF x, f, R, s, r
<1>8. IsPool(Q, n + 1) BY <1>2, <1>4, PoolGrows
<1>9. x.price \in Drawn(l) BY <1>2
<1>10. /\ \A b : Holds(b, R) => /\ add(b, n, s, shares, price).ok = TRUE
                                /\ Holds(add(b, n, s, shares, price).book, Q)
       /\ \A L : HoldsLadder(L, l, R) =>
            /\ LB!add(L, n, s, shares, price).ok = TRUE
            /\ HoldsLadder(LB!add(L, n, s, shares, price).lad, l, Q)
  BY <1>2, <1>4, <1>9, SessionAdd
<1> HIDE DEF Q
<1>11. ASSUME NEW b, Holds(b, P)
       PROVE  OnOrderBook(b, f).ok = TRUE /\ Holds(OnOrderBook(b, f).book, Q)
  <2>1. OnOrderBook(b, f) = replace(b, r, n, shares, price) BY <1>3 DEF OnOrderBook
  <2>2. replace(b, r, n, shares, price) = add(remove(b, r).book, n, s, shares, price)
    BY <1>6, <1>7, <1>11 DEF replace
  <2> QED BY <1>6, <1>10, <1>11, <2>1, <2>2
<1>12. ASSUME NEW L, HoldsLadder(L, l, P)
       PROVE  OnLadder(L, f).ok = TRUE /\ HoldsLadder(OnLadder(L, f).lad, l, Q)
  <2>1. OnLadder(L, f) = LB!replace(L, r, n, shares, price) BY <1>3 DEF OnLadder
  <2>2. PICK b : IsLadder(L, b) /\ Holds(b, P) BY <1>12 DEF HoldsLadder
  <2>3. LB!replace(L, r, n, shares, price) = LB!add(LB!remove(L, r).lad, n, s, shares, price)
    BY <1>6, <1>7, <2>2, LadderReplaces
  <2> QED BY <1>6, <1>10, <1>12, <2>1, <2>3
<1>13. Takes(f, l, P, Q) BY <1>11, <1>12 DEF Takes
<1> QED BY <1>3, <1>5, <1>8, <1>13 DEF Generated, x, f, R, s, r, Q
-----------------------------------------------------------------------------
(* The tables a pass fills, and the harness.                               *)

\* Every book of the table holds its symbol's pool; a symbol without a book
\* has had no frame yet.
BooksOf(T, pools) ==
  /\ T.unknown_refs = 0
  /\ \A l \in DOMAIN kSymbols : IF l \in DOMAIN T.books THEN Holds(T.books[l], pools[l])
                                ELSE pools[l] = << >>

LaddersOf(T, pools) ==
  /\ T.unknown_refs = 0
  /\ \A l \in DOMAIN kSymbols : IF l \in DOMAIN T.books THEN HoldsLadder(T.books[l], l, pools[l])
                                ELSE pools[l] = << >>

\* A new book, a new ladder around a drawn price, holds the empty pool.
LEMMA NewHolds ==
  /\ Holds(EmptyBook, << >>)
  /\ \A l \in DOMAIN kSymbols : \A p \in Drawn(l) : HoldsLadder(make(p), l, << >>)
<1>1. Holds(EmptyBook, << >>)
  <2>1. Pooled(EmptyMap, << >>) BY DEF Pooled, EmptyMap, IsMap
  <2>2. EmptyBook.orders = EmptyMap BY DEF EmptyBook
  <2> QED BY <2>1, <2>2, EmptyInv DEF Holds
<1>2. ASSUME NEW l \in DOMAIN kSymbols, NEW p \in Drawn(l) PROVE HoldsLadder(make(p), l, << >>)
  <2>1. p \in 1 .. kMaxSanePrice /\ p \in 0 .. UINT32_MAX BY DrawnPrices
  <2>2. make(p) = LB!NewLadder(p)
    <3>1. p # 0 /\ p <= kMaxSanePrice BY <2>1, TraitsAssumption
    <3> QED BY <3>1 DEF make
  <2>3. IsLadder(LB!NewLadder(p), EmptyBook) BY <2>1, NewIsLadder
  <2>4. LB!NewLadder(p).min_price = LowEnd(p) /\ LB!NewLadder(p).max_price = HighEnd(p)
    BY DEF LB!NewLadder, LowEnd, HighEnd
  <2>5. Ranged(LB!NewLadder(p), l) BY <2>4 DEF Ranged
  <2> QED BY <1>1, <2>2, <2>3, <2>5 DEF HoldsLadder
<1> QED BY <1>1, <1>2

\* A frame of the session keeps both tables in step with the pools.
LEMMA TablesTake ==
  ASSUME NEW pools, DOMAIN pools = DOMAIN kSymbols, NEW l \in DOMAIN kSymbols,
         NEW f, NEW Q, Generated(f, l, pools[l], Q)
  PROVE  LET next == [pools EXCEPT ![l] = Q]
         IN  /\ \A T : BooksOf(T, pools) => BooksOf(BenchOrderBook(T, f), next)
             /\ \A T : LaddersOf(T, pools) => LaddersOf(BenchLadder(T, f), next)
<1> DEFINE next == [pools EXCEPT ![l] = Q]
<1>1. next[l] = Q /\ \A k \in DOMAIN kSymbols : k # l => next[k] = pools[k] OBVIOUS
<1>2. f.m.locate = l /\ (pools[l] = << >> => price_hint(f) \in Drawn(l)) /\ Takes(f, l, pools[l], Q)
  BY DEF Generated
<1> HIDE DEF next
<1>3. ASSUME NEW T, BooksOf(T, pools) PROVE BooksOf(BenchOrderBook(T, f), next)
  <2> DEFINE b == order_book_for(T.books, l)
             c == OnOrderBook(b, f)
             U == BenchOrderBook(T, f)
  <2>1. Holds(b, pools[l])
    <3>1. CASE l \in DOMAIN T.books BY <1>3, <3>1 DEF order_book_for, BooksOf
    <3>2. CASE l \notin DOMAIN T.books
      <4>1. pools[l] = << >> BY <1>3, <3>2 DEF BooksOf
      <4>2. b = EmptyBook BY <3>2 DEF order_book_for
      <4> QED BY <4>1, <4>2, NewHolds
    <3> QED BY <3>1, <3>2
  <2> HIDE DEF b
  <2>2. c.ok = TRUE /\ Holds(c.book, Q) BY <1>2, <2>1 DEF Takes
  <2>3. U.books = Put(T.books, l, c.book)
        /\ U.unknown_refs = IF c.ok THEN T.unknown_refs ELSE T.unknown_refs + 1
    BY <1>2 DEF BenchOrderBook, bench_apply, b
  <2> HIDE DEF c, U
  <2>4. /\ DOMAIN U.books = DOMAIN T.books \cup {l} /\ U.books[l] = c.book
        /\ \A k \in DOMAIN T.books : k # l => U.books[k] = T.books[k]
    BY <2>3 DEF Put
  <2>5. U.unknown_refs = 0 BY <1>3, <2>2, <2>3 DEF BooksOf
  <2>6. ASSUME NEW k \in DOMAIN kSymbols
        PROVE  IF k \in DOMAIN U.books THEN Holds(U.books[k], next[k]) ELSE next[k] = << >>
    <3>1. CASE k = l BY <1>1, <2>2, <2>4, <3>1
    <3>2. CASE k # l BY <1>1, <1>3, <2>4, <3>2 DEF BooksOf
    <3> QED BY <3>1, <3>2
  <2> QED BY <2>5, <2>6 DEF BooksOf, U
<1>4. ASSUME NEW T, LaddersOf(T, pools) PROVE LaddersOf(BenchLadder(T, f), next)
  <2> DEFINE L == ladder_for(T.books, l, price_hint(f))
             c == OnLadder(L, f)
             U == BenchLadder(T, f)
  <2>1. HoldsLadder(L, l, pools[l])
    <3>1. CASE l \in DOMAIN T.books BY <1>4, <3>1 DEF ladder_for, LaddersOf
    <3>2. CASE l \notin DOMAIN T.books
      <4>1. pools[l] = << >> BY <1>4, <3>2 DEF LaddersOf
      <4>2. L = make(price_hint(f)) BY <3>2 DEF ladder_for
      <4>3. price_hint(f) \in Drawn(l) BY <1>2, <4>1
      <4> QED BY <4>1, <4>2, <4>3, NewHolds
    <3> QED BY <3>1, <3>2
  <2> HIDE DEF L
  <2>2. c.ok = TRUE /\ HoldsLadder(c.lad, l, Q) BY <1>2, <2>1 DEF Takes
  <2>3. U.books = Put(T.books, l, c.lad)
        /\ U.unknown_refs = IF c.ok THEN T.unknown_refs ELSE T.unknown_refs + 1
    BY <1>2 DEF BenchLadder, bench_apply, L
  <2> HIDE DEF c, U
  <2>4. /\ DOMAIN U.books = DOMAIN T.books \cup {l} /\ U.books[l] = c.lad
        /\ \A k \in DOMAIN T.books : k # l => U.books[k] = T.books[k]
    BY <2>3 DEF Put
  <2>5. U.unknown_refs = 0 BY <1>4, <2>2, <2>3 DEF LaddersOf
  <2>6. ASSUME NEW k \in DOMAIN kSymbols
        PROVE  IF k \in DOMAIN U.books THEN HoldsLadder(U.books[k], k, next[k])
               ELSE next[k] = << >>
    <3>1. CASE k = l BY <1>1, <2>2, <2>4, <3>1
    <3>2. CASE k # l BY <1>1, <1>4, <2>4, <3>2 DEF LaddersOf
    <3> QED BY <3>1, <3>2
  <2> QED BY <2>5, <2>6 DEF LaddersOf, U
<1> QED BY <1>3, <1>4 DEF next

\* The pools are well formed, either kind of table built from the frames so far
\* agrees with them, and a finished pass is one of the two, over the whole session.
SessionInv ==
  /\ DOMAIN open = DOMAIN kSymbols /\ next_ref \in Nat
  /\ \A l \in DOMAIN kSymbols : IsPool(open[l], next_ref)
  /\ raw \in Seq(SessionFrames)
  /\ BooksOf(OnBooks!FoldAll(raw, NoResult), open)
  /\ LaddersOf(OnLadders!FoldAll(raw, NoResult), open)
  /\ passes \in Nat
  /\ passes > 0 => /\ Len(raw) = kTotalMessages
                   /\ \/ result = OnBooks!FoldAll(raw, NoResult)
                      \/ result = OnLadders!FoldAll(raw, NoResult)

\* It holds of empty pools.
LEMMA SessionInvInit == ComparisonInit => SessionInv
<1> SUFFICES ASSUME ComparisonInit PROVE SessionInv OBVIOUS
<1>1. /\ open = [l \in DOMAIN kSymbols |-> << >>] /\ next_ref = 1 /\ raw = << >> /\ passes = 0
  BY DEF ComparisonInit, SessionInit
<1>2. \A l \in DOMAIN kSymbols : IsPool(open[l], next_ref) BY <1>1 DEF IsPool
<1>3. /\ OnBooks!FoldAll(raw, NoResult) = NoResult /\ OnLadders!FoldAll(raw, NoResult) = NoResult
  BY <1>1, OnBooks!FoldEmpty, OnLadders!FoldEmpty
<1>4. DOMAIN NoResult.books = {} /\ NoResult.unknown_refs = 0 BY DEF NoResult, EmptyMap
<1>5. BooksOf(NoResult, open) /\ LaddersOf(NoResult, open)
  BY <1>1, <1>4 DEF BooksOf, LaddersOf
<1> QED BY <1>1, <1>2, <1>3, <1>5 DEF SessionInv

\* What one generated frame does to the pools.
LEMMA GenerateStep ==
  ASSUME SessionInv, NEW l \in DOMAIN kSymbols,
         GenerateAdd(l) \/ GenerateReduce(l) \/ GenerateDelete(l) \/ GenerateReplace(l)
  PROVE  \E f, Q : /\ Len(raw) < kTotalMessages /\ raw' = Append(raw, f)
                   /\ open' = [open EXCEPT ![l] = Q] /\ Generated(f, l, open[l], Q)
                   /\ IsPool(Q, next_ref')
                   /\ (next_ref' = next_ref \/ next_ref' = next_ref + 1)
<1>1. IsPool(open[l], next_ref) /\ next_ref \in Nat /\ DOMAIN open = DOMAIN kSymbols
  BY DEF SessionInv
<1>2. CASE GenerateAdd(l)
  <2>1. PICK side \in Side, price \in Drawn(l), shares \in LotShares :
          /\ Write("A", l, next_ref, 0, side, shares, price)
          /\ open' = [open EXCEPT ![l] = Append(@, OpenOrder(next_ref, side, price, shares))]
          /\ next_ref' = next_ref + 1
    BY <1>2 DEF GenerateAdd, Drawn
  <2> DEFINE f == FrameOf("A", l, next_ref, 0, side, shares, price)
             Q == Append(open[l], OpenOrder(next_ref, side, price, shares))
  <2>2. IsPool(Q, next_ref + 1) /\ Generated(f, l, open[l], Q) BY <1>1, AddGenerated
  <2>3. Len(raw) < kTotalMessages /\ raw' = Append(raw, f) BY <2>1 DEF Write, FrameOf
  <2>4. open' = [open EXCEPT ![l] = Q] BY <2>1
  <2> HIDE DEF f, Q
  <2> QED BY <2>1, <2>2, <2>3, <2>4
<1>3. CASE GenerateReduce(l)
  <2>1. PICK t \in {"E", "C", "X"}, i \in DOMAIN open[l] : \E qty \in 1 .. open[l][i].shares :
          /\ Write(t, l, open[l][i].ref, 0, "Sell", qty, 0)
          /\ open' = [open EXCEPT ![l] = Drained(@, i, qty)]
          /\ UNCHANGED next_ref
    BY <1>3 DEF GenerateReduce
  <2>2. PICK q \in 1 .. open[l][i].shares :
          /\ Write(t, l, open[l][i].ref, 0, "Sell", q, 0)
          /\ open' = [open EXCEPT ![l] = Drained(@, i, q)]
          /\ UNCHANGED next_ref
    BY <2>1
  <2> DEFINE f == FrameOf(t, l, open[l][i].ref, 0, "Sell", q, 0)
             Q == Drained(open[l], i, q)
  <2>3. IsPool(Q, next_ref) /\ Generated(f, l, open[l], Q) BY <1>1, ReduceGenerated
  <2>4. Len(raw) < kTotalMessages /\ raw' = Append(raw, f) BY <2>2 DEF Write, FrameOf
  <2>5. open' = [open EXCEPT ![l] = Q] BY <2>2
  <2> HIDE DEF f, Q
  <2> QED BY <2>2, <2>3, <2>4, <2>5
<1>4. CASE GenerateDelete(l)
  <2>1. PICK i \in DOMAIN open[l] :
          /\ Write("D", l, open[l][i].ref, 0, "Sell", 0, 0)
          /\ open' = [open EXCEPT ![l] = swap_remove(@, i)]
          /\ UNCHANGED next_ref
    BY <1>4 DEF GenerateDelete
  <2> DEFINE f == FrameOf("D", l, open[l][i].ref, 0, "Sell", 0, 0)
             Q == swap_remove(open[l], i)
  <2>2. IsPool(Q, next_ref) /\ Generated(f, l, open[l], Q) BY <1>1, DeleteGenerated
  <2>3. Len(raw) < kTotalMessages /\ raw' = Append(raw, f) BY <2>1 DEF Write, FrameOf
  <2>4. open' = [open EXCEPT ![l] = Q] BY <2>1
  <2> HIDE DEF f, Q
  <2> QED BY <2>1, <2>2, <2>3, <2>4
<1>5. CASE GenerateReplace(l)
  <2>1. PICK i \in DOMAIN open[l], price \in Drawn(l), shares \in LotShares :
          /\ Write("U", l, open[l][i].ref, next_ref, "Sell", shares, price)
          /\ open' = [open EXCEPT ![l] = Append(swap_remove(@, i),
                                                OpenOrder(next_ref, open[l][i].side, price, shares))]
          /\ next_ref' = next_ref + 1
    BY <1>5 DEF GenerateReplace, Drawn
  <2> DEFINE f == FrameOf("U", l, open[l][i].ref, next_ref, "Sell", shares, price)
             Q == Append(swap_remove(open[l], i), OpenOrder(next_ref, open[l][i].side, price, shares))
  <2>2. IsPool(Q, next_ref + 1) /\ Generated(f, l, open[l], Q) BY <1>1, ReplaceGenerated
  <2>3. Len(raw) < kTotalMessages /\ raw' = Append(raw, f) BY <2>1 DEF Write, FrameOf
  <2>4. open' = [open EXCEPT ![l] = Q] BY <2>1
  <2> HIDE DEF f, Q
  <2> QED BY <2>1, <2>2, <2>3, <2>4
<1> QED BY <1>2, <1>3, <1>4, <1>5

\* A pool is one for every later reference as well.
LEMMA PoolLater ==
  ASSUME NEW P, NEW n \in Nat, NEW m, m = n \/ m = n + 1, IsPool(P, n) PROVE IsPool(P, m)
<1>1. ASSUME NEW i \in DOMAIN P PROVE P[i].ref < m
  <2>1. P[i] \in OpenType /\ P[i].ref < n BY DEF IsPool
  <2>2. P[i].ref \in Nat BY <2>1 DEF OpenType
  <2> QED BY <2>1, <2>2
<1> QED BY <1>1 DEF IsPool

\* Every step of either harness keeps the invariant.
LEMMA SessionInvStep == SessionInv /\ [ComparisonNext]_cvars => SessionInv'
<1> SUFFICES ASSUME SessionInv, [ComparisonNext]_cvars PROVE SessionInv' OBVIOUS
<1>1. CASE GenerateFrame
  <2>1. PICK l \in DOMAIN kSymbols :
          GenerateAdd(l) \/ GenerateReduce(l) \/ GenerateDelete(l) \/ GenerateReplace(l)
    BY <1>1 DEF GenerateFrame, Generate
  <2>2. PICK f, Q : /\ Len(raw) < kTotalMessages /\ raw' = Append(raw, f)
                    /\ open' = [open EXCEPT ![l] = Q] /\ Generated(f, l, open[l], Q)
                    /\ IsPool(Q, next_ref')
                    /\ (next_ref' = next_ref \/ next_ref' = next_ref + 1)
    BY <2>1, GenerateStep
  <2>3. /\ DOMAIN open = DOMAIN kSymbols /\ next_ref \in Nat /\ raw \in Seq(SessionFrames)
        /\ \A k \in DOMAIN kSymbols : IsPool(open[k], next_ref)
    BY DEF SessionInv
  <2>4. f \in SessionFrames BY <2>2 DEF Generated
  <2>5. DOMAIN open' = DOMAIN kSymbols /\ next_ref' \in Nat /\ raw' \in Seq(SessionFrames)
    BY <2>2, <2>3, <2>4
  <2>6. ASSUME NEW k \in DOMAIN kSymbols PROVE IsPool(open'[k], next_ref')
    <3>1. CASE k = l BY <2>2, <2>3, <3>1
    <3>2. CASE k # l
      <4>1. open'[k] = open[k] /\ IsPool(open[k], next_ref) BY <2>2, <2>3, <3>2
      <4> QED BY <2>2, <2>3, <4>1, PoolLater
    <3> QED BY <3>1, <3>2
  <2>7. /\ OnBooks!FoldAll(raw', NoResult) = BenchOrderBook(OnBooks!FoldAll(raw, NoResult), f)
        /\ OnLadders!FoldAll(raw', NoResult) = BenchLadder(OnLadders!FoldAll(raw, NoResult), f)
    BY <2>2, <2>3, <2>4, PassAppend
  <2>8. /\ BooksOf(OnBooks!FoldAll(raw, NoResult), open)
        /\ LaddersOf(OnLadders!FoldAll(raw, NoResult), open)
    BY DEF SessionInv
  <2>9. /\ BooksOf(BenchOrderBook(OnBooks!FoldAll(raw, NoResult), f), [open EXCEPT ![l] = Q])
        /\ LaddersOf(BenchLadder(OnLadders!FoldAll(raw, NoResult), f), [open EXCEPT ![l] = Q])
    BY <2>2, <2>3, <2>8, TablesTake
  <2>10. /\ BooksOf(OnBooks!FoldAll(raw', NoResult), open')
         /\ LaddersOf(OnLadders!FoldAll(raw', NoResult), open')
    BY <2>2, <2>7, <2>9
  <2>11. passes' = passes /\ passes \in Nat /\ ~(passes > 0)
    BY <1>1, <2>2, SessionAssumption DEF GenerateFrame, SessionInv
  <2> QED BY <2>5, <2>6, <2>10, <2>11 DEF SessionInv
<1>2. CASE RunPass
  <2>1. UNCHANGED <<open, next_ref, raw>> /\ Len(raw) = kTotalMessages /\ passes' = passes + 1
        /\ result' = IF passes <= kMeasuredPasses THEN FoldLeft(BenchOrderBook, NoResult, raw)
                     ELSE FoldLeft(BenchLadder, NoResult, raw)
    BY <1>2 DEF RunPass, svars
  <2>2. \/ result' = OnBooks!FoldAll(raw, NoResult)
        \/ result' = OnLadders!FoldAll(raw, NoResult)
    BY <2>1, PassFolds
  <2>3. passes' \in Nat BY <2>1 DEF SessionInv
  <2> QED BY <2>1, <2>2, <2>3 DEF SessionInv
<1>3. CASE UNCHANGED <<open, next_ref, raw, passes, result>> BY <1>3 DEF SessionInv
<1> QED BY <1>1, <1>2, <1>3 DEF ComparisonNext, Fuzz, Finished, cvars, svars

\* The orders of a pool, as PoolOf collects them.
LEMMA PoolIs ==
  ASSUME NEW l, NEW o, Pooled(o, open[l]) PROVE PoolOf(l) = o
<1> DEFINE P == open[l]
           R == {P[i].ref : i \in DOMAIN P}
           at(r) == CHOOSE i \in DOMAIN P : P[i].ref = r
<1>1. PoolOf(l) = [r \in R |-> OrderOf(P[at(r)])] BY DEF PoolOf, OrderOf
<1>2. R = DOMAIN o BY DEF Pooled
<1>3. ASSUME NEW r \in DOMAIN o PROVE OrderOf(P[at(r)]) = o[r]
  <2>1. \E i \in DOMAIN P : P[i].ref = r BY DEF Pooled
  <2>2. at(r) \in DOMAIN P /\ P[at(r)].ref = r BY <2>1
  <2> HIDE DEF at
  <2> QED BY <2>2 DEF Pooled
<1>4. o = [r \in DOMAIN o |-> o[r]] BY DEF Pooled, IsMap
<1> HIDE DEF at, R
<1> QED BY <1>1, <1>2, <1>3, <1>4

\* Every message of the generated session names an order that rests where it
\* says: each pass, of either book type, applies all of them, and the books end
\* up with exactly the orders of the generator's pools.
THEOREM SessionLive == ComparisonSpec => []SessionIsLive
<1>1. SessionInv => SessionIsLive
  <2> SUFFICES ASSUME SessionInv, passes > 0
               PROVE  /\ result.unknown_refs = 0
                      /\ \A l \in DOMAIN kSymbols :
                           PoolOf(l) = IF l \in DOMAIN result.books THEN result.books[l].orders
                                       ELSE EmptyMap
    BY DEF SessionIsLive
  <2>1. BooksOf(result, open) \/ LaddersOf(result, open) BY DEF SessionInv
  <2>2. result.unknown_refs = 0 BY <2>1 DEF BooksOf, LaddersOf
  <2>3. ASSUME NEW l \in DOMAIN kSymbols, l \in DOMAIN result.books
        PROVE  PoolOf(l) = result.books[l].orders
    <3>1. CASE BooksOf(result, open)
      <4>1. Pooled(result.books[l].orders, open[l]) BY <2>3, <3>1 DEF BooksOf, Holds
      <4> QED BY <4>1, PoolIs
    <3>2. CASE LaddersOf(result, open)
      <4>1. PICK b : IsLadder(result.books[l], b) /\ Holds(b, open[l])
        BY <2>3, <3>2 DEF LaddersOf, HoldsLadder
      <4>2. result.books[l].orders = b.orders BY <4>1, LadderShows
      <4>3. Pooled(b.orders, open[l]) BY <4>1 DEF Holds
      <4> QED BY <4>2, <4>3, PoolIs
    <3> QED BY <2>1, <3>1, <3>2
  <2>4. ASSUME NEW l \in DOMAIN kSymbols, l \notin DOMAIN result.books PROVE PoolOf(l) = EmptyMap
    <3>1. open[l] = << >> BY <2>1, <2>4 DEF BooksOf, LaddersOf
    <3>2. Pooled(EmptyMap, open[l]) BY <3>1 DEF Pooled, EmptyMap, IsMap
    <3> QED BY <3>2, PoolIs
  <2> QED BY <2>2, <2>3, <2>4
<1> QED BY <1>1, SessionInvInit, SessionInvStep, PTL DEF ComparisonSpec

=============================================================================

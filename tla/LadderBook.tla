----------------------------- MODULE LadderBook ----------------------------
(***************************************************************************)
(* One book::LadderBook (include/book/ladder_book.hpp), built around some  *)
(* base price and driven by any sequence of mutator calls.  The object is  *)
(* a ladder of LadderOps.                                                  *)
(***************************************************************************)
EXTENDS Ladders, FiniteSetsExt

CONSTANTS BasePrice,     \* base prices a ladder may be built around
          LadderRef, LadderPrice, LadderShares   \* what its calls may carry

ASSUME LadderAssumption ==
  /\ BasePrice \subseteq 0 .. UINT32_MAX
  /\ LadderPrice \subseteq 0 .. UINT32_MAX /\ LadderShares \subseteq Nat

VARIABLES lad,           \* the object
          lret           \* the bool its last mutator returned

-----------------------------------------------------------------------------

LadderInit == lad \in {LB!NewLadder(b) : b \in BasePrice} /\ lret = TRUE

LadderReturns(r) == lad' = r.lad /\ lret' = r.ok

LadderAdd(r, s, q, p)     == LadderReturns(LB!add(lad, r, s, q, p))
LadderReduce(r, q)        == LadderReturns(LB!reduce(lad, r, q))
LadderRemove(r)           == LadderReturns(LB!remove(lad, r))
LadderReplace(r, n, q, p) == LadderReturns(LB!replace(lad, r, n, q, p))

LadderNext ==
  \/ \E r \in LadderRef, s \in Side, q \in LadderShares, p \in LadderPrice : LadderAdd(r, s, q, p)
  \/ \E r \in LadderRef, q \in LadderShares : LadderReduce(r, q)
  \/ \E r \in LadderRef : LadderRemove(r)
  \/ \E r, n \in LadderRef, q \in LadderShares, p \in LadderPrice : LadderReplace(r, n, q, p)

LadderSpec == LadderInit /\ [][LadderNext]_<<lad, lret>>

-----------------------------------------------------------------------------

Occupied(s) == {i \in 0 .. lad.num_ticks - 1 : lad.levels[s][i].orders > 0}
OnLadderAt(s, p) == {r \in DOMAIN lad.orders : lad.orders[r].side = s /\ lad.orders[r].price = p}

\* "two distinct prices could floor-divide into the same array slot and
\* silently merge two real price levels into one": every resting order has a
\* slot of the arrays that stands for exactly its price, however often the
\* range moved since it was added (level_sub trusts this: "price came off a
\* resting order, already in range").  Every slot counts and sums exactly the
\* orders resting at its price, and bid_levels / ask_levels count the occupied
\* slots.
SlotsMatchOrders ==
  /\ \A r \in DOMAIN lad.orders :
       LET i == LB!idx(lad, lad.orders[r].price)
       IN  i \in 0 .. lad.num_ticks - 1 /\ LB!price_at(lad, i) = lad.orders[r].price
  /\ \A s \in Side :
       /\ \A i \in 0 .. lad.num_ticks - 1 :
            LET R == OnLadderAt(s, LB!price_at(lad, i))
            IN  lad.levels[s][i] = [shares |-> SumFunction([r \in R |-> lad.orders[r].shares]),
                                    orders |-> Cardinality(R)]
       /\ lad.count[s] = Cardinality(Occupied(s))

\* "Same order-id book as OrderBook": seen through the getters a LadderBook is
\* the book of its resting orders; it may only refuse more orders, and a
\* refusal changes nothing (a replace has dropped the original).
LadderAbstract == INSTANCE BookSpec WITH orders <- lad.orders, view <- LadderView(lad),
                                        ret <- lret, MayRefuse <- TRUE, Ref <- LadderRef,
                                        Price <- LadderPrice, Shares <- LadderShares
LadderImplementsBookSpec == LadderAbstract!Spec

=============================================================================

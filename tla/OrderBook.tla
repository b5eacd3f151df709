----------------------------- MODULE OrderBook -----------------------------
(***************************************************************************)
(* The state machine of one book::OrderBook: one action per public mutator *)
(* (include/book/order_book.hpp).  A message stream may carry any          *)
(* reference, size or price, so every mutator is enabled with every        *)
(* argument: unknown references, duplicate references, executes larger     *)
(* than the order, orders of size zero and a replace of an order by itself *)
(* all occur.                                                              *)
(***************************************************************************)
EXTENDS BookOps

CONSTANTS Ref, Price, Shares   \* references, prices and sizes a message may carry

ASSUME BookAssumption == /\ IsFiniteSet(Ref)
                         /\ Price \subseteq Nat
                         /\ Shares \subseteq Nat

VARIABLES book,  \* the object: orders_, bids_, asks_
          ret    \* the bool the last mutator returned

vars == <<book, ret>>

Init == book = EmptyBook /\ ret = TRUE

Returns(result) == book' = result.book /\ ret' = result.ok

AddOrder(r, s, q, p)     == Returns(add(book, r, s, q, p))
ReduceOrder(r, q)        == Returns(reduce(book, r, q))
RemoveOrder(r)           == Returns(remove(book, r))
ReplaceOrder(r, n, q, p) == Returns(replace(book, r, n, q, p))

Next ==
  \/ \E r \in Ref, s \in Side, q \in Shares, p \in Price : AddOrder(r, s, q, p)
  \/ \E r \in Ref, q \in Shares : ReduceOrder(r, q)
  \/ \E r \in Ref : RemoveOrder(r)
  \/ \E r, n \in Ref, q \in Shares, p \in Price : ReplaceOrder(r, n, q, p)

Spec == Init /\ [][Next]_vars

-----------------------------------------------------------------------------

\* The references resting on one side at one price.
RestingAt(s, p) == {r \in DOMAIN book.orders : book.orders[r].side = s /\ book.orders[r].price = p}

-----------------------------------------------------------------------------

\* Every live order and every level is well formed; a level's counters never
\* go below zero (they are unsigned in the code).
TypeOK ==
  /\ DOMAIN book.orders \subseteq Ref
  /\ \A r \in DOMAIN book.orders : book.orders[r] \in OrderType(Nat, Price)
  /\ DOMAIN book.levels = Side
  /\ \A s \in Side :
       /\ DOMAIN book.levels[s] \subseteq Price
       /\ \A p \in DOMAIN book.levels[s] : book.levels[s][p] \in [shares : Nat, orders : Nat]
  /\ ret \in BOOLEAN

\* "Empty levels must vanish immediately: a phantom level would corrupt
\* best_bid/best_ask and depth counts": a price has a level exactly when an
\* order rests there, and the level counts exactly those orders.
LevelsCountOrders ==
  \A s \in Side :
    /\ \A p \in Price : RestingAt(s, p) = {} <=> p \notin DOMAIN book.levels[s]
    /\ \A p \in DOMAIN book.levels[s] :
         book.levels[s][p].orders = Cardinality(RestingAt(s, p))

\* "draining to zero keeps the aggregates consistent either way": the shares
\* of a level are the shares of its orders, whatever was clamped on the way.
LevelsSumShares ==
  \A s \in Side : \A p \in DOMAIN book.levels[s] :
    book.levels[s][p].shares = SumFunction([r \in RestingAt(s, p) |-> book.orders[r].shares])

\* The ladders, seen through the getters, are those of the resting orders, and
\* a mutator that returns false changed nothing, except for a replace onto a
\* live reference, which has dropped the original.
Abstract == INSTANCE BookSpec WITH orders <- book.orders, view <- OrderBookView(book),
                                  MayRefuse <- FALSE
ImplementsBookSpec == Abstract!Spec

=============================================================================

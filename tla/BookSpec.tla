----------------------------- MODULE BookSpec ------------------------------
(***************************************************************************)
(* What a limit order book promises, with no price ladder in it: the only  *)
(* state is the set of resting orders, and everything a caller can read    *)
(* (open_orders, bid_levels/ask_levels, best_bid/best_ask) is defined from *)
(* the orders themselves.  book::OrderBook and book::LadderBook both have  *)
(* to implement it.  MayRefuse says whether add may refuse a reference     *)
(* that is not live (LadderBook: a price off the grid or past the          *)
(* allocation ceiling; OrderBook never).                                   *)
(***************************************************************************)
EXTENDS BookTypes, FiniteSetsExt

CONSTANTS Ref,       \* order reference numbers
          Price,     \* prices
          Shares,    \* sizes a message can carry
          MayRefuse

VARIABLES orders,    \* live reference -> [shares, price, side]
          view,      \* what the getters return
          ret        \* the bool the last mutator returned

vars == <<orders, view, ret>>

On(o, s)      == {r \in DOMAIN o : o[r].side = s}
PricesOf(o, s) == {o[r].price : r \in On(o, s)}
SharesAt(o, s, p) == SumFunction([r \in {x \in On(o, s) : o[x].price = p} |-> o[r].shares])

TopOf(o, s) ==
  LET P    == PricesOf(o, s)
      best == IF s = "Buy" THEN Max(P) ELSE Min(P)
  IN  IF P = {} THEN NoQuote ELSE [price |-> best, shares |-> SharesAt(o, s, best)]

ViewOf(o) == [open  |-> Cardinality(DOMAIN o),
              depth |-> [s \in Side |-> Cardinality(PricesOf(o, s))],
              top   |-> [s \in Side |-> TopOf(o, s)]]

Becomes(o, ok) == ret' = ok /\ orders' = o /\ view' = ViewOf(o)

-----------------------------------------------------------------------------

Init == orders = EmptyMap /\ view = ViewOf(EmptyMap) /\ ret = TRUE

\* A new order rests, or the call is refused and nothing changes.
Enter(o, r, s, q, p) ==
  \/ r \notin DOMAIN o /\ Becomes(Put(o, r, [shares |-> q, price |-> p, side |-> s]), TRUE)
  \/ (r \in DOMAIN o \/ MayRefuse) /\ Becomes(o, FALSE)

Add(r, s, q, p) == Enter(orders, r, s, q, p)

Unknown(r) == r \notin DOMAIN orders /\ Becomes(orders, FALSE)

\* Execute or cancel: never below zero, and an order with nothing left is gone.
Reduce(r, q) ==
  \/ Unknown(r)
  \/ /\ r \in DOMAIN orders
     /\ Becomes(IF orders[r].shares <= q THEN Erase(orders, r)
                ELSE [orders EXCEPT ![r].shares = @ - q], TRUE)

Remove(r) == Unknown(r) \/ (r \in DOMAIN orders /\ Becomes(Erase(orders, r), TRUE))

\* Delete and add: the original is gone even when the add is refused.
Replace(r, n, q, p) ==
  \/ Unknown(r)
  \/ r \in DOMAIN orders /\ Enter(Erase(orders, r), n, orders[r].side, q, p)

Next ==
  \E r \in Ref :
    \/ \E s \in Side, q \in Shares, p \in Price : Add(r, s, q, p)
    \/ \E q \in Shares : Reduce(r, q)
    \/ Remove(r)
    \/ \E n \in Ref, q \in Shares, p \in Price : Replace(r, n, q, p)

Spec == Init /\ [][Next]_vars

=============================================================================

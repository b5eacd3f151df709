------------------------------ MODULE BookOps ------------------------------
(***************************************************************************)
(* book::OrderBook (include/book/order_book.hpp) as operators on a book    *)
(* value, so that the state machine of one book (OrderBook.tla) and the    *)
(* per-locate books of the pipeline (BookBuilder.tla) share one definition.*)
(*                                                                         *)
(* A book is a record                                                      *)
(*   orders : the locator orders_, a function from the live references to  *)
(*            Order{shares, price, side}                                   *)
(*   levels : levels["Buy"] is bids_ and levels["Sell"] is asks_, each a   *)
(*            function from the prices that have a level to                *)
(*            Level{shares, orders}                                        *)
(* A mutator returns the record [ok, book]: the bool the C++ returns and   *)
(* the book it leaves behind.                                              *)
(***************************************************************************)
EXTENDS BookTypes, FiniteSetsExt

\* Level{} as std::map::operator[] default-constructs it.
EmptyLevel == [shares |-> 0, orders |-> 0]

EmptyBook == [orders |-> EmptyMap, levels |-> [s \in Side |-> EmptyMap]]

AtMost(a, b) == IF a < b THEN a ELSE b

-----------------------------------------------------------------------------

\* Level after one more order of this size joins it (m is bids_ or asks_).
add_to(m, price, shares) ==
  LET lvl == IF price \in DOMAIN m THEN m[price] ELSE EmptyLevel
  IN  Put(m, price, [shares |-> lvl.shares + shares, orders |-> lvl.orders + 1])

\* Mutant: an emptied level stays.
sub_in_phantom(m, price, shares, order_gone) ==
  IF price \notin DOMAIN m THEN m
  ELSE Put(m, price, [shares |-> m[price].shares - AtMost(shares, m[price].shares),
                      orders |-> IF order_gone THEN m[price].orders - 1 ELSE m[price].orders])

\* sub_in: shares come off a level, an emptied level vanishes.
sub_in(m, price, shares, order_gone) ==
  IF price \notin DOMAIN m THEN m
  ELSE LET l == [shares |-> m[price].shares - AtMost(shares, m[price].shares),
                 orders |-> IF order_gone /\ m[price].orders > 0
                            THEN m[price].orders - 1 ELSE m[price].orders]
       IN  IF l.orders = 0 THEN Erase(m, price) ELSE Put(m, price, l)

level_sub(levels, side, price, shares, order_gone) ==
  [levels EXCEPT ![side] = sub_in(@, price, shares, order_gone)]

-----------------------------------------------------------------------------

\* try_emplace refuses a reference that is live; nothing else is touched.
add(b, ref, side, shares, price) ==
  IF ref \in DOMAIN b.orders THEN [ok |-> FALSE, book |-> b]
  ELSE [ok   |-> TRUE,
        book |-> [orders |-> Put(b.orders, ref,
                                 [shares |-> shares, price |-> price, side |-> side]),
                  levels |-> [b.levels EXCEPT ![side] = add_to(@, price, shares)]]]

\* execute ('E', 'C') and cancel ('X') are both this.
reduce(b, ref, shares) ==
  IF ref \notin DOMAIN b.orders THEN [ok |-> FALSE, book |-> b]
  ELSE LET o    == b.orders[ref]
           qty  == AtMost(shares, o.shares)
           gone == o.shares = qty
       IN  [ok   |-> TRUE,
            book |-> [orders |-> IF gone THEN Erase(b.orders, ref)
                                 ELSE [b.orders EXCEPT ![ref].shares = @ - qty],
                      levels |-> level_sub(b.levels, o.side, o.price, qty, gone)]]

\* Mutant: a deleted order's shares stay in its level.
remove_keeps_shares(b, ref) ==
  IF ref \notin DOMAIN b.orders THEN [ok |-> FALSE, book |-> b]
  ELSE LET o == b.orders[ref]
       IN  [ok   |-> TRUE,
            book |-> [orders |-> Erase(b.orders, ref),
                      levels |-> level_sub(b.levels, o.side, o.price, 0, TRUE)]]

remove(b, ref) ==
  IF ref \notin DOMAIN b.orders THEN [ok |-> FALSE, book |-> b]
  ELSE LET o == b.orders[ref]
       IN  [ok   |-> TRUE,
            book |-> [orders |-> Erase(b.orders, ref),
                      levels |-> level_sub(b.levels, o.side, o.price, o.shares, TRUE)]]

\* Mutant: the replacement is added before the original goes.
replace_add_first(b, orig, next, shares, price) ==
  IF orig \notin DOMAIN b.orders THEN [ok |-> FALSE, book |-> b]
  ELSE LET a == add(b, next, b.orders[orig].side, shares, price)
       IN  [ok |-> a.ok, book |-> remove(a.book, orig).book]

\* The original goes first; the add that follows may still be refused.
replace(b, orig, next, shares, price) ==
  IF orig \notin DOMAIN b.orders THEN [ok |-> FALSE, book |-> b]
  ELSE add(remove(b, orig).book, next, b.orders[orig].side, shares, price)

\* best_bid / best_ask: begin() of the ordered map.
best(b, side) ==
  LET m == b.levels[side]
      p == IF side = "Buy" THEN Max(DOMAIN m) ELSE Min(DOMAIN m)
  IN  IF DOMAIN m = {} THEN NoQuote ELSE [price |-> p, shares |-> m[p].shares]

\* open_orders, bid_levels / ask_levels, best_bid / best_ask.
OrderBookView(b) == [open  |-> Cardinality(DOMAIN b.orders),
                     depth |-> [s \in Side |-> Cardinality(DOMAIN b.levels[s])],
                     top   |-> [s \in Side |-> best(b, s)]]

=============================================================================

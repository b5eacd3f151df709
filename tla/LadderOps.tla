----------------------------- MODULE LadderOps -----------------------------
(***************************************************************************)
(* book::LadderBook (include/book/ladder_book.hpp) as operators on a       *)
(* ladder value: the flat price ladder that replaces OrderBook's two       *)
(* std::maps.  A level lives in an array slot computed from its price; the *)
(* range of prices the arrays cover grows when an order arrives outside    *)
(* it, up to kMaxTicks slots; the best bid and ask are cached slot         *)
(* indices, moved only when they have to be.                               *)
(*                                                                         *)
(* A ladder is a record with the members of the class: the two arrays are  *)
(* levels["Buy"] and levels["Sell"], likewise the cached indices best      *)
(* (NoIdx for an empty std::optional) and the level counts.                *)
(* The window around a price is WindowNum/WindowDen of it, rounded down.   *)
(***************************************************************************)
EXTENDS BookTypes, FiniteSetsExt

CONSTANTS TickSize,              \* tick_size as the caller passes it
          WindowNum, WindowDen,  \* window_pct
          UINT32_MAX, kMaxTicks

NoIdx      == -1
EmptyLevel == [shares |-> 0, orders |-> 0]

tick_size == IF TickSize = 0 THEN 1 ELSE TickSize

-----------------------------------------------------------------------------
(* Ranges.                                                                 *)

snap_to_tick(price) == (price \div tick_size) * tick_size

window(price)      == (price * WindowNum) \div WindowDen
window_low(price)  == IF window(price) < price THEN price - window(price) ELSE 0
window_high(price) == Min({price + window(price), UINT32_MAX})

ticks(lo, hi) == (hi - lo) \div tick_size + 1

idx(L, price)  == (price - L.min_price) \div tick_size
price_at(L, i) == L.min_price + i * tick_size

in_range(L, price) == L.min_price <= price /\ price <= L.max_price

\* The constructor: nothing here compares the slot count with kMaxTicks.
NewLadder(base) ==
  LET lo == snap_to_tick(window_low(base))
      hi == window_high(base)
      n  == ticks(lo, hi)
  IN  [min_price |-> lo, max_price |-> hi, num_ticks |-> n,
       levels |-> [s \in Side |-> [i \in 0 .. n - 1 |-> EmptyLevel]],
       best   |-> [s \in Side |-> NoIdx],
       count  |-> [s \in Side |-> 0],
       orders |-> EmptyMap]

\* Mutant: the cached best index is not moved with its level.
resize_range_stale_best(L, lo, hi) ==
  LET offset == (L.min_price - lo) \div tick_size
      n      == ticks(lo, hi)
  IN  [L EXCEPT !.min_price = lo, !.max_price = hi, !.num_ticks = n,
                !.levels = [s \in Side |-> [i \in 0 .. n - 1 |->
                   IF i - offset \in 0 .. L.num_ticks - 1
                   THEN L.levels[s][i - offset] ELSE EmptyLevel]]]

\* Mutant: levels are copied to their old slots.
resize_range_no_offset(L, lo, hi) ==
  LET n == ticks(lo, hi)
  IN  [L EXCEPT !.min_price = lo, !.max_price = hi, !.num_ticks = n,
                !.levels = [s \in Side |-> [i \in 0 .. n - 1 |->
                   IF i \in 0 .. L.num_ticks - 1 THEN L.levels[s][i] ELSE EmptyLevel]]]

\* Both arrays are reallocated and every level re-homed.
resize_range(L, lo, hi) ==
  LET offset == (L.min_price - lo) \div tick_size
      n      == ticks(lo, hi)
  IN  [L EXCEPT !.min_price = lo, !.max_price = hi, !.num_ticks = n,
                !.levels = [s \in Side |-> [i \in 0 .. n - 1 |->
                   IF i - offset \in 0 .. L.num_ticks - 1
                   THEN L.levels[s][i - offset] ELSE EmptyLevel]],
                !.best = [s \in Side |-> IF L.best[s] = NoIdx THEN NoIdx
                                         ELSE L.best[s] + offset]]

\* The range grow_to_include asks for.
new_min(L, price) == IF price < L.min_price
                     THEN Min({L.min_price, snap_to_tick(window_low(price))}) ELSE L.min_price
new_max(L, price) == IF price > L.max_price
                     THEN Max({L.max_price, window_high(price)}) ELSE L.max_price

can_grow(L, price) == ticks(new_min(L, price), new_max(L, price)) <= kMaxTicks

grow_to_include(L, price) == resize_range(L, new_min(L, price), new_max(L, price))

-----------------------------------------------------------------------------
(* Mutators: each returns [ok, lad].                                       *)

\* The best index of a side after slot i received an order.
best_after_add(L, side, i) ==
  LET b == L.best[side]
  IN  IF b = NoIdx \/ (side = "Buy" /\ i > b) \/ (side = "Sell" /\ i < b) THEN i ELSE b

rest(L, ref, side, shares, price) ==
  LET i == idx(L, price)
      l == L.levels[side][i]
  IN  [L EXCEPT !.orders = Put(@, ref, [shares |-> shares, price |-> price, side |-> side]),
                !.levels[side][i] = [shares |-> l.shares + shares, orders |-> l.orders + 1],
                !.count[side] = IF l.orders = 0 THEN @ + 1 ELSE @,
                !.best[side] = best_after_add(L, side, i)]

on_grid(L, price) == (price - L.min_price) % tick_size = 0

\* Mutant: a live reference is overwritten.
add_overwrites(L, ref, side, shares, price) ==
  IF ~in_range(L, price) /\ ~can_grow(L, price) THEN [ok |-> FALSE, lad |-> L]
  ELSE LET G == IF in_range(L, price) THEN L ELSE grow_to_include(L, price)
       IN  IF ~on_grid(G, price) THEN [ok |-> FALSE, lad |-> G]
           ELSE [ok |-> TRUE, lad |-> rest(G, ref, side, shares, price)]

\* Growth comes first: it stays even when the grid or a live reference then
\* refuses the order.
add(L, ref, side, shares, price) ==
  IF ~in_range(L, price) /\ ~can_grow(L, price) THEN [ok |-> FALSE, lad |-> L]
  ELSE LET G == IF in_range(L, price) THEN L ELSE grow_to_include(L, price)
       IN  IF ~on_grid(G, price) \/ ref \in DOMAIN G.orders
           THEN [ok |-> FALSE, lad |-> G]
           ELSE [ok |-> TRUE,  lad |-> rest(G, ref, side, shares, price)]

\* Mutant: retreat_best_bid looks only at the next slot down.
next_best_one_step(L, side, i) ==
  LET j == IF side = "Buy" THEN i - 1 ELSE i + 1
  IN  IF j \in 0 .. L.num_ticks - 1 /\ L.levels[side][j].orders > 0 THEN j ELSE NoIdx

\* retreat_best_bid and advance_best_ask: the nearest occupied slot past i.
next_best(L, side, i) ==
  LET down == {j \in 0 .. i - 1 : L.levels[side][j].orders > 0}
      up   == {j \in i + 1 .. L.num_ticks - 1 : L.levels[side][j].orders > 0}
  IN  IF side = "Buy" THEN IF down = {} THEN NoIdx ELSE Max(down)
                      ELSE IF up = {} THEN NoIdx ELSE Min(up)

level_sub(L, side, price, shares, order_gone) ==
  LET i   == idx(L, price)
      l   == L.levels[side][i]
      new == [shares |-> l.shares - Min({shares, l.shares}),
              orders |-> IF order_gone /\ l.orders > 0 THEN l.orders - 1 ELSE l.orders]
  IN  [L EXCEPT !.levels[side][i] = new,
                !.count[side] = IF new.orders = 0 THEN @ - 1 ELSE @,
                !.best[side] = IF new.orders = 0 /\ @ = i THEN next_best(L, side, i) ELSE @]

reduce(L, ref, shares) ==
  IF ref \notin DOMAIN L.orders THEN [ok |-> FALSE, lad |-> L]
  ELSE LET o    == L.orders[ref]
           qty  == Min({shares, o.shares})
           gone == o.shares = qty
           rem  == IF gone THEN Erase(L.orders, ref) ELSE [L.orders EXCEPT ![ref].shares = @ - qty]
       IN  [ok |-> TRUE, lad |-> level_sub([L EXCEPT !.orders = rem], o.side, o.price, qty, gone)]

remove(L, ref) ==
  IF ref \notin DOMAIN L.orders THEN [ok |-> FALSE, lad |-> L]
  ELSE LET o == L.orders[ref]
       IN  [ok  |-> TRUE,
            lad |-> level_sub([L EXCEPT !.orders = Erase(@, ref)], o.side, o.price, o.shares, TRUE)]

replace(L, orig, next, shares, price) ==
  IF orig \notin DOMAIN L.orders THEN [ok |-> FALSE, lad |-> L]
  ELSE add(remove(L, orig).lad, next, L.orders[orig].side, shares, price)

\* best_bid / best_ask.
quote(L, side) ==
  IF L.best[side] = NoIdx THEN NoQuote
  ELSE [price |-> price_at(L, L.best[side]), shares |-> L.levels[side][L.best[side]].shares]

=============================================================================

----------------------------- MODULE BookTypes -----------------------------
(***************************************************************************)
(* The types of include/book/order_book.hpp and include/itch/messages.hpp  *)
(* that every book module needs, and the two updates of a std::map the     *)
(* code uses.                                                              *)
(***************************************************************************)
EXTENDS Integers, FiniteSets

\* itch::Side.
Side == {"Buy", "Sell"}

\* OrderBook::Order, LadderBook::Order over given sets of sizes and prices.
OrderType(Shares, Price) == [shares : Shares, price : Price, side : Side]

\* std::optional<Quote>{}: there is no level on that side.
NoQuote == [price |-> -1, shares |-> 0]

\* A map is a function on the set of its keys: m[k] = v and m.erase(k).
EmptyMap     == [x \in {} |-> {}]
Put(m, k, v) == [x \in DOMAIN m \cup {k} |-> IF x = k THEN v ELSE m[x]]
Erase(m, k)  == [x \in DOMAIN m \ {k} |-> m[x]]

=============================================================================

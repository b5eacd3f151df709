---------------------------- MODULE Differential ---------------------------
(***************************************************************************)
(* One decoded message stream into both books: fuzz/fuzz_differential.cpp  *)
(* drives a BookBuilder<OrderBook> and a BookBuilder<LadderBook>           *)
(* (include/pipeline/dispatch_to_book.hpp) side by side and compares them  *)
(* after every message both applied.  The ladders are built the way the    *)
(* production default builds them, by BookTraits<LadderBook> from the      *)
(* first price seen for a locate (include/pipeline/book_table.hpp).        *)
(*                                                                         *)
(* A frame is a frame of BookBuilder.  Only what the on_* methods do to a  *)
(* book is kept of the builders: "did this book apply this message", which *)
(* the harness reads off unknown_refs, is the bool the mutator returned,   *)
(* and the per-type counts are never compared.  A frame that is not        *)
(* decoded only counts, in both.                                           *)
(***************************************************************************)
EXTENDS BookBuilder, Ladders

CONSTANTS kFallbackBase, kMaxSanePrice,   \* of BookTraits
          FuzzFrames                      \* decoded frames an input may hold

\* Even around the largest base price make accepts, a window fits under the
\* ceiling (600,002 slots of 8,000,000).
ASSUME TraitsAssumption ==
  /\ kMaxSanePrice \in 1 .. UINT32_MAX /\ kFallbackBase \in 1 .. kMaxSanePrice
  /\ (2 * LB!window(kMaxSanePrice)) \div LB!tick_size + 2 <= kMaxTicks
  /\ \A f \in FuzzFrames :
       /\ intact(f)
       /\ f.m.side \in Side /\ f.m.shares \in Nat /\ f.m.price \in 0 .. UINT32_MAX

VARIABLES reference, candidate,   \* the BookTables: locate -> OrderBook, locate -> LadderBook
          policy_diverged,        \* locates that are no longer compared
          aborted                 \* diff_locate found a difference

dvars == <<reference, candidate, policy_diverged, aborted>>

-----------------------------------------------------------------------------
(* BookTable<LadderBook> and the on_* methods on either book.              *)

\* Mutant: a price off the wire is trusted.
make_trusting(price_hint) == LB!NewLadder(IF price_hint # 0 THEN price_hint ELSE kFallbackBase)

\* BookTraits<LadderBook>::make.
make(price_hint) ==
  LB!NewLadder(IF price_hint # 0 /\ price_hint <= kMaxSanePrice THEN price_hint
               ELSE kFallbackBase)

\* BookTable<LadderBook>::get_or_create.
ladder_for(table, locate, price_hint) ==
  IF locate \in DOMAIN table THEN table[locate] ELSE make(price_hint)

order_book_for(table, locate) ==
  IF locate \in DOMAIN table THEN table[locate] ELSE EmptyBook

\* Only an add and a replace know a price.
price_hint(f) == IF f.type \in {"A", "F", "U"} THEN f.m.price ELSE 0

OnOrderBook(b, f) ==
  CASE f.type \in {"A", "F"}      -> add(b, f.m.ref, f.m.side, f.m.shares, f.m.price)
    [] f.type \in {"E", "C", "X"} -> reduce(b, f.m.ref, f.m.shares)
    [] f.type = "D"               -> remove(b, f.m.ref)
    [] f.type = "U"               -> replace(b, f.m.ref, f.m.next, f.m.shares, f.m.price)

OnLadder(b, f) ==
  CASE f.type \in {"A", "F"}      -> LB!add(b, f.m.ref, f.m.side, f.m.shares, f.m.price)
    [] f.type \in {"E", "C", "X"} -> LB!reduce(b, f.m.ref, f.m.shares)
    [] f.type = "D"               -> LB!remove(b, f.m.ref)
    [] f.type = "U"               -> LB!replace(b, f.m.ref, f.m.next, f.m.shares, f.m.price)

-----------------------------------------------------------------------------
(* DivergingHandler.                                                       *)

FuzzInit ==
  /\ reference = EmptyMap /\ candidate = EmptyMap
  /\ policy_diverged = {} /\ aborted = FALSE

\* apply_and_diff with diff_locate, which compares the public getters: both books take the message, then the
\* locate is skipped, marked, left alone (both refused) or compared.
apply_and_diff(f) ==
  LET l == f.m.locate
      r == OnOrderBook(order_book_for(reference, l), f)
      c == OnLadder(ladder_for(candidate, l, price_hint(f)), f)
  IN  /\ ~aborted
      /\ reference' = Put(reference, l, r.book)
      /\ candidate' = Put(candidate, l, c.lad)
      /\ policy_diverged' = IF r.ok # c.ok THEN policy_diverged \cup {l}
                            ELSE policy_diverged
      /\ aborted' = /\ l \notin policy_diverged' /\ r.ok
                    /\ OrderBookView(r.book) # LadderView(c.lad)

-----------------------------------------------------------------------------

\* "silently disagreeing about the state of the book": as long as a locate is
\* not marked, both books hold the same orders and every getter agrees, after
\* a message both refused too (a refused add may still have grown the ladder),
\* and the harness never aborts.
BooksAgree ==
  /\ ~aborted
  /\ \A l \in DOMAIN reference \ policy_diverged :
       /\ reference[l].orders = candidate[l].orders
       /\ OrderBookView(reference[l]) = LadderView(candidate[l])

\* A price the ladder of this locate has no slot for and may not grow to.
NoSlotFor(L, p) == p % LB!tick_size # 0 \/ (~LB!in_range(L, p) /\ ~LB!can_grow(L, p))

\* "Could be a real bug (e.g. a duplicate-ref check disagreeing) or the
\* documented LadderBook price-window/grid policy -- this harness can't tell":
\* it is always the policy.  When a locate is marked, the books differ in one
\* order, resting in the OrderBook at a price the ladder has no slot for.
DivergenceIsPolicy ==
  [][ \A l \in policy_diverged' \ policy_diverged :
        \E r \in DOMAIN reference'[l].orders :
          /\ candidate'[l].orders = Erase(reference'[l].orders, r)
          /\ NoSlotFor(candidate'[l], reference'[l].orders[r].price) ]_dvars

\* "keeps construction cost bounded and predictable regardless of what the
\* wire hands us": no ladder of the table, however it was built or grown, has
\* more than kMaxTicks slots a side, though the constructor checks nothing.
LaddersBounded == \A l \in DOMAIN candidate : candidate[l].num_ticks <= kMaxTicks

=============================================================================

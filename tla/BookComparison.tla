--------------------------- MODULE BookComparison --------------------------
(***************************************************************************)
(* The two harnesses that put OrderBook and LadderBook through the same    *)
(* messages: fuzz/fuzz_differential.cpp with any frames (Differential),    *)
(* and bench/bench_main.cpp, which replays a generated session             *)
(* (SyntheticSession) in several passes, each into fresh books.            *)
(***************************************************************************)
EXTENDS Differential, SyntheticSession

CONSTANT kMeasuredPasses   \* passes per book type beside the warm-up

ASSUME PassAssumption == kMeasuredPasses \in Nat

\* Every price of the session lies on the ladders' grid and is one that make
\* accepts, and all prices of a symbol fit into one ladder (mids of $118.75 to
\* $625 with five per cent around them, ticks of a cent on both sides).
ASSUME SymbolsAssumption ==
  \A l \in DOMAIN kSymbols : \A p, q \in WigglePrices(kSymbols[l]) :
    /\ p \in 1 .. kMaxSanePrice /\ p % LB!tick_size = 0
    /\ LB!ticks(LB!snap_to_tick(LB!window_low(p)), LB!window_high(q)) <= kMaxTicks

VARIABLES harness,   \* the binary: "fuzz" or "bench"
          passes,    \* bench: passes finished, OrderBook's first
          result     \* PassResult of the last one, with its table

cvars == <<dvars, svars, harness, passes, result>>

NoResult == [books |-> EmptyMap, unknown_refs |-> 0]

ComparisonInit ==
  /\ FuzzInit /\ SessionInit
  /\ harness \in {"fuzz", "bench"} /\ passes = 0 /\ result = NoResult

-----------------------------------------------------------------------------

\* LLVMFuzzerTestOneInput: parse_stream hands over the next frame.
Fuzz ==
  /\ harness = "fuzz"
  /\ \E f \in FuzzFrames : apply_and_diff(f)
  /\ UNCHANGED <<svars, harness, passes, result>>

GenerateFrame == harness = "bench" /\ Generate /\ UNCHANGED <<dvars, harness, passes, result>>

\* BenchHandler::on_*: the book found or built takes the mutation, a refused
\* one is counted.
bench_apply(acc, l, ok, book) ==
  [books |-> Put(acc.books, l, book),
   unknown_refs |-> IF ok THEN acc.unknown_refs ELSE acc.unknown_refs + 1]

\* One frame of a pass, into a BookTable of either type.
BenchOrderBook(acc, f) ==
  LET r == OnOrderBook(order_book_for(acc.books, f.m.locate), f)
  IN  bench_apply(acc, f.m.locate, r.ok, r.book)

BenchLadder(acc, f) ==
  LET r == OnLadder(ladder_for(acc.books, f.m.locate, price_hint(f)), f)
  IN  bench_apply(acc, f.m.locate, r.ok, r.lad)

\* run_book_type: the warm-up and each measured pass are one run_pass, which
\* starts with an empty table.
RunPass ==
  /\ harness = "bench" /\ Len(raw) = kTotalMessages /\ passes < 2 * (kMeasuredPasses + 1)
  /\ passes' = passes + 1
  /\ result' = IF passes <= kMeasuredPasses THEN FoldLeft(BenchOrderBook, NoResult, raw)
                ELSE FoldLeft(BenchLadder, NoResult, raw)
  /\ UNCHANGED <<dvars, svars, harness>>

Finished ==
  /\ passes = 2 * (kMeasuredPasses + 1)
  /\ UNCHANGED cvars

ComparisonNext == Fuzz \/ GenerateFrame \/ RunPass \/ Finished

ComparisonSpec == ComparisonInit /\ [][ComparisonNext]_cvars

-----------------------------------------------------------------------------

\* "E/C/X/D/U messages reference real, live refs instead of missing ones":
\* every pass, of either book type, applies every message of the session, and
\* its books then hold exactly the orders of the pools.
SessionIsLive ==
  passes > 0 =>
    /\ result.unknown_refs = 0
    /\ \A l \in DOMAIN kSymbols :
         PoolOf(l) = IF l \in DOMAIN result.books THEN result.books[l].orders ELSE EmptyMap

=============================================================================

-------------------------- MODULE SyntheticSession -------------------------
(***************************************************************************)
(* bench::generate_synthetic_session (bench/synthetic_session.hpp): a      *)
(* stream of frames whose executes, cancels, deletes and replaces name     *)
(* orders that are open, kept in one pool per symbol.  The random draws    *)
(* are nondeterministic choices.                                           *)
(***************************************************************************)
EXTENDS BookBuilder, SequencesExt

CONSTANTS kSymbols,         \* locate -> mid price
          kTotalMessages,
          kTickSize,
          LotShares         \* the sizes lot_shares draws from

ASSUME SessionAssumption ==
  /\ kTotalMessages \in Nat /\ kTickSize \in Nat \ {0} /\ LotShares \subseteq Nat \ {0}

VARIABLES open,       \* locate -> Symbol::open, the pool of open orders
          next_ref,
          raw         \* the frames written so far

svars == <<open, next_ref, raw>>

SessionInit == open = [l \in DOMAIN kSymbols |-> << >>] /\ next_ref = 1 /\ raw = << >>

\* wiggle_price: at most five per cent off, in steps of a basis point, on the
\* tick grid.
WigglePrices(mid) ==
  {(((mid * (10000 + bps)) \div 10000) \div kTickSize) * kTickSize : bps \in -500 .. 500}

\* Mutant: the last order goes and not the one picked.
swap_remove_last(pool, i) == Front(pool)

swap_remove(pool, i) == Front([pool EXCEPT ![i] = Last(pool)])

\* Some of an order's shares go, and the order with the last of them.
Drained(pool, i, qty) ==
  IF pool[i].shares = qty THEN swap_remove(pool, i) ELSE [pool EXCEPT ![i].shares = @ - qty]

\* One frame is written.
Write(t, l, ref, next, side, shares, price) ==
  /\ Len(raw) < kTotalMessages
  /\ raw' = Append(raw, [type |-> t, good |-> TRUE,
                         m |-> [locate |-> l, ref |-> ref, next |-> next, side |-> side,
                                shares |-> shares, price |-> price]])

OpenOrder(ref, side, price, shares) ==
  [ref |-> ref, side |-> side, price |-> price, shares |-> shares]

\* 'A', the only choice when the pool is empty.
GenerateAdd(l) ==
  \E side \in Side, price \in WigglePrices(kSymbols[l]), shares \in LotShares :
    /\ Write("A", l, next_ref, 0, side, shares, price)
    /\ open' = [open EXCEPT ![l] = Append(@, OpenOrder(next_ref, side, price, shares))]
    /\ next_ref' = next_ref + 1

\* 'E', 'C' and 'X': some of what is left of an open order.
GenerateReduce(l) ==
  \E t \in {"E", "C", "X"}, i \in DOMAIN open[l] : \E qty \in 1 .. open[l][i].shares :
    /\ Write(t, l, open[l][i].ref, 0, "Sell", qty, 0)
    /\ open' = [open EXCEPT ![l] = Drained(@, i, qty)]
    /\ UNCHANGED next_ref

GenerateDelete(l) ==
  \E i \in DOMAIN open[l] :
    /\ Write("D", l, open[l][i].ref, 0, "Sell", 0, 0)
    /\ open' = [open EXCEPT ![l] = swap_remove(@, i)]
    /\ UNCHANGED next_ref

GenerateReplace(l) ==
  \E i \in DOMAIN open[l], price \in WigglePrices(kSymbols[l]), shares \in LotShares :
    /\ Write("U", l, open[l][i].ref, next_ref, "Sell", shares, price)
    /\ open' = [open EXCEPT ![l] = Append(swap_remove(@, i),
                                          OpenOrder(next_ref, open[l][i].side, price, shares))]
    /\ next_ref' = next_ref + 1

Generate == \E l \in DOMAIN kSymbols :
              GenerateAdd(l) \/ GenerateReduce(l) \/ GenerateDelete(l) \/ GenerateReplace(l)

\* The pool of a symbol as the set of resting orders it stands for.
PoolOf(l) == [r \in {open[l][i].ref : i \in DOMAIN open[l]} |->
                LET o == open[l][CHOOSE i \in DOMAIN open[l] : open[l][i].ref = r]
                IN  [shares |-> o.shares, price |-> o.price, side |-> o.side]]

=============================================================================

---- MODULE MCBookComparison ----
(* Ticks of 2, a window of 3/10 and 7-bit prices.  A ladder built around   *)
(* 40 covers 28..52, one built around 24 covers 16..31: each can just grow *)
(* to the other's price (19 slots, the ceiling), and the second to 0.  39  *)
(* lies off the grid.  120 is above kMaxSanePrice: the ladder is built     *)
(* around the fallback and then refuses it.  A second locate diverges at   *)
(* once.                                                                   *)
EXTENDS BookComparison, TLC

CONSTANT FuzzRefs

MCPrice == {0, 24, 39, 40, 120}

Frame(t, l, r, n, s, q, p) ==
  [type |-> t, good |-> TRUE,
   m |-> [locate |-> l, ref |-> r, next |-> n, side |-> s, shares |-> q, price |-> p]]

\* Adds, cancels, deletes and replaces of one locate, and for another an add
\* that makes its books diverge.
MCFuzzFrames ==
  {Frame("A", 2, 1, 0, "Buy", 2, 39)} \cup UNION {
    {Frame("A", 1, r, 0, s, 2, p) : s \in Side, p \in MCPrice} \cup
    {Frame("X", 1, r, 0, "Sell", 1, 0), Frame("D", 1, r, 0, "Sell", 0, 0)} \cup
    {Frame("U", 1, r, n, "Sell", 1, p) : n \in FuzzRefs, p \in {24, 39}}
  : r \in FuzzRefs}

Symmetry == Permutations(FuzzRefs)

\* Two symbols; five per cent around 40 gives three prices, around 26 two.
MCSymbols == 0 :> 40 @@ 1 :> 26

=================================

----------------------------- MODULE ExecChain -----------------------------
(***************************************************************************)
(* A RiskGate in front of a FillSimulator, as docs/architecture.md draws   *)
(* it: apply gates a batch of children into the accepted queue; the caller *)
(* evaluates each accepted order against the quote and the print it has    *)
(* fed the simulator, then clears the queue.  The caller, one thread, is   *)
(* not in the repository.  Its steps are steps of RiskGate or leave the    *)
(* gate alone, so what is proved of RiskGate holds here.                   *)
(***************************************************************************)
EXTENDS RiskGate

CONSTANTS Quotes, Trades, kMaxFills, ShareMod, MaxAttempts

ASSUME ChainAssumption ==
  /\ kMaxFills \in Nat \ {0} /\ ShareMod \in Nat \ {0} /\ MaxAttempts \in Nat
  /\ Trades \subseteq Nat \ {0} /\ \A q \in Quotes : q.bid \in Nat /\ q.ask \in Nat
  /\ \A o \in Orders : o.side \in {"Buy", "Sell"}

VARIABLES bbo, last_trade_price, fills, shares_filled, shares_attempted, notional_, attempts,
          walked   \* how many of the accepted orders the caller has handed over

simvars == <<bbo, last_trade_price, fills, shares_filled, shares_attempted, notional_, attempts>>

Sim == INSTANCE FillSimulator

ChainInit == Init /\ Sim!Init /\ walked = 0

\* The calls on the gate.
Gating ==
  /\ walked = 0
  /\ Apply \/ GateOne \/ WhatIf \/ Reset \/ SetReferencePrice
  /\ UNCHANGED <<simvars, walked>>

\* The market data the caller feeds the simulator, between batches.
Market ==
  /\ walked = 0 /\ in = << >>
  /\ Sim!OnBboChange \/ Sim!OnTradeTick
  /\ UNCHANGED <<vars, walked>>

\* The caller hands the next accepted order to fill().
HandOver ==
  /\ in = << >> /\ walked < Len(accepted)
  /\ Len(attempts) + Len(accepted) - walked <= MaxAttempts
  /\ Sim!Fill(accepted[walked + 1]) /\ walked' = walked + 1
  /\ UNCHANGED vars

\* All are handed over: accepted.clear().
Clear == walked # 0 /\ walked = Len(accepted) /\ Drain /\ walked' = 0 /\ UNCHANGED simvars

ChainNext == Gating \/ Market \/ HandOver \/ Clear

ChainSpec == ChainInit /\ [][ChainNext]_<<vars, simvars, walked>>

-----------------------------------------------------------------------------

\* "Buy >= best_ask fills at best_ask, Sell <= best_bid fills at best_bid": see
\* FillSimulator.
FillsRespectLimits == Sim!FillsRespectLimits

\* fill_rate and vwap_price are ratios of totals that belong together: see
\* FillSimulator.
TotalsMatchFills == Sim!TotalsMatchFills

=============================================================================

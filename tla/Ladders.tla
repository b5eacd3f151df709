------------------------------ MODULE Ladders ------------------------------
(***************************************************************************)
(* The ladders of one configuration: the operators of LadderOps under a    *)
(* name of their own, so that they can stand beside those of BookOps, and  *)
(* the getters of book::LadderBook.                                        *)
(***************************************************************************)
EXTENDS BookTypes

CONSTANTS TickSize,              \* tick_size as the caller passes it
          WindowNum, WindowDen,  \* window_pct
          UINT32_MAX, kMaxTicks

ASSUME LadderOpsAssumption ==
  /\ UINT32_MAX \in Nat /\ kMaxTicks \in Nat \ {0} /\ TickSize \in Nat
  /\ WindowNum \in Nat /\ WindowDen \in Nat \ {0}

LB == INSTANCE LadderOps

\* open_orders, bid_levels / ask_levels, best_bid / best_ask.
LadderView(L) == [open  |-> Cardinality(DOMAIN L.orders),
                  depth |-> L.count,
                  top   |-> [s \in Side |-> LB!quote(L, s)]]

=============================================================================

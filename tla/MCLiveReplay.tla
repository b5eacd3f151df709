---- MODULE MCLiveReplay ----
(* Five messages in four packets, the second of them batched, against a    *)
(* buffer of three: replies overlap the batch, and the buffer fills up.    *)
EXTENDS LiveReplay

Single(s) == [seq |-> s, n |-> 1]

\* The second packet carries two messages, as the protocol allows.
Batched == <<Single(1), [seq |-> 2, n |-> 2], Single(4), Single(5)>>

Msg(t, r, n, q, p) ==
  [type |-> t, good |-> TRUE,
   m |-> [locate |-> 1, ref |-> r, next |-> n, side |-> "Buy", shares |-> q, price |-> p]]

\* Every message changes what the ones after it do.
MCMessages == <<Msg("A", 1, 0, 3, 5), Msg("X", 1, 0, 1, 0), Msg("U", 1, 2, 2, 6),
                Msg("E", 2, 0, 1, 0), Msg("D", 2, 0, 0, 0)>>

===============================

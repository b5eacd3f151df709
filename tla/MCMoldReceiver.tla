---- MODULE MCMoldReceiver ----
EXTENDS MoldReceiver

Single(s) == [seq |-> s, n |-> 1]

\* One message per packet, as net::MoldUdp64Sender sends them.
Singles3 == <<Single(1), Single(2), Single(3)>>

\* Four messages in three packets: the second is batched, as the protocol allows.
Batched == <<Single(1), [seq |-> 2, n |-> 2], Single(4)>>

===============================

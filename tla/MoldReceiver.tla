---------------------------- MODULE MoldReceiver ---------------------------
(***************************************************************************)
(* net::MoldUdp64Receiver (include/net/multicast_receiver.hpp), polled by  *)
(* live_replay (src/live_replay_main.cpp), against a sender that           *)
(* multicasts a feed of packets and answers retransmission requests        *)
(* (net::MoldUdp64Sender, include/net/multicast_test_sender.hpp).          *)
(*                                                                         *)
(* A packet [seq, n] carries the n messages seq .. seq + n - 1, n being    *)
(* what itch::parse_stream finds in its payload.  UDP: a data packet that  *)
(* was sent may be received late, out of order, several times or never;    *)
(* requests and replies may be lost, reordered or late.  A message is      *)
(* identified with its sequence number.  The diagnostic counters           *)
(* (requests_sent_, dropped_pending_, count_mismatches_) are left out:     *)
(* nothing reads them back.                                                *)
(***************************************************************************)
EXTENDS BookTypes, Sequences, FiniteSetsExt

CONSTANTS Feed,                  \* the data packets, in the order they are sent
          LastSeq,               \* the sender's last message
          Ends,                  \* does the sender finish with end-of-session?
          kMaxPendingPackets, kMaxGapFillAttempts,
          kMaxRequest            \* 0xFFFE: most messages one request names

ASSUME MoldAssumption ==
  /\ LastSeq \in Nat
  /\ Feed \in Seq([seq : 1 .. LastSeq, n : Nat])
  /\ Ends \in BOOLEAN
  /\ kMaxPendingPackets \in Nat /\ kMaxGapFillAttempts \in Nat /\ kMaxRequest \in Nat \ {0}

VARIABLES onWire,              \* sender: how much of Feed (then end-of-session) was sent
          requests, replies,   \* the request channel, one set per direction
          next_seq, pending,   \* next_seq_; pending_: first message -> n
          ended,               \* ended_
          pc, attempts,        \* where poll() is, and resolve_gaps' counter
          polls,               \* parity of the number of poll() calls: each is a step
          applied              \* history: the messages handed to parse_stream's handler

sender   == <<onWire>>
receiver == <<next_seq, pending, ended, pc, attempts, polls, applied>>
vars     == <<sender, requests, replies, receiver>>

Init ==
  /\ onWire = 0 /\ requests = {} /\ replies = {}
  /\ next_seq = 1 /\ pending = EmptyMap /\ ended = FALSE
  /\ pc = "poll" /\ attempts = 0 /\ polls = 0
  /\ applied = << >>

-----------------------------------------------------------------------------
(* The sender and the network.                                             *)

\* send_all: the next packet, and end-of-session after the last.
Send ==
  /\ onWire < Len(Feed) + (IF Ends THEN 1 ELSE 0)
  /\ onWire' = onWire + 1
  /\ UNCHANGED <<requests, replies, receiver>>

\* serve_one_request: one reply per message, up to the last the sender has.
\* The network delivers some of them (none at all if the request was lost) to
\* the receiver's request socket, where they wait to be read.
ReplyTo(r) == {[seq |-> s, n |-> 1] : s \in r.seq .. Min({r.seq + r.count - 1, LastSeq})}

Serve(r, got) ==
  /\ r \in requests /\ got \subseteq ReplyTo(r)
  /\ requests' = requests \ {r}
  /\ replies' = replies \cup got
  /\ UNCHANGED <<sender, receiver>>

-----------------------------------------------------------------------------
(* The receiver.                                                           *)

first(pend) == Min(DOMAIN pend)
GapIn(pend) == DOMAIN pend # {} /\ first(pend) > next_seq

\* buffer: a new key is refused at the cap, a known one is overwritten.
buffer(pend, p) ==
  IF Cardinality(DOMAIN pend) >= kMaxPendingPackets /\ p.seq \notin DOMAIN pend
  THEN pend ELSE Put(pend, p.seq, p.n)

\* Mutant: the attempts are not counted.
Resolve_uncounted(pend, tried) ==
  /\ pending' = pend
  /\ \/ /\ GapIn(pend) /\ tried < kMaxGapFillAttempts
        /\ requests' = requests \cup
             {[seq |-> next_seq, count |-> Min({first(pend) - next_seq, kMaxRequest})]}
        /\ attempts' = tried /\ pc' = "wait"
     \/ /\ ~(GapIn(pend) /\ tried < kMaxGapFillAttempts)
        /\ attempts' = 0 /\ pc' = "drain"
        /\ UNCHANGED requests

\* The head of resolve_gaps' loop: another request, or on to drain.
Resolve(pend, tried) ==
  /\ pending' = pend
  /\ \/ /\ GapIn(pend) /\ tried < kMaxGapFillAttempts
        /\ requests' = requests \cup
             {[seq |-> next_seq, count |-> Min({first(pend) - next_seq, kMaxRequest})]}
        /\ attempts' = tried + 1 /\ pc' = "wait"
     \/ /\ ~(GapIn(pend) /\ tried < kMaxGapFillAttempts)
        /\ attempts' = 0 /\ pc' = "drain"
        /\ UNCHANGED requests

StartPoll == pc = "poll" /\ ~ended /\ polls' = 1 - polls

\* Mutant: a packet that was already applied is buffered again.
already_applied_unchecked(p) == FALSE

\* accept: a packet that starts below next_seq_ is dropped.
already_applied(p) == p.seq < next_seq

\* poll() receives a data packet.
PollData(p) ==
  /\ StartPoll
  /\ \/ already_applied(p) /\ UNCHANGED <<requests, pending, pc, attempts>>
     \/ ~already_applied(p) /\ Resolve(buffer(pending, p), 0)
  /\ UNCHANGED <<sender, replies, next_seq, ended, applied>>

\* poll() receives end-of-session; its sequence number is not looked at.
PollEnd ==
  /\ StartPoll /\ onWire > Len(Feed)
  /\ ended' = TRUE
  /\ UNCHANGED <<sender, requests, replies, next_seq, pending, pc, attempts, applied>>

\* poll() times out, or receives a heartbeat or another session's packet.
PollIdle ==
  /\ StartPoll
  /\ UNCHANGED <<sender, requests, replies, next_seq, pending, ended, pc, attempts, applied>>

\* A reply arrives in time; when it closes the gap the inner loop ends.
RecvReply(r) ==
  /\ pc = "wait" /\ r \in replies
  /\ replies' = replies \ {r}
  /\ LET pend == IF already_applied(r) THEN pending ELSE buffer(pending, r)
     IN  IF ~already_applied(r) /\ DOMAIN pend # {} /\ first(pend) = next_seq
         THEN Resolve(pend, attempts)
         ELSE pending' = pend /\ UNCHANGED <<requests, pc, attempts>>
  /\ UNCHANGED <<sender, next_seq, ended, polls, applied>>

\* The attempt's deadline passes, whatever is still under way.
Timeout ==
  /\ pc = "wait" /\ Resolve(pending, attempts)
  /\ UNCHANGED <<sender, replies, next_seq, ended, polls, applied>>

Contiguous == DOMAIN pending # {} /\ first(pending) = next_seq

\* Mutant: drain takes begin() without comparing it with next_seq_.
DrainOne_any ==
  /\ pc = "drain" /\ DOMAIN pending # {}
  /\ LET k == first(pending)
     IN  /\ applied' = applied \o [i \in 1 .. pending[k] |-> k + i - 1]
         /\ next_seq' = next_seq + pending[k]
         /\ pending' = Erase(pending, k)
  /\ UNCHANGED <<sender, requests, replies, ended, pc, attempts, polls>>

\* One iteration of drain: the messages of begin() reach the handler.
DrainOne ==
  /\ pc = "drain" /\ Contiguous
  /\ LET k == first(pending)
     IN  /\ applied' = applied \o [i \in 1 .. pending[k] |-> k + i - 1]
         /\ next_seq' = next_seq + pending[k]
         /\ pending' = Erase(pending, k)
  /\ UNCHANGED <<sender, requests, replies, ended, pc, attempts, polls>>

DrainEnd ==
  /\ pc = "drain" /\ ~Contiguous
  /\ pc' = "poll"
  /\ UNCHANGED <<sender, requests, replies, next_seq, pending, ended, attempts, polls, applied>>

-----------------------------------------------------------------------------

Poll == (\E i \in 1 .. Min({onWire, Len(Feed)}) : PollData(Feed[i])) \/ PollEnd \/ PollIdle
Wait == (\E r \in replies : RecvReply(r)) \/ Timeout

\* live_replay's loop stops once the session has ended.
Stopped == ended /\ pc = "poll" /\ UNCHANGED vars

Next ==
  \/ Send \/ (\E r \in requests : \E got \in SUBSET ReplyTo(r) : Serve(r, got))
  \/ Poll \/ Wait \/ DrainOne \/ DrainEnd
  \/ Stopped

Reply(s)     == [seq |-> s, n |-> 1]
Delivered(s) == \E r \in requests : \E got \in SUBSET ReplyTo(r) : Reply(s) \in got /\ Serve(r, got)

\* Both processes keep running: the feed is sent and poll() called again and
\* again, and SO_RCVTIMEO lets no recv() block for ever.
RunsOn == /\ WF_vars(Send) /\ WF_vars(Poll) /\ WF_vars(Timeout)
          /\ WF_vars(DrainOne) /\ WF_vars(DrainEnd)

\* A message that is requested again and again is retransmitted successfully in
\* the end, and a reply that waits in the socket is read by a later attempt.
RequestsAnswered == \A s \in 1 .. LastSeq : SF_vars(Delivered(s)) /\ SF_vars(RecvReply(Reply(s)))

\* The feed goes on: its newest packet keeps being received.  The sender of the
\* repository sends each packet once, so only the run about the full buffer,
\* whose counterexample it strengthens, assumes it.
FeedGoesOn == SF_vars(onWire >= Len(Feed) /\ PollData(Feed[Len(Feed)]))

Spec     == Init /\ [][Next]_vars
SentOnce == Spec /\ RunsOn /\ RequestsAnswered
FairSpec == SentOnce /\ FeedGoesOn

-----------------------------------------------------------------------------

\* The members keep their types.
TypeOK ==
  /\ onWire \in 0 .. Len(Feed) + 1
  /\ next_seq \in Nat \ {0} /\ \A k \in DOMAIN pending : k \in Nat /\ pending[k] \in Nat
  /\ ended \in BOOLEAN /\ pc \in {"poll", "wait", "drain"}
  /\ attempts \in 0 .. kMaxGapFillAttempts /\ polls \in {0, 1}
  /\ \A r \in requests : r.seq \in Nat /\ r.count \in 1 .. kMaxRequest

\* The handler sees every message exactly once, in sequence order, with no
\* hole, whatever the network lost, repeated or reordered and whenever a late
\* reply was buffered beside the original.
InOrderExactlyOnce == applied = [i \in 1 .. next_seq - 1 |-> i]

\* "Hard cap on how many not-yet-contiguous packets pending_ will ever hold".
PendingBounded == Cardinality(DOMAIN pending) <= kMaxPendingPackets

\* The packet of the feed in the middle of which message k lies was applied.
Overtaken(k) ==
  \E i \in 1 .. Len(Feed) :
    Feed[i].seq < k /\ k < Feed[i].seq + Feed[i].n /\ Feed[i].seq + Feed[i].n <= next_seq

\* begin() is what both resolve_gaps and drain look at, so a key at or below
\* next_seq_ between polls hides every later packet from both for good.  Loss,
\* repetition, reordering and late replies never leave one, unless a reply was
\* buffered inside a batched packet that was applied after it.
StaleOnlyByBatch ==
  pc = "poll" => \A k \in DOMAIN pending :
                   k > next_seq \/ \E j \in DOMAIN pending : j <= k /\ Overtaken(j)

\* "Batching ... doesn't change the session/gap-fill semantics this
\* implementation targets": between polls everything buffered still lies ahead
\* of next_seq_, for batched feeds too.
NothingStale == pc = "poll" => \A k \in DOMAIN pending : k > next_seq

\* "Gives up after kMaxGapFillAttempts requests, leaving the gap for a later
\* packet/poll to retry": a gap that is open between two polls is requested
\* again or closed, unless end-of-session stops the loop.
GapsAreRetried ==
  (pc = "poll" /\ ~ended /\ GapIn(pending)) ~> (pc = "wait" \/ ended \/ ~GapIn(pending))

\* "A refused packet isn't gone forever ... the ordinary gap-fill path will
\* re-request it": while the feed goes on and requests are answered every
\* message is applied in the end, unless end-of-session stops the loop first.
EverythingDelivered == <>(next_seq > LastSeq \/ ended)

=============================================================================

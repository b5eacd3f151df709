----------------------------- MODULE LiveReplay ----------------------------
(***************************************************************************)
(* live_replay (src/live_replay_main.cpp) and multicast_sender             *)
(* (src/multicast_sender_main.cpp) as two processes around MoldReceiver:   *)
(* the construction of their sockets, of which every call may fail         *)
(* (net::MulticastReceiver and MoldUdp64Receiver in                        *)
(* include/net/multicast_receiver.hpp, MoldUdp64Sender in                  *)
(* include/net/multicast_test_sender.hpp), a receiver that joins the group *)
(* while the sender is already sending, the books that poll() fills,       *)
(* Ctrl-C at any moment, and the end of both processes.                    *)
(***************************************************************************)
EXTENDS MoldReceiver, BookBuilder, SequencesExt

CONSTANT Messages   \* messages_ of the sender: message number -> frame

\* A packet carries messages of the session, none beyond its last.
ASSUME LiveAssumption ==
  /\ Messages \in [1 .. LastSeq -> [type : FrameType, good : BOOLEAN, m : [
       locate : Nat, ref : Nat, next : Nat, side : Side, shares : Nat, price : Nat]]]
  /\ \A i \in 1 .. Len(Feed) : Feed[i].seq + Feed[i].n <= LastSeq + 1

VARIABLES rphase, rstep,   \* live_replay: "opening" (at which call), "running" or "exited"
          status,          \* what its main returns
          fds,             \* its open sockets
          joined,          \* how much had been sent when it joined the group
          g_stop,          \* set by the SIGINT handler
          builder,         \* its BookBuilder
          sphase, sstep, sfds   \* multicast_sender: phase, call and open sockets

rproc == <<rphase, rstep, status, fds, joined, g_stop, builder>>
sproc == <<sphase, sstep, sfds>>
lvars == <<vars, rproc, sproc>>

LiveInit ==
  /\ Init
  /\ rphase = "opening" /\ rstep = 1 /\ status = 0 /\ fds = {} /\ joined = 0
  /\ g_stop = FALSE /\ builder = NewBuilder
  /\ sphase = "opening" /\ sstep = 1 /\ sfds = {}

-----------------------------------------------------------------------------
(* Construction.  Each call opens sockets or, when it fails, has the ones  *)
(* opened so far closed before the exception reaches main.                 *)

Call(name, opens, closes) == [name |-> name, opens |-> opens, closes |-> closes]

\* MulticastReceiver's constructor, then MoldUdp64Receiver's, which leaves
\* data_ to its destructor.
ReceiverCalls ==
  <<Call("socket", {"data"}, {}),        Call("SO_REUSEADDR", {}, {"data"}),
    Call("bind", {}, {"data"}),          Call("group", {}, {"data"}),
    Call("join", {}, {"data"}),          Call("SO_RCVTIMEO", {}, {"data"}),
    Call("request_socket", {"request"}, {"data"}),
    Call("request_host", {}, {"request", "data"})>>

\* Mutant: a failing bind closes only the socket it was called on.
SenderCalls_leak ==
  <<Call("socket", {"data"}, {}), Call("group", {}, {"data"}),
    Call("request_socket", {"request"}, {"data"}), Call("bind", {}, {"request"})>>

SenderCalls ==
  <<Call("socket", {"data"}, {}), Call("group", {}, {"data"}),
    Call("request_socket", {"request"}, {"data"}), Call("bind", {}, {"request", "data"})>>

OpenReceiver ==
  LET call == ReceiverCalls[rstep]
  IN  /\ rphase = "opening"
      /\ \/ /\ rphase' = "exited" /\ status' = 1 /\ fds' = fds \ call.closes
            /\ UNCHANGED <<rstep, joined>>
         \/ /\ rstep' = rstep + 1 /\ fds' = fds \cup call.opens
            /\ rphase' = IF rstep = Len(ReceiverCalls) THEN "running" ELSE rphase
            /\ joined' = IF call.name = "join" THEN onWire ELSE joined
            /\ UNCHANGED status
      /\ UNCHANGED <<vars, g_stop, builder, sproc>>

OpenSender ==
  LET call == SenderCalls[sstep]
  IN  /\ sphase = "opening"
      /\ \/ sphase' = "exited" /\ sfds' = sfds \ call.closes /\ UNCHANGED sstep
         \/ /\ sstep' = sstep + 1 /\ sfds' = sfds \cup call.opens
            /\ sphase' = IF sstep = Len(SenderCalls) THEN "sending" ELSE sphase
      /\ UNCHANGED <<vars, rproc>>

-----------------------------------------------------------------------------
(* multicast_sender: send_all, then requests are served until the grace    *)
(* period is over.  The repository's tests serve them on a thread of their *)
(* own while send_all runs, so they may be served at any time.             *)

SenderSends ==
  /\ sphase = "sending" /\ Send
  /\ sphase' = IF onWire' = Len(Feed) + (IF Ends THEN 1 ELSE 0) THEN "serving" ELSE sphase
  /\ UNCHANGED <<rproc, sstep, sfds>>

SenderServes ==
  /\ sphase \in {"sending", "serving"}
  /\ \E r \in requests : \E got \in SUBSET ReplyTo(r) : Serve(r, got)
  /\ UNCHANGED <<rproc, sproc>>

SenderExits ==
  /\ sphase = "serving"
  /\ sphase' = "exited" /\ sfds' = {}
  /\ UNCHANGED <<vars, rproc, sstep>>

-----------------------------------------------------------------------------
(* live_replay's loop.                                                     *)

\* The loop condition holds: one more poll().  What was sent before the join
\* never reaches the socket.
LivePoll ==
  /\ rphase = "running" /\ ~g_stop
  /\ \/ \E i \in joined + 1 .. Min({onWire, Len(Feed)}) : PollData(Feed[i])
     \/ PollEnd \/ PollIdle
  /\ UNCHANGED <<rproc, sproc>>

LiveWait == rphase = "running" /\ Wait /\ UNCHANGED <<rproc, sproc>>

\* drain: parse_stream dispatches the messages of a packet into the books.
Draining == rphase = "running" /\ (DrainOne \/ DrainEnd)

LiveDrain ==
  /\ Draining
  /\ LET packet == SubSeq(applied', Len(applied) + 1, Len(applied'))
     IN  builder' = DispatchAll([i \in DOMAIN packet |-> Messages[packet[i]]], builder)
  /\ UNCHANGED <<rphase, rstep, status, fds, joined, g_stop, sproc>>

\* The loop condition fails: report, and the destructors close both sockets.
LiveStops ==
  /\ rphase = "running" /\ pc = "poll" /\ (g_stop \/ ended)
  /\ rphase' = "exited" /\ fds' = {}
  /\ UNCHANGED <<vars, rstep, status, joined, g_stop, builder, sproc>>

\* Ctrl-C, from the moment main has installed the handler.
Sigint ==
  /\ ~g_stop /\ rphase # "exited"
  /\ g_stop' = TRUE
  /\ UNCHANGED <<vars, rphase, rstep, status, fds, joined, builder, sproc>>

BothExited == rphase = "exited" /\ sphase = "exited" /\ UNCHANGED lvars

-----------------------------------------------------------------------------

Receiving == OpenReceiver \/ LivePoll \/ LiveWait \/ LiveDrain \/ LiveStops
Sending   == OpenSender \/ SenderSends \/ SenderServes \/ SenderExits

LiveNext == Receiving \/ Sending \/ Sigint \/ BothExited

\* live_replay keeps running: SO_RCVTIMEO on both sockets lets no recv() block
\* for ever.  Nothing is assumed of the sender or the network.
LiveFairness == /\ WF_lvars(OpenReceiver) /\ WF_lvars(LiveWait)
                /\ WF_vars(Draining) /\ WF_lvars(LiveStops)

LiveSpec == LiveInit /\ [][LiveNext]_lvars /\ LiveFairness

-----------------------------------------------------------------------------

\* Whichever way live_replay ends, in the middle of a gap, after a late join
\* or at end-of-session, the books it reports are those of the session's
\* messages 1 .. next_seq_ - 1, and a process that is gone, after any failed
\* call too, has closed every socket it opened.
ExitIsClean ==
  /\ rphase = "exited" => fds = {}
  /\ sphase = "exited" => sfds = {}
  /\ rphase = "exited" /\ status = 0 =>
       builder = Sequential(SubSeq(Messages, 1, next_seq - 1))

\* "runs until interrupted (Ctrl-C / SIGINT)": a Ctrl-C is always noticed, also
\* while a gap is being requested from a sender that has gone away.
StopIsNoticed == g_stop ~> (rphase = "exited")

=============================================================================

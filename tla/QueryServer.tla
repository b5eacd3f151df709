---------------------------- MODULE QueryServer ----------------------------
(***************************************************************************)
(* The threads of net::QueryServer (include/net/query_server.hpp): the     *)
(* accept loop, one thread per connection, and stop(), which main or the   *)
(* destructor runs before the SnapshotStore goes out of scope              *)
(* (src/replay_query_main.cpp: store is declared before server).           *)
(*                                                                         *)
(* Sockets, timeouts and clients are the environment: a poll, recv or send *)
(* returns any of the results the code tells apart.  Requests and answers  *)
(* are in SnapshotQueries; here an answer is one read of the store.        *)
(***************************************************************************)
EXTENDS Integers, FiniteSets

CONSTANTS Client,            \* connections that may be open at a time
          kMaxConnections,
          MaxLines           \* complete lines one recv may leave in buf

ASSUME ServerAssumption == kMaxConnections \in Nat \ {0} /\ MaxLines \in Nat

VARIABLES stop_requested,
          listening,         \* listen_fd_ is open
          accept,            \* accept_thread_
          worker,            \* the thread of each connection, and its buf
          conn_threads,      \* conn_threads_
          joining,           \* the local vector of stop()
          main               \* the thread that owns the server and the store

server_vars == <<stop_requested, listening, accept, worker, conn_threads, joining, main>>

\* A connection thread: its place in handle_connection, the complete lines
\* still in buf, and whether what follows them is past kMaxLineLen.
ThreadAt(pc) == [pc |-> pc, lines |-> 0, long |-> FALSE]
Working == {"check", "recv", "answer", "send", "refuse", "close"}
Busy(c) == worker[c].pc \in Working

ServerInit ==
  /\ stop_requested = FALSE /\ listening = TRUE
  /\ accept = "unstarted"
  /\ worker = [c \in Client |-> ThreadAt("none")]
  /\ conn_threads = {} /\ joining = {}
  /\ main = "constructed"

-----------------------------------------------------------------------------
(* accept_loop.                                                            *)

AcceptGoes(pc) == accept' = pc /\ UNCHANGED <<stop_requested, listening, joining, main>>

\* Mutant: finished threads are never reaped.
Reaped_never == {}

\* reap_finished_connections: joined and erased.
Reaped == {c \in conn_threads : worker[c].pc = "done"}

\* One turn: the flag, then the reaping.
AcceptTurn ==
  /\ accept = "loop" /\ ~stop_requested
  /\ conn_threads' = conn_threads \ Reaped
  /\ worker' = [c \in Client |-> IF c \in Reaped THEN ThreadAt("none") ELSE worker[c]]
  /\ AcceptGoes("poll")

AcceptEnds ==
  /\ accept = "loop" /\ stop_requested
  /\ AcceptGoes("ended") /\ UNCHANGED <<worker, conn_threads>>

\* poll times out, or finds the socket closed; or accept() fails.
PollNothing ==
  /\ accept = "poll"
  /\ AcceptGoes("loop") /\ UNCHANGED <<worker, conn_threads>>

AcceptClient(c) ==
  /\ accept = "poll" /\ listening /\ worker[c].pc = "backlog"
  /\ worker' = [worker EXCEPT ![c] = ThreadAt("accepted")]
  /\ AcceptGoes("admit") /\ UNCHANGED conn_threads

\* Mutant: the capacity is compared after the push.
Admits_late == Cardinality(conn_threads) <= kMaxConnections

Admits == Cardinality(conn_threads) < kMaxConnections

\* A thread for the new connection, or close(client_fd) at capacity.
Admit(c) ==
  /\ accept = "admit" /\ worker[c].pc = "accepted"
  /\ conn_threads' = IF Admits THEN conn_threads \cup {c} ELSE conn_threads
  /\ worker' = [worker EXCEPT ![c] = ThreadAt(IF Admits THEN "check" ELSE "none")]
  /\ AcceptGoes("loop")

AcceptLoop == AcceptTurn \/ AcceptEnds \/ PollNothing
              \/ \E c \in Client : AcceptClient(c) \/ Admit(c)

-----------------------------------------------------------------------------
(* handle_connection.                                                      *)

ConnGoes(c, s) ==
  /\ worker' = [worker EXCEPT ![c] = s]
  /\ UNCHANGED <<stop_requested, listening, accept, conn_threads, joining, main>>

\* Mutant: the loop never looks at the flag.
CheckStop_never(c) == worker[c].pc = "check" /\ ConnGoes(c, ThreadAt("recv"))

\* The loop condition.
CheckStop(c) ==
  /\ worker[c].pc = "check"
  /\ ConnGoes(c, ThreadAt(IF stop_requested THEN "close" ELSE "recv"))

\* Where the thread goes once n complete lines are left in buf.
After(n, long) ==
  [pc |-> IF n > 0 THEN "answer" ELSE IF long THEN "refuse" ELSE "check",
   lines |-> n, long |-> (long /\ n > 0)]

\* recv returns bytes: some complete lines, and perhaps a rest that is too long.
RecvData(c) ==
  /\ worker[c].pc = "recv"
  /\ \E n \in 0 .. MaxLines, long \in BOOLEAN : ConnGoes(c, After(n, long))

\* The 300 ms timeout, before kIdleTimeout is over.
RecvTimeout(c) == worker[c].pc = "recv" /\ ConnGoes(c, ThreadAt("check"))

\* The peer closed, an error, or kIdleTimeout is over.
RecvEnds(c) == worker[c].pc = "recv" /\ ConnGoes(c, ThreadAt("close"))

\* handle_line, which reads store_.
Answer(c) == worker[c].pc = "answer" /\ ConnGoes(c, [worker[c] EXCEPT !.pc = "send"])

\* send_all returns: all of it is sent, or the connection is to be torn down.
Send(c) ==
  /\ worker[c].pc = "send"
  /\ \/ ConnGoes(c, After(worker[c].lines - 1, worker[c].long))
     \/ ConnGoes(c, ThreadAt("close"))

\* "request line too long": send_all, then close whatever it returned.
Refuse(c) == worker[c].pc = "refuse" /\ ConnGoes(c, ThreadAt("close"))

\* close(client_fd), and the thread's last action: done->store(true).
Close(c) == worker[c].pc = "close" /\ ConnGoes(c, ThreadAt("done"))

Thread(c) == \/ CheckStop(c) \/ RecvData(c) \/ RecvTimeout(c) \/ RecvEnds(c)
             \/ Answer(c) \/ Send(c) \/ Refuse(c) \/ Close(c)

-----------------------------------------------------------------------------
(* main, and the clients.                                                  *)

\* start(): spawns the accept loop.
StartAccepting ==
  /\ main = "constructed"
  /\ main' = "run" /\ accept' = "loop"
  /\ UNCHANGED <<stop_requested, listening, worker, conn_threads, joining>>

\* stop() is called: serve() is over, or an exception unwinds run().
StopFlag ==
  /\ main \in {"constructed", "run"}
  /\ stop_requested' = TRUE /\ main' = "close"
  /\ UNCHANGED <<listening, accept, worker, conn_threads, joining>>

\* shutdown and close of the listening socket; the kernel drops its backlog.
StopClose ==
  /\ main = "close"
  /\ listening' = FALSE /\ main' = "join_accept"
  /\ worker' = [c \in Client |-> IF worker[c].pc = "backlog" THEN ThreadAt("none") ELSE worker[c]]
  /\ UNCHANGED <<stop_requested, accept, conn_threads, joining>>

\* Mutant: the accept thread is not waited for.
StopJoinAccept_skipped ==
  /\ main = "join_accept"
  /\ main' = "swap"
  /\ UNCHANGED <<stop_requested, listening, accept, worker, conn_threads, joining>>

\* accept_thread_.join(), if it was started.
StopJoinAccept ==
  /\ main = "join_accept" /\ accept \in {"unstarted", "ended"}
  /\ main' = "swap"
  /\ UNCHANGED <<stop_requested, listening, accept, worker, conn_threads, joining>>

\* Mutant: copied, not swapped.
StopSwap_copies ==
  /\ main = "swap"
  /\ joining' = conn_threads /\ main' = "join"
  /\ UNCHANGED <<stop_requested, listening, accept, worker, conn_threads>>

\* threads.swap(conn_threads_).
StopSwap ==
  /\ main = "swap"
  /\ joining' = conn_threads /\ conn_threads' = {} /\ main' = "join"
  /\ UNCHANGED <<stop_requested, listening, accept, worker>>

\* Each join waits for its thread.
StopJoin(c) ==
  /\ main = "join" /\ c \in joining /\ worker[c].pc = "done"
  /\ joining' = joining \ {c} /\ worker' = [worker EXCEPT ![c] = ThreadAt("none")]
  /\ UNCHANGED <<stop_requested, listening, accept, conn_threads, main>>

StopReturn ==
  /\ main = "join" /\ joining = {}
  /\ main' = "stopped"
  /\ UNCHANGED <<stop_requested, listening, accept, worker, conn_threads, joining>>

\* ~QueryServer calls stop() again, which returns at the flag; then the store
\* is destroyed.
Destroy ==
  /\ main = "stopped" /\ stop_requested
  /\ main' = "gone"
  /\ UNCHANGED <<stop_requested, listening, accept, worker, conn_threads, joining>>

Stop == \/ StopClose \/ StopJoinAccept \/ StopSwap \/ StopReturn \/ Destroy
        \/ \E c \in Client : StopJoin(c)

\* A client connects; it waits in the backlog until it is accepted.
Connect(c) ==
  /\ listening /\ worker[c].pc = "none"
  /\ worker' = [worker EXCEPT ![c] = ThreadAt("backlog")]
  /\ UNCHANGED <<stop_requested, listening, accept, conn_threads, joining, main>>

Over == main = "gone" /\ UNCHANGED server_vars

ServerNext == \/ AcceptLoop \/ StartAccepting \/ StopFlag \/ Stop \/ Over
              \/ \E c \in Client : Thread(c) \/ Connect(c)

\* Every thread keeps being scheduled, poll and recv have timeouts, and a send
\* returns: the client reads its answers or goes away.  Only StopReturns needs
\* the last, which the code does not enforce.
ServerFairness == /\ WF_server_vars(AcceptLoop) /\ WF_server_vars(Stop)
                  /\ \A c \in Client : WF_server_vars(Thread(c))

ServerSpec == ServerInit /\ [][ServerNext]_server_vars /\ ServerFairness

-----------------------------------------------------------------------------

\* The places of the threads, and who is in which list.
ServerTypeOK ==
  /\ stop_requested \in BOOLEAN /\ listening \in BOOLEAN
  /\ accept \in {"unstarted", "loop", "poll", "admit", "ended"}
  /\ worker \in [Client -> [pc : Working \cup {"none", "backlog", "accepted", "done"},
                            lines : 0 .. MaxLines, long : BOOLEAN]]
  /\ conn_threads \in SUBSET Client /\ joining \in SUBSET Client
  /\ main \in {"constructed", "run", "close", "join_accept", "swap", "join", "stopped", "gone"}

\* "Once stop() returns, no thread owned by this server touches `store_` again
\* - safe to destroy the SnapshotStore": after stop() neither the accept loop
\* nor any connection thread is left, whatever was being accepted when it began.
QuietAfterStop ==
  main \in {"stopped", "gone"} => /\ accept \in {"unstarted", "ended"}
                                  /\ \A c \in Client : ~Busy(c)

\* Every thread that has been started and not joined is held by conn_threads_
\* or by stop(): none is destroyed while joinable, none is joined twice.
ThreadsAreOwned ==
  /\ {c \in Client : Busy(c) \/ worker[c].pc = "done"} = conn_threads \cup joining
  /\ conn_threads \cap joining = {}

\* "Hard cap on concurrent connections".
CapHolds == Cardinality({c \in Client : Busy(c)}) <= kMaxConnections

\* "Joins and drops every connection thread whose completion flag is set":
\* a finished connection gives its slot back, running or stopping.
SlotsComeBack == \A c \in Client : worker[c].pc = "done" ~> c \notin conn_threads

\* stop() returns, provided clients read their answers: "a per-connection
\* thread blocked in recv() must still notice stop_requested_".
StopReturns == stop_requested ~> main \in {"stopped", "gone"}

=============================================================================

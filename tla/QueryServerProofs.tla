------------------------- MODULE QueryServerProofs -------------------------
(***************************************************************************)
(* The safety of stop() and of the connection cap, for any number of       *)
(* clients, any cap and any number of lines in a buffer.                   *)
(*                                                                         *)
(* QuietAfterStop is not inductive: that no thread is left when stop()     *)
(* returns needs to know that every thread is in one of the two lists      *)
(* (Owned), that the accept loop, the only one to add to a list, is over   *)
(* before the lists are swapped (Phases), and that only stop() holds the   *)
(* second list.                                                            *)
(***************************************************************************)
EXTENDS QueryServer, FiniteSetTheorems, TLAPS

Started(c) == Busy(c) \/ worker[c].pc = "done"

\* Every started and unjoined thread is in exactly one of the lists.
Owned == /\ \A c \in Client : Started(c) <=> c \in conn_threads \cup joining
         /\ conn_threads \cap joining = {}

\* How far stop() has come, and what that rules out.
Phases ==
  /\ accept \notin {"unstarted", "ended"} => main \in {"run", "close", "join_accept"}
  /\ main = "constructed" => accept = "unstarted"
  /\ joining # {} => main = "join"
  /\ main \in {"join", "stopped", "gone"} => conn_threads = {}

\* A thread that answers has a line to answer.
HasLine == \A c \in Client : worker[c].pc \in {"answer", "send"} => worker[c].lines > 0

\* The lists are never longer than the cap.
ListsBounded == /\ IsFiniteSet(conn_threads) /\ Cardinality(conn_threads) <= kMaxConnections
                /\ IsFiniteSet(joining) /\ Cardinality(joining) <= kMaxConnections

Inv == ServerTypeOK /\ Owned /\ Phases /\ HasLine

-----------------------------------------------------------------------------

\* A thread that is nowhere in a buffer.
LEMMA AtType ==
  \A p \in Working \cup {"none", "backlog", "accepted", "done"} :
    /\ ThreadAt(p) \in [pc : Working \cup {"none", "backlog", "accepted", "done"},
                  lines : 0 .. MaxLines, long : BOOLEAN]
    /\ ThreadAt(p).pc = p
  BY ServerAssumption DEF ThreadAt

\* The server starts with no thread.
LEMMA InitInv == ServerInit => Inv
<1> SUFFICES ASSUME ServerInit PROVE Inv
  OBVIOUS
<1> USE DEF ServerInit
<1>1. ServerTypeOK
  BY AtType DEF ServerTypeOK
<1>2. Owned /\ Phases /\ HasLine
  BY DEF Owned, Phases, HasLine, Started, Busy, Working, ThreadAt
<1> QED
  BY <1>1, <1>2 DEF Inv

\* A step of one connection thread that stays in its function, or sets its flag.
LEMMA ThreadKeeps ==
  ASSUME Inv, NEW c \in Client, Busy(c),
         NEW s \in [pc : Working \cup {"done"}, lines : 0 .. MaxLines, long : BOOLEAN],
         s.pc \in {"answer", "send"} => s.lines > 0,
         ConnGoes(c, s)
  PROVE  Inv'
<1> USE DEF Inv, ConnGoes
<1>1. ServerTypeOK'
  BY DEF ServerTypeOK
<1>2. \A d \in Client : Started(d)' <=> Started(d)
  BY DEF ServerTypeOK, Started, Busy, Working
<1>3. Owned'
  BY <1>2 DEF Owned
<1>4. Phases'
  BY DEF Phases
<1>5. HasLine'
  BY DEF HasLine, ServerTypeOK
<1> QED
  BY <1>1, <1>3, <1>4, <1>5

\* Every action of a connection thread is such a step.
LEMMA ThreadInv == ASSUME Inv, NEW c \in Client, Thread(c) PROVE Inv'
<1> DEFINE S == [pc : Working \cup {"done"}, lines : 0 .. MaxLines, long : BOOLEAN]
<1>0. worker[c] \in [pc : Working \cup {"none", "backlog", "accepted", "done"},
                   lines : 0 .. MaxLines, long : BOOLEAN]
  BY DEF Inv, ServerTypeOK
<1>1. \A p \in (Working \cup {"done"}) \ {"answer", "send"} :
         ThreadAt(p) \in S /\ ThreadAt(p).pc \notin {"answer", "send"}
  BY ServerAssumption DEF ThreadAt
<1>2. \A n \in 0 .. MaxLines, l \in BOOLEAN :
         After(n, l) \in S /\ (After(n, l).pc \in {"answer", "send"} => After(n, l).lines > 0)
  BY DEF After, Working
<1>3. CASE CheckStop(c) \/ RecvTimeout(c) \/ RecvEnds(c) \/ Refuse(c) \/ Close(c)
  <2>1. Busy(c)
    BY <1>3 DEF CheckStop, RecvTimeout, RecvEnds, Refuse, Close, Busy, Working
  <2>2. PICK p \in (Working \cup {"done"}) \ {"answer", "send"} : ConnGoes(c, ThreadAt(p))
    BY <1>3 DEF CheckStop, RecvTimeout, RecvEnds, Refuse, Close, Working
  <2> HIDE DEF S
  <2>3. ThreadAt(p) \in S /\ ThreadAt(p).pc \notin {"answer", "send"}
    BY <1>1
  <2> QED
    BY <2>1, <2>2, <2>3, ThreadKeeps DEF S
<1>4. CASE RecvData(c)
  <2>1. PICK n \in 0 .. MaxLines, l \in BOOLEAN : ConnGoes(c, After(n, l))
    BY <1>4 DEF RecvData
  <2>2. Busy(c)
    BY <1>4 DEF RecvData, Busy, Working
  <2> QED
    BY <1>2, <2>1, <2>2, ThreadKeeps
<1>5. CASE Answer(c)
  <2> DEFINE s == [worker[c] EXCEPT !.pc = "send"]
  <2>1. s \in S /\ s.lines > 0
    BY <1>0, <1>5 DEF Answer, Inv, HasLine, Working
  <2>2. Busy(c) /\ ConnGoes(c, s)
    BY <1>5 DEF Answer, Busy, Working
  <2> QED
    BY <2>1, <2>2, ThreadKeeps
<1>6. CASE Send(c)
  <2>1. Busy(c)
    BY <1>6 DEF Send, Busy, Working
  <2>2. worker[c].lines - 1 \in 0 .. MaxLines /\ worker[c].long \in BOOLEAN
    BY <1>0, <1>6, ServerAssumption DEF Send, Inv, HasLine
  <2>3. CASE ConnGoes(c, After(worker[c].lines - 1, worker[c].long))
    BY <1>2, <2>1, <2>2, <2>3, ThreadKeeps
  <2>4. CASE ConnGoes(c, ThreadAt("close"))
    <3>1. ThreadAt("close") \in S /\ ThreadAt("close").pc \notin {"answer", "send"}
      BY <1>1 DEF Working
    <3> QED
      BY <2>1, <2>4, <3>1, ThreadKeeps
  <2> QED
    BY <1>6, <2>3, <2>4 DEF Send
<1> QED
  BY <1>3, <1>4, <1>5, <1>6 DEF Thread

\* The accept loop adds to the first list only, and only while stop() has not
\* got past joining it.
LEMMA AcceptInv == ASSUME Inv, AcceptLoop PROVE Inv'
<1> USE ServerAssumption
<1>0. accept \notin {"unstarted", "ended"} /\ joining = {} /\ main \in {"run", "close", "join_accept"}
  BY DEF AcceptLoop, AcceptTurn, AcceptEnds, PollNothing, AcceptClient, Admit, Inv, Phases
<1>1. CASE AcceptTurn
  <2> USE <1>0, <1>1 DEF AcceptTurn, AcceptGoes, Inv
  <2>1. ServerTypeOK'
    BY DEF ServerTypeOK, ThreadAt
  <2>2. Owned'
    BY DEF Owned, Started, Busy, Reaped, ThreadAt, Working
  <2>3. Phases'
    BY DEF Phases
  <2>4. HasLine'
    BY DEF HasLine, ThreadAt
  <2> QED
    BY <2>1, <2>2, <2>3, <2>4
<1>2. CASE AcceptEnds \/ PollNothing
  <2> USE <1>0, <1>2 DEF AcceptEnds, PollNothing, AcceptGoes, Inv
  <2>1. ServerTypeOK' /\ Phases' /\ HasLine'
    BY DEF ServerTypeOK, Phases, HasLine
  <2>2. Owned'
    BY DEF Owned, Started, Busy
  <2> QED
    BY <2>1, <2>2
<1>3. ASSUME NEW c \in Client, AcceptClient(c) PROVE Inv'
  <2> USE <1>0, <1>3 DEF AcceptClient, AcceptGoes, Inv
  <2>1. ServerTypeOK' /\ Phases' /\ HasLine'
    BY DEF ServerTypeOK, Phases, HasLine, ThreadAt
  <2>2. Owned'
    BY DEF Owned, Started, Busy, Working, ThreadAt, ServerTypeOK
  <2> QED
    BY <2>1, <2>2
<1>4. ASSUME NEW c \in Client, Admit(c) PROVE Inv'
  <2> USE <1>0, <1>4 DEF Admit, AcceptGoes, Inv
  <2>1. ServerTypeOK' /\ Phases' /\ HasLine'
    BY DEF ServerTypeOK, Phases, HasLine, ThreadAt, Working
  <2>2. Owned'
    BY DEF Owned, Started, Busy, Working, ThreadAt, ServerTypeOK
  <2> QED
    BY <2>1, <2>2
<1> QED
  BY <1>1, <1>2, <1>3, <1>4 DEF AcceptLoop

\* stop(), start() and the clients.
LEMMA MainInv ==
  ASSUME Inv, StartAccepting \/ StopFlag \/ Stop \/ Over \/ (\E c \in Client : Connect(c))
  PROVE  Inv'
<1> USE ServerAssumption DEF Inv
<1>1. CASE StartAccepting \/ StopFlag \/ StopJoinAccept \/ StopSwap \/ StopReturn \/ Destroy \/ Over
  <2> USE <1>1 DEF StartAccepting, StopFlag, StopJoinAccept, StopSwap, StopReturn, Destroy, Over,
                   server_vars
  <2>1. ServerTypeOK'
    BY DEF ServerTypeOK, Phases
  <2>2. Phases'
    BY DEF Phases
  <2>3. HasLine'
    BY DEF HasLine
  <2>4. worker' = worker /\ conn_threads' \cup joining' = conn_threads \cup joining
    BY DEF Phases
  <2>5. conn_threads' \cap joining' = {}
    BY DEF Owned
  <2>6. Owned'
    BY <2>4, <2>5 DEF Owned, Started, Busy
  <2> QED
    BY <2>1, <2>2, <2>3, <2>6
<1>2. CASE StopClose
  <2> USE <1>2 DEF StopClose
  <2>0. ServerTypeOK'
    BY AtType DEF ServerTypeOK
  <2>1. ServerTypeOK' /\ Phases' /\ HasLine'
    BY <2>0 DEF Phases, HasLine, ThreadAt
  <2>2. Owned'
    BY DEF Owned, Started, Busy, Working, ThreadAt
  <2> QED
    BY <2>1, <2>2
<1>3. ASSUME NEW c \in Client, StopJoin(c) PROVE Inv'
  <2> USE <1>3 DEF StopJoin
  <2>1. ServerTypeOK' /\ Phases' /\ HasLine'
    BY DEF ServerTypeOK, Phases, HasLine, ThreadAt
  <2>2. Owned'
    BY DEF Owned, Started, Busy, Working, ThreadAt, ServerTypeOK
  <2> QED
    BY <2>1, <2>2
<1>4. ASSUME NEW c \in Client, Connect(c) PROVE Inv'
  <2> USE <1>4 DEF Connect
  <2>1. ServerTypeOK' /\ Phases' /\ HasLine'
    BY DEF ServerTypeOK, Phases, HasLine, ThreadAt
  <2>2. Owned'
    BY DEF Owned, Started, Busy, Working, ThreadAt, ServerTypeOK
  <2> QED
    BY <2>1, <2>2
<1> QED
  BY <1>1, <1>2, <1>3, <1>4 DEF Stop

\* The inductive step.
LEMMA StepInv == Inv /\ [ServerNext]_server_vars => Inv'
<1> SUFFICES ASSUME Inv, [ServerNext]_server_vars PROVE Inv'
  OBVIOUS
<1>1. CASE UNCHANGED server_vars
  BY <1>1 DEF Inv, server_vars, ServerTypeOK, Owned, Phases, HasLine, Started, Busy
<1>2. CASE AcceptLoop
  BY <1>2, AcceptInv
<1>3. ASSUME NEW c \in Client, Thread(c) PROVE Inv'
  BY <1>3, ThreadInv
<1>4. CASE StartAccepting \/ StopFlag \/ Stop \/ Over \/ \E c \in Client : Connect(c)
  BY <1>4, MainInv
<1> QED
  BY <1>1, <1>2, <1>3, <1>4 DEF ServerNext

\* The inductive invariant holds in every reachable state.
LEMMA Invariance == ServerSpec => []Inv
  BY InitInv, StepInv, PTL DEF ServerSpec

\* Type correctness of the server's threads and lists.
THEOREM TypeCorrect == ServerSpec => []ServerTypeOK
<1>1. Inv => ServerTypeOK
  BY DEF Inv
<1> QED
  BY <1>1, Invariance, PTL

\* "Once stop() returns, no thread owned by this server touches `store_`
\* again", for any number of connections and wherever stop() finds them.
THEOREM StopIsQuiet == ServerSpec => []QuietAfterStop
<1>1. Inv => QuietAfterStop
  BY DEF Inv, QuietAfterStop, Phases, Owned, Started, ServerTypeOK
<1> QED
  BY <1>1, Invariance, PTL

\* No thread is lost, destroyed unjoined or joined twice.
THEOREM NoThreadLost == ServerSpec => []ThreadsAreOwned
<1>1. ASSUME Inv PROVE ThreadsAreOwned
  <2>1. conn_threads \subseteq Client /\ joining \subseteq Client
    BY <1>1 DEF Inv, ServerTypeOK
  <2> QED
    BY <1>1, <2>1 DEF Inv, ThreadsAreOwned, Owned, Started
<1> QED
  BY <1>1, Invariance, PTL

-----------------------------------------------------------------------------

\* A list with one more member is at most one longer.
LEMMA OneMore ==
  ASSUME NEW S, IsFiniteSet(S), NEW c, Cardinality(S) < kMaxConnections
  PROVE  IsFiniteSet(S \cup {c}) /\ Cardinality(S \cup {c}) <= kMaxConnections
<1>1. Cardinality(S) \in Nat
  BY FS_CardinalityType
<1>2. IsFiniteSet(S \cup {c})
       /\ Cardinality(S \cup {c}) = IF c \in S THEN Cardinality(S) ELSE Cardinality(S) + 1
  BY FS_AddElement
<1> QED
  BY <1>1, <1>2, ServerAssumption

\* A part of a list is no longer than the list.
LEMMA NoMore ==
  ASSUME NEW S, IsFiniteSet(S), NEW T, T \subseteq S, Cardinality(S) <= kMaxConnections
  PROVE  IsFiniteSet(T) /\ Cardinality(T) <= kMaxConnections
<1>1. IsFiniteSet(T) /\ Cardinality(T) <= Cardinality(S)
  BY FS_Subset
<1>2. Cardinality(S) \in Nat /\ Cardinality(T) \in Nat
  BY <1>1, FS_CardinalityType
<1> QED
  BY <1>1, <1>2, ServerAssumption

\* The bound on the lists is kept: Admit is the only action that adds.
LEMMA BoundStep == Inv /\ ListsBounded /\ [ServerNext]_server_vars => ListsBounded'
<1> SUFFICES ASSUME Inv, ListsBounded, [ServerNext]_server_vars PROVE ListsBounded'
  OBVIOUS
<1>1. ASSUME NEW c \in Client, Admit(c) PROVE ListsBounded'
  <2>1. joining' = joining
    BY <1>1 DEF Admit, AcceptGoes
  <2>2. CASE Admits
    <3>1. Cardinality(conn_threads) < kMaxConnections /\ conn_threads' = conn_threads \cup {c}
      BY <1>1, <2>2 DEF Admit, Admits
    <3> QED
      BY <2>1, <3>1, OneMore DEF ListsBounded
  <2>3. CASE ~Admits
    BY <1>1, <2>1, <2>3 DEF Admit, ListsBounded
  <2> QED
    BY <2>2, <2>3
<1>2. CASE StopSwap
  <2>1. IsFiniteSet({}) /\ Cardinality({}) = 0
    BY FS_EmptySet
  <2> QED
    BY <1>2, <2>1, ServerAssumption DEF StopSwap, ListsBounded
<1>3. CASE conn_threads' \subseteq conn_threads /\ joining' \subseteq joining
  BY <1>3, NoMore DEF ListsBounded
<1>4. CASE AcceptLoop
  <2>1. \/ conn_threads' \subseteq conn_threads /\ joining' \subseteq joining
        \/ \E c \in Client : Admit(c)
    BY <1>4 DEF AcceptLoop, AcceptTurn, AcceptEnds, PollNothing, AcceptClient, AcceptGoes
  <2> QED
    BY <1>1, <1>3, <2>1
<1>5. ASSUME NEW c \in Client, Thread(c) PROVE ListsBounded'
  BY <1>3, <1>5 DEF Thread, CheckStop, RecvData, RecvTimeout, RecvEnds, Answer, Send, Refuse,
                    Close, ConnGoes
<1>6. CASE \/ StartAccepting \/ StopFlag \/ Stop \/ Over \/ (\E c \in Client : Connect(c))
           \/ UNCHANGED server_vars
  BY <1>2, <1>3, <1>6 DEF StartAccepting, StopFlag, Stop, StopClose, StopJoinAccept, StopJoin, StopReturn,
                          Destroy, Over, Connect, server_vars
<1> QED
  BY <1>4, <1>5, <1>6 DEF ServerNext

\* "Hard cap on concurrent connections", for every cap.
THEOREM Capped == ServerSpec => []CapHolds
<1>1. ServerInit => ListsBounded
  <2>1. IsFiniteSet({}) /\ Cardinality({}) = 0
    BY FS_EmptySet
  <2> QED
    BY <2>1, ServerAssumption DEF ServerInit, ListsBounded
<1>2. ASSUME Inv, ListsBounded PROVE CapHolds
  <2> DEFINE R == {c \in Client : Busy(c)}
  <2>1. R \subseteq conn_threads \/ R \subseteq joining
    BY <1>2 DEF Inv, Owned, Started, Phases
  <2> HIDE DEF R
  <2>2. Cardinality(R) <= kMaxConnections
    BY <1>2, <2>1, NoMore DEF ListsBounded
  <2> QED
    BY <2>2 DEF CapHolds, R
<1> QED
  BY <1>1, <1>2, BoundStep, Invariance, PTL DEF ServerSpec

=============================================================================

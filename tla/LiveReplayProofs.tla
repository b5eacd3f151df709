-------------------------- MODULE LiveReplayProofs --------------------------
(***************************************************************************)
(* MoldReceiver, for every feed, every cap and every number of attempts:   *)
(* types, the bound on pending_, exactly-once in-order delivery, and that  *)
(* only a batched packet leaves something stale at the front of pending_,  *)
(* so nothing does in feeds of one message per packet (what                *)
(* net::MoldUdp64Sender sends).  Then LiveReplay: however the two          *)
(* processes end, their sockets are closed and the books are those of the  *)
(* messages delivered.                                                     *)
(***************************************************************************)
EXTENDS LiveReplay, SequenceTheorems, FiniteSetTheorems, TLAPS

INSTANCE FoldLemmas WITH Step <- dispatch

-----------------------------------------------------------------------------
(* Minima.                                                                 *)

\* The smaller of two numbers.
LEMMA MinPair ==
  ASSUME NEW x \in Int, NEW y \in Int
  PROVE  Min({x, y}) \in {x, y} /\ Min({x, y}) <= x /\ Min({x, y}) <= y
<1>1. \E z \in {x, y} : \A w \in {x, y} : z <= w
  <2>1. CASE x <= y BY <2>1
  <2>2. CASE y <= x BY <2>2
  <2> QED BY <2>1, <2>2
<1> QED BY <1>1 DEF Min

-----------------------------------------------------------------------------
(* pending_.                                                               *)

\* A value of pending_ that respects its cap.
PendOK(pend) ==
  /\ IsFiniteSet(DOMAIN pend) /\ Cardinality(DOMAIN pend) <= kMaxPendingPackets
  /\ \A k \in DOMAIN pend : k \in Nat /\ pend[k] \in Nat

\* buffer keeps the cap and the types.
LEMMA BufferKeeps ==
  ASSUME NEW pend, PendOK(pend), NEW p, p.seq \in Nat, p.n \in Nat
  PROVE  PendOK(buffer(pend, p))
<1> DEFINE full == Cardinality(DOMAIN pend) >= kMaxPendingPackets /\ p.seq \notin DOMAIN pend
<1>1. CASE full BY <1>1 DEF buffer
<1>2. CASE ~full
  <2>1. buffer(pend, p) = Put(pend, p.seq, p.n) BY <1>2 DEF buffer
  <2>2. /\ DOMAIN Put(pend, p.seq, p.n) = DOMAIN pend \cup {p.seq}
        /\ \A k \in DOMAIN pend \cup {p.seq} :
             Put(pend, p.seq, p.n)[k] = IF k = p.seq THEN p.n ELSE pend[k]
    BY DEF Put
  <2>3. /\ IsFiniteSet(DOMAIN pend \cup {p.seq})
        /\ Cardinality(DOMAIN pend \cup {p.seq}) =
             IF p.seq \in DOMAIN pend THEN Cardinality(DOMAIN pend)
                                      ELSE Cardinality(DOMAIN pend) + 1
    BY FS_AddElement DEF PendOK
  <2>4. Cardinality(DOMAIN pend) \in Nat BY FS_CardinalityType DEF PendOK
  <2>5. Cardinality(DOMAIN pend \cup {p.seq}) <= kMaxPendingPackets
    BY <1>2, <2>3, <2>4, MoldAssumption DEF PendOK
  <2>6. \A k \in DOMAIN pend \cup {p.seq} : k \in Nat /\ Put(pend, p.seq, p.n)[k] \in Nat
    BY <2>2 DEF PendOK
  <2> QED BY <2>1, <2>2, <2>3, <2>5, <2>6 DEF PendOK
<1> QED BY <1>1, <1>2

\* begin() is a key, and the least.
LEMMA FirstIsLeast ==
  ASSUME NEW pend, PendOK(pend), DOMAIN pend # {}
  PROVE  first(pend) \in DOMAIN pend /\ \A k \in DOMAIN pend : first(pend) <= k
BY MinNat DEF first, PendOK

\* Taking begin() out keeps the cap and the types.
LEMMA EraseKeeps ==
  ASSUME NEW pend, PendOK(pend), NEW k
  PROVE  PendOK(Erase(pend, k))
<1>1. /\ DOMAIN Erase(pend, k) = DOMAIN pend \ {k}
      /\ \A j \in DOMAIN pend \ {k} : Erase(pend, k)[j] = pend[j]
  BY DEF Erase
<1>2. DOMAIN pend \ {k} \in SUBSET DOMAIN pend OBVIOUS
<1>3. /\ IsFiniteSet(DOMAIN pend \ {k})
      /\ Cardinality(DOMAIN pend \ {k}) <= Cardinality(DOMAIN pend)
  BY <1>2, FS_Subset DEF PendOK
<1>4. Cardinality(DOMAIN pend) \in Nat /\ Cardinality(DOMAIN pend \ {k}) \in Nat
  BY <1>3, FS_CardinalityType DEF PendOK
<1>5. Cardinality(DOMAIN pend \ {k}) <= kMaxPendingPackets
  BY <1>3, <1>4, MoldAssumption DEF PendOK
<1> QED BY <1>1, <1>3, <1>5 DEF PendOK

-----------------------------------------------------------------------------
(* The invariant.                                                          *)

ReplyType == [seq : Nat, n : {1}]
Requests  == \A r \in requests : r.seq \in Nat /\ r.count \in 1 .. kMaxRequest

Inv == TypeOK /\ PendOK(pending) /\ replies \subseteq ReplyType /\ InOrderExactlyOnce

\* Where resolve_gaps leaves the receiver: a bounded request, or drain.
LEMMA ResolveKeeps ==
  ASSUME Inv, NEW pend, PendOK(pend), NEW tried \in 0 .. kMaxGapFillAttempts, Resolve(pend, tried)
  PROVE  /\ PendOK(pending)' /\ Requests'
         /\ attempts' \in 0 .. kMaxGapFillAttempts /\ pc' \in {"wait", "drain"}
<1>0. next_seq \in Nat /\ kMaxGapFillAttempts \in Nat /\ kMaxRequest \in Nat \ {0} /\ Requests
  BY MoldAssumption DEF Inv, TypeOK, Requests
<1>1. PendOK(pending)'
  <2>1. PendOK(pending') BY DEF Resolve
  <2> QED BY <2>1 DEF PendOK
<1>2. CASE GapIn(pend) /\ tried < kMaxGapFillAttempts
  <2>1. first(pend) \in Nat /\ first(pend) > next_seq
    BY <1>2, FirstIsLeast DEF GapIn, PendOK
  <2>2. first(pend) - next_seq \in Int /\ kMaxRequest \in Int BY <1>0, <2>1
  <2> DEFINE n == Min({first(pend) - next_seq, kMaxRequest})
  <2>3. n \in {first(pend) - next_seq, kMaxRequest} /\ n <= kMaxRequest BY <2>2, MinPair
  <2> HIDE DEF n
  <2>4. n \in 1 .. kMaxRequest BY <1>0, <2>1, <2>2, <2>3
  <2>5. /\ requests' = requests \cup {[seq |-> next_seq, count |-> n]}
        /\ attempts' = tried + 1 /\ pc' = "wait"
    BY <1>2 DEF Resolve, n
  <2> QED BY <1>0, <1>1, <1>2, <2>4, <2>5 DEF Requests
<1>3. CASE ~(GapIn(pend) /\ tried < kMaxGapFillAttempts)
  <2>1. requests' = requests /\ attempts' = 0 /\ pc' = "drain" BY <1>3 DEF Resolve
  <2> QED BY <1>0, <1>1, <2>1 DEF Requests
<1> QED BY <1>2, <1>3

\* One packet's messages extend the delivered prefix exactly.
LEMMA Extend ==
  ASSUME NEW m \in Nat \ {0}, NEW n \in Nat
  PROVE  [i \in 1 .. m - 1 |-> i] \o [i \in 1 .. n |-> m + i - 1] = [i \in 1 .. m + n - 1 |-> i]
<1> DEFINE s == [i \in 1 .. m - 1 |-> i]
           t == [i \in 1 .. n |-> m + i - 1]
           u == [i \in 1 .. m + n - 1 |-> i]
<1>1. s \in Seq(Nat) /\ Len(s) = m - 1 OBVIOUS
<1>2. t \in Seq(Nat) /\ Len(t) = n OBVIOUS
<1>3. u \in Seq(Nat) /\ Len(u) = m + n - 1 OBVIOUS
<1>4. /\ s \o t \in Seq(Nat) /\ Len(s \o t) = Len(s) + Len(t)
      /\ \A i \in 1 .. Len(s) + Len(t) : (s \o t)[i] = IF i <= Len(s) THEN s[i] ELSE t[i - Len(s)]
  BY <1>1, <1>2, ConcatProperties
<1>5. Len(s \o t) = Len(u) BY <1>1, <1>2, <1>3, <1>4
<1>6. ASSUME NEW i \in 1 .. Len(s \o t) PROVE (s \o t)[i] = u[i]
  <2>1. i \in 1 .. m + n - 1 BY <1>3, <1>5
  <2>2. CASE i <= m - 1 BY <1>1, <1>2, <1>4, <2>1, <2>2
  <2>3. CASE i > m - 1
    <3>1. i - (m - 1) \in 1 .. n /\ m + (i - (m - 1)) - 1 = i BY <2>1, <2>3
    <3>2. (s \o t)[i] = t[i - (m - 1)] BY <1>1, <1>2, <1>4, <2>1, <2>3
    <3> QED BY <2>1, <3>1, <3>2
  <2> QED BY <2>1, <2>2, <2>3
<1> HIDE DEF s, t, u
<1>7. s \o t = u BY <1>3, <1>4, <1>5, <1>6, SeqEqual
<1> QED BY <1>7 DEF s, t, u

\* What a step that leaves the delivered prefix alone still has to show.
LEMMA QuietStep ==
  ASSUME Inv, onWire' \in 0 .. Len(Feed) + 1, PendOK(pending)', Requests',
         UNCHANGED <<next_seq, applied>>, ended' \in BOOLEAN, pc' \in {"poll", "wait", "drain"},
         attempts' \in 0 .. kMaxGapFillAttempts, polls' \in {0, 1}, replies' \subseteq ReplyType
  PROVE  Inv'
BY DEF Inv, TypeOK, PendOK, Requests, InOrderExactlyOnce

\* The empty receiver satisfies the invariant.
LEMMA InvInit == Init => Inv
<1> SUFFICES ASSUME Init PROVE Inv OBVIOUS
<1>1. DOMAIN pending = {} BY DEF Init, EmptyMap
<1>2. Len(Feed) \in Nat /\ kMaxGapFillAttempts \in Nat /\ kMaxPendingPackets \in Nat
  BY MoldAssumption
<1>3. PendOK(pending) BY <1>1, <1>2, FS_EmptySet DEF PendOK
<1>4. TypeOK
  <2>1. onWire \in 0 .. Len(Feed) + 1 /\ next_seq \in Nat \ {0}
    BY <1>2 DEF Init
  <2>2. attempts \in 0 .. kMaxGapFillAttempts BY <1>2 DEF Init
  <2>3. \A r \in requests : r.seq \in Nat /\ r.count \in 1 .. kMaxRequest BY DEF Init
  <2>4. \A k \in DOMAIN pending : k \in Nat /\ pending[k] \in Nat BY <1>1
  <2>5. ended \in BOOLEAN /\ pc \in {"poll", "wait", "drain"} /\ polls \in {0, 1} BY DEF Init
  <2> QED BY <2>1, <2>2, <2>3, <2>4, <2>5 DEF TypeOK
<1>5. InOrderExactlyOnce BY DEF Init, InOrderExactlyOnce
<1> QED BY <1>3, <1>4, <1>5 DEF Init, Inv

\* A packet of the feed has the fields buffer stores.
LEMMA FeedType ==
  ASSUME NEW i \in 1 .. Len(Feed) PROVE Feed[i].seq \in Nat /\ Feed[i].n \in Nat
<1> DEFINE P == [seq : 1 .. LastSeq, n : Nat]
<1>1. Feed \in Seq(P) BY MoldAssumption
<1> HIDE DEF P
<1>2. Feed[i] \in P BY <1>1
<1> QED BY <1>2, MoldAssumption DEF P

\* Every step of the sender, the network and the receiver keeps it.
LEMMA InvStep == Inv /\ [Next]_vars => Inv'
<1> SUFFICES ASSUME Inv, [Next]_vars PROVE Inv' OBVIOUS
<1>0. /\ Len(Feed) \in Nat /\ kMaxGapFillAttempts \in Nat /\ next_seq \in Nat \ {0}
      /\ onWire \in 0 .. Len(Feed) + 1 /\ PendOK(pending) /\ Requests
      /\ ended \in BOOLEAN /\ pc \in {"poll", "wait", "drain"}
      /\ attempts \in 0 .. kMaxGapFillAttempts /\ polls \in {0, 1} /\ replies \subseteq ReplyType
  BY MoldAssumption DEF Inv, TypeOK, Requests
<1>a. pending' = pending => PendOK(pending)' BY <1>0 DEF PendOK
<1>b. requests' = requests => Requests' BY <1>0 DEF Requests
<1>c. 1 - polls \in {0, 1} BY <1>0
<1>1. CASE Send
  <2>1. onWire' \in 0 .. Len(Feed) + 1 BY <1>0, <1>1 DEF Send
  <2> QED BY <1>0, <1>a, <1>b, <1>1, <2>1, QuietStep DEF Send, receiver
<1>2. ASSUME NEW r \in requests, NEW got \in SUBSET ReplyTo(r), Serve(r, got) PROVE Inv'
  <2>1. ReplyTo(r) \subseteq ReplyType
    <3>1. r.seq \in Nat /\ r.count \in Nat BY <1>0, MoldAssumption DEF Requests
    <3>2. r.seq + r.count - 1 \in Int /\ LastSeq \in Int BY <3>1, MoldAssumption
    <3>3. Min({r.seq + r.count - 1, LastSeq}) \in Int BY <3>2, MinPair
    <3>4. \A s \in r.seq .. Min({r.seq + r.count - 1, LastSeq}) : s \in Nat BY <3>1, <3>3
    <3> QED BY <3>4 DEF ReplyTo, ReplyType
  <2>2. Requests' BY <1>0, <1>2 DEF Serve, Requests
  <2>3. replies' \subseteq ReplyType BY <1>0, <1>2, <2>1 DEF Serve
  <2> QED BY <1>0, <1>a, <1>2, <2>2, <2>3, QuietStep DEF Serve, sender, receiver
<1>3. ASSUME NEW i \in 1 .. Min({onWire, Len(Feed)}), PollData(Feed[i]) PROVE Inv'
  <2>0. i \in 1 .. Len(Feed)
    <3>1. Min({onWire, Len(Feed)}) \in Int /\ Min({onWire, Len(Feed)}) <= Len(Feed)
      <4>1. onWire \in Int /\ Len(Feed) \in Int BY <1>0
      <4>2. /\ Min({onWire, Len(Feed)}) \in {onWire, Len(Feed)}
            /\ Min({onWire, Len(Feed)}) <= Len(Feed)
        BY <4>1, MinPair
      <4> QED BY <4>1, <4>2
    <3> QED BY <1>0, <3>1
  <2>1. /\ onWire' = onWire /\ replies' = replies /\ ended' = ended
        /\ UNCHANGED <<next_seq, applied>> /\ polls' = 1 - polls
    BY <1>3 DEF PollData, StartPoll, sender
  <2>2. CASE UNCHANGED <<requests, pending, pc, attempts>>
    BY <1>0, <1>a, <1>b, <1>c, <2>1, <2>2, QuietStep
  <2>3. CASE Resolve(buffer(pending, Feed[i]), 0)
    <3>1. PendOK(buffer(pending, Feed[i])) BY <1>0, <2>0, FeedType, BufferKeeps
    <3>2. 0 \in 0 .. kMaxGapFillAttempts BY <1>0
    <3>3. /\ PendOK(pending)' /\ Requests'
          /\ attempts' \in 0 .. kMaxGapFillAttempts /\ pc' \in {"wait", "drain"}
      BY <2>3, <3>1, <3>2, ResolveKeeps
    <3> QED BY <1>0, <1>c, <2>1, <3>3, QuietStep
  <2> QED BY <1>3, <2>2, <2>3 DEF PollData
<1>4. CASE PollEnd
  BY <1>0, <1>a, <1>b, <1>c, <1>4, QuietStep DEF PollEnd, StartPoll, sender
<1>5. CASE PollIdle
  BY <1>0, <1>a, <1>b, <1>c, <1>5, QuietStep DEF PollIdle, StartPoll, sender
<1>6. ASSUME NEW r \in replies, RecvReply(r) PROVE Inv'
  <2> DEFINE pend == IF already_applied(r) THEN pending ELSE buffer(pending, r)
  <2>1. /\ onWire' = onWire /\ ended' = ended /\ polls' = polls
        /\ UNCHANGED <<next_seq, applied>> /\ replies' \subseteq ReplyType
    BY <1>0, <1>6 DEF RecvReply, sender
  <2>2. PendOK(pend)
    <3>1. r.seq \in Nat /\ r.n \in Nat BY <1>0 DEF ReplyType
    <3> QED BY <1>0, <3>1, BufferKeeps
  <2>3. \/ Resolve(pend, attempts)
        \/ pending' = pend /\ UNCHANGED <<requests, pc, attempts>>
    BY <1>6 DEF RecvReply
  <2> HIDE DEF pend
  <2>4. CASE Resolve(pend, attempts)
    <3>1. /\ PendOK(pending)' /\ Requests'
          /\ attempts' \in 0 .. kMaxGapFillAttempts /\ pc' \in {"wait", "drain"}
      BY <1>0, <2>2, <2>4, ResolveKeeps
    <3> QED BY <1>0, <2>1, <3>1, QuietStep
  <2>5. CASE pending' = pend /\ UNCHANGED <<requests, pc, attempts>>
    <3>1. PendOK(pending)' BY <2>2, <2>5 DEF PendOK
    <3> QED BY <1>0, <1>b, <2>1, <2>5, <3>1, QuietStep
  <2> QED BY <2>3, <2>4, <2>5
<1>7. CASE Timeout
  <2>1. /\ PendOK(pending)' /\ Requests'
        /\ attempts' \in 0 .. kMaxGapFillAttempts /\ pc' \in {"wait", "drain"}
    BY <1>0, <1>7, ResolveKeeps DEF Timeout
  <2> QED BY <1>0, <1>7, <2>1, QuietStep DEF Timeout, sender
<1>8. CASE DrainOne
  <2> DEFINE n == pending[next_seq]
  <2>1. DOMAIN pending # {} /\ first(pending) = next_seq BY <1>8 DEF DrainOne, Contiguous
  <2>2. next_seq \in DOMAIN pending BY <1>0, <2>1, FirstIsLeast
  <2>3. n \in Nat BY <1>0, <2>2 DEF PendOK
  <2>4. /\ applied' = applied \o [i \in 1 .. n |-> next_seq + i - 1]
        /\ next_seq' = next_seq + n /\ pending' = Erase(pending, next_seq)
        /\ UNCHANGED <<onWire, requests, replies, ended, pc, attempts, polls>>
    BY <1>8, <2>1 DEF DrainOne, sender
  <2> HIDE DEF n
  <2>5. PendOK(pending)'
    <3>1. PendOK(Erase(pending, next_seq)) BY <1>0, EraseKeeps
    <3> QED BY <2>4, <3>1 DEF PendOK
  <2>6. InOrderExactlyOnce'
    <3>1. applied = [i \in 1 .. next_seq - 1 |-> i] BY DEF Inv, InOrderExactlyOnce
    <3>2. [i \in 1 .. next_seq - 1 |-> i] \o [i \in 1 .. n |-> next_seq + i - 1]
            = [i \in 1 .. next_seq + n - 1 |-> i]
      BY <1>0, <2>3, Extend
    <3>3. next_seq' - 1 = next_seq + n - 1 BY <1>0, <2>3, <2>4
    <3>4. applied' = [i \in 1 .. next_seq + n - 1 |-> i] BY <2>4, <3>1, <3>2
    <3> QED BY <3>3, <3>4 DEF InOrderExactlyOnce
  <2>7. next_seq' \in Nat \ {0} BY <1>0, <2>3, <2>4
  <2> QED BY <1>0, <1>b, <2>4, <2>5, <2>6, <2>7 DEF Inv, TypeOK, PendOK, Requests
<1>9. CASE DrainEnd
  BY <1>0, <1>a, <1>b, <1>9, QuietStep DEF DrainEnd, sender
<1>10. CASE UNCHANGED vars
  BY <1>0, <1>a, <1>b, <1>10, QuietStep DEF vars, sender, receiver
<1> QED
  BY <1>1, <1>2, <1>3, <1>4, <1>5, <1>6, <1>7, <1>8, <1>9, <1>10 DEF Next, Poll, Wait, Stopped

\* The members keep their types, for every feed.
THEOREM TypeCorrect == Spec => []TypeOK
<1>1. Inv => TypeOK BY DEF Inv
<1> QED BY <1>1, InvInit, InvStep, PTL DEF Spec

\* pending_ never holds more than kMaxPendingPackets packets, for every feed,
\* batched or not.
THEOREM CapHolds == Spec => []PendingBounded
<1>1. Inv => PendingBounded BY DEF Inv, PendOK, PendingBounded
<1> QED BY <1>1, InvInit, InvStep, PTL DEF Spec

\* The handler sees each message once and in order, for every feed and
\* whatever the network does.
THEOREM ExactlyOnce == Spec => []InOrderExactlyOnce
<1>1. Inv => InOrderExactlyOnce BY DEF Inv
<1> QED BY <1>1, InvInit, InvStep, PTL DEF Spec

-----------------------------------------------------------------------------
(* What lies behind next_seq_.                                             *)

\* A value of pending_ whose entries came from a reply or from the feed.
Sourced(pend) ==
  \A k \in DOMAIN pend :
    pend[k] = 1 \/ \E i \in 1 .. Len(Feed) : Feed[i].seq = k /\ Feed[i].n = pend[k]

\* ... and whose keys were overtaken by a batched packet, or not at all.
Ahead(pend) == \A k \in DOMAIN pend : k >= next_seq \/ Overtaken(k)

\* buffer keeps both, of a packet accept lets through.
LEMMA BufferAhead ==
  ASSUME NEW pend, Sourced(pend), Ahead(pend), NEW p, ~already_applied(p), p.seq \in Nat,
         p.n = 1 \/ (\E i \in 1 .. Len(Feed) : p = Feed[i]), next_seq \in Nat
  PROVE  Sourced(buffer(pend, p)) /\ Ahead(buffer(pend, p))
<1>1. p.seq >= next_seq BY DEF already_applied
<1>2. CASE buffer(pend, p) = pend BY <1>2
<1>3. CASE buffer(pend, p) = Put(pend, p.seq, p.n)
  <2>1. ASSUME NEW k \in DOMAIN Put(pend, p.seq, p.n)
        PROVE  \/ k = p.seq /\ Put(pend, p.seq, p.n)[k] = p.n
               \/ k \in DOMAIN pend /\ Put(pend, p.seq, p.n)[k] = pend[k]
    BY <2>1 DEF Put
  <2>2. Sourced(Put(pend, p.seq, p.n)) BY <2>1 DEF Sourced
  <2>3. Ahead(Put(pend, p.seq, p.n)) BY <1>1, <2>1 DEF Ahead
  <2> QED BY <1>3, <2>2, <2>3
<1> QED BY <1>2, <1>3 DEF buffer

BInv == Inv /\ Sourced(pending) /\ Ahead(pending) /\ StaleOnlyByBatch

\* The empty receiver has nothing buffered.
LEMMA BInvInit == Init => BInv
<1> SUFFICES ASSUME Init PROVE BInv OBVIOUS
<1>1. DOMAIN pending = {} BY DEF Init, EmptyMap
<1> QED BY <1>1, InvInit DEF BInv, Sourced, Ahead, StaleOnlyByBatch

\* Every step keeps it.
LEMMA BInvStep == BInv /\ [Next]_vars => BInv'
<1> DEFINE Goal == (Sourced(pending) /\ Ahead(pending) /\ StaleOnlyByBatch)'
<1> SUFFICES ASSUME BInv, [Next]_vars PROVE Goal
  BY InvStep DEF BInv
<1>0. next_seq \in Nat \ {0} /\ PendOK(pending) /\ Sourced(pending) /\ Ahead(pending)
      /\ replies \subseteq ReplyType /\ onWire \in Nat /\ Len(Feed) \in Nat
  BY MoldAssumption DEF BInv, Inv, TypeOK
<1>a. ASSUME UNCHANGED <<next_seq, pending, pc>> PROVE Goal
  BY <1>0, <1>a DEF BInv, Sourced, Ahead, Overtaken, StaleOnlyByBatch
<1>b. ASSUME next_seq' = next_seq, Sourced(pending'), Ahead(pending'), pc' # "poll" PROVE Goal
  BY <1>b DEF Sourced, Ahead, Overtaken, StaleOnlyByBatch
<1> HIDE DEF Goal
<1>1. CASE Send BY <1>1, <1>a DEF Send, receiver
<1>2. ASSUME NEW r \in requests, NEW got \in SUBSET ReplyTo(r), Serve(r, got) PROVE Goal
  BY <1>2, <1>a DEF Serve, receiver
<1>3. ASSUME NEW i \in 1 .. Min({onWire, Len(Feed)}), PollData(Feed[i]) PROVE Goal
  <2>1. i \in 1 .. Len(Feed)
    <3>1. onWire \in Int /\ Len(Feed) \in Int BY <1>0
    <3>2. /\ Min({onWire, Len(Feed)}) \in {onWire, Len(Feed)}
          /\ Min({onWire, Len(Feed)}) <= Len(Feed)
      BY <3>1, MinPair
    <3> QED BY <3>1, <3>2
  <2>2. next_seq' = next_seq BY <1>3 DEF PollData
  <2>3. CASE UNCHANGED <<requests, pending, pc, attempts>> BY <1>a, <2>2, <2>3
  <2>4. CASE ~already_applied(Feed[i]) /\ Resolve(buffer(pending, Feed[i]), 0)
    <3>1. Feed[i].seq \in Nat BY <2>1, FeedType
    <3>2. Sourced(buffer(pending, Feed[i])) /\ Ahead(buffer(pending, Feed[i]))
      BY <1>0, <2>1, <2>4, <3>1, BufferAhead
    <3>3. pending' = buffer(pending, Feed[i]) /\ pc' # "poll" BY <2>4 DEF Resolve
    <3> QED BY <1>b, <2>2, <3>2, <3>3
  <2> QED BY <1>3, <2>3, <2>4 DEF PollData
<1>4. CASE PollEnd BY <1>4, <1>a DEF PollEnd
<1>5. CASE PollIdle BY <1>5, <1>a DEF PollIdle
<1>6. ASSUME NEW r \in replies, RecvReply(r) PROVE Goal
  <2> DEFINE pend == IF already_applied(r) THEN pending ELSE buffer(pending, r)
  <2>1. r.seq \in Nat /\ r.n = 1 BY <1>0 DEF ReplyType
  <2>2. Sourced(pend) /\ Ahead(pend)
    <3>1. CASE already_applied(r) BY <1>0, <3>1
    <3>2. CASE ~already_applied(r) BY <1>0, <2>1, <3>2, BufferAhead
    <3> QED BY <3>1, <3>2
  <2>3. next_seq' = next_seq /\ pc = "wait" BY <1>6 DEF RecvReply
  <2>4. Resolve(pend, attempts) \/ (pending' = pend /\ UNCHANGED <<requests, pc, attempts>>)
    BY <1>6 DEF RecvReply
  <2> HIDE DEF pend
  <2>5. pending' = pend /\ pc' # "poll" BY <2>3, <2>4 DEF Resolve
  <2> QED BY <1>b, <2>2, <2>3, <2>5
<1>7. CASE Timeout
  <2>1. pending' = pending /\ pc' # "poll" /\ next_seq' = next_seq BY <1>7 DEF Timeout, Resolve
  <2> QED BY <1>0, <1>b, <2>1
<1>8. CASE DrainOne
  <2> DEFINE n == pending[next_seq]
  <2>1. DOMAIN pending # {} /\ first(pending) = next_seq /\ pc = "drain"
    BY <1>8 DEF DrainOne, Contiguous
  <2>2. next_seq \in DOMAIN pending BY <1>0, <2>1, FirstIsLeast
  <2>3. n \in Nat BY <1>0, <2>2 DEF PendOK
  <2>4. next_seq' = next_seq + n /\ pending' = Erase(pending, next_seq) /\ pc' = "drain"
    BY <1>8, <2>1 DEF DrainOne
  <2>5. \A k \in DOMAIN pending' : k \in DOMAIN pending /\ k # next_seq /\ pending'[k] = pending[k]
    BY <2>4 DEF Erase
  <2>6. ASSUME NEW k \in DOMAIN pending' PROVE k >= next_seq' \/ Overtaken(k)'
    <3>1. k \in Nat /\ k > next_seq
      <4>1. k \in DOMAIN pending /\ k # next_seq BY <2>5
      <4>2. first(pending) <= k BY <1>0, <4>1, FirstIsLeast
      <4> QED BY <1>0, <2>1, <4>1, <4>2 DEF PendOK
    <3> SUFFICES ASSUME k < next_seq + n PROVE Overtaken(k)' BY <1>0, <2>3, <2>4, <3>1
    <3>2. n # 1 BY <1>0, <3>1
    <3>3. PICK i \in 1 .. Len(Feed) : Feed[i].seq = next_seq /\ Feed[i].n = n
      BY <1>0, <2>2, <3>2 DEF Sourced
    <3>4. /\ Feed[i].seq < k /\ k < Feed[i].seq + Feed[i].n
          /\ Feed[i].seq + Feed[i].n <= next_seq + n
      BY <1>0, <2>3, <3>1, <3>3
    <3> QED BY <2>4, <3>4 DEF Overtaken
  <2>7. Sourced(pending') BY <1>0, <2>5 DEF Sourced
  <2> QED BY <2>4, <2>6, <2>7 DEF Goal, Sourced, Ahead, StaleOnlyByBatch
<1>9. CASE DrainEnd
  <2>1. ~Contiguous /\ UNCHANGED <<next_seq, pending>> BY <1>9 DEF DrainEnd
  <2>2. ASSUME NEW k \in DOMAIN pending
        PROVE  k > next_seq \/ \E j \in DOMAIN pending : j <= k /\ Overtaken(j)
    <3>1. first(pending) \in DOMAIN pending /\ first(pending) <= k BY <1>0, FirstIsLeast
    <3>2. first(pending) \in Nat /\ first(pending) # next_seq /\ k \in Nat
      BY <1>0, <2>1, <3>1 DEF PendOK, Contiguous
    <3>3. CASE first(pending) > next_seq BY <1>0, <3>1, <3>2, <3>3
    <3>4. CASE first(pending) < next_seq BY <1>0, <3>1, <3>2, <3>4 DEF Ahead
    <3> QED BY <1>0, <3>2, <3>3, <3>4
  <2> QED BY <1>0, <2>1, <2>2 DEF Goal, Sourced, Ahead, Overtaken, StaleOnlyByBatch
<1>10. CASE UNCHANGED vars BY <1>10, <1>a DEF vars, receiver
<1> QED
  BY <1>1, <1>2, <1>3, <1>4, <1>5, <1>6, <1>7, <1>8, <1>9, <1>10 DEF Next, Poll, Wait, Stopped

\* The only way a key of pending_ falls behind next_seq_, for every feed, cap
\* and number of attempts and whatever is lost, repeated or late: a reply
\* buffered inside a batched packet that is applied after it.
THEOREM StaleNeedsABatch == Spec => []StaleOnlyByBatch
<1>1. BInv => StaleOnlyByBatch BY DEF BInv
<1> QED BY <1>1, BInvInit, BInvStep, PTL DEF Spec

\* So when every packet carries one message, as net::MoldUdp64Sender sends
\* them, the wedge a batched feed runs into cannot happen.
THEOREM SinglesNeverStale ==
  ASSUME \A i \in 1 .. Len(Feed) : Feed[i].n = 1
  PROVE  Spec => []NothingStale
<1>1. BInv => NothingStale
  <2> SUFFICES ASSUME BInv, pc = "poll", NEW k \in DOMAIN pending PROVE k > next_seq
    BY DEF NothingStale
  <2>1. ASSUME NEW j \in DOMAIN pending PROVE ~Overtaken(j)
    <3>1. j \in Nat BY DEF BInv, Inv, PendOK
    <3>2. ASSUME NEW i \in 1 .. Len(Feed) PROVE ~(Feed[i].seq < j /\ j < Feed[i].seq + Feed[i].n)
      BY <3>1, FeedType
    <3> QED BY <3>2 DEF Overtaken
  <2> QED BY <2>1 DEF BInv, StaleOnlyByBatch
<1> QED BY <1>1, BInvInit, BInvStep, PTL DEF Spec

-----------------------------------------------------------------------------
(* LiveReplay.                                                             *)

\* A value of pending_ that holds only messages of the session.
Within(pend) == \A k \in DOMAIN pend : k + pend[k] <= LastSeq + 1

\* What the receiver has buffered, been sent and delivered is of the session.
Session ==
  /\ Within(pending) /\ next_seq <= LastSeq + 1
  /\ \A r \in replies : r.seq <= LastSeq

Frames == {Messages[i] : i \in 1 .. LastSeq}

\* The books are those of the messages delivered so far.
BooksInv == builder = Sequential(SubSeq(Messages, 1, next_seq - 1))

\* What the calls before the n-th of a constructor have opened.
ReceiverHolds(n) == IF n = 1 THEN {} ELSE IF n <= 7 THEN {"data"} ELSE {"data", "request"}
SenderHolds(n)   == IF n = 1 THEN {} ELSE IF n <= 3 THEN {"data"} ELSE {"data", "request"}

SocketInv ==
  /\ rphase \in {"opening", "running", "exited"} /\ sphase \in {"opening", "sending", "serving", "exited"}
  /\ rphase = "opening" => rstep \in 1 .. 8 /\ fds = ReceiverHolds(rstep)
  /\ sphase = "opening" => sstep \in 1 .. 4 /\ sfds = SenderHolds(sstep)
  /\ rphase = "exited" => fds = {}
  /\ sphase = "exited" => sfds = {}

LiveInv == BInv /\ Session /\ BooksInv /\ SocketInv /\ joined \in Nat

\* buffer keeps to the session.
LEMMA BufferWithin ==
  ASSUME NEW pend, Within(pend), NEW p, p.seq + p.n <= LastSeq + 1
  PROVE  Within(buffer(pend, p))
<1>1. CASE buffer(pend, p) = pend
  BY <1>1
<1>2. CASE buffer(pend, p) = Put(pend, p.seq, p.n)
  BY <1>2 DEF Within, Put
<1> QED BY <1>1, <1>2 DEF buffer

\* A step that delivers nothing and buffers only messages of the session.
LEMMA SessionQuiet ==
  ASSUME Session, next_seq' = next_seq, Within(pending'), replies' \subseteq replies
  PROVE  Session'
BY DEF Session, Within

\* Each step of the receiver and of the network keeps to the session.
LEMMA SessionStep ==
  ASSUME Inv, Session, [Next]_vars
  PROVE  Session'
<1>0. /\ Within(pending) /\ LastSeq \in Nat /\ next_seq \in Nat \ {0} /\ PendOK(pending)
      /\ Len(Feed) \in Nat /\ onWire \in Nat /\ replies \subseteq ReplyType /\ Requests
  BY MoldAssumption DEF Session, Inv, TypeOK, Requests
<1>a. ASSUME UNCHANGED <<next_seq, pending, replies>> PROVE Session'
  BY <1>a DEF Session, Within
<1>1. CASE Send \/ PollEnd \/ PollIdle \/ Timeout \/ DrainEnd \/ UNCHANGED vars
  BY <1>1, <1>a DEF Send, PollEnd, PollIdle, Timeout, Resolve, DrainEnd, vars, receiver
<1>2. ASSUME NEW r \in requests, NEW got \in SUBSET ReplyTo(r), Serve(r, got) PROVE Session'
  <2>1. r.seq \in Nat /\ r.count \in Nat
    BY <1>0, MoldAssumption DEF Requests
  <2>2. r.seq + r.count - 1 \in Int /\ LastSeq \in Int
    BY <1>0, <2>1
  <2> DEFINE m == Min({r.seq + r.count - 1, LastSeq})
  <2>3. m <= LastSeq /\ m \in {r.seq + r.count - 1, LastSeq}
    BY <2>2, MinPair
  <2>4. \A s \in r.seq .. m : s <= LastSeq
    <3> HIDE DEF m
    <3> QED BY <2>1, <2>2, <2>3
  <2>5. \A q \in ReplyTo(r) : q.seq <= LastSeq
    BY <2>4 DEF ReplyTo
  <2>6. \A q \in replies' : q.seq <= LastSeq
    BY <1>2, <2>5 DEF Serve, Session
  <2> QED BY <1>2, <2>6 DEF Serve, Session, Within, receiver
<1>3. ASSUME NEW i \in 1 .. Min({onWire, Len(Feed)}), PollData(Feed[i]) PROVE Session'
  <2>1. i \in 1 .. Len(Feed)
    <3>1. onWire \in Int /\ Len(Feed) \in Int
      BY <1>0
    <3>2. /\ Min({onWire, Len(Feed)}) \in {onWire, Len(Feed)}
          /\ Min({onWire, Len(Feed)}) <= Len(Feed)
      BY <3>1, MinPair
    <3> QED BY <3>1, <3>2
  <2>2. Within(buffer(pending, Feed[i]))
    BY <1>0, <2>1, LiveAssumption, BufferWithin
  <2>3. pending' = pending \/ pending' = buffer(pending, Feed[i])
    BY <1>3 DEF PollData, Resolve
  <2>4. Within(pending')
    BY <1>0, <2>2, <2>3
  <2> QED BY <1>3, <2>4, SessionQuiet DEF PollData
<1>4. ASSUME NEW r \in replies, RecvReply(r) PROVE Session'
  <2>1. r.seq \in Nat /\ r.n = 1 /\ r.seq <= LastSeq
    BY <1>0 DEF ReplyType, Session
  <2>2. Within(buffer(pending, r))
    <3>1. r.seq + r.n <= LastSeq + 1
      BY <1>0, <2>1
    <3> QED BY <1>0, <3>1, BufferWithin
  <2>3. pending' = pending \/ pending' = buffer(pending, r)
    BY <1>4 DEF RecvReply, Resolve
  <2>4. Within(pending')
    BY <1>0, <2>2, <2>3
  <2> QED BY <1>4, <2>4, SessionQuiet DEF RecvReply
<1>5. CASE DrainOne
  <2>1. DOMAIN pending # {} /\ first(pending) = next_seq
    BY <1>5 DEF DrainOne, Contiguous
  <2>2. next_seq \in DOMAIN pending
    BY <1>0, <2>1, FirstIsLeast
  <2>3. next_seq' = next_seq + pending[next_seq] /\ pending' = Erase(pending, next_seq)
        /\ replies' = replies
    BY <1>5, <2>1 DEF DrainOne
  <2>4. next_seq' <= LastSeq + 1
    BY <1>0, <2>2, <2>3 DEF Within
  <2>5. Within(pending')
    BY <1>0, <2>3 DEF Within, Erase
  <2> QED BY <2>3, <2>4, <2>5 DEF Session, Within
<1> QED BY <1>1, <1>2, <1>3, <1>4, <1>5 DEF Next, Poll, Wait, Stopped

\* The numbers 1 .. m as a sequence.
LEMMA Counting ==
  ASSUME NEW m \in Nat, NEW s, s = [i \in 1 .. m |-> i]
  PROVE  s \in Seq(Nat) /\ Len(s) = m /\ \A i \in 1 .. m : s[i] = i
OBVIOUS

\* The session is a sequence of frames.
LEMMA MessagesSeq == Messages \in Seq(Frames) /\ Len(Messages) = LastSeq
<1>1. PICK T : Messages \in [1 .. LastSeq -> T]
  BY LiveAssumption, Zenon
<1>2. LastSeq \in Nat
  BY MoldAssumption
<1>3. Messages \in [1 .. LastSeq -> Frames]
  BY <1>1 DEF Frames
<1> QED BY <1>2, <1>3

\* A packet that is drained takes the books on by its messages.
LEMMA DrainBooks ==
  ASSUME LiveInv, LiveDrain
  PROVE  BooksInv'
<1>1. /\ LastSeq \in Nat /\ next_seq \in Nat \ {0} /\ next_seq <= LastSeq + 1
      /\ applied = [i \in 1 .. next_seq - 1 |-> i]
  BY MoldAssumption DEF LiveInv, BInv, Inv, TypeOK, Session, InOrderExactlyOnce
<1>2. Inv' /\ Session'
  BY InvStep, SessionStep DEF LiveInv, BInv, LiveDrain, Draining, Next
<1>3. PICK n \in Nat : next_seq' = next_seq + n
  <2>1. CASE DrainOne
    <3>1. DOMAIN pending # {} /\ first(pending) = next_seq /\ PendOK(pending)
      BY <2>1 DEF DrainOne, Contiguous, LiveInv, BInv, Inv
    <3>2. pending[next_seq] \in Nat
      BY <3>1, FirstIsLeast DEF PendOK
    <3> QED BY <2>1, <3>1, <3>2 DEF DrainOne
  <2>2. CASE DrainEnd
    BY <1>1, <2>2 DEF DrainEnd
  <2> QED BY <2>1, <2>2 DEF LiveDrain, Draining
<1>4. next_seq + n <= LastSeq + 1
  BY <1>2, <1>3 DEF Session
<1>5. PICK a : a = applied'
  OBVIOUS
<1>6. a = [i \in 1 .. next_seq + n - 1 |-> i]
  <2>1. next_seq' - 1 = next_seq + n - 1
    BY <1>1, <1>3
  <2> QED BY <1>2, <1>5, <2>1 DEF Inv, InOrderExactlyOnce
<1> DEFINE packet == SubSeq(a, Len(applied) + 1, Len(a))
           new == [i \in DOMAIN packet |-> Messages[packet[i]]]
           s == SubSeq(Messages, 1, next_seq - 1)
<1>7. DOMAIN packet = 1 .. n /\ \A i \in 1 .. n : packet[i] = next_seq + i - 1
  <2>1. /\ next_seq - 1 \in Nat /\ next_seq + n - 1 \in Nat
        /\ next_seq - 1 + 1 = next_seq /\ next_seq \in Nat \ {0}
    BY <1>1
  <2>2. /\ Len(applied) = next_seq - 1
        /\ a \in Seq(Nat) /\ Len(a) = next_seq + n - 1
        /\ \A i \in 1 .. next_seq + n - 1 : a[i] = i
    BY <1>1, <1>6, <2>1, Counting
  <2>3. packet = SubSeq(a, next_seq, next_seq + n - 1)
    BY <2>1, <2>2
  <2> HIDE DEF packet
  <2>4. /\ packet \in Seq(Nat) /\ Len(packet) = n
        /\ \A i \in 1 .. n : packet[i] = a[next_seq + i - 1]
    BY <2>1, <2>2, <2>3
  <2>5. \A i \in 1 .. n : next_seq + i - 1 \in 1 .. next_seq + n - 1
    BY <1>1
  <2> QED BY <2>2, <2>4, <2>5
<1>8. Messages \in Seq(Frames) /\ Len(Messages) = LastSeq
  BY MessagesSeq
<1>9. s \in Seq(Frames) /\ Len(s) = next_seq - 1
      /\ \A i \in 1 .. next_seq - 1 : s[i] = Messages[i]
  BY <1>1, <1>8
<1> HIDE DEF packet
<1>10. /\ new \in Seq(Frames) /\ Len(new) = n
       /\ \A i \in 1 .. n : new[i] = Messages[next_seq + i - 1]
  <2>1. new = [i \in 1 .. n |-> Messages[next_seq + i - 1]]
    BY <1>7
  <2>2. \A i \in 1 .. n : next_seq + i - 1 \in 1 .. LastSeq
    BY <1>1, <1>4
  <2>3. \A i \in 1 .. n : Messages[next_seq + i - 1] \in Frames
    BY <2>2 DEF Frames
  <2> HIDE DEF new
  <2> QED BY <2>1, <2>3
<1> HIDE DEF s, new
<1>11. s \o new = SubSeq(Messages, 1, next_seq + n - 1)
  <2> DEFINE l == s \o new
             r == SubSeq(Messages, 1, next_seq + n - 1)
  <2>1. /\ l \in Seq(Frames) /\ Len(l) = Len(s) + Len(new)
        /\ \A i \in 1 .. Len(s) + Len(new) : l[i] = IF i <= Len(s) THEN s[i] ELSE new[i - Len(s)]
    BY <1>9, <1>10, ConcatProperties
  <2>2. next_seq + n - 1 \in 0 .. LastSeq
    BY <1>1, <1>4
  <2>3. /\ r \in Seq(Frames) /\ Len(r) = next_seq + n - 1
        /\ \A i \in 1 .. next_seq + n - 1 : r[i] = Messages[i]
    BY <1>8, <2>2
  <2>4. Len(l) = Len(r)
    BY <1>1, <1>9, <1>10, <2>1, <2>3
  <2>5. ASSUME NEW i \in 1 .. Len(l) PROVE l[i] = r[i]
    <3>1. i \in 1 .. next_seq + n - 1 /\ r[i] = Messages[i]
      BY <2>3, <2>4
    <3>0. i \in 1 .. Len(s) + Len(new) /\ Len(s) = next_seq - 1 /\ i \in Nat
      BY <1>9, <2>1
    <3>2. CASE i <= next_seq - 1
      <4>1. l[i] = s[i] /\ i \in 1 .. next_seq - 1
        BY <1>1, <2>1, <3>0, <3>2
      <4> QED BY <1>9, <3>1, <4>1
    <3>3. CASE i > next_seq - 1
      <4>1. i - (next_seq - 1) \in 1 .. n /\ next_seq + (i - (next_seq - 1)) - 1 = i
        BY <1>1, <3>1, <3>3
      <4>2. l[i] = new[i - (next_seq - 1)]
        BY <1>1, <2>1, <3>0, <3>3
      <4>3. \A j \in 1 .. n : new[j] = Messages[next_seq + j - 1]
        BY <1>10
      <4>4. new[i - (next_seq - 1)] = Messages[next_seq + (i - (next_seq - 1)) - 1]
        BY <4>1, <4>3
      <4> QED BY <3>1, <4>1, <4>2, <4>4
    <3> QED BY <1>1, <3>1, <3>2, <3>3
  <2> HIDE DEF l, r
  <2>6. l = r
    BY <2>1, <2>3, <2>4, <2>5, SeqEqual
  <2> QED BY <2>6 DEF l, r
<1>12. builder' = DispatchAll(new, builder)
  BY <1>5 DEF LiveDrain, new, packet
<1>13. builder = DispatchAll(s, NewBuilder)
  BY DEF LiveInv, BooksInv, Sequential, s
<1>14. \A b : DispatchAll(s \o new, b) = DispatchAll(new, DispatchAll(s, b))
  <2>1. \A b : FoldAll(s \o new, b) = FoldAll(new, FoldAll(s, b))
    BY <1>9, <1>10, FoldConcat, Zenon
  <2>2. \A t, b : DispatchAll(t, b) = FoldAll(t, b)
    BY DEF DispatchAll, FoldLeft, FoldAll
  <2> QED BY <2>1, <2>2
<1>15. builder' = Sequential(SubSeq(Messages, 1, next_seq + n - 1))
  BY <1>11, <1>12, <1>13, <1>14 DEF Sequential
<1>16. next_seq' - 1 = next_seq + n - 1
  BY <1>1, <1>3
<1> QED BY <1>15, <1>16 DEF BooksInv

\* Both processes before their first call.
LEMMA LiveInvInit ==
  ASSUME LiveInit
  PROVE  LiveInv
<1>1. BInv /\ next_seq = 1 /\ replies = {} /\ DOMAIN pending = {}
  BY BInvInit DEF LiveInit, Init, EmptyMap
<1>2. Session
  BY <1>1, MoldAssumption DEF Session, Within
<1>3. BooksInv
  <2>1. SubSeq(Messages, 1, 0) = << >>
    BY MessagesSeq
  <2>2. next_seq - 1 = 0
    BY <1>1
  <2>3. Sequential(<< >>) = FoldAll(<< >>, NewBuilder)
    BY DEF Sequential, DispatchAll, FoldLeft, FoldAll
  <2>4. FoldAll(<< >>, NewBuilder) = NewBuilder
    BY FoldEmpty
  <2> QED BY <2>1, <2>2, <2>3, <2>4 DEF BooksInv, LiveInit
<1>4. SocketInv
  BY DEF LiveInit, SocketInv, ReceiverHolds, SenderHolds
<1> QED BY <1>1, <1>2, <1>3, <1>4 DEF LiveInv, LiveInit

\* A step that moves neither process on.
LEMMA SocketSame ==
  ASSUME SocketInv, UNCHANGED <<rphase, rstep, fds, sphase, sstep, sfds>>
  PROVE  SocketInv'
BY DEF SocketInv

\* What the n-th call opens, and that its failure closes all that is open.
LEMMA ReceiverCallIs ==
  ASSUME NEW n \in 1 .. 8
  PROVE  /\ ReceiverHolds(n) \ ReceiverCalls[n].closes = {}
         /\ n # 8 => ReceiverHolds(n + 1) = ReceiverHolds(n) \cup ReceiverCalls[n].opens
<1>1. CASE n = 1
  <2>1. ReceiverCalls[1] = Call("socket", {"data"}, {})
    BY DEF ReceiverCalls
  <2> QED BY <1>1, <2>1 DEF ReceiverHolds, Call
<1>2. CASE n = 2
  <2>1. ReceiverCalls[2] = Call("SO_REUSEADDR", {}, {"data"})
    BY DEF ReceiverCalls
  <2> QED BY <1>2, <2>1 DEF ReceiverHolds, Call
<1>3. CASE n = 3
  <2>1. ReceiverCalls[3] = Call("bind", {}, {"data"})
    BY DEF ReceiverCalls
  <2> QED BY <1>3, <2>1 DEF ReceiverHolds, Call
<1>4. CASE n = 4
  <2>1. ReceiverCalls[4] = Call("group", {}, {"data"})
    BY DEF ReceiverCalls
  <2> QED BY <1>4, <2>1 DEF ReceiverHolds, Call
<1>5. CASE n = 5
  <2>1. ReceiverCalls[5] = Call("join", {}, {"data"})
    BY DEF ReceiverCalls
  <2> QED BY <1>5, <2>1 DEF ReceiverHolds, Call
<1>6. CASE n = 6
  <2>1. ReceiverCalls[6] = Call("SO_RCVTIMEO", {}, {"data"})
    BY DEF ReceiverCalls
  <2> QED BY <1>6, <2>1 DEF ReceiverHolds, Call
<1>7. CASE n = 7
  <2>1. ReceiverCalls[7] = Call("request_socket", {"request"}, {"data"})
    BY DEF ReceiverCalls
  <2>2. ReceiverCalls[n].opens = {"request"} /\ ReceiverCalls[n].closes = {"data"}
    BY <1>7, <2>1 DEF Call
  <2>3. ReceiverHolds(n) = {"data"} /\ ReceiverHolds(n + 1) = {"data", "request"}
    BY <1>7 DEF ReceiverHolds
  <2> QED BY <1>7, <2>2, <2>3
<1>8. CASE n = 8
  <2>1. ReceiverCalls[8] = Call("request_host", {}, {"request", "data"})
    BY DEF ReceiverCalls
  <2>2. ReceiverCalls[n].opens = {} /\ ReceiverCalls[n].closes = {"request", "data"}
    BY <1>8, <2>1 DEF Call
  <2>3. ReceiverHolds(n) = {"data", "request"}
    BY <1>8 DEF ReceiverHolds
  <2> QED BY <1>8, <2>2, <2>3
<1> QED BY <1>1, <1>2, <1>3, <1>4, <1>5, <1>6, <1>7, <1>8

\* The same of the sender's calls.
LEMMA SenderCallIs ==
  ASSUME NEW n \in 1 .. 4
  PROVE  /\ SenderHolds(n) \ SenderCalls[n].closes = {}
         /\ n # 4 => SenderHolds(n + 1) = SenderHolds(n) \cup SenderCalls[n].opens
<1>1. CASE n = 1
  <2>1. SenderCalls[1] = Call("socket", {"data"}, {})
    BY DEF SenderCalls
  <2> QED BY <1>1, <2>1 DEF SenderHolds, Call
<1>2. CASE n = 2
  <2>1. SenderCalls[2] = Call("group", {}, {"data"})
    BY DEF SenderCalls
  <2> QED BY <1>2, <2>1 DEF SenderHolds, Call
<1>3. CASE n = 3
  <2>1. SenderCalls[3] = Call("request_socket", {"request"}, {"data"})
    BY DEF SenderCalls
  <2>2. SenderCalls[n].opens = {"request"} /\ SenderCalls[n].closes = {"data"}
    BY <1>3, <2>1 DEF Call
  <2>3. SenderHolds(n) = {"data"} /\ SenderHolds(n + 1) = {"data", "request"}
    BY <1>3 DEF SenderHolds
  <2> QED BY <1>3, <2>2, <2>3
<1>4. CASE n = 4
  <2>1. SenderCalls[4] = Call("bind", {}, {"request", "data"})
    BY DEF SenderCalls
  <2>2. SenderCalls[n].opens = {} /\ SenderCalls[n].closes = {"request", "data"}
    BY <1>4, <2>1 DEF Call
  <2>3. SenderHolds(n) = {"data", "request"}
    BY <1>4 DEF SenderHolds
  <2> QED BY <1>4, <2>2, <2>3
<1> QED BY <1>1, <1>2, <1>3, <1>4

\* Each call of the receiver's constructors, and its failure.
LEMMA ReceiverOpens ==
  ASSUME SocketInv, OpenReceiver
  PROVE  SocketInv'
<1>1. /\ rphase = "opening" /\ rstep \in 1 .. 8 /\ fds = ReceiverHolds(rstep)
      /\ UNCHANGED <<sphase, sstep, sfds>>
  BY DEF OpenReceiver, SocketInv, sproc
<1>2. Len(ReceiverCalls) = 8
  BY DEF ReceiverCalls
<1>3. CASE rphase' = "exited" /\ fds' = fds \ ReceiverCalls[rstep].closes
  <2>1. fds' = {}
    BY <1>1, <1>3, ReceiverCallIs
  <2> QED BY <1>1, <1>3, <2>1 DEF SocketInv
<1>4. CASE /\ rstep' = rstep + 1 /\ fds' = fds \cup ReceiverCalls[rstep].opens
           /\ rphase' = IF rstep = Len(ReceiverCalls) THEN "running" ELSE rphase
  <2>1. CASE rstep = 8
    BY <1>1, <1>2, <1>4, <2>1 DEF SocketInv
  <2>2. CASE rstep # 8
    <3>1. rphase' = "opening" /\ rstep' \in 1 .. 8
      BY <1>1, <1>2, <1>4, <2>2
    <3>2. fds' = ReceiverHolds(rstep + 1)
      BY <1>1, <1>4, <2>2, ReceiverCallIs
    <3>3. fds' = ReceiverHolds(rstep')
      BY <1>4, <3>2
    <3> QED BY <1>1, <3>1, <3>3 DEF SocketInv
  <2> QED BY <2>1, <2>2
<1> QED BY <1>3, <1>4 DEF OpenReceiver

\* Each call of the sender's constructor, and its failure.
LEMMA SenderOpens ==
  ASSUME SocketInv, OpenSender
  PROVE  SocketInv'
<1>1. /\ sphase = "opening" /\ sstep \in 1 .. 4 /\ sfds = SenderHolds(sstep)
      /\ UNCHANGED <<rphase, rstep, fds>>
  BY DEF OpenSender, SocketInv, rproc
<1>2. Len(SenderCalls) = 4
  BY DEF SenderCalls
<1>3. CASE sphase' = "exited" /\ sfds' = sfds \ SenderCalls[sstep].closes
  <2>1. sfds' = {}
    BY <1>1, <1>3, SenderCallIs
  <2> QED BY <1>1, <1>3, <2>1 DEF SocketInv
<1>4. CASE /\ sstep' = sstep + 1 /\ sfds' = sfds \cup SenderCalls[sstep].opens
           /\ sphase' = IF sstep = Len(SenderCalls) THEN "sending" ELSE sphase
  <2>1. CASE sstep = 4
    BY <1>1, <1>2, <1>4, <2>1 DEF SocketInv
  <2>2. CASE sstep # 4
    <3>1. sphase' = "opening" /\ sstep' \in 1 .. 4
      BY <1>1, <1>2, <1>4, <2>2
    <3>2. sfds' = SenderHolds(sstep + 1)
      BY <1>1, <1>4, <2>2, SenderCallIs
    <3>3. sfds' = SenderHolds(sstep')
      BY <1>4, <3>2
    <3> QED BY <1>1, <3>1, <3>3 DEF SocketInv
  <2> QED BY <2>1, <2>2
<1> QED BY <1>3, <1>4 DEF OpenSender

\* Every step of either process keeps it.
LEMMA LiveInvStep ==
  ASSUME LiveInv, [LiveNext]_lvars
  PROVE  LiveInv'
<1>0. /\ BInv /\ Inv /\ Session /\ BooksInv /\ SocketInv
      /\ joined \in Nat /\ onWire \in Nat /\ Len(Feed) \in Nat
  BY MoldAssumption DEF LiveInv, BInv, Inv, TypeOK
<1>1. ASSUME [Next]_vars PROVE BInv' /\ Session'
  BY <1>0, <1>1, BInvStep, SessionStep
<1>2. ASSUME UNCHANGED <<builder, next_seq>> PROVE BooksInv'
  BY <1>0, <1>2 DEF BooksInv
<1>3. ASSUME UNCHANGED <<rproc, sproc>> PROVE SocketInv'
  BY <1>0, <1>3, SocketSame DEF rproc, sproc
<1>4. CASE OpenReceiver \/ OpenSender
  <2>1. UNCHANGED <<vars, builder, next_seq>> /\ joined' \in {joined, onWire}
    BY <1>4 DEF OpenReceiver, OpenSender, vars, receiver, rproc
  <2> QED BY <1>0, <1>1, <1>2, <1>4, <2>1, ReceiverOpens, SenderOpens DEF LiveInv
<1>5. CASE SenderServes \/ LivePoll \/ LiveWait
  <2>1. UNCHANGED <<rproc, sproc>>
    BY <1>5 DEF SenderServes, LivePoll, LiveWait
  <2>2. Next
    <3>1. CASE LivePoll
      <4>1. SUFFICES ASSUME NEW i \in joined + 1 .. Min({onWire, Len(Feed)}), PollData(Feed[i])
                     PROVE  Next
        BY <3>1 DEF LivePoll, Next, Poll
      <4>2. i \in 1 .. Min({onWire, Len(Feed)})
        <5>1. onWire \in Int /\ Len(Feed) \in Int
          BY <1>0
        <5>2. Min({onWire, Len(Feed)}) \in {onWire, Len(Feed)}
          BY <5>1, MinPair
        <5> QED BY <1>0, <5>1, <5>2
      <4> QED BY <4>1, <4>2 DEF Next, Poll
    <3> QED BY <1>5, <3>1 DEF SenderServes, LiveWait, Next
  <2>3. next_seq' = next_seq
    BY <1>5 DEF SenderServes, Serve, receiver, LivePoll, PollData, PollEnd, PollIdle,
                LiveWait, Wait, RecvReply, Timeout
  <2> QED BY <1>0, <1>1, <1>2, <1>3, <2>1, <2>2, <2>3 DEF LiveInv, rproc
<1>6. CASE SenderSends
  <2>1. Next /\ UNCHANGED <<rproc, sstep, sfds, next_seq>> /\ sphase = "sending"
        /\ sphase' \in {"sending", "serving"}
    BY <1>6 DEF SenderSends, Next, Send, receiver
  <2>2. SocketInv'
    BY <1>0, <2>1 DEF SocketInv, rproc
  <2> QED BY <1>0, <1>1, <1>2, <2>1, <2>2 DEF LiveInv, rproc
<1>7. CASE SenderExits
  <2>1. UNCHANGED <<vars, rproc, sstep>> /\ sphase' = "exited" /\ sfds' = {}
    BY <1>7 DEF SenderExits
  <2>2. SocketInv'
    BY <1>0, <2>1 DEF SocketInv, rproc
  <2> QED BY <1>0, <1>1, <1>2, <2>1, <2>2 DEF LiveInv, rproc, vars, receiver
<1>8. CASE LiveDrain
  <2>1. Next /\ BooksInv' /\ joined' = joined
    BY <1>8, DrainBooks DEF LiveDrain, Draining, Next
  <2>2. SocketInv'
    BY <1>0, <1>8, SocketSame DEF LiveDrain, sproc
  <2> QED BY <1>0, <1>1, <2>1, <2>2 DEF LiveInv
<1>9. CASE LiveStops
  <2>1. UNCHANGED <<vars, builder, next_seq, joined, sproc>> /\ rphase' = "exited" /\ fds' = {}
    BY <1>9 DEF LiveStops, vars, receiver
  <2>2. SocketInv'
    BY <1>0, <2>1 DEF SocketInv, sproc
  <2> QED BY <1>0, <1>1, <1>2, <2>1, <2>2 DEF LiveInv
<1>10. CASE Sigint \/ BothExited \/ UNCHANGED lvars
  <2>1. UNCHANGED <<vars, builder, next_seq, joined, rphase, rstep, fds, sproc>>
    BY <1>10 DEF Sigint, BothExited, lvars, rproc, vars, receiver
  <2>2. SocketInv'
    BY <1>0, <2>1, SocketSame DEF sproc
  <2> QED BY <1>0, <1>1, <1>2, <2>1, <2>2 DEF LiveInv
<1> QED BY <1>4, <1>5, <1>6, <1>7, <1>8, <1>9, <1>10 DEF LiveNext, Receiving, Sending

\* live_replay and multicast_sender, for every feed and session, every loss and
\* reordering, a join at any moment, a failure of any call and a Ctrl-C at any
\* moment: no socket is left open, and a report of success shows the books of
\* exactly the messages below next_seq_.
THEOREM ExitsClean == LiveSpec => []ExitIsClean
<1>1. LiveInit => LiveInv
  BY LiveInvInit
<1>2. LiveInv /\ [LiveNext]_lvars => LiveInv'
  BY LiveInvStep
<1>3. LiveInv => ExitIsClean
  BY DEF LiveInv, SocketInv, BooksInv, ExitIsClean
<1> QED BY <1>1, <1>2, <1>3, PTL DEF LiveSpec

\* The receiver of live_replay is MoldReceiver's: what the handler sees inside
\* the two processes is each message once and in order, and only a batched
\* packet leaves something stale behind.
THEOREM LiveExactlyOnce == LiveSpec => [](InOrderExactlyOnce /\ PendingBounded /\ StaleOnlyByBatch)
<1>1. LiveInit => LiveInv
  BY LiveInvInit
<1>2. LiveInv /\ [LiveNext]_lvars => LiveInv'
  BY LiveInvStep
<1>3. LiveInv => InOrderExactlyOnce /\ PendingBounded /\ StaleOnlyByBatch
  BY DEF LiveInv, BInv, Inv, PendOK, PendingBounded
<1> QED BY <1>1, <1>2, <1>3, PTL DEF LiveSpec

=============================================================================

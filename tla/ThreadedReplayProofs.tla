------------------------ MODULE ThreadedReplayProofs ------------------------
(***************************************************************************)
(* SpscQueue, for every capacity, value set and number of elements: no     *)
(* slot race, FIFO delivery, the brackets of size() and the refinement of  *)
(* BoundedFifo.  Then ThreadedReplay over it: the builder thread never     *)
(* leaves a frame behind, and what replay_threaded reports.                *)
(*                                                                         *)
(* The indices the code compares are residues, the argument is about the   *)
(* counts behind them: headSeen <= Len(rcvd) <= tailSeen <= Len(sent),     *)
(* and Len(sent) never exceeds headSeen by more than Capacity - 1, so two  *)
(* counts in play are equal exactly when their residues are.               *)
(***************************************************************************)
EXTENDS ThreadedReplay, FileReplayProofs

-----------------------------------------------------------------------------
(* Residues.                                                               *)

\* Euclidean division, as the provers know it.
LEMMA ModDef ==
  ASSUME NEW C \in Nat, C > 0, NEW a \in Int
  PROVE  /\ a % C \in 0 .. C - 1
         /\ a \div C \in Int
         /\ a = C * (a \div C) + (a % C)
OBVIOUS

\* A number has only one residue.
LEMMA ModUnique ==
  ASSUME NEW C \in Nat, C > 0, NEW k \in Int, NEW r \in 0 .. C - 1
  PROVE  (C * k + r) % C = r
<1> DEFINE a == C * k + r
<1>1. a \in Int OBVIOUS
<1>2. /\ a % C \in 0 .. C - 1
      /\ a \div C \in Int
      /\ a = C * (a \div C) + (a % C)
  BY <1>1, ModDef
<1> HIDE DEF a
<1> DEFINE q == a \div C
           s == a % C
<1>3. PICK d \in Int : d = k - q BY <1>2
<1>4. C * k + r = C * q + s BY <1>2 DEF a
<1>5. C * k - C * q = C * d BY <1>2, <1>3
<1>6. C * d = s - r BY <1>2, <1>4, <1>5
<1>7. d = 0
  <2>1. CASE d >= 1
    <3>1. C * d >= C BY <2>1
    <3> QED BY <3>1, <1>6, <1>2
  <2>2. CASE d <= -1
    <3>1. C * d <= -C BY <2>2
    <3> QED BY <3>1, <1>6, <1>2
  <2> QED BY <2>1, <2>2
<1>8. C * d = 0 BY <1>7
<1> QED BY <1>6, <1>8, <1>2 DEF a

\* The masked difference of two indices is the difference of the counts
\* behind them, while that fits in the ring.
LEMMA ModDiff ==
  ASSUME NEW C \in Nat, C > 0, NEW a \in Nat, NEW b \in Nat, b <= a, a - b < C
  PROVE  ((a % C) - (b % C)) % C = a - b
<1> DEFINE qa == a \div C
           qb == b \div C
           ra == a % C
           rb == b % C
<1>1. /\ qa \in Int /\ ra \in 0 .. C - 1 /\ a = C * qa + ra
      /\ qb \in Int /\ rb \in 0 .. C - 1 /\ b = C * qb + rb
  BY ModDef
<1> HIDE DEF qa, qb
<1>2. PICK k \in Int : k = qb - qa BY <1>1
<1>3. C * qb - C * qa = C * k BY <1>1, <1>2
<1>4. ra - rb = C * k + (a - b)
  <2> HIDE DEF ra, rb
  <2> QED BY <1>1, <1>3
<1>5. (C * k + (a - b)) % C = a - b BY ModUnique
<1> QED BY <1>4, <1>5

\* Advancing a residue is advancing the count.
LEMMA ModSucc ==
  ASSUME NEW C \in Nat, C > 1, NEW a \in Nat
  PROVE  ((a % C) + 1) % C = (a + 1) % C
<1> DEFINE q == a \div C
           r == a % C
<1>1. q \in Int /\ r \in 0 .. C - 1 /\ a = C * q + r BY ModDef
<1> HIDE DEF q
<1>2. CASE r < C - 1
  <2>1. r + 1 \in 0 .. C - 1 BY <1>1, <1>2
  <2>2. (C * q + (r + 1)) % C = r + 1 BY <1>1, <2>1, ModUnique
  <2>3. (C * 0 + (r + 1)) % C = r + 1 BY <2>1, ModUnique
  <2>4. a + 1 = C * q + (r + 1) /\ r + 1 = C * 0 + (r + 1)
    <3> HIDE DEF r
    <3> QED BY <1>1
  <2> QED BY <2>2, <2>3, <2>4
<1>3. CASE r = C - 1
  <2>1. (C * (q + 1) + 0) % C = 0 BY <1>1, ModUnique
  <2>2. (C * 1 + 0) % C = 0 BY ModUnique
  <2>3. C * (q + 1) = C * q + C BY <1>1
  <2>4. a + 1 = C * (q + 1) + 0 /\ r + 1 = C * 1 + 0
    <3> HIDE DEF r
    <3> QED BY <1>1, <1>3, <2>3
  <2> QED BY <2>1, <2>2, <2>4
<1> QED BY <1>1, <1>2, <1>3

\* Counts closer than the ring is long have different residues.
LEMMA ModDistinct ==
  ASSUME NEW C \in Nat, C > 0, NEW a \in Nat, NEW b \in Nat, b < a, a - b < C
  PROVE  a % C # b % C
<1>1. SUFFICES ASSUME a % C = b % C PROVE FALSE OBVIOUS
<1>2. ((a % C) - (b % C)) % C = a - b
  <2>1. b <= a OBVIOUS
  <2> QED BY <2>1, ModDiff
<1>3. a % C \in 0 .. C - 1 BY ModDef
<1>4. (a % C) - (b % C) = 0 BY <1>1, <1>3
<1>5. (C * 0 + 0) % C = 0 BY ModUnique
<1>6. C * 0 + 0 = 0 OBVIOUS
<1> QED BY <1>2, <1>4, <1>5, <1>6

\* A residue returns after a whole turn of the ring.
LEMMA ModPeriod ==
  ASSUME NEW C \in Nat, C > 0, NEW a \in Nat
  PROVE  (a + C) % C = a % C
<1> DEFINE q == a \div C
           r == a % C
<1>1. q \in Int /\ r \in 0 .. C - 1 /\ a = C * q + r BY ModDef
<1> HIDE DEF q
<1>2. (C * (q + 1) + r) % C = r
  <2>1. q + 1 \in Int BY <1>1
  <2> HIDE DEF r
  <2> QED BY <1>1, <2>1, ModUnique
<1>3. C * (q + 1) = C * q + C BY <1>1
<1>4. a + C = C * (q + 1) + r
  <2> HIDE DEF r
  <2> QED BY <1>1, <1>3
<1> QED BY <1>2, <1>4

-----------------------------------------------------------------------------
(* The inductive invariant.                                                *)

\* The indices are the counts, masked; each side's view of the other lags; a
\* push under way has found a free slot, a pop under way a filled one.
Counts ==
  /\ tail = Len(sent) % Capacity /\ head = Len(rcvd) % Capacity
  /\ headSeen <= Len(rcvd) /\ Len(rcvd) <= tailSeen /\ tailSeen <= Len(sent)
  /\ Len(sent) <= headSeen + Capacity - 1
  /\ ppc # "idle" => Len(sent) < headSeen + Capacity - 1
  /\ cpc # "idle" => Len(rcvd) < tailSeen

\* The slots between head and tail hold the elements not yet popped, and the
\* element under way on each side is the right one.
Contents ==
  /\ \A k \in Len(rcvd) .. Len(sent) - 1 : buf[k % Capacity] = sent[k + 1]
  /\ ppc = "publish" => buf[tail] = pval
  /\ cpc = "release" => out = sent[Len(rcvd) + 1]
  /\ \A i \in 1 .. Len(rcvd) : rcvd[i] = sent[i]

QInv == QTypeOK /\ Counts /\ Contents

\* The steps of the queue, whoever calls it.
QStep ==
  \/ PushRefused \/ \E v \in Value : PushLoad(v)
  \/ PushWrite \/ PushPublish
  \/ PopRefused \/ PopLoad \/ PopRead \/ PopRelease
  \/ SeeTail \/ SeeHead

-----------------------------------------------------------------------------

\* The types hold of the empty ring.
LEMMA QTypeOKInit == QInit => QTypeOK
BY SpscAssumption DEF QInit, QTypeOK

\* A masked index lies in the ring.
LEMMA MaskType ==
  ASSUME NEW i \in Int PROVE Mask(i) \in 0 .. Capacity - 1
BY ModDef, SpscAssumption DEF Mask

\* Every step of either thread keeps the types.
LEMMA QTypeOKStep == QTypeOK /\ [QStep]_qvars => QTypeOK'
<1> SUFFICES ASSUME QTypeOK, [QStep]_qvars PROVE QTypeOK' OBVIOUS
<1> USE DEF QTypeOK
<1>1. ASSUME NEW v \in Value, PushLoad(v) PROVE QTypeOK'
  BY <1>1 DEF PushLoad, shared, consumer
<1>2. CASE PushWrite
  BY <1>2 DEF PushWrite, consumer
<1>3. CASE PushPublish
  <2>1. tail + 1 \in Int BY SpscAssumption
  <2>2. Mask(tail + 1) \in 0 .. Capacity - 1 BY <2>1, MaskType
  <2> QED BY <1>3, <2>2 DEF PushPublish, consumer
<1>4. CASE PopLoad
  BY <1>4 DEF PopLoad, shared, producer
<1>5. CASE PopRead
  BY <1>5 DEF PopRead, shared, producer
<1>6. CASE PopRelease
  <2>1. head + 1 \in Int BY SpscAssumption
  <2>2. Mask(head + 1) \in 0 .. Capacity - 1 BY <2>1, MaskType
  <2> QED BY <1>6, <2>2 DEF PopRelease, producer
<1>7. CASE SeeTail
  BY <1>7 DEF SeeTail, producer, consumer
<1>8. CASE SeeHead
  BY <1>8 DEF SeeHead, producer, consumer
<1>9. CASE UNCHANGED qvars
  BY <1>9 DEF qvars, shared, producer, consumer
<1> QED
  BY <1>1, <1>2, <1>3, <1>4, <1>5, <1>6, <1>7, <1>8, <1>9 DEF QStep, PushRefused, PopRefused

\* Type correctness of the queue, for every capacity and every history.
THEOREM QTypeCorrect == QSpec => []QTypeOK
<1>1. QTypeOK /\ [QNext]_qvars => QTypeOK'
  BY QTypeOKStep DEF QNext, QStep
<1> QED BY <1>1, QTypeOKInit, PTL DEF QSpec

-----------------------------------------------------------------------------

\* The empty ring satisfies the invariant.
LEMMA QInvInit == QInit => QInv
<1> SUFFICES ASSUME QInit PROVE QInv OBVIOUS
<1>1. QTypeOK BY QTypeOKInit
<1>2. 0 % Capacity = 0
  <2>1. (Capacity * 0 + 0) % Capacity = 0 BY ModUnique, SpscAssumption
  <2> QED BY <2>1, SpscAssumption
<1>3. Counts BY <1>2, SpscAssumption DEF QInit, Counts
<1>4. Contents BY SpscAssumption DEF QInit, Contents
<1> QED BY <1>1, <1>3, <1>4 DEF QInv

\* A push that was not refused has a free slot: the comparison of residues
\* stands for Len(sent) < headSeen + Capacity - 1.
LEMMA NotFull == QTypeOK /\ Counts /\ ~Full => Len(sent) < headSeen + Capacity - 1
<1> SUFFICES ASSUME QTypeOK, Counts PROVE ~Full => Len(sent) < headSeen + Capacity - 1
  OBVIOUS
<1>1. /\ Len(sent) \in Nat /\ headSeen \in Nat /\ Capacity \in Nat /\ Capacity > 1
      /\ Capacity > 0
  BY SpscAssumption DEF QTypeOK
<1>2. Mask(tail + 1) = (Len(sent) + 1) % Capacity
  BY <1>1, ModSucc DEF Counts, Mask
<1>3. (headSeen + Capacity) % Capacity = headSeen % Capacity BY <1>1, ModPeriod
<1>4. CASE Len(sent) = headSeen + Capacity - 1
  <2>1. Len(sent) + 1 = headSeen + Capacity BY <1>1, <1>4
  <2> QED BY <1>2, <1>3, <2>1 DEF Full, HeadLoad, Mask
<1> QED BY <1>1, <1>4 DEF Counts

\* A pop that was not refused has a filled slot.
LEMMA NotEmpty == QTypeOK /\ Counts /\ ~Empty => Len(rcvd) < tailSeen
BY SpscAssumption DEF QTypeOK, Counts, Empty, TailLoad, Mask

\* Each step keeps the counts.
LEMMA CountsStep == QTypeOK /\ Counts /\ [QStep]_qvars => Counts'
<1> SUFFICES ASSUME QTypeOK, Counts, [QStep]_qvars PROVE Counts' OBVIOUS
<1>0. /\ Len(sent) \in Nat /\ Len(rcvd) \in Nat /\ headSeen \in Nat /\ tailSeen \in Nat
      /\ Capacity \in Nat /\ Capacity > 1
  BY SpscAssumption DEF QTypeOK
<1>1. ASSUME NEW v \in Value, PushLoad(v) PROVE Counts'
  <2>1. Len(sent) < headSeen + Capacity - 1 BY <1>1, NotFull DEF PushLoad
  <2> QED BY <1>0, <1>1, <2>1 DEF PushLoad, Counts, shared, consumer
<1>2. CASE PushWrite
  BY <1>0, <1>2 DEF PushWrite, Counts, consumer
<1>3. CASE PushPublish
  <2>1. Mask(tail + 1) = (Len(sent) + 1) % Capacity BY <1>0, ModSucc DEF Counts, Mask
  <2>2. Len(sent') = Len(sent) + 1 BY <1>3 DEF PushPublish, QTypeOK
  <2> QED BY <1>0, <1>3, <2>1, <2>2 DEF PushPublish, Counts, consumer
<1>4. CASE PopLoad
  <2>1. Len(rcvd) < tailSeen BY <1>4, NotEmpty DEF PopLoad
  <2> QED BY <1>0, <1>4, <2>1 DEF PopLoad, Counts, shared, producer
<1>5. CASE PopRead
  BY <1>0, <1>5 DEF PopRead, Counts, shared, producer
<1>6. CASE PopRelease
  <2>1. Mask(head + 1) = (Len(rcvd) + 1) % Capacity BY <1>0, ModSucc DEF Counts, Mask
  <2>2. Len(rcvd') = Len(rcvd) + 1 BY <1>6 DEF PopRelease, QTypeOK
  <2> QED BY <1>0, <1>6, <2>1, <2>2 DEF PopRelease, Counts, producer
<1>7. CASE SeeTail
  BY <1>0, <1>7 DEF SeeTail, Counts, producer, consumer
<1>8. CASE SeeHead
  BY <1>0, <1>8 DEF SeeHead, Counts, producer, consumer
<1>9. CASE UNCHANGED qvars
  BY <1>9 DEF qvars, shared, producer, consumer, Counts
<1> QED
  BY <1>1, <1>2, <1>3, <1>4, <1>5, <1>6, <1>7, <1>8, <1>9 DEF QStep, PushRefused, PopRefused

\* Each step keeps the contents of the occupied slots.
LEMMA ContentsStep == QInv /\ [QStep]_qvars => Contents'
<1> SUFFICES ASSUME QInv, [QStep]_qvars PROVE Contents' OBVIOUS
<1>0. /\ Len(sent) \in Nat /\ Len(rcvd) \in Nat /\ headSeen \in Nat /\ tailSeen \in Nat
      /\ Capacity \in Nat /\ Capacity > 1 /\ Capacity > 0
  BY SpscAssumption DEF QInv, QTypeOK
<1>1. ASSUME NEW v \in Value, PushLoad(v) PROVE Contents'
  BY <1>1 DEF PushLoad, QInv, Contents, shared, consumer
<1>2. CASE PushWrite
  <2>1. WriteOrdered BY <1>0, <1>2 DEF PushWrite, WriteOrdered, QInv, Counts
  <2>2. buf' = [buf EXCEPT ![tail] = pval] BY <1>2, <2>1 DEF PushWrite
  <2>3. buf'[tail] = pval BY <2>2 DEF QInv, QTypeOK
  <2>4. ASSUME NEW k \in Len(rcvd) .. Len(sent) - 1 PROVE buf'[k % Capacity] = sent[k + 1]
    <3>1. k \in Nat /\ k < Len(sent) /\ Len(sent) - k < Capacity
      BY <1>0, <1>2 DEF PushWrite, QInv, Counts
    <3>2. tail # k % Capacity BY <1>0, <3>1, ModDistinct DEF QInv, Counts
    <3>3. k % Capacity \in 0 .. Capacity - 1 BY <1>0, <3>1, ModDef
    <3>4. buf'[k % Capacity] = buf[k % Capacity] BY <2>2, <3>2, <3>3 DEF QInv, QTypeOK
    <3> QED BY <3>4 DEF QInv, Contents
  <2> QED BY <1>2, <2>3, <2>4 DEF PushWrite, QInv, Contents, consumer
<1>3. CASE PushPublish
  <2>1. /\ Len(sent') = Len(sent) + 1
        /\ sent'[Len(sent) + 1] = pval
        /\ \A i \in 1 .. Len(sent) : sent'[i] = sent[i]
    BY <1>3 DEF PushPublish, QInv, QTypeOK
  <2>2. ASSUME NEW k \in Len(rcvd) .. Len(sent') - 1 PROVE buf[k % Capacity] = sent'[k + 1]
    <3>1. CASE k = Len(sent) BY <1>3, <2>1, <3>1 DEF PushPublish, QInv, Contents, Counts
    <3>2. CASE k < Len(sent)
      <4>1. k \in Len(rcvd) .. Len(sent) - 1 /\ k + 1 \in 1 .. Len(sent) BY <1>0, <3>2
      <4> QED BY <2>1, <4>1 DEF QInv, Contents
    <3> QED BY <1>0, <2>1, <3>1, <3>2
  <2>3. Len(rcvd) <= Len(sent) BY <1>0 DEF QInv, Counts
  <2>4. \A i \in 1 .. Len(rcvd) : rcvd[i] = sent'[i] BY <1>0, <2>1, <2>3 DEF QInv, Contents
  <2>5. cpc = "release" => out = sent'[Len(rcvd) + 1]
    <3>1. cpc = "release" => Len(rcvd) + 1 \in 1 .. Len(sent) BY <1>0 DEF QInv, Counts
    <3> QED BY <2>1, <3>1 DEF QInv, Contents
  <2> QED BY <1>3, <2>2, <2>4, <2>5 DEF PushPublish, Contents, consumer
<1>4. CASE PopLoad
  BY <1>4 DEF PopLoad, QInv, Contents, shared, producer
<1>5. CASE PopRead
  <2>1. ReadOrdered BY <1>5 DEF PopRead, ReadOrdered, QInv, Counts
  <2>2. out' = buf[head] BY <1>5, <2>1 DEF PopRead
  <2>3. Len(rcvd) \in Len(rcvd) .. Len(sent) - 1 BY <1>0, <1>5 DEF PopRead, QInv, Counts
  <2>4. buf[head] = sent[Len(rcvd) + 1] BY <2>3 DEF QInv, Contents, Counts
  <2> QED BY <1>5, <2>2, <2>4 DEF PopRead, QInv, Contents, shared, producer
<1>6. CASE PopRelease
  <2>1. /\ Len(rcvd') = Len(rcvd) + 1
        /\ rcvd'[Len(rcvd) + 1] = out
        /\ \A i \in 1 .. Len(rcvd) : rcvd'[i] = rcvd[i]
    BY <1>6 DEF PopRelease, QInv, QTypeOK
  <2>2. out = sent[Len(rcvd) + 1] BY <1>6 DEF PopRelease, QInv, Contents
  <2>3. \A i \in 1 .. Len(rcvd') : rcvd'[i] = sent[i] BY <1>0, <2>1, <2>2 DEF QInv, Contents
  <2>4. \A k \in Len(rcvd') .. Len(sent) - 1 : buf[k % Capacity] = sent[k + 1]
    BY <1>0, <2>1 DEF QInv, Contents
  <2> QED BY <1>6, <2>3, <2>4 DEF PopRelease, QInv, Contents, producer
<1>7. CASE SeeTail
  BY <1>7 DEF SeeTail, QInv, Contents, producer, consumer
<1>8. CASE SeeHead
  BY <1>8 DEF SeeHead, QInv, Contents, producer, consumer
<1>9. CASE UNCHANGED qvars
  BY <1>9 DEF qvars, shared, producer, consumer, QInv, Contents
<1> QED
  BY <1>1, <1>2, <1>3, <1>4, <1>5, <1>6, <1>7, <1>8, <1>9 DEF QStep, PushRefused, PopRefused

\* Every step of either thread keeps the invariant.
LEMMA QInvStep ==
  /\ QInv /\ [QStep]_qvars => QInv'
  /\ QInv /\ [QNext]_qvars => QInv'
<1>1. QInv /\ [QStep]_qvars => QInv'
  BY QTypeOKStep, CountsStep, ContentsStep DEF QInv
<1>2. QNext => QStep
  BY DEF QNext, QStep
<1> QED BY <1>1, <1>2

-----------------------------------------------------------------------------

\* What the invariant says of slots, of the order of delivery and of size().
LEMMA QInvGives == QInv => NoSlotRace /\ FifoDelivery /\ SizeBrackets
<1>1. QInv => NoSlotRace
  <2> SUFFICES ASSUME QInv PROVE NoSlotRace OBVIOUS
  <2>0. /\ Len(sent) \in Nat /\ Len(rcvd) \in Nat /\ headSeen \in Nat /\ tailSeen \in Nat
        /\ Capacity \in Nat /\ Capacity > 0
    BY SpscAssumption DEF QInv, QTypeOK
  <2>1. ppc = "write" => WriteOrdered BY <2>0 DEF QInv, Counts, WriteOrdered
  <2>2. cpc = "read" => ReadOrdered BY DEF QInv, Counts, ReadOrdered
  <2>3. ASSUME ppc = "write", cpc = "read" PROVE head # tail
    <3>1. Len(rcvd) < Len(sent) /\ Len(sent) - Len(rcvd) < Capacity
      BY <2>0, <2>3 DEF QInv, Counts
    <3> QED BY <2>0, <3>1, ModDistinct DEF QInv, Counts
  <2> QED BY <2>1, <2>2, <2>3 DEF NoSlotRace
<1>2. QInv => FifoDelivery
  BY SpscAssumption DEF QInv, QTypeOK, Counts, Contents, FifoDelivery
<1>3. QInv => SizeBrackets
  <2> SUFFICES ASSUME QInv PROVE SizeBrackets OBVIOUS
  <2>0. /\ Len(sent) \in Nat /\ Len(rcvd) \in Nat /\ headSeen \in Nat /\ tailSeen \in Nat
        /\ Capacity \in Nat /\ Capacity > 0
    BY SpscAssumption DEF QInv, QTypeOK
  <2>1. ProducerSize = Len(sent) - headSeen
    <3>1. headSeen <= Len(sent) /\ Len(sent) - headSeen < Capacity BY <2>0 DEF QInv, Counts
    <3> QED BY <2>0, <3>1, ModDiff DEF ProducerSize, HeadLoad, Mask, QInv, Counts
  <2>2. ConsumerSize = tailSeen - Len(rcvd)
    <3>1. Len(rcvd) <= tailSeen /\ tailSeen - Len(rcvd) < Capacity BY <2>0 DEF QInv, Counts
    <3> QED BY <2>0, <3>1, ModDiff DEF ConsumerSize, TailLoad, Mask, QInv, Counts
  <2> QED BY <2>0, <2>1, <2>2 DEF SizeBrackets, QInv, Counts
<1> QED BY <1>1, <1>2, <1>3

\* No slot access of one thread races with one of the other, whatever the
\* capacity and however late each index becomes visible.
THEOREM NoRace == QSpec => []NoSlotRace
BY QInvGives, QInvInit, QInvStep, PTL DEF QSpec

\* What was popped is always a prefix of what was pushed, and at most
\* Capacity - 1 elements are in between.
THEOREM InOrder == QSpec => []FifoDelivery
BY QInvGives, QInvInit, QInvStep, PTL DEF QSpec

\* size() never understates the occupancy on the producer's thread and never
\* overstates it on the consumer's.
THEOREM SizeIsBracketed == QSpec => []SizeBrackets
BY QInvGives, QInvInit, QInvStep, PTL DEF QSpec

-----------------------------------------------------------------------------
(* The refinement.                                                         *)

Elem == Value \cup {Torn}

\* The abstract queue, element by element.
LEMMA Window ==
  ASSUME NEW s \in Seq(Elem), NEW m \in Nat, m <= Len(s)
  PROVE  LET w == SubSeq(s, m + 1, Len(s))
         IN  /\ w \in Seq(Elem)
             /\ Len(w) = Len(s) - m
             /\ \A i \in 1 .. Len(s) - m : w[i] = s[m + i]
<1>1. m + 1 \in Int /\ Len(s) \in Int /\ \A i \in m + 1 .. Len(s) : s[i] \in Elem OBVIOUS
<1>2. /\ SubSeq(s, m + 1, Len(s)) \in Seq(Elem)
      /\ Len(SubSeq(s, m + 1, Len(s))) =
           IF m + 1 <= Len(s) THEN Len(s) - (m + 1) + 1 ELSE 0
      /\ \A i \in 1 .. Len(s) - (m + 1) + 1 : SubSeq(s, m + 1, Len(s))[i] = s[m + 1 + i - 1]
  BY <1>1, SubSeqProperties
<1> QED BY <1>1, <1>2

\* Publishing appends to the window.
LEMMA WindowAppend ==
  ASSUME NEW s \in Seq(Elem), NEW m \in Nat, m <= Len(s), NEW v \in Elem
  PROVE  SubSeq(Append(s, v), m + 1, Len(Append(s, v))) = Append(SubSeq(s, m + 1, Len(s)), v)
<1> DEFINE t == Append(s, v)
           w == SubSeq(s, m + 1, Len(s))
           x == SubSeq(t, m + 1, Len(t))
<1>1. /\ t \in Seq(Elem) /\ Len(t) = Len(s) + 1
      /\ t[Len(s) + 1] = v /\ \A i \in 1 .. Len(s) : t[i] = s[i]
  BY AppendProperties
<1> HIDE DEF t
<1>2. w \in Seq(Elem) /\ Len(w) = Len(s) - m /\ \A i \in 1 .. Len(s) - m : w[i] = s[m + i]
  BY Window
<1>3. m <= Len(t) BY <1>1
<1>4. x \in Seq(Elem) /\ Len(x) = Len(t) - m /\ \A i \in 1 .. Len(t) - m : x[i] = t[m + i]
  BY <1>1, <1>3, Window
<1> HIDE DEF w, x
<1>5. /\ Append(w, v) \in Seq(Elem) /\ Len(Append(w, v)) = Len(w) + 1
      /\ Append(w, v)[Len(w) + 1] = v /\ \A i \in 1 .. Len(w) : Append(w, v)[i] = w[i]
  BY <1>2, AppendProperties
<1>6. Len(s) \in Nat OBVIOUS
<1>7. Len(x) = Len(Append(w, v)) BY <1>1, <1>2, <1>4, <1>5, <1>6
<1>8. ASSUME NEW i \in 1 .. Len(x) PROVE x[i] = Append(w, v)[i]
  <2>1. CASE i = Len(w) + 1
    <3>1. m + i = Len(s) + 1 /\ i \in 1 .. Len(t) - m BY <1>1, <1>2, <1>6, <2>1
    <3>2. x[i] = t[m + i] BY <1>4, <3>1
    <3>3. t[m + i] = v BY <1>1, <3>1
    <3>4. Append(w, v)[i] = v BY <1>5, <2>1
    <3> QED BY <3>2, <3>3, <3>4
  <2>2. CASE i \in 1 .. Len(w)
    <3>1. m + i \in 1 .. Len(s) /\ i \in 1 .. Len(s) - m /\ i \in 1 .. Len(t) - m
      BY <1>1, <1>2, <1>6, <2>2
    <3>2. x[i] = t[m + i] BY <1>4, <3>1
    <3>3. t[m + i] = s[m + i] BY <1>1, <3>1
    <3>4. w[i] = s[m + i] BY <1>2, <3>1
    <3>5. Append(w, v)[i] = w[i] BY <1>5, <2>2
    <3> QED BY <3>2, <3>3, <3>4, <3>5
  <2>3. Len(x) = Len(w) + 1 /\ Len(w) \in Nat BY <1>1, <1>2, <1>4, <1>6
  <2> QED BY <2>1, <2>2, <2>3
<1>9. x = Append(w, v) BY <1>4, <1>5, <1>7, <1>8, SeqEqual
<1> QED BY <1>9 DEF x, w, t

\* The head of the window is the oldest element, its tail the window one further.
LEMMA WindowTail ==
  ASSUME NEW s \in Seq(Elem), NEW m \in Nat, m < Len(s)
  PROVE  LET w == SubSeq(s, m + 1, Len(s))
         IN  /\ w # << >> /\ Head(w) = s[m + 1]
             /\ Tail(w) = SubSeq(s, m + 2, Len(s))
<1>1. m + 1 \in 1 .. Len(s) /\ Len(s) \in 1 .. Len(s) /\ m + 1 <= Len(s) /\ m + 1 + 1 = m + 2
  OBVIOUS
<1>2. /\ Head(SubSeq(s, m + 1, Len(s))) = s[m + 1]
      /\ Tail(SubSeq(s, m + 1, Len(s))) = SubSeq(s, m + 1 + 1, Len(s))
  BY <1>1, HeadTailOfSubSeq
<1>3. Len(SubSeq(s, m + 1, Len(s))) = Len(s) - m BY Window
<1>4. SubSeq(s, m + 1, Len(s)) # << >> BY <1>1, <1>3
<1>5. SubSeq(s, m + 1 + 1, Len(s)) = SubSeq(s, m + 2, Len(s)) BY <1>1
<1> QED BY <1>2, <1>4, <1>5

\* The ring of Capacity slots, with its split pushes and pops and its lagging
\* indices, implements the bounded FIFO of Capacity - 1 elements.
THEOREM Refinement == QSpec => ImplementsFifo
<1>1. QInit => Fifo!Init
  BY DEF QInit, Fifo!Init
<1>2. QInv /\ QInv' /\ [QNext]_qvars => [Fifo!Next]_(Fifo!vars)
  <2> SUFFICES ASSUME QInv, QInv', [QNext]_qvars PROVE [Fifo!Next]_(Fifo!vars) OBVIOUS
  <2>0. /\ sent \in Seq(Elem) /\ rcvd \in Seq(Elem) /\ pval \in Elem
        /\ Len(sent) \in Nat /\ Len(rcvd) \in Nat /\ headSeen \in Nat /\ tailSeen \in Nat
        /\ Capacity \in Nat /\ Len(rcvd) <= Len(sent)
    <3>1. sent \in Seq(Elem) /\ rcvd \in Seq(Elem) /\ pval \in Elem
      BY DEF QInv, QTypeOK, Elem
    <3>2. Len(sent) \in Nat /\ Len(rcvd) \in Nat BY <3>1
    <3> QED BY <3>1, <3>2, SpscAssumption DEF QInv, QTypeOK, Counts
  <2>1. CASE PushPublish
    <3>1. SubSeq(sent, Len(rcvd) + 1, Len(sent))' =
            Append(SubSeq(sent, Len(rcvd) + 1, Len(sent)), pval)
      BY <2>0, <2>1, WindowAppend DEF PushPublish
    <3>2. Len(SubSeq(sent, Len(rcvd) + 1, Len(sent))) < Capacity - 1
      <4>1. Len(SubSeq(sent, Len(rcvd) + 1, Len(sent))) = Len(sent) - Len(rcvd)
        BY <2>0, Window
      <4> QED BY SMTT(30), <2>0, <2>1, <4>1 DEF PushPublish, QInv, Counts
    <3>3. rcvd' = rcvd BY <2>1 DEF PushPublish
    <3>4. Fifo!Enqueue(pval) BY <3>1, <3>2, <3>3 DEF Fifo!Enqueue
    <3> QED BY <2>0, <3>4 DEF Fifo!Next, Elem
  <2>2. CASE PopRelease
    <3>1. Len(rcvd) < Len(sent) /\ out = sent[Len(rcvd) + 1]
      BY <2>0, <2>2 DEF PopRelease, QInv, Counts, Contents
    <3>2. LET w == SubSeq(sent, Len(rcvd) + 1, Len(sent))
          IN  w # << >> /\ Head(w) = out /\ Tail(w) = SubSeq(sent, Len(rcvd) + 2, Len(sent))
      BY <2>0, <3>1, WindowTail
    <3>3. Len(rcvd)' + 1 = Len(rcvd) + 2 /\ sent' = sent /\ rcvd' = Append(rcvd, out)
      BY <2>0, <2>2 DEF PopRelease
    <3>4. Fifo!Dequeue BY <3>2, <3>3 DEF Fifo!Dequeue
    <3> QED BY <3>4 DEF Fifo!Next
  <2>3. CASE UNCHANGED <<sent, rcvd>> BY <2>3 DEF Fifo!vars
  <2> QED
    BY <2>1, <2>2, <2>3 DEF QNext, PushRefused, PushLoad, PushWrite, PopRefused, PopLoad,
       PopRead, SeeTail, SeeHead, qvars
<1> QED BY <1>1, <1>2, QInvInit, QInvStep, PTL DEF QSpec, ImplementsFifo, Fifo!Spec

-----------------------------------------------------------------------------
(* The two threads.                                                        *)

\* The parser thread is inside push for the frame it is at, has still to
\* account for it, or has seen the end of a source that is done.
ParserInv ==
  /\ phase \in {"opening", "replaying", "exited", "terminated"}
  /\ parser \in {"decode", "account", "ended"}
  /\ phase = "opening" => parser = "decode" /\ ppc = "idle"
  /\ parser = "account" \/ ppc # "idle" => HasFrame
  /\ parser # "decode" => ppc = "idle"
  /\ ppc # "idle" => pval = envelope(NextFrame)
  /\ parser = "ended" => src.pc = "done"
  /\ done => parser = "ended"
  /\ doneSeen => done

\* What has been pushed is the envelopes of the frames so far.
SentInv ==
  /\ Len(sent) = IF parser = "account" THEN pos + 1 ELSE pos
  /\ Len(sent) <= Len(Whole)
  /\ \A i \in 1 .. Len(sent) : sent[i] = envelope(Whole[i])

\* A builder that drains has seen every push there will be; one that has left
\* has popped them all.
BuilderInv ==
  /\ bpc \in {"loop", "check", "drain", "exited"}
  /\ cpc # "idle" => bpc \in {"loop", "drain"}
  /\ bpc \in {"drain", "exited"} => doneSeen /\ tailSeen = Len(sent)
  /\ bpc = "exited" => Len(rcvd) = Len(sent)
  /\ frames = Len(rcvd)
  /\ phase = "exited" /\ status = 0 => bpc = "exited"

ThreadInv == ReplayInv /\ QInv /\ ParserInv /\ SentInv /\ BuilderInv

\* Before either thread runs.
LEMMA ThreadInvInit ==
  ASSUME Init
  PROVE  ThreadInv
<1>1. ReplayInv /\ QInv
  BY ReplayInvInit, QInvInit DEF Init
<1>2. ParserInv
  BY DEF Init, ParserInv, ReplayInit, QInit
<1>3. SentInv
  <2>1. Len(Whole) \in Nat
    BY <1>1, WholeSeq DEF ReplayInv, SourceInv, SourceType
  <2> QED BY <2>1 DEF Init, SentInv, ReplayInit, QInit
<1>4. BuilderInv
  BY DEF Init, BuilderInv, ReplayInit, QInit
<1> QED BY <1>1, <1>2, <1>3, <1>4 DEF ThreadInv

\* The frame the parser is at has an envelope.
LEMMA NextEnvelope ==
  ASSUME ThreadInv, HasFrame
  PROVE  /\ pos \in Nat /\ pos < Len(Whole) /\ NextFrame = Whole[pos + 1]
         /\ envelope(NextFrame) \in Value
<1>1. pos \in Nat /\ file \in Files
  BY DEF ThreadInv, ReplayInv, SourceInv, SourceType
<1>2. pos < Len(Whole) /\ NextFrame = Whole[pos + 1]
  BY NextFrameIs DEF ThreadInv, ReplayInv
<1>3. pos + 1 \in 1 .. Len(Whole)
  BY <1>1, <1>2, WholeSeq
<1> QED BY <1>1, <1>2, <1>3, ThreadedAssumption DEF Whole

\* The source does nothing of its own while a frame is ahead.
LEMMA FrameFirst ==
  ASSUME HasFrame PROVE ~Running
BY DEF HasFrame, Running, ReadInput, InflateChunk, ParseReturns, Finish, At

\* A step that leaves the replay alone leaves what it says of the frames.
LEMMA FrameSame ==
  ASSUME UNCHANGED <<src, file>>
  PROVE  HasFrame' = HasFrame /\ NextFrame' = NextFrame /\ Whole' = Whole
BY DEF HasFrame, NextFrame, Whole, At

\* Each step is one of the queue's or leaves the queue alone.
LEMMA QueueTurns ==
  ASSUME ThreadInv, [Next]_vars
  PROVE  [QStep]_qvars
<1>1. CASE ParserPush
  <2>1. CASE PushRefused
    BY <2>1 DEF QStep
  <2>2. CASE PushLoad(envelope(NextFrame))
    <3>1. envelope(NextFrame) \in Value
      BY <1>1, NextEnvelope DEF ParserPush
    <3> QED BY <2>2, <3>1 DEF QStep
  <2> QED BY <1>1, <2>1, <2>2 DEF ParserPush
<1>2. CASE BuilderCheck
  <2>1. CASE doneSeen /\ tailSeen # Len(sent)
    <3>1. tailSeen \in Nat /\ Len(sent) \in Nat /\ tailSeen <= Len(sent)
      BY DEF ThreadInv, QInv, QTypeOK, Counts
    <3>2. Len(sent) \in tailSeen + 1 .. Len(sent)
      BY <2>1, <3>1
    <3>3. SeeTail
      BY <1>2, <2>1, <3>2 DEF BuilderCheck, SeeTail
    <3> QED BY <3>3 DEF QStep
  <2>2. CASE ~(doneSeen /\ tailSeen # Len(sent))
    BY <1>2, <2>2 DEF BuilderCheck, qvars, shared
  <2> QED BY <2>1, <2>2
<1>3. CASE ParserWrite \/ ParserPublish \/ BuilderEmpty \/ BuilderPop \/ BuilderApply
  BY <1>3 DEF ParserWrite, ParserPublish, BuilderEmpty, BuilderPop, BuilderApply, QStep
<1>4. CASE Visible
  BY <1>4 DEF Visible, QStep
<1>5. CASE Open \/ ParserRun \/ ParserAccount \/ ParserDone \/ ParserThrows \/ Join \/ Finished
           \/ UNCHANGED vars
  BY <1>5 DEF Open, ParserRun, ParserAccount, ParserDone, ParserThrows, Join, Finished, vars
<1> QED BY <1>1, <1>2, <1>3, <1>4, <1>5 DEF Next, Parser, Builder

\* Steps of main and of the source, which leave the queue and the builder alone.
LEMMA MainStep ==
  ASSUME ThreadInv, Open \/ ParserRun \/ ParserDone \/ ParserThrows \/ Join
  PROVE  ReplayInv' /\ ParserInv' /\ SentInv' /\ BuilderInv'
<1>0. ReplayInv /\ ParserInv /\ SentInv /\ BuilderInv
  BY DEF ThreadInv
<1>q. UNCHANGED qvars
  BY DEF Open, ParserRun, ParserDone, ParserThrows, Join
<1>1. CASE Open
  <2>1. ReplayInv'
    BY <1>0, <1>1, ReplayInvOpen, ReplayInvOpenFails, ReplayInvStart DEF Open
  <2>2. /\ UNCHANGED <<file, pos, tvars>> /\ phase = "opening"
        /\ \/ phase' \in {"opening", "replaying"} /\ status' = status
           \/ phase' = "exited" /\ status' = 1
    BY <1>1 DEF Open, OpenStep, OpenFails, Start, Opening, OpenFile, FstatFile, MapFile,
                SlurpFile, srcvars
  <2>3. ppc = "idle" /\ parser = "decode" /\ ~done /\ ~doneSeen
    BY <1>0, <2>2 DEF ParserInv
  <2> QED
    BY <1>0, <1>q, <2>1, <2>2, <2>3
    DEF ParserInv, SentInv, BuilderInv, Whole, qvars, tvars, shared, producer, consumer
<1>2. CASE ParserRun
  <2>1. ReplayInv'
    BY <1>0, <1>2, ReplayInvRun DEF ParserRun
  <2>2. UNCHANGED <<file, pos, tvars, phase, status>> /\ ~HasFrame /\ parser = "decode"
    BY <1>2, FrameFirst DEF ParserRun, RunStep, Running, ReadInput, InflateChunk, ParseReturns,
                            Finish
  <2>3. ppc = "idle" /\ ~done /\ ~doneSeen
    BY <1>0, <2>2 DEF ParserInv
  <2> QED
    BY <1>0, <1>q, <2>1, <2>2, <2>3
    DEF ParserInv, SentInv, BuilderInv, Whole, qvars, tvars, shared, producer, consumer
<1>3. CASE ParserDone
  <2>1. /\ UNCHANGED <<rvars, max_occupancy, doneSeen, bpc, frames>>
        /\ parser = "decode" /\ parser' = "ended" /\ done' = TRUE /\ src.pc = "done"
        /\ phase = "replaying"
    BY <1>3 DEF ParserDone, At, Joining
  <2>2. ReplayInv'
    BY <1>0, <2>1, ReplayInvSame DEF rvars
  <2>3. ~HasFrame
    BY <2>1 DEF HasFrame, At
  <2>4. ppc = "idle"
    BY <1>0, <2>3 DEF ParserInv
  <2>5. ParserInv'
    BY <1>0, <1>q, <2>1, <2>4 DEF ParserInv, qvars, rvars, srcvars, producer
  <2>6. SentInv'
    BY <1>0, <1>q, <2>1 DEF SentInv, Whole, qvars, rvars, srcvars
  <2>7. BuilderInv'
    BY <1>0, <1>q, <2>1 DEF BuilderInv, qvars, rvars, shared, consumer
  <2> QED BY <2>2, <2>5, <2>6, <2>7
<1>4. CASE ParserThrows
  <2>1. /\ UNCHANGED <<srcvars, binary, status, pos, builder, tvars>>
        /\ phase' = "terminated" /\ phase = "replaying"
    BY <1>4 DEF ParserThrows, Joining
  <2>2. SourceInv'
    BY <1>0, <2>1, SourceInvSame DEF ReplayInv, srcvars
  <2>3. HeldInv' /\ PhaseInv'
    BY <1>0, <2>1 DEF ReplayInv, HeldInv, PhaseInv, Resource, srcvars
  <2>4. HasFrame' = HasFrame /\ NextFrame' = NextFrame /\ Whole' = Whole
    BY <2>1, FrameSame DEF srcvars
  <2> QED
    BY <1>0, <1>q, <2>1, <2>2, <2>3, <2>4
    DEF ReplayInv, ParserInv, SentInv, BuilderInv, qvars, tvars, srcvars, shared, producer,
        consumer
<1>5. CASE Join
  <2>1. /\ UNCHANGED <<file, chunk_size, src, binary, status, pos, builder, tvars>>
        /\ phase' = "exited" /\ phase = "replaying" /\ Release
        /\ parser = "ended" /\ bpc = "exited"
    BY <1>5 DEF Join, Joining
  <2>2. src.pc = "done"
    BY <1>0, <2>1 DEF ParserInv
  <2>3. ReplayInv'
    BY <1>0, <2>1, <2>2, ReplayInvExit
  <2>4. HasFrame' = HasFrame /\ NextFrame' = NextFrame /\ Whole' = Whole
    BY <2>1, FrameSame
  <2> QED
    BY <1>0, <1>q, <2>1, <2>3, <2>4
    DEF ParserInv, SentInv, BuilderInv, qvars, tvars, shared, producer, consumer
<1> QED BY <1>1, <1>2, <1>3, <1>4, <1>5

\* push_spin, from the envelope of the frame to its counters.
LEMMA PushStep ==
  ASSUME ThreadInv, ParserPush \/ ParserWrite \/ ParserPublish \/ ParserAccount
  PROVE  ReplayInv' /\ ParserInv' /\ SentInv' /\ BuilderInv'
<1>0. ReplayInv /\ ParserInv /\ SentInv /\ BuilderInv
  BY DEF ThreadInv
<1>1. CASE ParserPush \/ ParserWrite
  <2>1. UNCHANGED <<rvars, tvars, sent, rcvd, tailSeen, cpc>> /\ phase = "replaying"
    BY <1>1 DEF ParserPush, ParserWrite, PushRefused, PushLoad, PushWrite, qvars, shared,
                consumer, Joining
  <2>2. ReplayInv'
    BY <1>0, <2>1, ReplayInvSame DEF rvars
  <2>3. HasFrame' = HasFrame /\ NextFrame' = NextFrame /\ Whole' = Whole
    BY <2>1, FrameSame DEF rvars, srcvars
  <2>4. HasFrame /\ parser = "decode"
    BY <1>0, <1>1 DEF ParserPush, ParserWrite, PushWrite, ParserInv
  <2>5. ppc' # "idle" => pval' = envelope(NextFrame)
    BY <1>0, <1>1 DEF ParserPush, ParserWrite, PushRefused, PushLoad, PushWrite, ParserInv,
                      qvars, producer
  <2> QED
    BY <1>0, <2>1, <2>2, <2>3, <2>4, <2>5
    DEF ParserInv, SentInv, BuilderInv, rvars, tvars, srcvars
<1>2. CASE ParserPublish
  <2>1. /\ UNCHANGED <<rvars, rcvd, tailSeen, cpc, done, doneSeen, bpc, frames>>
        /\ phase = "replaying" /\ parser' = "account" /\ ppc' = "idle" /\ ppc = "publish"
        /\ sent' = Append(sent, pval)
    BY <1>2 DEF ParserPublish, PushPublish, Joining, consumer
  <2>2. ReplayInv'
    BY <1>0, <2>1, ReplayInvSame DEF rvars
  <2>3. HasFrame' = HasFrame /\ NextFrame' = NextFrame /\ Whole' = Whole
    BY <2>1, FrameSame DEF rvars, srcvars
  <2>4. HasFrame /\ parser = "decode" /\ pval = envelope(NextFrame) /\ ~done /\ ~doneSeen
    BY <1>0, <2>1 DEF ParserInv
  <2>5. pos \in Nat /\ pos < Len(Whole) /\ NextFrame = Whole[pos + 1] /\ Len(Whole) \in Nat
    BY <2>4, NextEnvelope, WholeSeq DEF ThreadInv, ReplayInv, SourceInv, SourceType
  <2>6. sent \in Seq(Elem) /\ pval \in Elem /\ Len(sent) = pos
    BY <1>0, <2>4 DEF ThreadInv, QInv, QTypeOK, Elem, SentInv
  <2>7. /\ Len(sent') = pos + 1 /\ sent'[pos + 1] = pval
        /\ \A i \in 1 .. pos : sent'[i] = sent[i]
    BY <2>1, <2>6
  <2>8. \A i \in 1 .. pos + 1 : sent'[i] = envelope(Whole[i])
    <3> SUFFICES ASSUME NEW i \in 1 .. pos + 1 PROVE sent'[i] = envelope(Whole[i])
      OBVIOUS
    <3>1. CASE i = pos + 1
      BY <2>4, <2>5, <2>7, <3>1
    <3>2. CASE i \in 1 .. pos
      BY <1>0, <2>6, <2>7, <3>2 DEF SentInv
    <3> QED BY <2>5, <3>1, <3>2
  <2>9. SentInv'
    BY <2>1, <2>3, <2>5, <2>7, <2>8 DEF SentInv, rvars
  <2>10. bpc \in {"loop", "check"} /\ BuilderInv'
    BY <1>0, <2>1, <2>4 DEF BuilderInv, rvars
  <2>11. ParserInv'
    BY <1>0, <2>1, <2>3, <2>4 DEF ParserInv, rvars
  <2> QED BY <2>2, <2>9, <2>10, <2>11
<1>3. CASE ParserAccount
  <2>1. /\ UNCHANGED <<file, chunk_size, held, phase, status, done, doneSeen, bpc, frames>>
        /\ UNCHANGED qvars /\ phase = "replaying" /\ TakeFrame /\ pos' = pos + 1
        /\ parser = "account" /\ parser' = "decode"
    BY <1>3 DEF ParserAccount, Joining, bvars
  <2>2. HasFrame /\ ppc = "idle" /\ ~done
    BY <1>0, <2>1 DEF ParserInv
  <2>3. ReplayInv'
    BY <1>0, <2>1, <2>2, ReplayInvTake
  <2>4. Whole' = Whole
    BY <2>1 DEF Whole
  <2> QED
    BY <1>0, <2>1, <2>2, <2>3, <2>4
    DEF ParserInv, SentInv, BuilderInv, qvars, shared, producer, consumer
<1> QED BY <1>1, <1>2, <1>3

\* consume(): popping, applying, and looking at the flag.
LEMMA ConsumeStep ==
  ASSUME ThreadInv, Builder \/ Visible
  PROVE  ReplayInv' /\ ParserInv' /\ SentInv' /\ BuilderInv'
<1>0. ReplayInv /\ ParserInv /\ SentInv /\ BuilderInv
  BY DEF ThreadInv
<1>1. /\ UNCHANGED <<srcvars, binary, phase, status, pos, parser, done, sent, producer>>
      /\ phase = "replaying"
  BY DEF Builder, Visible, BuilderEmpty, BuilderPop, BuilderApply, BuilderCheck, PopRefused,
         PopLoad, PopRead, PopRelease, SeeTail, SeeHead, qvars, tvars, rvars, Joining
<1>2. ReplayInv'
  BY <1>0, <1>1, ReplayInvSame
<1>3. HasFrame' = HasFrame /\ NextFrame' = NextFrame /\ Whole' = Whole
  BY <1>1, FrameSame DEF srcvars
<1>4. SentInv'
  BY <1>0, <1>1, <1>3 DEF SentInv
<1>5. doneSeen' => done
  BY <1>0 DEF ParserInv, Builder, Visible, BuilderEmpty, BuilderPop, BuilderApply, BuilderCheck,
              tvars
<1>6. ParserInv'
  <2>1. (doneSeen => done)' /\ (done => parser = "ended")'
    BY <1>0, <1>1, <1>5, Zenon DEF ParserInv
  <2> QED BY <1>0, <1>1, <1>3, <2>1 DEF ParserInv, producer, srcvars
<1>7. /\ Len(sent) \in Nat /\ Len(rcvd) \in Nat /\ tailSeen \in Nat /\ headSeen \in Nat
      /\ Len(rcvd) <= tailSeen /\ tailSeen <= Len(sent) /\ tailSeen - Len(rcvd) < Capacity
      /\ Capacity \in Nat /\ Capacity > 0 /\ rcvd \in Seq(Elem) /\ out \in Elem
  BY SpscAssumption DEF ThreadInv, QInv, QTypeOK, Counts, Elem
<1>8. BuilderInv'
  <2>1. CASE BuilderEmpty
    <3>1. /\ UNCHANGED <<doneSeen, frames, rcvd, tailSeen, cpc>> /\ cpc = "idle"
          /\ bpc' = IF bpc = "loop" THEN "check" ELSE "exited"
          /\ bpc \in {"loop", "drain"} /\ head = Mask(tailSeen)
      BY <2>1 DEF BuilderEmpty, PopRefused, Empty, TailLoad, qvars, shared, consumer
    <3>2. Len(rcvd) = tailSeen
      <4>1. Len(rcvd) % Capacity = tailSeen % Capacity
        BY <3>1 DEF ThreadInv, QInv, Counts, Mask
      <4>2. ~(Len(rcvd) < tailSeen)
        BY <1>7, <4>1, ModDistinct
      <4> QED BY <1>7, <4>2
    <3> QED BY <1>0, <1>1, <3>1, <3>2 DEF BuilderInv
  <2>2. CASE BuilderPop
    <3>1. UNCHANGED <<doneSeen, frames, rcvd, tailSeen, bpc>> /\ bpc \in {"loop", "drain"}
      BY <2>2 DEF BuilderPop, PopLoad, PopRead, tvars, shared
    <3> QED BY <1>0, <1>1, <3>1 DEF BuilderInv
  <2>3. CASE BuilderApply
    <3>1. /\ UNCHANGED <<doneSeen, tailSeen, bpc>> /\ cpc = "release" /\ cpc' = "idle"
          /\ rcvd' = Append(rcvd, out) /\ frames' = frames + 1
      BY <2>3 DEF BuilderApply, PopRelease
    <3>2. Len(rcvd') = Len(rcvd) + 1
      BY <1>7, <3>1
    <3>3. bpc \in {"loop", "drain"}
      BY <1>0, <3>1 DEF BuilderInv
    <3> QED BY <1>0, <1>1, <3>1, <3>2, <3>3 DEF BuilderInv
  <2>4. CASE BuilderCheck
    <3>1. /\ UNCHANGED <<doneSeen, frames, rcvd, cpc>> /\ bpc = "check"
          /\ bpc' = IF doneSeen THEN "drain" ELSE "loop"
          /\ tailSeen' = IF doneSeen THEN Len(sent) ELSE tailSeen
      BY <2>4 DEF BuilderCheck, consumer
    <3> QED BY <1>0, <1>1, <3>1 DEF BuilderInv
  <2>5. CASE Visible
    <3>1. UNCHANGED <<frames, rcvd, cpc, bpc>> /\ (doneSeen => doneSeen')
      BY <2>5 DEF Visible, SeeTail, SeeHead, qvars, consumer
    <3>2. tailSeen = Len(sent) => tailSeen' = tailSeen
      BY <1>7, <2>5 DEF Visible, SeeTail, SeeHead, qvars, shared
    <3> QED BY <1>0, <1>1, <3>1, <3>2 DEF BuilderInv
  <2> QED BY <2>1, <2>2, <2>3, <2>4, <2>5 DEF Builder
<1> QED BY <1>2, <1>4, <1>6, <1>8

\* Every step of main and of the two threads keeps the invariant.
LEMMA ThreadStep == ThreadInv /\ [Next]_vars => ThreadInv'
<1> SUFFICES ASSUME ThreadInv, [Next]_vars PROVE ThreadInv'
  OBVIOUS
<1>1. QInv'
  BY QueueTurns, QInvStep DEF ThreadInv
<1>2. CASE Finished \/ UNCHANGED vars
  <2>1. UNCHANGED vars
    BY <1>2 DEF Finished
  <2>2. HasFrame' = HasFrame /\ NextFrame' = NextFrame /\ Whole' = Whole
    BY <2>1, FrameSame DEF vars, rvars, srcvars
  <2>3. ReplayInv'
    BY <2>1, ReplayInvSame DEF ThreadInv, vars, rvars
  <2>4. ParserInv'
    BY <2>1, <2>2 DEF ThreadInv, ParserInv, vars, rvars, srcvars, qvars, tvars, producer
  <2>5. SentInv'
    BY <2>1, <2>2 DEF ThreadInv, SentInv, vars, rvars, qvars, tvars
  <2>6. BuilderInv'
    BY <2>1 DEF ThreadInv, BuilderInv, vars, rvars, qvars, tvars, shared, consumer
  <2> QED BY <1>1, <2>3, <2>4, <2>5, <2>6 DEF ThreadInv
<1> QED BY <1>1, <1>2, MainStep, PushStep, ConsumeStep DEF Next, Parser, ThreadInv

\* ThreadInv is an invariant of the threaded replay.
THEOREM ThreadInvariant == Spec => []ThreadInv
<1>1. Init => ThreadInv
  BY ThreadInvInit
<1> QED BY <1>1, ThreadStep, PTL DEF Spec

\* The queue's own properties under the two threads that really use it.
THEOREM ThreadsKeepQueue == Spec => [](NoSlotRace /\ FifoDelivery /\ SizeBrackets)
<1>1. ThreadInv => NoSlotRace /\ FifoDelivery /\ SizeBrackets
  BY QInvGives DEF ThreadInv
<1> QED BY <1>1, ThreadInvariant, PTL

\* consume() (include/pipeline/threaded_replay.hpp): the builder thread never
\* exits with a frame of the file not yet applied, for every file, capacity
\* and delay of the indices and of the flag.
THEOREM DrainedTheorem == Spec => []DrainedAtExit
<1>1. ThreadInv => DrainedAtExit
  <2> SUFFICES ASSUME ThreadInv, bpc = "exited"
               PROVE  /\ frames = Len(Whole)
                      /\ rcvd = [i \in 1 .. Len(Whole) |-> envelope(Whole[i])]
    BY DEF DrainedAtExit
  <2>1. doneSeen /\ Len(rcvd) = Len(sent) /\ frames = Len(rcvd)
    BY DEF ThreadInv, BuilderInv
  <2>2. parser = "ended" /\ src.pc = "done"
    BY <2>1 DEF ThreadInv, ParserInv
  <2>3. pos = Len(Whole)
    BY <2>2, DoneIsWhole DEF ThreadInv, ReplayInv
  <2>4. Len(sent) = Len(Whole) /\ \A i \in 1 .. Len(sent) : sent[i] = envelope(Whole[i])
    BY <2>2, <2>3 DEF ThreadInv, SentInv
  <2>5. \A i \in 1 .. Len(Whole) : rcvd[i] = envelope(Whole[i])
    BY <2>1, <2>4 DEF ThreadInv, QInv, Contents
  <2>6. rcvd \in Seq(Elem) /\ DOMAIN rcvd = 1 .. Len(Whole)
    BY <2>1, <2>4 DEF ThreadInv, QInv, QTypeOK, Elem
  <2>7. rcvd = [i \in 1 .. Len(rcvd) |-> rcvd[i]]
    BY <2>6
  <2> QED BY <2>1, <2>4, <2>5, <2>7
<1> QED BY <1>1, ThreadInvariant, PTL

\* The bytes under parse stay mapped while the parser thread walks them, and
\* the carry between two chunks is the tail, in the threaded binary too.
THEOREM ThreadsKeepSource == Spec => [](SourceIsHeld /\ CarryIsTail)
<1>1. ThreadInv => SourceIsHeld /\ CarryIsTail
  BY HeldFromInv, CarryFromInv DEF ThreadInv, ReplayInv
<1> QED BY <1>1, ThreadInvariant, PTL

-----------------------------------------------------------------------------
(* The books of the two threads.                                           *)

\* Files without a frame of a decoded type and another length.  The runs show
\* what such a frame does to the books of replay_threaded.
Intact == \A f \in Files : \A i \in 1 .. Len(parse_stream(f.content)) :
            LET frame == parse_stream(f.content)[i]
            IN  frame.type \in Decoded => frame.good

\* The builder's books are those of the frames it has popped.
BooksInv == builder = Sequential(Prefix(frames))

\* An intact frame makes the same of a BookBuilder by way of its envelope.
LEMMA EnvelopeApplies ==
  ASSUME NEW f, NEW h, f.type \in Decoded => f.good
  PROVE  dispatch_to_book(envelope(f), h) = dispatch(f, h)
<1> DEFINE t == IF f.type = "F" THEN "A" ELSE f.type
<1>1. CASE intact(f)
  <2>1. envelope(f).type = t /\ envelope(f).m = f.m
    BY <1>1 DEF envelope
  <2>2. f.type \in Decoded
    BY <1>1 DEF intact
  <2> QED BY <1>1, <2>1, <2>2 DEF dispatch_to_book, dispatch, Decoded
<1>2. CASE ~intact(f)
  <2>1. envelope(f).type = f.type /\ f.type \notin Decoded
    BY <1>2 DEF envelope, intact
  <2> QED BY <1>2, <2>1 DEF dispatch_to_book, dispatch, Decoded
<1> QED BY <1>1, <1>2

\* Only the builder thread writes the books, one envelope at a time.
LEMMA BooksStep ==
  ASSUME Intact, ThreadInv, BooksInv, [Next]_vars
  PROVE  BooksInv'
<1>1. file' = file
  BY DEF Next, Open, Parser, Builder, Visible, Join, Finished, ParserRun, ParserPush, ParserWrite,
         ParserPublish, ParserAccount, ParserDone, ParserThrows, BuilderEmpty, BuilderPop,
         BuilderApply, BuilderCheck, OpenStep, OpenFails, Start, RunStep, Opening, OpenFile,
         FstatFile, MapFile, SlurpFile, Running, ReadInput, InflateChunk, ParseReturns, Finish,
         vars, rvars, srcvars
<1>2. CASE BuilderApply
  <2>1. /\ cpc = "release" /\ builder' = dispatch_to_book(out, builder)
        /\ frames' = frames + 1
    BY <1>2 DEF BuilderApply, PopRelease
  <2>2. /\ Len(sent) \in Nat /\ Len(rcvd) \in Nat /\ tailSeen \in Nat
        /\ Len(rcvd) < tailSeen /\ tailSeen <= Len(sent)
        /\ out = sent[Len(rcvd) + 1] /\ frames = Len(rcvd)
    BY <2>1 DEF ThreadInv, QInv, QTypeOK, Counts, Contents, BuilderInv
  <2>3. /\ Len(sent) <= Len(Whole) /\ \A i \in 1 .. Len(sent) : sent[i] = envelope(Whole[i])
        /\ file \in Files /\ Len(Whole) \in Nat
    BY WholeSeq DEF ThreadInv, SentInv, ReplayInv, SourceInv, SourceType
  <2>4. frames \in Nat /\ frames + 1 \in 1 .. Len(sent) /\ frames + 1 \in 1 .. Len(Whole)
    BY <2>2, <2>3
  <2>5. out = envelope(Whole[frames + 1])
    BY <2>2, <2>3, <2>4
  <2>6. Whole[frames + 1].type \in Decoded => Whole[frames + 1].good
    BY <2>3, <2>4 DEF Intact, Whole
  <2>7. PICK f, h : f = Whole[frames + 1] /\ h = builder
    OBVIOUS
  <2>8. dispatch_to_book(envelope(f), h) = dispatch(f, h)
    BY <2>6, <2>7, EnvelopeApplies
  <2>9. frames < Len(Whole)
    BY <2>3, <2>4
  <2>10. Sequential(Prefix(frames + 1)) = dispatch(f, Sequential(Prefix(frames)))
    BY <2>3, <2>4, <2>7, <2>9, PrefixNext
  <2>11. builder' = Sequential(Prefix(frames + 1))
    BY <2>1, <2>5, <2>7, <2>8, <2>10 DEF BooksInv
  <2> QED BY <1>1, <2>1, <2>11 DEF BooksInv, Prefix, Whole
<1>3. CASE ~BuilderApply
  <2>1. builder' = builder /\ frames' = frames
    BY <1>3 DEF Next, Open, Parser, Builder, Visible, Join, Finished, ParserRun, ParserPush,
         ParserWrite, ParserPublish, ParserAccount, ParserDone, ParserThrows, BuilderEmpty,
         BuilderPop, BuilderCheck, OpenStep, OpenFails, Start, RunStep, vars, rvars, tvars, bvars
  <2> QED BY <1>1, <2>1 DEF BooksInv, Prefix, Whole
<1> QED BY <1>2, <1>3

\* run (src/replay_threaded_main.cpp): on intact files a run that reports
\* success has the books of the single-threaded replay of the whole day.
THEOREM ThreadedWholeDay ==
  ASSUME Intact
  PROVE  Spec => []SuccessIsWholeDay
<1>1. Init => BooksInv
  <2> SUFFICES ASSUME Init PROVE BooksInv
    OBVIOUS
  <2>1. file \in Files /\ frames = 0 /\ builder = NewBuilder
    BY DEF Init, ReplayInit, SourceInit
  <2> QED BY <2>1, PrefixEnds DEF BooksInv
<1>2. ThreadInv /\ BooksInv /\ [Next]_vars => BooksInv'
  BY BooksStep
<1>3. ThreadInv /\ BooksInv => SuccessIsWholeDay
  <2> SUFFICES ASSUME ThreadInv, BooksInv, phase = "serving" \/ (phase = "exited" /\ status = 0)
               PROVE  /\ pos = Len(Whole) /\ builder = Sequential(Whole)
                      /\ file.kind = "gzip" =>
                           /\ file.ends = "marker"
                           /\ frame_boundary(file.content) = Len(file.content)
    BY DEF SuccessIsWholeDay
  <2>1. bpc = "exited"
    BY DEF ThreadInv, BuilderInv, ParserInv
  <2>2. parser = "ended" /\ src.pc = "done"
    BY <2>1 DEF ThreadInv, BuilderInv, ParserInv
  <2>3. frames = Len(Whole)
    <3>1. pos = Len(Whole)
      BY <2>2, DoneIsWhole DEF ThreadInv, ReplayInv
    <3> QED BY <2>1, <2>2, <3>1 DEF ThreadInv, BuilderInv, SentInv
  <2>4. file \in Files
    BY DEF ThreadInv, ReplayInv, SourceInv, SourceType
  <2>5. builder = Sequential(Whole)
    BY <2>3, <2>4, PrefixEnds DEF BooksInv
  <2> QED BY <2>2, <2>5, DoneIsWhole DEF ThreadInv, ReplayInv
<1> QED BY <1>1, <1>2, <1>3, ThreadInvInit, ThreadStep, PTL DEF Spec
=============================================================================

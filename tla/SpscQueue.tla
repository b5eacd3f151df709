----------------------------- MODULE SpscQueue -----------------------------
(***************************************************************************)
(* pipeline::SpscQueue (include/pipeline/spsc_queue.hpp): one producer and *)
(* one consumer thread over a ring of Capacity slots.  push and pop are    *)
(* split at every access to shared memory.                                 *)
(*                                                                         *)
(* Memory order.  Each index has one writer, so its modification order is  *)
(* the sequence of its stores, the n-th of which has the value n masked.   *)
(* tailSeen is how many stores of tail_ the consumer thread can see,       *)
(* headSeen how many stores of head_ the producer can see; each lags       *)
(* behind by any amount (SeeTail and SeeHead catch up).  An acquire load   *)
(* returns the newest visible store; because the stores are releases, what *)
(* their writer did before the visible ones has happened before whatever   *)
(* follows the load.  An access to a slot that is not ordered in this way  *)
(* after the other thread's last access to it is a data race: a racy write *)
(* leaves the slot holding Torn, a racy read returns anything.             *)
(***************************************************************************)
EXTENDS Integers, Sequences

CONSTANTS Value,      \* the elements (trivially copyable, never inspected)
          Capacity,   \* slots of the ring
          MaxItems,   \* bound: how many elements are pushed in all
          Torn        \* what a data race leaves behind

ASSUME SpscAssumption == /\ Capacity \in Nat /\ Capacity > 1
                         /\ MaxItems \in Nat
                         /\ Torn \notin Value

VARIABLES buf, head, tail,      \* buf_, head_, tail_
          headSeen, tailSeen,   \* visibility of the two indices
          ppc, pval,            \* the producer: where in push, and v
          cpc, out,             \* the consumer: where in pop, and out
          sent, rcvd            \* history: elements published, elements popped

shared   == <<buf, head, tail, headSeen, tailSeen>>
producer == <<ppc, pval>>
consumer == <<cpc, out>>
qvars    == <<shared, producer, consumer, sent, rcvd>>

Mask(i) == i % Capacity

\* What the acquire loads of the other thread's index return.
HeadLoad == Mask(headSeen)
TailLoad == Mask(tailSeen)

\* Mutant: size() subtracts the indices the wrong way round.
ProducerSize_swapped == Mask(HeadLoad - tail)

\* size() called on the producer thread and on the consumer thread.
ProducerSize == Mask(tail - HeadLoad)
ConsumerSize == Mask(TailLoad - head)

\* The accesses to slots that happens-before orders.
WriteOrdered == Len(sent) < headSeen + Capacity
ReadOrdered  == Len(rcvd) < tailSeen

-----------------------------------------------------------------------------

QInit ==
  /\ buf = [i \in 0 .. Capacity - 1 |-> Torn]
  /\ head = 0 /\ tail = 0 /\ headSeen = 0 /\ tailSeen = 0
  /\ ppc = "idle" /\ pval = Torn
  /\ cpc = "idle" /\ out = Torn
  /\ sent = << >> /\ rcvd = << >>

\* Mutant: push compares the indices without leaving a slot free.
Full_no_gap == tail = HeadLoad /\ Len(sent) > 0

\* Mutant: push does not test for a full ring.
Full_never == FALSE

\* push: next == head_.load(acquire).
Full == Mask(tail + 1) = HeadLoad

\* push of a full queue returns false.
PushRefused == ppc = "idle" /\ Full /\ UNCHANGED qvars

PushLoad(v) ==
  /\ ppc = "idle" /\ ~Full
  /\ ppc' = "write" /\ pval' = v
  /\ UNCHANGED <<shared, consumer, sent, rcvd>>

PushWrite ==
  /\ ppc = "write"
  /\ buf' = [buf EXCEPT ![tail] = IF WriteOrdered THEN pval ELSE Torn]
  /\ ppc' = "publish"
  /\ UNCHANGED <<head, tail, headSeen, tailSeen, pval, consumer, sent, rcvd>>

\* tail_.store(next, release); push returns true.
PushPublish ==
  /\ ppc = "publish"
  /\ tail' = Mask(tail + 1)
  /\ sent' = Append(sent, pval)
  /\ ppc' = "idle"
  /\ UNCHANGED <<buf, head, headSeen, tailSeen, pval, consumer, rcvd>>

-----------------------------------------------------------------------------

\* pop: head == tail_.load(acquire).
Empty == head = TailLoad

\* pop of an empty queue returns false.
PopRefused == cpc = "idle" /\ Empty /\ UNCHANGED qvars

PopLoad ==
  /\ cpc = "idle" /\ ~Empty
  /\ cpc' = "read"
  /\ UNCHANGED <<shared, producer, out, sent, rcvd>>

PopRead ==
  /\ cpc = "read"
  /\ out' \in IF ReadOrdered THEN {buf[head]} ELSE Value \cup {Torn}
  /\ cpc' = "release"
  /\ UNCHANGED <<shared, producer, sent, rcvd>>

\* Mutant: the slot is returned but not released.
PopRelease_no_advance ==
  /\ cpc = "release"
  /\ rcvd' = Append(rcvd, out)
  /\ cpc' = "idle"
  /\ UNCHANGED <<shared, producer, out, sent>>

\* head_.store(head + 1, release); pop returns true with out.
PopRelease ==
  /\ cpc = "release"
  /\ head' = Mask(head + 1)
  /\ rcvd' = Append(rcvd, out)
  /\ cpc' = "idle"
  /\ UNCHANGED <<buf, tail, headSeen, tailSeen, producer, out, sent>>

-----------------------------------------------------------------------------

\* More of the other thread's stores become visible.
SeeTail ==
  /\ \E n \in tailSeen + 1 .. Len(sent) : tailSeen' = n
  /\ UNCHANGED <<buf, head, tail, headSeen, producer, consumer, sent, rcvd>>

SeeHead ==
  /\ \E n \in headSeen + 1 .. Len(rcvd) : headSeen' = n
  /\ UNCHANGED <<buf, head, tail, tailSeen, producer, consumer, sent, rcvd>>

QNext ==
  \/ Len(sent) < MaxItems /\ (PushRefused \/ \E v \in Value : PushLoad(v))
  \/ PushWrite \/ PushPublish
  \/ PopRefused \/ PopLoad \/ PopRead \/ PopRelease
  \/ SeeTail \/ SeeHead

QSpec == QInit /\ [][QNext]_qvars

-----------------------------------------------------------------------------

\* The indices stay inside the ring and the histories hold elements.
QTypeOK ==
  /\ buf \in [0 .. Capacity - 1 -> Value \cup {Torn}]
  /\ head \in 0 .. Capacity - 1 /\ tail \in 0 .. Capacity - 1
  /\ headSeen \in Nat /\ tailSeen \in Nat
  /\ ppc \in {"idle", "write", "publish"} /\ pval \in Value \cup {Torn}
  /\ cpc \in {"idle", "read", "release"} /\ out \in Value \cup {Torn}
  /\ sent \in Seq(Value \cup {Torn}) /\ rcvd \in Seq(Value \cup {Torn})

\* "acquire/release gives that handoff for free": no slot access of either
\* thread races with one of the other, however late either index becomes
\* visible, and the two threads are never inside the same slot.
NoSlotRace ==
  /\ ppc = "write" => WriteOrdered
  /\ cpc = "read" => ReadOrdered
  /\ ppc = "write" /\ cpc = "read" => head # tail

\* Nothing is lost, duplicated, reordered or overwritten: what was popped is a
\* prefix of what was pushed, and "returns false (buffer full) instead of
\* overwriting an unconsumed slot".
FifoDelivery ==
  /\ Len(rcvd) <= Len(sent)
  /\ \A i \in 1 .. Len(rcvd) : rcvd[i] = sent[i]
  /\ Len(sent) - Len(rcvd) <= Capacity - 1

\* size() "from either thread": on the producer it never understates the
\* occupancy, on the consumer it never overstates it, and masking the
\* difference of two indices read at different times never wraps.
SizeBrackets ==
  /\ ConsumerSize <= Len(sent) - Len(rcvd)
  /\ Len(sent) - Len(rcvd) <= ProducerSize

\* The ring implements a FIFO of Capacity - 1 elements.
Fifo == INSTANCE BoundedFifo WITH
          Value <- Value \cup {Torn}, Bound <- Capacity - 1,
          queue <- SubSeq(sent, Len(rcvd) + 1, Len(sent)), delivered <- rcvd
ImplementsFifo == Fifo!Spec

=============================================================================

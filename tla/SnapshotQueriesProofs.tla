------------------------ MODULE SnapshotQueriesProofs -----------------------
(***************************************************************************)
(* SnapshotQueries, for every file, cadence, request and number of         *)
(* connections: what replay and replay_query report, what the store holds  *)
(* and what an answer shows.                                               *)
(***************************************************************************)
EXTENDS SnapshotQueries, FileReplayProofs, FiniteSetTheorems

\* The books are those of the frames handled so far.
BuilderInv == builder = Sequential(Prefix(pos))

\* What the store holds.
Served == [data |-> store.data, unknown_refs |-> store.unknown_refs]

StoreInv ==
  /\ publish_every \in Nat /\ since_publish \in Nat
  /\ store.version \in Nat /\ store.version = Len(published)
  /\ published \in Seq({published[i] : i \in 1 .. Len(published)})
  /\ Served = Published(store.version)

\* since_publish counts at least the book-touching frames since some publish.
RecentInv ==
  publish_every # 0 /\ binary = "replay_query" =>
    /\ since_publish < publish_every
    /\ \E k \in 0 .. pos : /\ Touching(k + 1, pos) <= since_publish
                           /\ Served = SnapshotOf(Sequential(Prefix(k)))

IngestInv == ReplayInv /\ BuilderInv /\ StoreInv /\ RecentInv /\ FinalIsServed

\* Counting book-touching frames: none in an empty range, one more if the next
\* frame touches a book.
LEMMA TouchingNat ==
  ASSUME NEW a \in Nat, NEW b \in Nat
  PROVE  /\ Touching(a, b) \in Nat
         /\ a > b => Touching(a, b) = 0
         /\ a <= b + 1 => Touching(a, b + 1)
              = IF intact(Whole[b + 1]) THEN Touching(a, b) + 1 ELSE Touching(a, b)
<1> DEFINE S == {i \in a .. b : intact(Whole[i])}
           T == {i \in a .. b + 1 : intact(Whole[i])}
<1>1. IsFiniteSet(S)
  <2>1. IsFiniteSet(a .. b)
    BY FS_Interval
  <2> QED BY <2>1, FS_Subset
<1>2. Touching(a, b) \in Nat
  BY <1>1, FS_CardinalityType DEF Touching
<1>3. ASSUME a > b PROVE Touching(a, b) = 0
  <2>1. S = {}
    BY <1>3
  <2> QED BY <2>1, FS_EmptySet DEF Touching
<1>4. ASSUME a <= b + 1, intact(Whole[b + 1]) PROVE Touching(a, b + 1) = Touching(a, b) + 1
  <2>1. T = S \cup {b + 1} /\ b + 1 \notin S
    BY <1>4
  <2> QED BY <1>1, <2>1, FS_AddElement DEF Touching
<1>5. ASSUME a <= b + 1, ~intact(Whole[b + 1]) PROVE Touching(a, b + 1) = Touching(a, b)
  <2>1. T = S
    BY <1>5
  <2> QED BY <2>1 DEF Touching
<1> QED BY <1>2, <1>3, <1>4, <1>5

\* It holds at the start: an empty store serves the empty books.
LEMMA IngestInit ==
  ASSUME Init
  PROVE  IngestInv
<1>1. ReplayInv
  BY ReplayInvInit DEF Init
<1>2. /\ pos = 0 /\ builder = NewBuilder /\ phase = "opening" /\ file \in Files
      /\ publish_every \in Nat /\ since_publish = 0 /\ published = << >>
      /\ store = [data |-> EmptyMap, unknown_refs |-> 0, version |-> 0]
  BY SnapshotAssumption DEF Init, ReplayInit, SourceInit
<1>3. BuilderInv
  BY <1>2, PrefixEnds DEF BuilderInv
<1>4. Served = SnapshotOf(NewBuilder)
  <2>1. DOMAIN EmptyMap = {}
    BY DEF EmptyMap
  <2>2. snapshot_book_table(EmptyMap) = EmptyMap
    BY <2>1 DEF snapshot_book_table, EmptyMap
  <2> QED BY <1>2, <2>2 DEF Served, SnapshotOf, NewBuilder
<1>5. StoreInv
  BY <1>2, <1>4 DEF StoreInv, Published
<1>6. RecentInv
  <2>1. Touching(1, 0) = 0
    BY TouchingNat
  <2>2. Served = SnapshotOf(Sequential(Prefix(0))) /\ Touching(0 + 1, pos) <= since_publish
    BY <1>2, <1>4, <2>1, PrefixEnds
  <2>3. 0 \in 0 .. pos
    BY <1>2
  <2> QED BY <1>2, <2>2, <2>3 DEF RecentInv
<1>7. FinalIsServed
  BY <1>2 DEF FinalIsServed
<1> QED BY <1>1, <1>3, <1>5, <1>6, <1>7 DEF IngestInv

\* Steps that leave the store and the books alone.
LEMMA IngestSame ==
  ASSUME IngestInv, ReplayInv',
         UNCHANGED <<publish_every, since_publish, store, published, pos, builder, binary, file>>,
         phase' = "serving" => phase = "serving"
  PROVE  IngestInv'
<1>1. BuilderInv' /\ StoreInv'
  BY DEF IngestInv, BuilderInv, StoreInv, Served, Published, Prefix, Whole
<1>2. RecentInv' /\ FinalIsServed'
  BY DEF IngestInv, RecentInv, FinalIsServed, Served, Prefix, Whole, Touching
<1> QED BY <1>1, <1>2 DEF IngestInv

\* Everything main does apart from a publish.
LEMMA IngestQuiet ==
  ASSUME IngestInv, Open \/ Decode \/ StartServing \/ ServerFails \/ ReplayFails \/ Exit
                    \/ (Replay /\ ~Handle) \/ UNCHANGED ingest
  PROVE  IngestInv'
<1>0. ReplayInv
  BY DEF IngestInv
<1>1. CASE Open
  <2>1. ReplayInv'
    BY <1>0, <1>1, ReplayInvOpen, ReplayInvOpenFails DEF Open
  <2>2. UNCHANGED <<publish_every, since_publish, store, published, pos, builder, binary, file>>
        /\ (phase' = "serving" => phase = "serving")
    BY <1>1 DEF Open, Quietly, OpenStep, OpenFails, Opening, OpenFile, FstatFile, MapFile,
                SlurpFile, srcvars
  <2> QED BY <2>1, <2>2, IngestSame
<1>2. CASE Decode
  <2>1. ReplayInv'
    BY <1>0, <1>2, ReplayInvRun DEF Decode
  <2>2. UNCHANGED <<publish_every, since_publish, store, published, pos, builder, binary, file>>
        /\ phase' = phase
    BY <1>2 DEF Decode, Quietly, RunStep, Running, ReadInput, InflateChunk, ParseReturns, Finish
  <2> QED BY <2>1, <2>2, IngestSame
<1>3. CASE StartServing \/ (Replay /\ Start)
  <2>1. Start /\ Quietly
    BY <1>3 DEF StartServing, Replay
  <2>2. ReplayInv'
    BY <1>0, <2>1, ReplayInvStart
  <2>3. UNCHANGED <<publish_every, since_publish, store, published, pos, builder, binary, file>>
        /\ phase' = "replaying"
    BY <2>1 DEF Quietly, Start
  <2> QED BY <2>2, <2>3, IngestSame
<1>4. CASE ServerFails \/ Exit \/ (Replay /\ Report)
  <2>1. /\ Release /\ phase' = "exited" /\ UNCHANGED <<file, chunk_size, src, pos>>
        /\ phase \in {"replaying", "serving", "stopping"} \/ (phase = "opening" /\ At("opened"))
    BY <1>4 DEF ServerFails, Exit, Replay, Report
  <2>2. status' = 0 => src.pc = "done"
    BY <1>0, <1>4 DEF ServerFails, Exit, Replay, Report, At, ReplayInv, PhaseInv
  <2>3. ReplayInv'
    BY <1>0, <2>1, <2>2, ReplayInvExit
  <2>4. UNCHANGED <<publish_every, since_publish, store, published, pos, builder, binary, file>>
    BY <1>4 DEF ServerFails, Exit, Replay, Report, Quietly
  <2> QED BY <2>1, <2>3, <2>4, IngestSame
<1>5. CASE ReplayFails
  <2>1. /\ UNCHANGED <<publish_every, since_publish, store, published, pos, builder, binary>>
        /\ UNCHANGED srcvars /\ phase' = "stopping" /\ status' = 1 /\ phase = "replaying"
    BY <1>5 DEF ReplayFails, Quietly
  <2>2. SourceInv'
    BY <1>0, <2>1, SourceInvSame DEF ReplayInv, srcvars
  <2>3. HeldInv' /\ PhaseInv'
    BY <1>0, <2>1 DEF ReplayInv, HeldInv, PhaseInv, Resource, srcvars
  <2>4. ReplayInv' /\ UNCHANGED file
    BY <2>1, <2>2, <2>3 DEF ReplayInv, srcvars
  <2> QED BY <2>1, <2>4, IngestSame
<1>6. CASE UNCHANGED ingest
  <2>1. ReplayInv'
    BY <1>0, <1>6, ReplayInvSame DEF ingest, rvars
  <2> QED BY <1>6, <2>1, IngestSame DEF ingest, rvars, srcvars
<1> QED BY <1>1, <1>2, <1>3, <1>4, <1>5, <1>6 DEF Replay

\* A frame handed to the BookBuilder is the next one of the file.
LEMMA HandleStep ==
  ASSUME ReplayInv, BuilderInv, Handle
  PROVE  /\ ReplayInv' /\ BuilderInv' /\ pos' = pos + 1 /\ pos \in Nat /\ pos < Len(Whole)
         /\ phase = "replaying" /\ phase' = phase /\ UNCHANGED <<file, binary>>
         /\ NextFrame = Whole[pos + 1]
<1>1. /\ phase = "replaying" /\ HasFrame /\ TakeFrame /\ pos' = pos + 1
      /\ builder' = dispatch(NextFrame, builder)
      /\ UNCHANGED <<file, chunk_size, held, binary, phase, status>>
  BY DEF Handle
<1>2. ReplayInv'
  BY <1>1, ReplayInvTake
<1>3. pos \in Nat /\ file \in Files
  BY DEF ReplayInv, SourceInv, SourceType
<1>4. pos < Len(Whole) /\ NextFrame = Whole[pos + 1]
  BY <1>1, NextFrameIs DEF ReplayInv
<1>5. builder' = Sequential(Prefix(pos + 1))
  BY <1>1, <1>3, <1>4, PrefixNext DEF BuilderInv
<1>6. BuilderInv'
  BY <1>1, <1>5 DEF BuilderInv, Prefix, Whole
<1> QED BY <1>1, <1>2, <1>3, <1>4, <1>6

\* replay: no store.
LEMMA IngestReplay ==
  ASSUME IngestInv, Replay, Handle
  PROVE  IngestInv'
<1>1. ReplayInv' /\ BuilderInv' /\ phase' = "replaying" /\ binary = "replay" /\ binary' = binary
  BY HandleStep DEF IngestInv, Replay
<1>2. UNCHANGED <<publish_every, since_publish, store, published>>
  BY DEF Replay, Quietly
<1>3. StoreInv' /\ RecentInv' /\ FinalIsServed'
  BY <1>1, <1>2 DEF IngestInv, StoreInv, Served, Published, RecentInv, FinalIsServed
<1> QED BY <1>1, <1>3 DEF IngestInv

\* A publish stores the books it is handed, under the next version.
LEMMA PublishStep ==
  ASSUME StoreInv, NEW h, publish(h)
  PROVE  /\ Served' = SnapshotOf(h) /\ store'.version = store.version + 1
         /\ store'.version = Len(published')
         /\ published' \in Seq({published'[i] : i \in 1 .. Len(published')})
         /\ published'[store.version + 1] = SnapshotOf(h)
         /\ \A i \in 1 .. store.version : published'[i] = published[i]
         /\ (Served = Published(store.version))'
<1> DEFINE X == {published[i] : i \in 1 .. Len(published)} \cup {SnapshotOf(h)}
<1>1. /\ store' = [data |-> snapshot_book_table(h.books), unknown_refs |-> h.unknown_refs,
                   version |-> store.version + 1]
      /\ published' = Append(published, SnapshotOf(h))
  BY DEF publish
<1>2. store.version \in Nat /\ store.version = Len(published)
  BY DEF StoreInv
<1>3. published \in Seq(X)
  BY DEF StoreInv
<1>4. Served' = SnapshotOf(h) /\ store'.version = store.version + 1
  BY <1>1 DEF Served, SnapshotOf
<1>5. SnapshotOf(h) \in X
  OBVIOUS
<1> HIDE DEF X
<1>6. /\ published' \in Seq(X) /\ Len(published') = store.version + 1
      /\ published'[store.version + 1] = SnapshotOf(h)
      /\ \A i \in 1 .. store.version : published'[i] = published[i]
  BY <1>1, <1>2, <1>3, <1>5
<1>7. published' \in Seq({published'[i] : i \in 1 .. Len(published')})
  BY <1>6
<1>8. (Served = Published(store.version))'
  BY <1>2, <1>4, <1>6 DEF Published
<1> QED BY <1>4, <1>6, <1>7, <1>8

\* A frame in replay_query, with or without a publish behind it.
LEMMA IngestStep ==
  ASSUME IngestInv, Ingest
  PROVE  IngestInv'
<1>1. /\ ReplayInv' /\ BuilderInv' /\ pos' = pos + 1 /\ pos \in Nat /\ pos < Len(Whole)
      /\ phase' = "replaying" /\ UNCHANGED <<file, binary>> /\ NextFrame = Whole[pos + 1]
      /\ binary = "replay_query" /\ publish_every' = publish_every
  BY HandleStep DEF IngestInv, Ingest
<1>2. FinalIsServed'
  BY <1>1 DEF FinalIsServed
<1>3. publish_every \in Nat /\ since_publish \in Nat /\ StoreInv
  BY DEF IngestInv, StoreInv
<1>4. \A k : Prefix(k)' = Prefix(k)
  BY <1>1 DEF Prefix, Whole
<1>5. CASE intact(NextFrame) /\ due(since_publish + 1)
  <2>1. since_publish' = 0 /\ publish(builder') /\ publish_every # 0
    BY <1>5 DEF Ingest, due
  <2>2. /\ Served' = SnapshotOf(builder') /\ store'.version = store.version + 1
        /\ store'.version = Len(published')
        /\ published' \in Seq({published'[i] : i \in 1 .. Len(published')})
        /\ (Served = Published(store.version))'
    BY <1>3, <2>1, PublishStep
  <2>3. StoreInv'
    BY <1>1, <1>3, <2>1, <2>2 DEF StoreInv, Published
  <2>4. (Served = SnapshotOf(Sequential(Prefix(pos))))'
    BY <1>1, <2>2 DEF BuilderInv
  <2>5. (Touching(pos + 1, pos) = 0)'
    <3>1. pos + 2 \in Nat /\ pos + 1 \in Nat /\ pos + 2 > pos + 1
      BY <1>1
    <3>2. Touching(pos + 2, pos + 1) = 0
      BY <3>1, TouchingNat
    <3>3. (pos + 1)' = pos + 2
      BY <1>1
    <3> QED BY <1>1, <3>2, <3>3 DEF Touching, Whole
  <2>6. RecentInv'
    <3>1. (pos \in 0 .. pos)' /\ publish_every' # 0 /\ 0 < publish_every'
      BY <1>1, <1>3, <2>1
    <3>2. (Touching(pos + 1, pos) <= since_publish)'
      BY <2>1, <2>5
    <3> QED BY <2>1, <2>4, <3>1, <3>2 DEF RecentInv
  <2> QED BY <1>1, <1>2, <2>3, <2>6 DEF IngestInv
<1>6. CASE ~(intact(NextFrame) /\ due(since_publish + 1))
  <2>1. /\ since_publish' = IF intact(NextFrame) /\ publish_every # 0 THEN since_publish + 1
                            ELSE since_publish
        /\ UNCHANGED <<store, published>>
    BY <1>6 DEF Ingest
  <2>2. StoreInv'
    BY <1>1, <1>3, <2>1 DEF StoreInv, Served, Published
  <2>3. RecentInv'
    <3> SUFFICES ASSUME publish_every # 0 PROVE RecentInv'
      BY <1>1 DEF RecentInv
    <3>1. since_publish < publish_every
      BY <1>1 DEF IngestInv, RecentInv
    <3>2. PICK k \in 0 .. pos : /\ Touching(k + 1, pos) <= since_publish
                                /\ Served = SnapshotOf(Sequential(Prefix(k)))
      BY <1>1 DEF IngestInv, RecentInv
    <3>3. since_publish' < publish_every
      BY <1>3, <1>6, <2>1, <3>1 DEF due
    <3>4. Touching(k + 1, pos + 1) <= since_publish'
      <4>1. /\ Touching(k + 1, pos) \in Nat
            /\ Touching(k + 1, pos + 1)
                 = IF intact(Whole[pos + 1]) THEN Touching(k + 1, pos) + 1
                   ELSE Touching(k + 1, pos)
        <5>1. k + 1 \in Nat /\ k + 1 <= pos + 1
          BY <1>1
        <5> QED BY <1>1, <5>1, TouchingNat
      <4> QED BY <1>1, <1>3, <2>1, <3>2, <4>1
    <3>5. (Touching(k + 1, pos) <= since_publish)'
      BY <1>1, <3>4 DEF Touching, Whole
    <3>6. (Served = SnapshotOf(Sequential(Prefix(k))))'
      BY <1>4, <2>1, <3>2 DEF Served
    <3>7. (k \in 0 .. pos)'
      BY <1>1
    <3>8. (since_publish < publish_every)'
      BY <1>1, <3>3
    <3> QED BY <3>5, <3>6, <3>7, <3>8 DEF RecentInv
  <2> QED BY <1>1, <1>2, <2>2, <2>3 DEF IngestInv
<1> QED BY <1>5, <1>6

\* The publish after the parse.
LEMMA IngestFinish ==
  ASSUME IngestInv, FinishReplay
  PROVE  IngestInv'
<1>1. /\ publish(builder) /\ phase = "replaying" /\ phase' = "serving" /\ src.pc = "done"
      /\ UNCHANGED <<srcvars, binary, status, pos, builder, publish_every, since_publish>>
  BY DEF FinishReplay, At
<1>2. /\ UNCHANGED <<file, chunk_size, src, held>> /\ file \in Files
      /\ publish_every \in Nat /\ since_publish \in Nat /\ pos \in Nat
  BY <1>1 DEF srcvars, IngestInv, ReplayInv, SourceInv, SourceType, StoreInv
<1>3. ReplayInv'
  <2>1. SourceInv'
    BY <1>1, <1>2, SourceInvSame DEF IngestInv, ReplayInv
  <2>2. HeldInv' /\ PhaseInv'
    BY <1>1, <1>2 DEF IngestInv, ReplayInv, HeldInv, PhaseInv, Resource
  <2> QED BY <2>1, <2>2 DEF ReplayInv
<1>4. BuilderInv'
  BY <1>1, <1>2 DEF IngestInv, BuilderInv, Prefix, Whole
<1>5. /\ Served' = SnapshotOf(builder) /\ store'.version = store.version + 1
      /\ store'.version = Len(published')
      /\ published' \in Seq({published'[i] : i \in 1 .. Len(published')})
      /\ (Served = Published(store.version))'
  BY <1>1, PublishStep DEF IngestInv
<1>6. StoreInv'
  BY <1>1, <1>2, <1>5 DEF IngestInv, StoreInv, Published
<1>7. Served' = SnapshotOf(Sequential(Prefix(pos)))
  BY <1>5 DEF IngestInv, BuilderInv
<1>8. RecentInv'
  <2>1. Touching(pos + 1, pos) = 0
    BY <1>2, TouchingNat
  <2>2. (Touching(pos + 1, pos) = 0)' /\ (Served = SnapshotOf(Sequential(Prefix(pos))))'
    BY <1>1, <1>2, <1>7, <2>1 DEF Touching, Prefix, Whole
  <2>3. (pos \in 0 .. pos)' /\ (Touching(pos + 1, pos) <= since_publish)'
    BY <1>1, <1>2, <2>2
  <2> QED BY <1>1, <2>2, <2>3 DEF IngestInv, RecentInv
<1>9. FinalIsServed'
  <2>1. pos = Len(Whole)
    BY <1>1, DoneIsWhole DEF IngestInv, ReplayInv
  <2>2. Served' = SnapshotOf(Sequential(Whole))
    BY <1>2, <1>7, <2>1, PrefixEnds
  <2> QED BY <1>2, <2>2 DEF FinalIsServed, Served, Whole
<1> QED BY <1>3, <1>4, <1>6, <1>8, <1>9 DEF IngestInv

-----------------------------------------------------------------------------
(* The connection threads.                                                 *)

\* A request being answered, at or before the version the store is at.
Shaped(s) ==
  /\ s.pc # "idle" /\ s.from \in Nat /\ s.from <= store.version
  /\ \/ s = [pc |-> s.pc, req |-> s.req, got |-> s.got, from |-> s.from]
     \/ s = [pc |-> "answered", req |-> s.req, got |-> EmptyMap, from |-> s.from,
             error |-> s.error]

\* A quote's book is that of version v, its version and unknown_refs no older.
BookFirst(s, v) ==
  /\ "version" \in DOMAIN s.got => v <= s.got["version"]
  /\ "unknown" \in DOMAIN s.got =>
       \E w \in v .. store.version : s.got["unknown"] = Published(w).unknown_refs

\* The promises of TornOnlyByPublish about one answer.
BooksCurrent(s) ==
  "books" \in DOMAIN s.got =>
    \E v \in s.from .. store.version :
      /\ ShowsBooks(s, v)
      /\ s.req.cmd = "quote" => BookFirst(s, v)

VersionCurrent(s) ==
  "version" \in DOMAIN s.got => s.got["version"] \in s.from .. store.version

UnknownCurrent(s) ==
  "unknown" \in DOMAIN s.got =>
    \E v \in s.from .. store.version : s.got["unknown"] = Published(v).unknown_refs

ErrorCurrent(s) ==
  "error" \in DOMAIN s /\ s.error = "unknown locate" =>
    \E v \in s.from .. store.version : locate16(s.req) \notin DOMAIN Published(v).data

\* Nothing of a quote was read before its book.
Ordered(s) == s.req.cmd = "quote" /\ DOMAIN s.got # {} => "books" \in DOMAIN s.got

Current(s) == Ordered(s) /\ BooksCurrent(s) /\ VersionCurrent(s) /\ UnknownCurrent(s) /\ ErrorCurrent(s)

ConnInv ==
  /\ conn = [c \in Conn |-> conn[c]]
  /\ \A c \in Conn : conn[c] = Idle \/ (Shaped(conn[c]) /\ Current(conn[c]))

\* An answer stays current while the store only grows.
LEMMA CurrentGrows ==
  ASSUME NEW s, Shaped(s), Current(s), store.version \in Nat, store'.version \in Nat,
         store.version <= store'.version,
         \A v \in 0 .. store.version : Published(v)' = Published(v)
  PROVE  Shaped(s)' /\ Current(s)'
<1>1. Shaped(s)'
  BY DEF Shaped
<1>2. /\ s.from .. store.version \subseteq s.from .. store'.version
      /\ s.from .. store.version \subseteq 0 .. store.version
  BY DEF Shaped
<1>3. BooksCurrent(s)'
  <2> SUFFICES ASSUME "books" \in DOMAIN s.got PROVE BooksCurrent(s)'
    BY DEF BooksCurrent
  <2>1. PICK v \in s.from .. store.version :
             ShowsBooks(s, v) /\ (s.req.cmd = "quote" => BookFirst(s, v))
    BY DEF Current, BooksCurrent
  <2>2. Published(v)' = Published(v) /\ v \in s.from .. store'.version
    BY <1>2
  <2>3. ASSUME BookFirst(s, v) PROVE BookFirst(s, v)'
    <3>1. ASSUME NEW w \in v .. store.version
          PROVE  w \in v .. store'.version /\ Published(w)' = Published(w)
      BY <1>2 DEF Shaped
    <3> QED BY <2>2, <2>3, <3>1 DEF BookFirst
  <2>4. ShowsBooks(s, v)'
    BY <2>1, <2>2 DEF ShowsBooks
  <2> QED BY <2>1, <2>2, <2>3, <2>4 DEF BooksCurrent
<1>4. VersionCurrent(s)'
  BY <1>2 DEF Current, VersionCurrent
<1>5. UnknownCurrent(s)'
  <2> SUFFICES ASSUME "unknown" \in DOMAIN s.got PROVE UnknownCurrent(s)'
    BY DEF UnknownCurrent
  <2>1. PICK v \in s.from .. store.version : s.got["unknown"] = Published(v).unknown_refs
    BY DEF Current, UnknownCurrent
  <2>2. Published(v)' = Published(v) /\ v \in s.from .. store'.version
    BY <1>2
  <2> QED BY <2>1, <2>2 DEF UnknownCurrent
<1>6. ErrorCurrent(s)'
  <2> SUFFICES ASSUME "error" \in DOMAIN s, s.error = "unknown locate" PROVE ErrorCurrent(s)'
    BY DEF ErrorCurrent
  <2>1. PICK v \in s.from .. store.version : locate16(s.req) \notin DOMAIN Published(v).data
    BY DEF Current, ErrorCurrent
  <2>2. Published(v)' = Published(v) /\ v \in s.from .. store'.version
    BY <1>2
  <2> QED BY <2>1, <2>2 DEF ErrorCurrent
<1> QED BY <1>1, <1>3, <1>4, <1>5, <1>6 DEF Current, Ordered

\* The ingest thread leaves the answers alone; what it publishes adds to the history.
LEMMA ConnIngest ==
  ASSUME ConnInv, UNCHANGED conn, store.version \in Nat, store'.version \in Nat,
         store.version <= store'.version,
         \A v \in 0 .. store.version : Published(v)' = Published(v)
  PROVE  ConnInv'
<1>1. ASSUME NEW c \in Conn PROVE conn[c]' = Idle \/ (Shaped(conn[c])' /\ Current(conn[c])')
  <2>1. conn[c] = Idle \/ (Shaped(conn[c]) /\ Current(conn[c]))
    BY DEF ConnInv
  <2>2. PICK s : s = conn[c]
    OBVIOUS
  <2>3. Shaped(s) /\ Current(s) => Shaped(s)' /\ Current(s)'
    BY CurrentGrows
  <2>4. s = conn[c]'
    BY <2>2
  <2> QED BY <2>1, <2>2, <2>3, <2>4
<1> QED BY <1>1 DEF ConnInv

\* A step of connection c leaves it with s.
LEMMA ConnTurns ==
  ASSUME ConnInv, StoreInv, UNCHANGED ingest, NEW c \in Conn, NEW s,
         conn' = [conn EXCEPT ![c] = s], s = Idle \/ (Shaped(s) /\ Current(s))
  PROVE  ConnInv'
<1>1. /\ store.version \in Nat /\ store' = store /\ published' = published
      /\ \A v \in 0 .. store.version : Published(v)' = Published(v)
  BY DEF StoreInv, ingest, Published
<1>2. conn' = [d \in Conn |-> conn'[d]]
  BY DEF ConnInv
<1>3. ASSUME NEW d \in Conn
      PROVE  conn[d]' = Idle \/ (Shaped(conn[d])' /\ Current(conn[d])')
  <2>1. PICK t : t = conn[d]'
    OBVIOUS
  <2>2. t = IF d = c THEN s ELSE conn[d]
    <3>1. conn = [e \in Conn |-> conn[e]]
      BY DEF ConnInv
    <3> QED BY <2>1, <3>1
  <2>3. t = Idle \/ (Shaped(t) /\ Current(t))
    BY <2>2 DEF ConnInv
  <2>4. Shaped(t) /\ Current(t) => Shaped(t)' /\ Current(t)'
    BY <1>1, CurrentGrows
  <2> QED BY <2>1, <2>3, <2>4
<1> QED BY <1>2, <1>3 DEF ConnInv

\* A request line is read, or an answer has been sent.
LEMMA ConnReceives ==
  ASSUME ConnInv, StoreInv, NEW c \in Conn, Receive(c) \/ ReceiveBad(c) \/ Sent(c)
  PROVE  ConnInv'
<1>1. UNCHANGED ingest /\ store.version \in Nat
  BY DEF Receive, ReceiveBad, Sent, StoreInv
<1>2. CASE Receive(c)
  <2>1. PICK q \in Requests : conn' = [conn EXCEPT ![c] =
              [pc |-> "reading", req |-> q, got |-> EmptyMap, from |-> store.version]]
    BY <1>2 DEF Receive
  <2>2. PICK s : s = [pc |-> "reading", req |-> q, got |-> EmptyMap, from |-> store.version]
    OBVIOUS
  <2>3. DOMAIN s.got = {} /\ "error" \notin DOMAIN s
    BY <2>2 DEF EmptyMap
  <2>4. Shaped(s) /\ Current(s)
    BY <1>1, <2>2, <2>3
       DEF Shaped, Current, Ordered, BooksCurrent, VersionCurrent, UnknownCurrent, ErrorCurrent
  <2> QED BY <1>1, <2>1, <2>2, <2>4, ConnTurns
<1>3. CASE ReceiveBad(c)
  <2>1. PICK q \in Requests : conn' = [conn EXCEPT ![c] =
              [pc |-> "answered", req |-> q, got |-> EmptyMap, from |-> store.version,
               error |-> "bad request"]]
    BY <1>3 DEF ReceiveBad
  <2>2. PICK s : s = [pc |-> "answered", req |-> q, got |-> EmptyMap, from |-> store.version,
                      error |-> "bad request"]
    OBVIOUS
  <2>3. DOMAIN s.got = {} /\ s.error # "unknown locate"
    BY <2>2 DEF EmptyMap
  <2>4. Shaped(s)
    <3>1. s.pc = "answered" /\ s.req = q /\ s.from = store.version /\ s.error = "bad request"
      BY <2>2
    <3>2. s = [pc |-> "answered", req |-> s.req, got |-> EmptyMap, from |-> s.from,
               error |-> s.error]
      BY <2>2, <3>1, Zenon
    <3>3. s.pc # "idle" /\ s.from \in Nat /\ s.from <= store.version
      <4>1. store.version \in Nat /\ s.from = store.version
        BY <1>1, <3>1
      <4>2. s.pc # "idle"
        BY <3>1
      <4> QED BY <4>1, <4>2
    <3> QED BY <3>2, <3>3, Zenon DEF Shaped
  <2>5. Current(s)
    BY <2>3 DEF Current, Ordered, BooksCurrent, VersionCurrent, UnknownCurrent, ErrorCurrent
  <2> QED BY <1>1, <2>1, <2>2, <2>4, <2>5, ConnTurns
<1>4. CASE Sent(c)
  BY <1>1, <1>4, ConnTurns DEF Sent
<1> QED BY <1>2, <1>3, <1>4

\* The response line holds what was read.
LEMMA ConnResponds ==
  ASSUME ConnInv, StoreInv, NEW c \in Conn, Respond(c)
  PROVE  ConnInv'
<1>1. UNCHANGED ingest
  BY DEF Respond
<1>2. PICK s : s = conn[c]
  OBVIOUS
<1>3. conn' = [conn EXCEPT ![c] = [s EXCEPT !.pc = "answered"]] /\ s.pc = "reading"
      /\ DOMAIN s.got = {"books", "version", "unknown"}
  BY <1>2 DEF Respond, ConnInv
<1>4. Shaped(s) /\ Current(s)
  BY <1>2, <1>3 DEF ConnInv, Idle
<1>5. s = [pc |-> s.pc, req |-> s.req, got |-> s.got, from |-> s.from]
  <2>1. s.got # EmptyMap
    BY <1>3 DEF EmptyMap
  <2> QED BY <1>4, <2>1 DEF Shaped
<1>6. PICK t : t = [pc |-> "answered", req |-> s.req, got |-> s.got, from |-> s.from]
  OBVIOUS
<1>7. [s EXCEPT !.pc = "answered"] = t
  BY <1>5, <1>6
<1>8. Shaped(t) /\ Current(t)
  <2>1. t.req = s.req /\ t.got = s.got /\ t.from = s.from /\ t.pc = "answered"
        /\ "error" \notin DOMAIN t
    BY <1>6
  <2>2. Shaped(t)
    BY <1>4, <1>6, <2>1 DEF Shaped
  <2> QED BY <1>4, <2>1, <2>2
          DEF Current, Ordered, BooksCurrent, VersionCurrent, UnknownCurrent, ErrorCurrent,
              ShowsBooks, BookFirst
<1> QED BY <1>1, <1>3, <1>7, <1>8, ConnTurns

\* Each read takes what the store holds now, which is what its last publish stored.
LEMMA ConnReads ==
  ASSUME ConnInv, StoreInv, NEW c \in Conn, ReadStore(c)
  PROVE  ConnInv'
<1>1. UNCHANGED ingest /\ store.version \in Nat
  BY DEF ReadStore, StoreInv
<1>2. PICK s : s = conn[c]
  OBVIOUS
<1>3. PICK part \in {"books", "version", "unknown"} :
         /\ MayRead(s, part)
         /\ conn' = [conn EXCEPT ![c] =
              IF part = "books" /\ s.req.cmd = "quote" /\ locate16(s.req) \notin DOMAIN store.data
              THEN [pc |-> "answered", req |-> s.req, got |-> EmptyMap, from |-> s.from,
                    error |-> "unknown locate"]
              ELSE [s EXCEPT !.got = Put(@, part, ReadValue(s.req, part))]]
  BY <1>2 DEF ReadStore
<1>4. s.pc = "reading" /\ Shaped(s) /\ Current(s)
  <2>1. s.pc = "reading"
    BY <1>2 DEF ReadStore
  <2>2. s # Idle
    BY <2>1 DEF Idle
  <2> QED BY <1>2, <2>1, <2>2 DEF ConnInv
<1>5. /\ store.version \in s.from .. store.version
      /\ Published(store.version).data = store.data
      /\ Published(store.version).unknown_refs = store.unknown_refs
  <2>1. Served = Published(store.version)
    BY DEF StoreInv
  <2> QED BY <1>1, <1>4, <2>1 DEF Shaped, Served
<1>6. CASE part = "books" /\ s.req.cmd = "quote" /\ locate16(s.req) \notin DOMAIN store.data
  <2>1. PICK t : t = [pc |-> "answered", req |-> s.req, got |-> EmptyMap, from |-> s.from,
                      error |-> "unknown locate"]
    OBVIOUS
  <2>2. DOMAIN t.got = {} /\ t.req = s.req /\ t.from = s.from
    BY <2>1 DEF EmptyMap
  <2>3. Shaped(t)
    BY <1>4, <2>1 DEF Shaped
  <2>4. Current(t)
    BY <1>5, <1>6, <2>2
       DEF Current, Ordered, BooksCurrent, VersionCurrent, UnknownCurrent, ErrorCurrent
  <2> QED BY <1>1, <1>3, <1>6, <2>1, <2>3, <2>4, ConnTurns
<1>7. CASE ~(part = "books" /\ s.req.cmd = "quote" /\ locate16(s.req) \notin DOMAIN store.data)
  <2>1. PICK t : t = [s EXCEPT !.got = Put(s.got, part, ReadValue(s.req, part))]
    OBVIOUS
  <2>2. PICK g : g = Put(s.got, part, ReadValue(s.req, part))
    OBVIOUS
  <2>3. CASE s = [pc |-> s.pc, req |-> s.req, got |-> s.got, from |-> s.from]
    <3>1. t = [pc |-> s.pc, req |-> s.req, got |-> g, from |-> s.from]
      BY <2>1, <2>2, <2>3
    <3>2. t.req = s.req /\ t.got = g /\ t.from = s.from /\ "error" \notin DOMAIN t
      BY <3>1
    <3>3. /\ DOMAIN g = DOMAIN s.got \cup {part} /\ g[part] = ReadValue(s.req, part)
          /\ \A x \in DOMAIN s.got : x # part => g[x] = s.got[x]
      BY <2>2 DEF Put
    <3>4. Shaped(t)
      BY <1>4, <3>1 DEF Shaped
    <3>5. BooksCurrent(t)
      <4>1. CASE part = "books"
        <5>1. t.got["books"] = IF s.req.cmd = "list" THEN store.data
                               ELSE store.data[locate16(s.req)]
          BY <3>2, <3>3, <4>1 DEF ReadValue
        <5>2. ShowsBooks(t, store.version)
          BY <1>5, <1>7, <3>2, <4>1, <5>1 DEF ShowsBooks
        <5>3. ASSUME s.req.cmd = "quote" PROVE BookFirst(t, store.version)
          <6>1. DOMAIN s.got = {}
            BY <1>3, <1>4, <4>1, <5>3 DEF MayRead, Current, Ordered
          <6> QED BY <3>2, <3>3, <4>1, <6>1 DEF BookFirst
        <5> QED BY <1>5, <3>2, <5>2, <5>3 DEF BooksCurrent
      <4>2. CASE part # "books"
        <5> SUFFICES ASSUME "books" \in DOMAIN s.got PROVE BooksCurrent(t)
          BY <3>2, <3>3, <4>2 DEF BooksCurrent
        <5>1. PICK v \in s.from .. store.version :
                   ShowsBooks(s, v) /\ (s.req.cmd = "quote" => BookFirst(s, v))
          BY <1>4 DEF Current, BooksCurrent
        <5>2. v <= store.version /\ store.version \in v .. store.version
          BY <1>1, <1>4 DEF Shaped
        <5>3. ShowsBooks(t, v)
          BY <3>2, <3>3, <4>2, <5>1 DEF ShowsBooks
        <5>4. ASSUME BookFirst(s, v) PROVE BookFirst(t, v)
          <6>1. CASE part = "version"
            BY <3>2, <3>3, <5>2, <5>4, <6>1 DEF BookFirst, ReadValue
          <6>2. CASE part = "unknown"
            BY <1>5, <3>2, <3>3, <5>2, <5>4, <6>2 DEF BookFirst, ReadValue
          <6> QED BY <4>2, <6>1, <6>2
        <5> QED BY <3>2, <5>1, <5>3, <5>4 DEF BooksCurrent
      <4> QED BY <4>1, <4>2
    <3>6. VersionCurrent(t)
      <4>1. CASE part = "version"
        BY <1>5, <3>2, <3>3, <4>1 DEF VersionCurrent, ReadValue
      <4>2. CASE part # "version"
        BY <1>4, <3>2, <3>3, <4>2 DEF Current, VersionCurrent
      <4> QED BY <4>1, <4>2
    <3>7. UnknownCurrent(t)
      <4>1. CASE part = "unknown"
        BY <1>5, <3>2, <3>3, <4>1 DEF UnknownCurrent, ReadValue
      <4>2. CASE part # "unknown"
        BY <1>4, <3>2, <3>3, <4>2 DEF Current, UnknownCurrent
      <4> QED BY <4>1, <4>2
    <3>8. Ordered(t)
      BY <1>3, <1>4, <3>2, <3>3 DEF MayRead, Current, Ordered
    <3>9. Current(t)
      BY <3>2, <3>5, <3>6, <3>7, <3>8 DEF Current, ErrorCurrent
    <3> QED BY <1>1, <1>3, <1>7, <2>1, <3>4, <3>9, ConnTurns
  <2> QED BY <1>4, <2>3 DEF Shaped
<1> QED BY <1>6, <1>7

-----------------------------------------------------------------------------
(* The specification.                                                      *)

\* What a publish adds leaves the history before it.
LEMMA HistoryKept ==
  ASSUME StoreInv, NEW h, publish(h)
  PROVE  /\ store.version \in Nat /\ store'.version \in Nat /\ store.version <= store'.version
         /\ \A v \in 0 .. store.version : Published(v)' = Published(v)
<1>1. store.version \in Nat
  BY DEF StoreInv
<1>2. store'.version = store.version + 1
      /\ \A i \in 1 .. store.version : published'[i] = published[i]
  BY PublishStep
<1>3. ASSUME NEW v \in 0 .. store.version PROVE Published(v)' = Published(v)
  BY <1>1, <1>2 DEF Published
<1> QED BY <1>1, <1>2, <1>3

\* Inductive: what the ingest thread keeps, and what the connections hold.
SystemInv == IngestInv /\ ConnInv

\* It holds at the start.
LEMMA SystemInit ==
  ASSUME Init
  PROVE  SystemInv
<1>1. ConnInv
  BY DEF Init, ConnInv
<1> QED BY <1>1, IngestInit DEF SystemInv

\* Every step keeps it, one case per action.
LEMMA SystemStep ==
  ASSUME SystemInv, [Next]_vars
  PROVE  SystemInv'
<1>0. IngestInv /\ ConnInv /\ StoreInv /\ store.version \in Nat
  BY DEF SystemInv, IngestInv, StoreInv
<1>1. ASSUME UNCHANGED <<store, published, conn>> PROVE ConnInv'
  <2>1. \A v \in 0 .. store.version : Published(v)' = Published(v)
    BY <1>1 DEF Published
  <2> QED BY <1>0, <1>1, <2>1, ConnIngest
<1>2. CASE Open \/ Decode \/ StartServing \/ ServerFails \/ ReplayFails \/ Exit \/ Exited
           \/ UNCHANGED vars \/ (Replay /\ ~Handle)
  <2>1. UNCHANGED <<store, published, conn>>
    BY <1>2 DEF Open, Decode, StartServing, ServerFails, ReplayFails, Exit, Exited, Replay,
                Quietly, vars, ingest
  <2>2. IngestInv'
    BY <1>0, <1>2, IngestQuiet DEF Exited, vars
  <2> QED BY <1>1, <2>1, <2>2 DEF SystemInv
<1>3. CASE Replay /\ Handle
  BY <1>0, <1>1, <1>3, IngestReplay DEF SystemInv, Replay, Quietly
<1>4. CASE Ingest
  <2>1. IngestInv'
    BY <1>0, <1>4, IngestStep
  <2>2. ConnInv'
    <3>1. CASE intact(NextFrame) /\ due(since_publish + 1)
      <4>1. publish(builder') /\ UNCHANGED conn
        BY <1>4, <3>1 DEF Ingest
      <4>2. PICK h : h = builder'
        OBVIOUS
      <4>3. publish(h)
        BY <4>1, <4>2 DEF publish
      <4> QED BY <1>0, <4>1, <4>3, HistoryKept, ConnIngest
    <3>2. CASE ~(intact(NextFrame) /\ due(since_publish + 1))
      BY <1>1, <1>4, <3>2 DEF Ingest
    <3> QED BY <3>1, <3>2
  <2> QED BY <2>1, <2>2 DEF SystemInv
<1>5. CASE FinishReplay
  <2>1. IngestInv'
    BY <1>0, <1>5, IngestFinish
  <2>2. publish(builder) /\ UNCHANGED conn
    BY <1>5 DEF FinishReplay
  <2>3. PICK h : h = builder
    OBVIOUS
  <2>4. ConnInv'
    BY <1>0, <2>2, <2>3, HistoryKept, ConnIngest
  <2> QED BY <2>1, <2>4 DEF SystemInv
<1>6. ASSUME NEW c \in Conn,
             Receive(c) \/ ReceiveBad(c) \/ ReadStore(c) \/ Respond(c) \/ Sent(c)
      PROVE  SystemInv'
  <2>1. UNCHANGED ingest
    BY <1>6 DEF Receive, ReceiveBad, ReadStore, Respond, Sent
  <2>2. ConnInv'
    BY <1>0, <1>6, ConnReceives, ConnResponds, ConnReads
  <2> QED BY <1>0, <2>1, <2>2, IngestQuiet DEF SystemInv
<1> QED BY <1>2, <1>3, <1>4, <1>5, <1>6 DEF Next

\* SystemInv is an invariant of the specification.
THEOREM SystemInvariant == Spec => []SystemInv
<1>1. Init => SystemInv
  BY SystemInit
<1>2. SystemInv /\ [Next]_vars => SystemInv'
  BY SystemStep
<1> QED BY <1>1, <1>2, PTL DEF Spec

\* GzipSource::run (include/itch/gzip_source.hpp): between two reads the buffer
\* holds exactly the bytes behind the last whole frame, for any file, any way
\* zlib splits it and any chunk size.
THEOREM CarryTheorem == Spec => []CarryIsTail
<1>1. SystemInv => CarryIsTail
  BY CarryFromInv DEF SystemInv, IngestInv, ReplayInv
<1> QED BY <1>1, SystemInvariant, PTL

\* ~MappedFile and ~GzipSource: the bytes under parse stay mapped, and no
\* path out of main leaks a descriptor or a mapping.
THEOREM HeldTheorem == Spec => []SourceIsHeld
<1>1. SystemInv => SourceIsHeld
  BY HeldFromInv DEF SystemInv, IngestInv
<1> QED BY <1>1, SystemInvariant, PTL

\* replay and replay_query report success only of a whole day: every frame
\* handled in order, and a .gz file that ends in its marker on a frame boundary.
THEOREM WholeDayTheorem == Spec => []SuccessIsWholeDay
<1>1. SystemInv => SuccessIsWholeDay
  <2> SUFFICES ASSUME SystemInv, phase = "serving" \/ (phase = "exited" /\ status = 0)
               PROVE  /\ pos = Len(Whole) /\ builder = Sequential(Whole)
                      /\ file.kind = "gzip" =>
                           /\ file.ends = "marker"
                           /\ frame_boundary(file.content) = Len(file.content)
    BY DEF SuccessIsWholeDay
  <2>1. SourceInv /\ BuilderInv /\ src.pc = "done" /\ file \in Files
    BY DEF SystemInv, IngestInv, ReplayInv, PhaseInv, SourceInv, SourceType
  <2>2. /\ pos = Len(Whole)
        /\ file.kind = "gzip" => /\ file.ends = "marker"
                                 /\ frame_boundary(file.content) = Len(file.content)
    BY <2>1, DoneIsWhole
  <2>3. builder = Sequential(Whole)
    BY <2>1, <2>2, PrefixEnds DEF BuilderInv
  <2> QED BY <2>2, <2>3
<1> QED BY <1>1, SystemInvariant, PTL

\* PublishingHandler::maybe_publish: with a cadence of N the store is never N
\* book-touching messages behind, and always shows one prefix of the file.
THEOREM RecentTheorem == Spec => []ServedIsRecent
<1>1. SystemInv => ServedIsRecent
  <2> SUFFICES ASSUME SystemInv, publish_every # 0, binary = "replay_query"
               PROVE  \E k \in 0 .. pos :
                         /\ Touching(k + 1, pos) < publish_every
                         /\ Served = SnapshotOf(Sequential(Prefix(k)))
    BY DEF ServedIsRecent, Served
  <2>1. since_publish \in Nat /\ publish_every \in Nat /\ since_publish < publish_every
        /\ pos \in Nat
    BY DEF SystemInv, IngestInv, StoreInv, RecentInv, ReplayInv, SourceInv, SourceType
  <2>2. PICK k \in 0 .. pos : /\ Touching(k + 1, pos) <= since_publish
                              /\ Served = SnapshotOf(Sequential(Prefix(k)))
    BY DEF SystemInv, IngestInv, RecentInv
  <2>3. k + 1 \in Nat
    BY <2>1
  <2>4. Touching(k + 1, pos) \in Nat
    BY <2>1, <2>3, TouchingNat
  <2>5. Touching(k + 1, pos) < publish_every
    BY <2>1, <2>2, <2>4
  <2> QED BY <2>2, <2>5
<1> QED BY <1>1, SystemInvariant, PTL

\* The unconditional publish after the parse: while the server serves a
\* finished replay it shows the books of the whole file, whatever the cadence.
THEOREM FinalTheorem == Spec => []FinalIsServed
<1>1. SystemInv => FinalIsServed
  BY DEF SystemInv, IngestInv
<1> QED BY <1>1, SystemInvariant, PTL

\* QueryServer::handle_line: every part of an answer was current at some moment
\* between its request and the answer, and nothing of a quote is older than its
\* book, whatever the ingest thread publishes in between, for any number of
\* connections.
THEOREM AnswersTheorem == Spec => []TornOnlyByPublish
<1>1. SystemInv => TornOnlyByPublish
  <2> SUFFICES ASSUME ConnInv, NEW c \in Conn, conn[c].pc # "idle" PROVE Current(conn[c])
    BY DEF SystemInv, TornOnlyByPublish, Current, BooksCurrent, BookFirst, VersionCurrent,
           UnknownCurrent, ErrorCurrent
  <2>1. conn[c] # Idle
    BY DEF Idle
  <2> QED BY <2>1 DEF ConnInv
<1> QED BY <1>1, SystemInvariant, PTL
=============================================================================

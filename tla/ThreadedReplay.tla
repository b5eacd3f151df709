--------------------------- MODULE ThreadedReplay --------------------------
(***************************************************************************)
(* replay_threaded (src/replay_threaded_main.cpp) over                     *)
(* pipeline::run_pipeline (include/pipeline/threaded_replay.hpp): a parser *)
(* thread runs the source and pushes an envelope for each frame; a         *)
(* book-builder thread pops and applies them; producer_done tells the      *)
(* builder that the parser has pushed its last.  An exception that leaves  *)
(* the parser thread ends the process: the try block is on another thread. *)
(*                                                                         *)
(* The queue is SpscQueue with its memory model: an acquire load that      *)
(* returns true makes all stores of tail_ before the flag visible, and a   *)
(* load may return false for a while after the store.                      *)
(***************************************************************************)
EXTENDS SpscQueue, FileReplay

\* The queue is one of Envelopes.
ASSUME ThreadedAssumption ==
  \A f \in Files : \A i \in 1 .. Len(parse_stream(f.content)) :
    envelope(parse_stream(f.content)[i]) \in Value

\* builder of FileReplay is ConsumerResult::builder, pos QueueProducer::frames.
VARIABLES parser,          \* parser thread: "decode", "account" or "ended"
          max_occupancy,   \* QueueProducer::max_occupancy
          done, doneSeen,  \* producer_done, and whether its store is visible
          bpc,             \* builder thread: "loop", "check", "drain" or "exited"
          frames           \* ConsumerResult::frames

bvars == <<bpc, builder, frames>>
tvars == <<parser, max_occupancy, done, doneSeen, bpc, frames>>
vars  == <<rvars, qvars, tvars>>

Init ==
  /\ QInit /\ ReplayInit({"replay_threaded"})
  /\ parser = "decode" /\ max_occupancy = 0
  /\ done = FALSE /\ doneSeen = FALSE
  /\ bpc = "loop" /\ frames = 0

Joining == phase = "replaying"

-----------------------------------------------------------------------------
(* run_mmap, run_gzip, run_legacy and run up to the threads.               *)

Open == (OpenStep \/ OpenFails \/ Start) /\ UNCHANGED <<qvars, tvars>>

-----------------------------------------------------------------------------
(* The parser thread: decode(producer), then the flag.                     *)

\* The source's own work between two frames.
ParserRun == parser = "decode" /\ RunStep /\ UNCHANGED <<qvars, tvars>>

\* push_spin calls push with the envelope of the next frame, and again after
\* each refusal.
ParserPush ==
  /\ Joining /\ parser = "decode" /\ HasFrame
  /\ PushRefused \/ PushLoad(envelope(NextFrame))
  /\ UNCHANGED <<rvars, tvars>>

ParserWrite == Joining /\ PushWrite /\ UNCHANGED <<rvars, tvars>>

ParserPublish ==
  /\ Joining /\ PushPublish
  /\ parser' = "account"
  /\ UNCHANGED <<rvars, max_occupancy, done, doneSeen, bpc, frames>>

\* The rest of push_spin.
ParserAccount ==
  /\ Joining /\ parser = "account"
  /\ max_occupancy' = Max({max_occupancy, ProducerSize})
  /\ pos' = pos + 1 /\ TakeFrame
  /\ parser' = "decode"
  /\ UNCHANGED <<qvars, file, chunk_size, held, binary, phase, status, done, doneSeen, bvars>>

\* Mutant: the flag is never raised.
ParserDone_forgotten ==
  /\ Joining /\ parser = "decode" /\ At("done")
  /\ parser' = "ended"
  /\ UNCHANGED <<rvars, qvars, max_occupancy, done, doneSeen, bpc, frames>>

ParserDone ==
  /\ Joining /\ parser = "decode" /\ At("done")
  /\ done' = TRUE /\ parser' = "ended"
  /\ UNCHANGED <<rvars, qvars, max_occupancy, doneSeen, bpc, frames>>

\* decode() throws: std::terminate, which stops both threads where they are.
ParserThrows ==
  /\ Joining /\ parser = "decode" /\ At("failed")
  /\ phase' = "terminated"
  /\ UNCHANGED <<srcvars, binary, status, pos, builder, qvars, tvars>>

Parser == \/ ParserRun \/ ParserPush \/ ParserWrite \/ ParserPublish \/ ParserAccount
          \/ ParserDone \/ ParserThrows

-----------------------------------------------------------------------------
(* The book-builder thread: consume().                                     *)

\* A pop that comes up empty: look at the flag, or stop if already draining.
BuilderEmpty ==
  /\ Joining /\ bpc \in {"loop", "drain"} /\ PopRefused
  /\ bpc' = IF bpc = "loop" THEN "check" ELSE "exited"
  /\ UNCHANGED <<rvars, parser, max_occupancy, done, doneSeen, frames>>

BuilderPop ==
  /\ Joining /\ bpc \in {"loop", "drain"} /\ (PopLoad \/ PopRead)
  /\ UNCHANGED <<rvars, tvars>>

\* The pop returns and its envelope is applied; dispatch_to_book touches only
\* what this thread owns.
BuilderApply ==
  /\ Joining /\ PopRelease
  /\ builder' = dispatch_to_book(out, builder)
  /\ frames' = frames + 1
  /\ UNCHANGED <<srcvars, binary, phase, status, pos, parser, max_occupancy, done, doneSeen, bpc>>

\* Mutant: the flag is loaded relaxed, which orders nothing before the drain.
BuilderCheck_relaxed ==
  /\ Joining /\ bpc = "check"
  /\ bpc' = IF doneSeen THEN "drain" ELSE "loop"
  /\ UNCHANGED <<rvars, qvars, parser, max_occupancy, done, doneSeen, frames>>

\* producer_done.load(acquire), then drain or yield.
BuilderCheck ==
  /\ Joining /\ bpc = "check"
  /\ bpc' = IF doneSeen THEN "drain" ELSE "loop"
  /\ tailSeen' = IF doneSeen THEN Len(sent) ELSE tailSeen
  /\ UNCHANGED <<buf, head, tail, headSeen, producer, consumer, sent, rcvd>>
  /\ UNCHANGED <<rvars, parser, max_occupancy, done, doneSeen, frames>>

Builder == BuilderEmpty \/ BuilderPop \/ BuilderApply \/ BuilderCheck

-----------------------------------------------------------------------------

\* A store of one thread becomes visible to the other.
Visible ==
  /\ Joining
  /\ \/ (SeeTail \/ SeeHead) /\ UNCHANGED doneSeen
     \/ done /\ ~doneSeen /\ doneSeen' = TRUE /\ UNCHANGED qvars
  /\ UNCHANGED <<rvars, parser, max_occupancy, done, bpc, frames>>

\* Both joins return, RunStats is reported and the source destroyed.
Join ==
  /\ Joining /\ parser = "ended" /\ bpc = "exited"
  /\ phase' = "exited" /\ Release
  /\ UNCHANGED <<file, chunk_size, src, binary, status, pos, builder, qvars, tvars>>

Finished == phase \in {"exited", "terminated"} /\ UNCHANGED vars

Next == Open \/ Parser \/ Builder \/ Visible \/ Join \/ Finished

\* Main runs, both threads keep being scheduled, and a store becomes visible
\* in finite time.
Fairness == /\ WF_vars(Open) /\ WF_vars(Join)
            /\ WF_vars(Parser) /\ WF_vars(Builder) /\ WF_vars(Visible)

Spec == Init /\ [][Next]_vars /\ Fairness

-----------------------------------------------------------------------------

\* "the producer can't push anything more after setting it, so a full drain at
\* that point is guaranteed to be the true end of the stream": the builder
\* never exits with a frame of the file not yet applied.
DrainedAtExit ==
  bpc = "exited" => /\ frames = Len(Whole)
                    /\ rcvd = [i \in 1 .. Len(Whole) |-> envelope(Whole[i])]

\* The process always ends: no frame, flag or slot is waited for forever, and
\* a source that fails on the parser thread does not leave the builder
\* waiting for a flag.
Terminates == <>(phase \in {"exited", "terminated"})

=============================================================================

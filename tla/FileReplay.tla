----------------------------- MODULE FileReplay ----------------------------
(***************************************************************************)
(* A binary that replays one file into a BookBuilder: replay               *)
(* (src/replay_main.cpp) as it is, and what replay_query                   *)
(* (src/replay_query_main.cpp, completed in SnapshotQueries) and           *)
(* replay_threaded (src/replay_threaded_main.cpp, completed in             *)
(* ThreadedReplay) share with it.                                          *)
(***************************************************************************)
EXTENDS FileSource

VARIABLES binary,          \* "replay", "replay_query" or "replay_threaded"
          phase,           \* main: "opening", "replaying", "serving", "stopping" or
                           \* "exited", or "terminated" by an exception nobody caught
          status,          \* what main returns: 0 or 1
          pos, builder     \* frames handed to the handler; its BookBuilder

rvars == <<srcvars, binary, phase, status, pos, builder>>

ReplayInit(binaries) ==
  /\ SourceInit
  /\ binary \in binaries
  /\ phase = "opening" /\ status = 0 /\ pos = 0 /\ builder = NewBuilder

\* The frames of the file, and the first k of them.
Whole     == parse_stream(file.content)
Prefix(k) == SubSeq(Whole, 1, k)

-----------------------------------------------------------------------------

OpenStep == phase = "opening" /\ Opening /\ UNCHANGED <<binary, phase, status, pos, builder>>

\* A constructor threw, or run_legacy returned: there is no source to destroy.
OpenFails ==
  /\ phase = "opening" /\ At("failed")
  /\ phase' = "exited" /\ status' = 1
  /\ UNCHANGED <<srcvars, binary, pos, builder>>

\* The source is there; its run or parse_stream begins.
Start ==
  /\ phase = "opening" /\ At("opened")
  /\ src' = StartRun(src) /\ phase' = "replaying"
  /\ UNCHANGED <<file, chunk_size, held, binary, status, pos, builder>>

RunStep == phase = "replaying" /\ Running /\ UNCHANGED <<binary, phase, status, pos, builder>>

\* itch::dispatch of the next frame into the BookBuilder.
Handle ==
  /\ phase = "replaying" /\ HasFrame /\ TakeFrame
  /\ pos' = pos + 1 /\ builder' = dispatch(NextFrame, builder)
  /\ UNCHANGED <<file, chunk_size, held, binary, phase, status>>

\* replay's report, then return 0 or, after an exception, 1.
Report ==
  /\ binary = "replay" /\ phase = "replaying" /\ src.pc \in {"done", "failed"}
  /\ phase' = "exited" /\ status' = IF At("failed") THEN 1 ELSE 0
  /\ Release
  /\ UNCHANGED <<file, chunk_size, src, binary, pos, builder>>

-----------------------------------------------------------------------------

\* "correctly refuses to parse (...) rather than silently running on a partial
\* day": a run that reports success has handled every frame of the file in
\* order, and for a .gz file that is the whole day: nothing was cut off,
\* damaged or left over behind the last frame.
SuccessIsWholeDay ==
  phase = "serving" \/ (phase = "exited" /\ status = 0) =>
    /\ pos = Len(Whole) /\ builder = Sequential(Whole)
    /\ file.kind = "gzip" => /\ file.ends = "marker"
                             /\ frame_boundary(file.content) = Len(file.content)

\* The bytes parse_stream walks stay mapped while it does, and when the
\* process ends, on whichever path, no descriptor or mapping is left.
SourceIsHeld ==
  /\ phase = "replaying" /\ file.kind = "mmap" /\ src.len > 0 => "map" \in held
  /\ phase = "replaying" /\ file.kind = "gzip" => "fd" \in held
  /\ phase = "exited" => held = {}

=============================================================================

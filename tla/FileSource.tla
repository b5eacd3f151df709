----------------------------- MODULE FileSource ----------------------------
(***************************************************************************)
(* Where the frames of a replay come from: io::GzipSource                  *)
(* (include/io/gzip_source.hpp), io::MmapSource                            *)
(* (include/io/mmap_source.hpp), or the whole file read into memory        *)
(* (--legacy, --selftest), cut into frames by itch::parse_stream           *)
(* (include/itch/parser.hpp).                                              *)
(*                                                                         *)
(* A file is [kind, content, reads, ends].  content is its bytes (for a    *)
(* .gz file the ones it decompresses to): each frame is a two-byte         *)
(* big-endian length and a payload.  The compressed form of a .gz file is  *)
(* kept as far as it matters to the loop: reads[i] is how many bytes of    *)
(* content the first i calls of fread make available to inflate, and ends  *)
(* is what follows the last of them: the end marker, nothing (a truncated  *)
(* download) or damaged input.                                             *)
(***************************************************************************)
EXTENDS BookBuilder, SequencesExt

CONSTANTS Files,
          ChunkSizes,   \* values of chunk_size
          FrameOf       \* payload -> the frame it decodes to

\* Bytes, and reads that only ever make more of the content available.
ASSUME SourceAssumption ==
  /\ ChunkSizes \subseteq Nat \ {0}
  /\ \A f \in Files :
       /\ f.kind \in {"gzip", "mmap", "legacy", "memory"}
       /\ f.ends \in {"marker", "cut", "damaged"}
       /\ f.content \in Seq(0 .. 255)
       /\ f.kind = "gzip" =>
            /\ f.reads \in Seq(0 .. Len(f.content))
            /\ \A i \in 1 .. Len(f.reads) - 1 : f.reads[i] <= f.reads[i + 1]
            /\ f.reads # << >> => f.reads[Len(f.reads)] = Len(f.content)

VARIABLES file, chunk_size,   \* what is replayed
          src,                \* the source object and where its code is
          held                \* descriptors and mappings the process holds

srcvars == <<file, chunk_size, src, held>>

-----------------------------------------------------------------------------
(* Framing.                                                                *)

be16(data, off) == data[off + 1] * 256 + data[off + 2]

\* The loop condition and the early exit of parse_stream and frame_boundary.
CompleteAt(data, off) ==
  /\ off + 2 <= Len(data)
  /\ be16(data, off) # 0 /\ off + 2 + be16(data, off) <= Len(data)

\* frame_boundary: how far the complete frames at the front of data reach.
frame_boundary(data) ==
  LET walk[off \in 0 .. Len(data)] ==
        IF CompleteAt(data, off) THEN walk[off + 2 + be16(data, off)] ELSE off
  IN  walk[0]

payload(data, off) == SubSeq(data, off + 3, off + 2 + be16(data, off))

\* parse_stream on all of data at once: the frames a file holds.
parse_stream(data) ==
  LET walk[off \in 0 .. Len(data)] ==
        IF CompleteAt(data, off)
        THEN <<FrameOf[payload(data, off)]>> \o walk[off + 2 + be16(data, off)] ELSE << >>
  IN  walk[0]

-----------------------------------------------------------------------------
(* Opening: the constructors.                                              *)

\* buf is the buffer parse_stream works on (pending, the mapping or the
\* vector), len what it is given of it, off how far it is.
SourceInit ==
  /\ file \in Files /\ chunk_size \in ChunkSizes
  /\ src = [pc |-> "open", buf |-> << >>, len |-> 0, off |-> 0,
            read |-> 0, inflated |-> 0, zret |-> "Z_OK", full |-> FALSE]
  /\ held = {}

At(pc) == src.pc = pc
Goto(pc) == src' = [src EXCEPT !.pc = pc]

\* fopen, open or ifstream; a buffer in memory needs none of them.
OpenFile ==
  /\ At("open") /\ UNCHANGED <<file, chunk_size>>
  /\ \/ file.kind # "memory" /\ Goto("failed") /\ UNCHANGED held
     \/ /\ held' = IF file.kind = "memory" THEN held ELSE held \cup {"fd"}
        /\ Goto(CASE file.kind = "gzip" -> "opened"
                  [] file.kind = "mmap" -> "fstat"
                  [] OTHER -> "slurp")

\* Mutant: a failing mmap leaves the descriptor open.
Fail_keeps_fd == Goto("failed") /\ UNCHANGED held

\* close(fd), then throw.
Fail == Goto("failed") /\ held' = held \ {"fd"}

\* fstat; an empty file is not mapped.
FstatFile ==
  /\ At("fstat") /\ UNCHANGED <<file, chunk_size>>
  /\ \/ Fail
     \/ file.content = << >> /\ Goto("opened") /\ held' = held \ {"fd"}
     \/ file.content # << >> /\ Goto("map") /\ UNCHANGED held

\* mmap, and close of the descriptor it no longer needs.
MapFile ==
  /\ At("map") /\ UNCHANGED <<file, chunk_size>>
  /\ \/ Fail
     \/ /\ src' = [src EXCEPT !.pc = "opened", !.buf = file.content]
        /\ held' = (held \cup {"map"}) \ {"fd"}

\* run_legacy reads the whole file; the ifstream closes it either way.
SlurpFile ==
  /\ At("slurp") /\ UNCHANGED <<file, chunk_size>>
  /\ \/ file.kind = "legacy" /\ Fail
     \/ src' = [src EXCEPT !.pc = "opened", !.buf = file.content] /\ UNCHANGED held

Opening == OpenFile \/ FstatFile \/ MapFile \/ SlurpFile

-----------------------------------------------------------------------------
(* Running: GzipSource::run, or parse_stream on the whole buffer.          *)

StartRun(s) == IF file.kind = "gzip" THEN [s EXCEPT !.pc = "read"]
               ELSE [s EXCEPT !.pc = "parse", !.len = Len(s.buf)]

\* fread: an error, the end of the file, or more input for inflate.  zret is
\* what the last inflate returned.
ReadInput ==
  /\ At("read") /\ UNCHANGED <<file, chunk_size, held>>
  /\ \/ Goto("failed")
     \/ src.read = Len(file.reads) /\ Goto("finish")
     \/ src.read < Len(file.reads) /\ src' = [src EXCEPT !.pc = "inflate", !.read = @ + 1]

\* inflate fills the output or uses up its input; only then does it see what
\* follows.  What it produced before an error is dropped with it.
InflateChunk ==
  LET n     == Min({chunk_size, file.reads[src.read] - src.inflated})
      atEnd == n < chunk_size /\ src.read = Len(file.reads)
      data  == src.buf \o SubSeq(file.content, src.inflated + 1, src.inflated + n)
  IN  /\ At("inflate") /\ UNCHANGED <<file, chunk_size, held>>
      /\ \/ atEnd /\ file.ends = "damaged" /\ Goto("failed")
         \/ /\ ~(atEnd /\ file.ends = "damaged")
            /\ src' = [src EXCEPT !.pc = "parse", !.buf = data, !.off = 0,
                                  !.len = frame_boundary(data), !.inflated = @ + n,
                                  !.full = (n = chunk_size),
                                  !.zret = IF atEnd /\ file.ends = "marker"
                                           THEN "Z_STREAM_END" ELSE "Z_OK"]

\* parse_stream has another frame for the handler.
HasFrame  == At("parse") /\ CompleteAt(SubSeq(src.buf, 1, src.len), src.off)
NextFrame == FrameOf[payload(src.buf, src.off)]
TakeFrame == src' = [src EXCEPT !.off = @ + 2 + be16(src.buf, src.off)]

\* Mutant: the unparsed rest is dropped with the parsed frames.
carry_dropped(s) == << >>

\* pending.erase: what is carried over to the next chunk.
carry(s) == SubSeq(s.buf, s.len + 1, Len(s.buf))

\* parse_stream returns; in GzipSource::run the two loops go on.
ParseReturns ==
  /\ At("parse") /\ ~HasFrame /\ UNCHANGED <<file, chunk_size, held>>
  /\ IF file.kind # "gzip" THEN Goto("done")
     ELSE src' = [src EXCEPT !.buf = carry(src), !.off = 0, !.len = 0,
                             !.pc = IF src.full THEN "inflate"
                                    ELSE IF src.zret = "Z_STREAM_END" THEN "finish" ELSE "read"]

\* Mutant: the end of the file is taken for the end of the stream.
Finish_no_marker ==
  /\ At("finish") /\ UNCHANGED <<file, chunk_size, held>>
  /\ Goto(IF src.buf = << >> THEN "done" ELSE "failed")

\* The two checks after the loop.
Finish ==
  /\ At("finish") /\ UNCHANGED <<file, chunk_size, held>>
  /\ Goto(IF src.zret = "Z_STREAM_END" /\ src.buf = << >> THEN "done" ELSE "failed")

Running == ReadInput \/ InflateChunk \/ ParseReturns \/ Finish

\* ~GzipSource, ~MmapSource or ~ifstream.
Release == held' = held \ (IF file.kind = "mmap" THEN {"map"} ELSE {"fd"})

-----------------------------------------------------------------------------

\* "parse_stream is therefore only ever called on data starting at (and ending
\* on) a real frame boundary": between two calls pending is exactly what has
\* been inflated beyond the last complete frame, however the chunks and reads
\* split prefixes and payloads.
CarryIsTail ==
  file.kind = "gzip" /\ src.pc \in {"read", "inflate", "finish"} =>
    src.buf = SubSeq(file.content,
                     frame_boundary(SubSeq(file.content, 1, src.inflated)) + 1, src.inflated)

=============================================================================

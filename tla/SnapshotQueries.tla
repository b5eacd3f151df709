-------------------------- MODULE SnapshotQueries --------------------------
(***************************************************************************)
(* replay_query (src/replay_query_main.cpp): the ingest thread replays a   *)
(* file into a BookBuilder and publishes a copy of the books into a        *)
(* pipeline::SnapshotStore (include/pipeline/book_snapshot.hpp) every      *)
(* publish_every book-touching messages and once at the end, while         *)
(* connection threads answer requests from the store                       *)
(* (net::QueryServer::handle_line, include/net/query_server.hpp).          *)
(*                                                                         *)
(* Every access to the store is one critical section of its mutex and one  *)
(* step here.  An answer needs several of them.  The life of the threads   *)
(* is in QueryServer.                                                      *)
(***************************************************************************)
EXTENDS FileReplay

CONSTANTS PublishEvery,    \* values of --publish-every
          Conn,            \* connection threads
          Requests         \* request lines: [cmd, locate], locate NoField if absent

NoField == -1

ASSUME SnapshotAssumption ==
  /\ PublishEvery \subseteq Nat
  /\ \A q \in Requests : q.locate \in Nat \cup {NoField}

VARIABLES publish_every, since_publish,    \* of the PublishingHandler
          store,                           \* SnapshotStore: data, unknown_refs, version
          published,                       \* history: what publish #i stored
          conn                             \* what each connection thread is doing

ingest == <<rvars, publish_every, since_publish, store, published>>
vars   == <<ingest, conn>>

\* snapshot_book_table: one LocateSnapshot for each constructed book.
LocateSnapshot(b) == [bid |-> best(b, "Buy"), ask |-> best(b, "Sell"),
                      open_orders |-> Cardinality(DOMAIN b.orders),
                      bid_levels |-> Cardinality(DOMAIN b.levels["Buy"]),
                      ask_levels |-> Cardinality(DOMAIN b.levels["Sell"])]
snapshot_book_table(books) == [l \in DOMAIN books |-> LocateSnapshot(books[l])]

\* What publish is handed for a builder, and so what a coherent answer shows.
SnapshotOf(h) == [data |-> snapshot_book_table(h.books), unknown_refs |-> h.unknown_refs]

Idle == [pc |-> "idle"]

Init ==
  /\ ReplayInit({"replay", "replay_query"})
  /\ publish_every \in PublishEvery /\ since_publish = 0
  /\ store = [data |-> EmptyMap, unknown_refs |-> 0, version |-> 0]
  /\ published = << >>
  /\ conn = [c \in Conn |-> Idle]

-----------------------------------------------------------------------------
(* The ingest thread.                                                      *)

\* SnapshotStore::publish, under its lock.
publish(h) ==
  /\ store' = [data |-> snapshot_book_table(h.books), unknown_refs |-> h.unknown_refs,
               version |-> store.version + 1]
  /\ published' = Append(published, SnapshotOf(h))

\* Mutant: one message too many before a publish.
due_late(n) == publish_every # 0 /\ n > publish_every

\* Whether the n-th message since the last publish triggers one.
due(n) == publish_every # 0 /\ n >= publish_every

\* Steps of main that leave the store alone.
Quietly == UNCHANGED <<publish_every, since_publish, store, published, conn>>

Open   == (OpenStep \/ OpenFails) /\ Quietly
Decode == RunStep /\ Quietly

\* replay: frames go straight to the BookBuilder.
Replay == binary = "replay" /\ (Start \/ Handle \/ Report) /\ Quietly

\* replay_query: the QueryServer is built and started before the first frame.
StartServing == binary = "replay_query" /\ Start /\ Quietly

\* Its constructor throws (the port is taken): the source is destroyed.
ServerFails ==
  /\ binary = "replay_query" /\ phase = "opening" /\ At("opened")
  /\ phase' = "exited" /\ status' = 1 /\ Release
  /\ UNCHANGED <<file, chunk_size, src, binary, pos, builder>> /\ Quietly

\* PublishingHandler: forward to the BookBuilder, then maybe_publish; on_other
\* only forwards.
Ingest ==
  /\ binary = "replay_query" /\ Handle
  /\ IF intact(NextFrame) /\ due(since_publish + 1)
     THEN since_publish' = 0 /\ publish(builder')
     ELSE /\ since_publish' = IF intact(NextFrame) /\ publish_every # 0 THEN since_publish + 1
                              ELSE since_publish
          /\ UNCHANGED <<store, published>>
  /\ UNCHANGED <<publish_every, conn>>

\* Mutant: the final publish is skipped along with the periodic ones.
FinishReplay_if_periodic ==
  /\ binary = "replay_query" /\ phase = "replaying" /\ At("done")
  /\ IF publish_every # 0 THEN publish(builder) ELSE UNCHANGED <<store, published>>
  /\ phase' = "serving"
  /\ UNCHANGED <<srcvars, binary, status, pos, builder, publish_every, since_publish, conn>>

\* run(): the unconditional publish after the parse, then serve().
FinishReplay ==
  /\ binary = "replay_query" /\ phase = "replaying" /\ At("done")
  /\ publish(builder)
  /\ phase' = "serving"
  /\ UNCHANGED <<srcvars, binary, status, pos, builder, publish_every, since_publish, conn>>

\* GzipSource::run threw: nothing more is published, the server goes down.
ReplayFails ==
  /\ binary = "replay_query" /\ phase = "replaying" /\ At("failed")
  /\ phase' = "stopping" /\ status' = 1
  /\ UNCHANGED <<srcvars, binary, pos, builder>> /\ Quietly

\* serve() returns, or the stack unwinds: stop() joins the connection threads,
\* then the source is destroyed.
Exit ==
  /\ phase \in {"serving", "stopping"} /\ \A c \in Conn : conn[c] = Idle
  /\ phase' = "exited" /\ Release
  /\ UNCHANGED <<file, chunk_size, src, binary, status, pos, builder>> /\ Quietly

Exited == phase = "exited" /\ UNCHANGED vars

-----------------------------------------------------------------------------
(* A connection thread in handle_line.                                     *)

\* Requests the store is asked for; from is history: the version when the
\* line was read.
NeedsStore(q) == q.cmd = "list" \/ (q.cmd = "quote" /\ q.locate # NoField)

Listening == binary = "replay_query" /\ phase \in {"replaying", "serving", "stopping"}

Receive(c) ==
  /\ Listening /\ conn[c].pc = "idle"
  /\ \E q \in Requests :
       /\ NeedsStore(q)
       /\ conn' = [conn EXCEPT ![c] = [pc |-> "reading", req |-> q, got |-> EmptyMap,
                                      from |-> store.version]]
  /\ UNCHANGED ingest

\* "bad request", "missing locate", "unknown command": no store access.
ReceiveBad(c) ==
  /\ Listening /\ conn[c].pc = "idle"
  /\ \E q \in Requests :
       /\ ~NeedsStore(q)
       /\ conn' = [conn EXCEPT ![c] = [pc |-> "answered", req |-> q, got |-> EmptyMap,
                                      from |-> store.version, error |-> "bad request"]]
  /\ UNCHANGED ingest

\* static_cast<std::uint16_t>(*locate_field).
locate16(q) == q.locate % 65536

\* One part of the answer, read under the store's lock: the books of a list
\* (read_all), the book of a quote (find), version() or unknown_refs().
ReadValue(q, part) ==
  CASE part = "books"   -> IF q.cmd = "list" THEN store.data ELSE store.data[locate16(q)]
    [] part = "version" -> store.version
    [] part = "unknown" -> store.unknown_refs

\* Mutant: a quote's version and unknown_refs may be read before its book.
MayRead_unordered(s, part) == part \notin DOMAIN s.got

\* A quote finds its book before the other two are read; the order of the
\* arguments of list_json and quote_json is the compiler's choice.
MayRead(s, part) ==
  /\ part \notin DOMAIN s.got
  /\ s.req.cmd = "quote" /\ part # "books" => "books" \in DOMAIN s.got

ReadStore(c) ==
  LET s == conn[c]
  IN  /\ s.pc = "reading"
      /\ \E part \in {"books", "version", "unknown"} :
           /\ MayRead(s, part)
           /\ conn' = [conn EXCEPT ![c] =
                IF part = "books" /\ s.req.cmd = "quote" /\ locate16(s.req) \notin DOMAIN store.data
                THEN [pc |-> "answered", req |-> s.req, got |-> EmptyMap, from |-> s.from,
                      error |-> "unknown locate"]
                ELSE [s EXCEPT !.got = Put(@, part, ReadValue(s.req, part))]]
      /\ UNCHANGED ingest

\* The response line is put together; handle_connection sends it next.
Respond(c) ==
  /\ conn[c].pc = "reading" /\ DOMAIN conn[c].got = {"books", "version", "unknown"}
  /\ conn' = [conn EXCEPT ![c].pc = "answered"]
  /\ UNCHANGED ingest

Sent(c) ==
  /\ conn[c].pc = "answered"
  /\ conn' = [conn EXCEPT ![c] = Idle]
  /\ UNCHANGED ingest

-----------------------------------------------------------------------------

Next == \/ Open \/ Decode \/ Replay \/ StartServing \/ ServerFails
        \/ Ingest \/ FinishReplay \/ ReplayFails \/ Exit \/ Exited
        \/ \E c \in Conn : Receive(c) \/ ReceiveBad(c) \/ ReadStore(c) \/ Respond(c) \/ Sent(c)

Spec == Init /\ [][Next]_vars

-----------------------------------------------------------------------------

\* Book-touching frames among the frames a .. b of the file.
Touching(a, b) == Cardinality({i \in a .. b : intact(Whole[i])})

\* "snapshot+publish ... every N book-touching messages": with a cadence of
\* N > 0 the store always holds the books and the unknown_refs of one and the
\* same prefix of the file, fewer than N book-touching messages old.
ServedIsRecent ==
  publish_every # 0 /\ binary = "replay_query" =>
    \E k \in 0 .. pos : /\ Touching(k + 1, pos) < publish_every
                        /\ [data |-> store.data, unknown_refs |-> store.unknown_refs]
                             = SnapshotOf(Sequential(Prefix(k)))

\* "the served snapshot always ends up reflecting the true final state,
\* regardless of where the message count landed relative to publish_every".
FinalIsServed ==
  phase = "serving" =>
    [data |-> store.data, unknown_refs |-> store.unknown_refs] = SnapshotOf(Sequential(Whole))

\* What publish number v stored; before the first there is nothing.
Published(v) == IF v = 0 THEN SnapshotOf(NewBuilder) ELSE published[v]

ShowsBooks(s, v) ==
  /\ s.req.cmd = "quote" => locate16(s.req) \in DOMAIN Published(v).data
  /\ s.got["books"] = IF s.req.cmd = "list" THEN Published(v).data
                      ELSE Published(v).data[locate16(s.req)]

\* "Both answer straight out of the SnapshotStore": each part of an answer was
\* current at some moment between the request and the answer, so the parts are
\* of one snapshot unless a publish came between their reads; a locate is called
\* unknown only if the store had none at such a moment; and a quote is torn in
\* one direction only, its version and unknown_refs never older than its book.
TornOnlyByPublish ==
  \A c \in Conn : conn[c].pc # "idle" =>
    LET s      == conn[c]
        window == s.from .. store.version
    IN  /\ "books" \in DOMAIN s.got =>
             \E v \in window :
               /\ ShowsBooks(s, v)
               /\ s.req.cmd = "quote" =>
                    /\ "version" \in DOMAIN s.got => v <= s.got["version"]
                    /\ "unknown" \in DOMAIN s.got =>
                         \E w \in v .. store.version : s.got["unknown"] = Published(w).unknown_refs
        /\ "version" \in DOMAIN s.got => s.got["version"] \in window
        /\ "unknown" \in DOMAIN s.got =>
             \E v \in window : s.got["unknown"] = Published(v).unknown_refs
        /\ "error" \in DOMAIN s /\ s.error = "unknown locate" =>
             \E v \in window : locate16(s.req) \notin DOMAIN Published(v).data

\* "as of that same snapshot": the books and the unknown_refs of an answer are
\* those of the publish whose number it reports as snapshot_version.
AnswersAreCoherent ==
  \A c \in Conn : conn[c].pc = "answered" /\ "error" \notin DOMAIN conn[c] =>
    LET s == conn[c]
        v == s.got["version"]
    IN  ShowsBooks(s, v) /\ s.got["unknown"] = Published(v).unknown_refs

=============================================================================

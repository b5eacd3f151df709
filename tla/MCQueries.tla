---- MODULE MCQueries ----
(* replay_query's answers, and the threads of the server that sends them.  *)
(* The two models share no state: a behaviour exercises one of them and    *)
(* leaves the other as it was built.                                       *)
(*                                                                         *)
(* Answers: one client (readers do not disturb each other) against short   *)
(* files over two locates: books that appear one after the other, a        *)
(* refused mutation, a frame that touches no book.  The same bytes come    *)
(* through every kind of source; the .gz files are split inside prefixes   *)
(* and payloads, and cut, damaged, followed by part of a frame, or empty.  *)
(*                                                                         *)
(* Threads: three clients and room for two connections, so that the        *)
(* capacity is met; up to two lines in one recv.                           *)
EXTENDS SnapshotQueries, QueryServer

Fields(l, r, q) == [locate |-> l, ref |-> r, next |-> 3, side |-> "Buy", shares |-> q, price |-> 5]
Good(t, l, r, q) == [type |-> t, good |-> TRUE, m |-> Fields(l, r, q)]

\* Payloads of one and two bytes.
MCFrameOf == <<1>>    :> Good("A", 1, 1, 2) @@ <<2, 2>> :> Good("S", 1, 1, 1) @@
             <<3>>    :> Good("E", 1, 1, 1) @@ <<4>>    :> Good("X", 1, 9, 1) @@
             <<5, 0>> :> Good("A", 2, 2, 3) @@ <<6>>    :> Good("D", 1, 1, 0)

Enc(p) == <<0, Len(p)>> \o p

Day   == Enc(<<1>>) \o Enc(<<2, 2>>) \o Enc(<<3>>) \o Enc(<<4>>) \o Enc(<<5, 0>>)
Short == Enc(<<1>>) \o Enc(<<6>>) \o Enc(<<6>>)
Zero  == Enc(<<1>>) \o Enc(<< >>) \o Enc(<<6>>)      \* a length of zero in the middle
Part  == Enc(<<1>>) \o <<0, 2, 5>>                   \* the last payload lacks a byte

Plain(kind, c) == [kind |-> kind, content |-> c, reads |-> << >>, ends |-> "marker"]
Gz(c, reads, ends) == [kind |-> "gzip", content |-> c, reads |-> reads, ends |-> ends]

MCFiles == {Plain("mmap", Day), Plain("mmap", << >>), Plain("mmap", Zero), Plain("mmap", Part),
            Plain("legacy", Short), Plain("memory", Day),
            Gz(Day, <<1, 5, 5, Len(Day)>>, "marker"), Gz(Day, <<6, Len(Day)>>, "damaged"),
            Gz(SubSeq(Day, 1, 10), <<4, 10>>, "cut"), Gz(Short, <<4, 9>>, "cut"),
            Gz(Part, <<2, 6>>, "marker"), Gz(Zero, <<8>>, "marker"),
            Gz(<< >>, <<0>>, "marker"), Gz(<< >>, << >>, "cut")}

\* A list, a quote of each book (one asked for with bits above the sixteenth),
\* a quote without a locate and an unknown command.
Lines == {[cmd |-> "list", locate |-> NoField], [cmd |-> "quote", locate |-> 65537],
          [cmd |-> "quote", locate |-> 2], [cmd |-> "quote", locate |-> NoField],
          [cmd |-> "other", locate |-> NoField]}

VARIABLE part   \* what the behaviour exercises

QueriesInit ==
  /\ Init /\ ServerInit
  /\ \/ part = "answers"
     \/ /\ part = "threads" /\ file = Plain("mmap", << >>) /\ chunk_size = 2
        /\ binary = "replay_query" /\ publish_every = 0

QueriesNext ==
  /\ \/ part = "answers" /\ Next /\ UNCHANGED server_vars
     \/ part = "threads" /\ ServerNext /\ UNCHANGED vars
  /\ UNCHANGED part

\* Nothing of a server that was only built is subject to ServerFairness.
QueriesSpec == QueriesInit /\ [][QueriesNext]_<<vars, server_vars, part>> /\ ServerFairness

==========================

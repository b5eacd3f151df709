---- MODULE MCThreadedReplay ----
(* Every mapped file of up to MaxFrames frames over two locates, and files *)
(* whose frames fill a ring of four slots and go round it, through every   *)
(* kind of source; the .gz ones whole, cut, damaged or followed by part of *)
(* a frame.                                                                *)
EXTENDS ThreadedReplay

CONSTANT MaxFrames

Fields(l, r, q) == [locate |-> l, ref |-> r, next |-> 3, side |-> "Buy", shares |-> q, price |-> 5]
Good(t, l, r, q) == [type |-> t, good |-> TRUE, m |-> Fields(l, r, q)]

\* One frame of every decoded type, one the parser skips (8), some of a second
\* locate, and (13) one whose length is not the wire size of its type.
Frames == <<Good("A", 1, 1, 2), Good("F", 1, 2, 1), Good("E", 1, 1, 1), Good("C", 1, 1, 2),
            Good("X", 2, 1, 1), Good("D", 1, 2, 0), Good("U", 1, 1, 1), Good("S", 1, 1, 1),
            Good("A", 2, 1, 2), Good("A", 2, 1, 1), Good("E", 2, 1, 1), Good("C", 2, 1, 2),
            [type |-> "A", good |-> FALSE, m |-> Fields(1, 1, 2)]>>
Clean   == 1 .. 8
Corrupt == {13}

\* Every payload is one byte.
MCFrameOf == [p \in {<<i>> : i \in DOMAIN Frames} |-> Frames[p[1]]]

RECURSIVE Enc(_)
Enc(s) == IF s = << >> THEN << >> ELSE <<0, 1, Head(s)>> \o Enc(Tail(s))

Long  == Enc(<<1, 2, 3, 7, 8, 6>>)
Other == Enc(<<9, 4, 10, 5, 11, 11>>)

Plain(kind, c) == [kind |-> kind, content |-> c, reads |-> << >>, ends |-> "marker"]
Gz(c, reads, ends) == [kind |-> "gzip", content |-> c, reads |-> reads, ends |-> ends]

Short(B) == {Plain("mmap", Enc(s)) : s \in UNION {[1 .. n -> B] : n \in 0 .. MaxFrames}}

CleanFiles   == Short(Clean) \cup
                {Plain("mmap", Long), Plain("memory", Other), Plain("legacy", Enc(<<1, 6>>)),
                 Gz(Long, <<1, 5, 18>>, "marker"), Gz(Other, <<13, 18>>, "damaged"),
                 Gz(SubSeq(Long, 1, 11), <<11>>, "cut"), Gz(SubSeq(Long, 1, 9), <<9>>, "cut"),
                 Gz(SubSeq(Other, 1, 10), <<4, 10>>, "marker")}
CorruptFiles == Short(Clean \cup Corrupt)

Envelopes == {envelope(f) : f \in Range(Frames)}

================================

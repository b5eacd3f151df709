--------------------------- MODULE FileReplayProofs -------------------------
(***************************************************************************)
(* FileSource and FileReplay, for every file, every way zlib splits it and *)
(* every chunk size: framing (frame_boundary and parse_stream of a window  *)
(* of the data), the invariant of the source that makes the carry between  *)
(* two reads right, and what main holds and reports.  SnapshotQueriesProofs *)
(* and ThreadedReplayProofs build on it.                                   *)
(***************************************************************************)
EXTENDS FileReplay, SequenceTheorems, TLAPS

INSTANCE FoldLemmas WITH Step <- dispatch

-----------------------------------------------------------------------------
(* Framing.                                                                *)

Bytes == Seq(0 .. 255)

\* Where the frame at off ends.
After(data, off) == off + 2 + be16(data, off)

\* The walks of frame_boundary and parse_stream from every offset not below lo.
Boundaries(w, data, lo) ==
  w = [off \in lo .. Len(data) |->
         IF CompleteAt(data, off) THEN w[After(data, off)] ELSE off]

Parses(w, data, lo) ==
  w = [off \in lo .. Len(data) |->
         IF CompleteAt(data, off)
         THEN <<FrameOf[payload(data, off)]>> \o w[After(data, off)] ELSE << >>]

\* The elements of a byte string are bytes.
LEMMA ByteAt ==
  ASSUME NEW data \in Bytes, NEW i \in 1 .. Len(data)
  PROVE  data[i] \in 0 .. 255
  BY ElementOfSeq, Zenon DEF Bytes

\* A length prefix that is there is a natural number.
LEMMA Be16Nat ==
  ASSUME NEW data \in Bytes, NEW off \in Nat, off + 2 <= Len(data)
  PROVE  be16(data, off) \in Nat
<1>1. \A i \in 1 .. Len(data) : data[i] \in 0 .. 255
  BY ByteAt
<1>2. off + 1 \in 1 .. Len(data) /\ off + 2 \in 1 .. Len(data)
  BY DEF Bytes
<1>3. data[off + 1] \in 0 .. 255 /\ data[off + 2] \in 0 .. 255
  BY <1>1, <1>2
<1>4. \A x \in 0 .. 255, y \in 0 .. 255 : x * 256 + y \in Nat
  OBVIOUS
<1> QED BY <1>3, <1>4 DEF be16

\* A whole frame ends inside the data, at least three bytes further on.
LEMMA AfterInside ==
  ASSUME NEW data \in Bytes, NEW off \in Nat, CompleteAt(data, off)
  PROVE  After(data, off) \in off + 3 .. Len(data) /\ be16(data, off) \in Nat \ {0}
<1>1. off + 2 <= Len(data) /\ Len(data) \in Nat
  BY DEF CompleteAt, Bytes
<1>2. be16(data, off) \in Nat
  BY <1>1, Be16Nat
<1> QED BY <1>1, <1>2 DEF CompleteAt, After

\* The scan for the last boundary is well defined: induction from the end.
LEMMA BoundariesExists ==
  ASSUME NEW data \in Bytes
  PROVE  \E w : Boundaries(w, data, 0)
<1> DEFINE n == Len(data)
           S == {k \in Nat : k <= n => \E w : Boundaries(w, data, n - k)}
<1>0. n \in Nat
  BY DEF Bytes
<1>1. 0 \in S
  <2> DEFINE w == [off \in n .. n |-> off]
  <2>1. \A off \in n .. n : ~CompleteAt(data, off)
    BY <1>0 DEF CompleteAt
  <2>2. Boundaries(w, data, n - 0)
    BY <1>0, <2>1 DEF Boundaries
  <2> QED BY <2>2
<1>2. ASSUME NEW k \in Nat, k \in S PROVE k + 1 \in S
  <2> SUFFICES ASSUME k + 1 <= n PROVE \E w : Boundaries(w, data, n - (k + 1))
    OBVIOUS
  <2>1. PICK w : Boundaries(w, data, n - k)
    BY <1>0, <1>2
  <2> DEFINE v == [off \in n - (k + 1) .. n |->
                     IF CompleteAt(data, off) THEN w[After(data, off)] ELSE off]
  <2>2. ASSUME NEW off \in n - (k + 1) .. n, CompleteAt(data, off)
        PROVE  v[After(data, off)] = w[After(data, off)]
    <3>1. After(data, off) \in off + 3 .. n /\ off \in Nat
      BY <1>0, <2>2, AfterInside
    <3>2. After(data, off) \in n - k .. n
      BY <1>0, <3>1
    <3>3. \A o \in n - k .. n : o \in n - (k + 1) .. n
      BY <1>0
    <3>4. \A o \in n - k .. n : w[o] = IF CompleteAt(data, o) THEN w[After(data, o)] ELSE o
      BY <2>1 DEF Boundaries
    <3> QED BY <3>2, <3>3, <3>4
  <2>3. Boundaries(v, data, n - (k + 1))
    BY <2>2 DEF Boundaries
  <2> QED BY <2>3
<1>3. Nat \subseteq S
  <2> HIDE DEF S
  <2> QED BY <1>1, <1>2, NatInduct
<1> QED BY <1>0, <1>3

\* So is the parse.
LEMMA ParsesExists ==
  ASSUME NEW data \in Bytes
  PROVE  \E w : Parses(w, data, 0)
<1> DEFINE n == Len(data)
           S == {k \in Nat : k <= n => \E w : Parses(w, data, n - k)}
<1>0. n \in Nat
  BY DEF Bytes
<1>1. 0 \in S
  <2> DEFINE w == [off \in n .. n |-> << >>]
  <2>1. \A off \in n .. n : ~CompleteAt(data, off)
    BY <1>0 DEF CompleteAt
  <2>2. Parses(w, data, n - 0)
    BY <1>0, <2>1 DEF Parses
  <2> QED BY <2>2
<1>2. ASSUME NEW k \in Nat, k \in S PROVE k + 1 \in S
  <2> SUFFICES ASSUME k + 1 <= n PROVE \E w : Parses(w, data, n - (k + 1))
    OBVIOUS
  <2>1. PICK w : Parses(w, data, n - k)
    BY <1>0, <1>2
  <2> DEFINE v == [off \in n - (k + 1) .. n |->
                     IF CompleteAt(data, off)
                     THEN <<FrameOf[payload(data, off)]>> \o w[After(data, off)] ELSE << >>]
  <2>2. ASSUME NEW off \in n - (k + 1) .. n, CompleteAt(data, off)
        PROVE  v[After(data, off)] = w[After(data, off)]
    <3>1. After(data, off) \in off + 3 .. n /\ off \in Nat
      BY <1>0, <2>2, AfterInside
    <3>2. After(data, off) \in n - k .. n
      BY <1>0, <3>1
    <3>3. \A o \in n - k .. n : o \in n - (k + 1) .. n
      BY <1>0
    <3>4. \A o \in n - k .. n :
            w[o] = IF CompleteAt(data, o)
                   THEN <<FrameOf[payload(data, o)]>> \o w[After(data, o)] ELSE << >>
      BY <2>1 DEF Parses
    <3> QED BY <3>2, <3>3, <3>4
  <2>3. Parses(v, data, n - (k + 1))
    BY <2>2 DEF Parses
  <2> QED BY <2>3
<1>3. Nat \subseteq S
  <2> HIDE DEF S
  <2> QED BY <1>1, <1>2, NatInduct
<1> QED BY <1>0, <1>3

\* How far the complete frames from off on reach, and which frames they are.
Reach(data) == CHOOSE w : Boundaries(w, data, 0)
Rest(data)  == CHOOSE w : Parses(w, data, 0)

\* frame_boundary is the scan from offset 0, and the scan goes frame by frame.
LEMMA ReachIs ==
  ASSUME NEW data \in Bytes
  PROVE  /\ frame_boundary(data) = Reach(data)[0]
         /\ \A off \in 0 .. Len(data) :
              Reach(data)[off] = IF CompleteAt(data, off) THEN Reach(data)[After(data, off)]
                                 ELSE off
<1>1. Boundaries(Reach(data), data, 0)
  BY BoundariesExists, Zenon DEF Reach
<1>2. frame_boundary(data) = Reach(data)[0]
  BY DEF frame_boundary, Reach, Boundaries, After
<1> QED BY <1>1, <1>2 DEF Boundaries

\* parse_stream is the parse from offset 0, and the parse goes frame by frame.
LEMMA RestIs ==
  ASSUME NEW data \in Bytes
  PROVE  /\ parse_stream(data) = Rest(data)[0]
         /\ \A off \in 0 .. Len(data) :
              Rest(data)[off] = IF CompleteAt(data, off)
                                THEN <<FrameOf[payload(data, off)]>> \o Rest(data)[After(data, off)]
                                ELSE << >>
<1>1. Parses(Rest(data), data, 0)
  BY ParsesExists, Zenon DEF Rest
<1>2. parse_stream(data) = Rest(data)[0]
  BY DEF parse_stream, Rest, Parses, After
<1> QED BY <1>1, <1>2 DEF Parses

\* The scan stops inside the data, where no whole frame follows.
LEMMA ReachRange ==
  ASSUME NEW data \in Bytes, NEW off \in 0 .. Len(data)
  PROVE  Reach(data)[off] \in off .. Len(data) /\ ~CompleteAt(data, Reach(data)[off])
<1> DEFINE n == Len(data)
           P(o) == Reach(data)[o] \in o .. n /\ ~CompleteAt(data, Reach(data)[o])
           S == {k \in Nat : \A o \in 0 .. n : n - o <= k => P(o)}
<1>0. n \in Nat
  BY DEF Bytes
<1>1. 0 \in S
  <2>1. \A o \in 0 .. n : n - o <= 0 => o = n
    BY <1>0
  <2>2. ~CompleteAt(data, n)
    BY <1>0 DEF CompleteAt
  <2>3. Reach(data)[n] = n
    BY <1>0, <2>2, ReachIs
  <2> QED BY <1>0, <2>1, <2>2, <2>3
<1>2. ASSUME NEW k \in Nat, k \in S PROVE k + 1 \in S
  <2> SUFFICES ASSUME NEW o \in 0 .. n, n - o <= k + 1 PROVE P(o)
    OBVIOUS
  <2>1. CASE CompleteAt(data, o)
    <3> DEFINE a == After(data, o)
    <3>1. a \in o + 3 .. n
      BY <1>0, <2>1, AfterInside
    <3>2. Reach(data)[o] = Reach(data)[a]
      BY <2>1, ReachIs
    <3>3. P(a)
      BY <1>0, <1>2, <3>1
    <3> HIDE DEF a
    <3> QED BY <1>0, <3>1, <3>2, <3>3
  <2>2. CASE ~CompleteAt(data, o)
    <3>1. Reach(data)[o] = o
      BY <2>2, ReachIs
    <3> QED BY <1>0, <2>2, <3>1
  <2> QED BY <2>1, <2>2
<1>3. Nat \subseteq S
  <2> HIDE DEF S
  <2> QED BY <1>1, <1>2, NatInduct
<1>4. n - off \in S /\ off \in 0 .. n
  <2> HIDE DEF S
  <2> QED BY <1>0, <1>3
<1>5. n - off <= n - off
  BY <1>0
<1> QED BY <1>4, <1>5

\* The frame at off lies below b.
Fits(data, off, b) ==
  off + 2 <= b /\ be16(data, off) # 0 /\ After(data, off) <= b

\* The bytes a + 1 .. b of the data.
LEMMA WindowIs ==
  ASSUME NEW data \in Bytes, NEW a \in Nat, NEW b \in Nat, a <= b, b <= Len(data)
  PROVE  LET w == SubSeq(data, a + 1, b)
         IN  /\ w \in Bytes /\ Len(w) = b - a
             /\ \A i \in 1 .. b - a : w[i] = data[a + i]
<1> DEFINE w == SubSeq(data, a + 1, b)
<1>1. w = [i \in 1 .. b - a |-> data[a + i]]
  <2>1. w = [i \in 1 .. b - (a + 1) + 1 |-> data[i + (a + 1) - 1]]
    BY DEF Bytes
  <2>2. b - (a + 1) + 1 = b - a /\ \A i \in 1 .. b - a : i + (a + 1) - 1 = a + i
    OBVIOUS
  <2> QED BY <2>1, <2>2
<1>2. \A i \in 1 .. b - a : data[a + i] \in 0 .. 255
  <2>1. \A i \in 1 .. Len(data) : data[i] \in 0 .. 255
    BY ByteAt
  <2>2. \A i \in 1 .. b - a : a + i \in 1 .. Len(data)
    BY DEF Bytes
  <2> QED BY <2>1, <2>2
<1>3. b - a \in Nat
  OBVIOUS
<1> HIDE DEF w
<1>4. w \in Bytes /\ Len(w) = b - a
  BY <1>1, <1>2, <1>3 DEF Bytes
<1> QED BY <1>1, <1>4 DEF w

\* The first b bytes of the data.
LEMMA PrefixIs ==
  ASSUME NEW data \in Bytes, NEW b \in Nat, b <= Len(data)
  PROVE  SubSeq(data, 1, b) \in Bytes /\ Len(SubSeq(data, 1, b)) = b
<1>1. 0 \in Nat /\ 0 <= b /\ 0 + 1 = 1 /\ b - 0 = b
  OBVIOUS
<1> QED BY <1>1, WindowIs

\* A frame of a window of the data is the frame the data has there.
LEMMA WindowFits ==
  ASSUME NEW data \in Bytes, NEW a \in Nat, NEW b \in Nat, a <= b, b <= Len(data),
         NEW off \in Nat
  PROVE  LET w == SubSeq(data, a + 1, b)
         IN  /\ CompleteAt(w, off) <=> Fits(data, a + off, b)
             /\ off + 2 <= b - a => be16(w, off) = be16(data, a + off)
             /\ CompleteAt(w, off) => /\ a + After(w, off) = After(data, a + off)
                                      /\ payload(w, off) = payload(data, a + off)
<1> DEFINE w == SubSeq(data, a + 1, b)
<1>1. w \in Bytes /\ Len(w) = b - a /\ \A i \in 1 .. b - a : w[i] = data[a + i]
  BY WindowIs
<1> HIDE DEF w
<1>2. ASSUME off + 2 <= b - a PROVE be16(w, off) = be16(data, a + off)
  <2>1. off + 1 \in 1 .. b - a /\ off + 2 \in 1 .. b - a
    BY <1>2
  <2>2. w[off + 1] = data[a + off + 1] /\ w[off + 2] = data[a + off + 2]
    <3>1. a + (off + 1) = a + off + 1 /\ a + (off + 2) = a + off + 2
      OBVIOUS
    <3> QED BY <1>1, <2>1, <3>1
  <2> QED BY <2>2 DEF be16
<1>3. off + 2 <= b - a <=> a + off + 2 <= b
  OBVIOUS
<1>4. ASSUME off + 2 <= b - a PROVE be16(data, a + off) \in Nat
  BY <1>1, <1>2, <1>4, Be16Nat
<1>5. CompleteAt(w, off) <=> Fits(data, a + off, b)
  BY <1>1, <1>2, <1>3, <1>4 DEF CompleteAt, Fits, After
<1>6. ASSUME CompleteAt(w, off)
      PROVE  a + After(w, off) = After(data, a + off) /\ payload(w, off) = payload(data, a + off)
  <2> DEFINE c == be16(data, a + off)
  <2>1. c \in Nat /\ be16(w, off) = c /\ off + 2 + c <= b - a
    BY <1>1, <1>2, <1>4, <1>6 DEF CompleteAt
  <2> HIDE DEF c
  <2>2. SubSeq(w, off + 3, off + 2 + c) = SubSeq(data, a + off + 3, a + off + 2 + c)
    <3>1. SubSeq(w, off + 3, off + 2 + c) = [i \in 1 .. c |-> w[off + 2 + i]]
      BY <1>1, <2>1 DEF Bytes
    <3>2. SubSeq(data, a + off + 3, a + off + 2 + c) = [i \in 1 .. c |-> data[a + off + 2 + i]]
      BY <2>1 DEF Bytes
    <3>3. \A i \in 1 .. c : w[off + 2 + i] = data[a + off + 2 + i]
      <4> SUFFICES ASSUME NEW i \in 1 .. c PROVE w[off + 2 + i] = data[a + off + 2 + i]
        OBVIOUS
      <4>1. off + 2 + i \in 1 .. b - a /\ a + (off + 2 + i) = a + off + 2 + i
        BY <2>1
      <4> QED BY <1>1, <4>1
    <3> QED BY <3>1, <3>2, <3>3
  <2> QED BY SMTT(30), <2>1, <2>2 DEF payload, After, c
<1> QED BY <1>2, <1>5, <1>6 DEF w

\* Scanning the first p bytes and going on where that stopped finds the same
\* boundary as scanning the first q bytes at once.
LEMMA ReachPrefix ==
  ASSUME NEW data \in Bytes, NEW p \in Nat, NEW q \in Nat, p <= q, q <= Len(data),
         NEW off \in 0 .. p
  PROVE  LET P == SubSeq(data, 1, p)
             Q == SubSeq(data, 1, q)
         IN  Reach(Q)[off] = Reach(Q)[Reach(P)[off]]
<1> DEFINE P == SubSeq(data, 1, p)
           Q == SubSeq(data, 1, q)
           S == {k \in Nat : \A o \in 0 .. p : p - o <= k => Reach(Q)[o] = Reach(Q)[Reach(P)[o]]}
<1>1. P \in Bytes /\ Len(P) = p /\ Q \in Bytes /\ Len(Q) = q
  <2>1. Len(data) \in Nat /\ p <= Len(data)
    BY DEF Bytes
  <2> QED BY <2>1, WindowIs, 0 + 1 = 1
<1>2. ASSUME NEW o \in 0 .. p, CompleteAt(P, o)
      PROVE  CompleteAt(Q, o) /\ After(P, o) = After(Q, o)
  <2>1. Len(data) \in Nat /\ p <= Len(data) /\ 0 \in Nat /\ 0 + 1 = 1 /\ 0 + o = o /\ o \in Nat
    BY DEF Bytes
  <2>2. Fits(data, o, p) /\ 0 + After(P, o) = After(data, o)
    BY <1>2, <2>1, WindowFits
  <2>3. After(P, o) \in Nat
    BY <1>1, <1>2, <2>1, AfterInside
  <2>4. be16(data, o) \in Nat
    <3>1. o + 2 <= Len(data)
      BY <2>1, <2>2 DEF Fits
    <3> QED BY <2>1, <3>1, Be16Nat
  <2>5. Fits(data, o, q)
    BY <2>2, <2>4, <2>3 DEF Fits, After
  <2>6. CompleteAt(Q, o)
    BY <2>1, <2>5, WindowFits
  <2>7. 0 + After(Q, o) = After(data, o)
    BY <2>1, <2>6, WindowFits
  <2>8. After(Q, o) \in Nat
    BY <1>1, <2>6, <2>1, AfterInside
  <2> QED BY <2>2, <2>3, <2>6, <2>7, <2>8
<1> HIDE DEF P, Q
<1>3. ASSUME NEW o \in 0 .. p, ~CompleteAt(P, o) PROVE Reach(Q)[o] = Reach(Q)[Reach(P)[o]]
  BY <1>1, <1>3, ReachIs
<1>4. 0 \in S
  <2>1. \A o \in 0 .. p : p - o <= 0 => ~CompleteAt(P, o)
    BY <1>1 DEF CompleteAt
  <2> QED BY <1>3, <2>1
<1>5. ASSUME NEW k \in Nat, k \in S PROVE k + 1 \in S
  <2> SUFFICES ASSUME NEW o \in 0 .. p, p - o <= k + 1, CompleteAt(P, o)
               PROVE  Reach(Q)[o] = Reach(Q)[Reach(P)[o]]
    BY <1>3
  <2> DEFINE a == After(P, o)
  <2>1. a \in o + 3 .. p
    BY <1>1, AfterInside
  <2>2. Reach(P)[o] = Reach(P)[a]
    BY <1>1, ReachIs
  <2>3. Reach(Q)[o] = Reach(Q)[a]
    BY <1>1, <1>2, ReachIs
  <2> HIDE DEF a
  <2>4. Reach(Q)[a] = Reach(Q)[Reach(P)[a]]
    BY <1>5, <2>1
  <2> QED BY <2>2, <2>3, <2>4
<1>6. Nat \subseteq S
  <2> HIDE DEF S
  <2> QED BY <1>4, <1>5, NatInduct
<1> QED BY <1>6 DEF P, Q

\* The parse is a sequence of frames of the data.
LEMMA RestSeq ==
  ASSUME NEW data \in Bytes, NEW off \in 0 .. Len(data)
  PROVE  Rest(data)[off] \in Seq({FrameOf[payload(data, o)] : o \in 0 .. Len(data)})
<1> DEFINE n == Len(data)
           X == {FrameOf[payload(data, o)] : o \in 0 .. Len(data)}
           S == {k \in Nat : \A o \in 0 .. n : n - o <= k => Rest(data)[o] \in Seq(X)}
<1>0. n \in Nat
  BY DEF Bytes
<1>1. ASSUME NEW o \in 0 .. n, ~CompleteAt(data, o) PROVE Rest(data)[o] \in Seq(X)
  <2>1. Rest(data)[o] = << >>
    BY <1>1, RestIs
  <2> HIDE DEF X
  <2> QED BY <2>1
<1>2. 0 \in S
  <2>1. \A o \in 0 .. n : n - o <= 0 => ~CompleteAt(data, o)
    BY <1>0 DEF CompleteAt
  <2> QED BY <1>1, <2>1
<1>3. ASSUME NEW k \in Nat, k \in S PROVE k + 1 \in S
  <2> SUFFICES ASSUME NEW o \in 0 .. n, n - o <= k + 1, CompleteAt(data, o)
               PROVE  Rest(data)[o] \in Seq(X)
    BY <1>1
  <2> DEFINE a == After(data, o)
             f == FrameOf[payload(data, o)]
  <2>1. a \in o + 3 .. n
    BY <1>0, AfterInside
  <2>2. Rest(data)[o] = <<f>> \o Rest(data)[a]
    BY RestIs
  <2>3. f \in X
    OBVIOUS
  <2> HIDE DEF a, f, X
  <2>4. Rest(data)[a] \in Seq(X)
    BY <1>0, <1>3, <2>1
  <2> QED BY <2>2, <2>3, <2>4
<1>4. Nat \subseteq S
  <2> HIDE DEF S
  <2> QED BY <1>2, <1>3, NatInduct
<1>5. n - off \in S /\ off \in 0 .. n /\ n - off <= n - off
  <2> HIDE DEF S
  <2> QED BY <1>0, <1>4
<1> QED BY <1>5

\* The first frame of what is left is the next frame of the whole.
LEMMA TakeFirst ==
  ASSUME NEW X, NEW w \in Seq(X), NEW r \in Seq(X), NEW f \in X, NEW p \in 0 .. Len(w),
         <<f>> \o r = SubSeq(w, p + 1, Len(w))
  PROVE  p < Len(w) /\ w[p + 1] = f /\ r = SubSeq(w, p + 2, Len(w))
<1> DEFINE s == SubSeq(w, p + 1, Len(w))
           t == <<f>> \o r
<1>1. Len(s) = Len(w) - p /\ \A i \in 1 .. Len(w) - p : s[i] = w[p + i]
  OBVIOUS
<1>2. Len(t) = 1 + Len(r) /\ t[1] = f /\ \A i \in 1 .. Len(r) : t[i + 1] = r[i]
  OBVIOUS
<1> HIDE DEF s, t
<1>3. s = t
  BY DEF s, t
<1>4. p < Len(w) /\ Len(r) = Len(w) - p - 1
  <2>1. Len(w) \in Nat /\ Len(r) \in Nat
    OBVIOUS
  <2>2. Len(w) - p = 1 + Len(r)
    BY <1>1, <1>2, <1>3, Zenon
  <2> QED BY <2>1, <2>2
<1>5. w[p + 1] = f
  <2>1. 1 \in 1 .. Len(w) - p
    BY <1>4
  <2> QED BY <1>1, <1>2, <1>3, <2>1
<1>6. ASSUME NEW i \in 1 .. Len(r) PROVE r[i] = w[p + 1 + i]
  <2>1. i + 1 \in 1 .. Len(w) - p /\ p + (i + 1) = p + 1 + i
    BY <1>4
  <2> QED BY <1>1, <1>2, <1>3, <2>1
<1>7. r = SubSeq(w, p + 2, Len(w))
  <2>1. SubSeq(w, p + 2, Len(w)) = [i \in 1 .. Len(w) - p - 1 |-> w[p + 1 + i]]
    BY <1>4
  <2>2. r = [i \in 1 .. Len(r) |-> r[i]]
    OBVIOUS
  <2> QED BY <1>4, <1>6, <2>1, <2>2
<1> QED BY <1>4, <1>5, <1>7

\* Min of two integers is the smaller one.
LEMMA MinOfTwo ==
  ASSUME NEW a \in Int, NEW b \in Int
  PROVE  /\ Min({a, b}) \in {a, b} /\ Min({a, b}) <= a /\ Min({a, b}) <= b
<1>1. \E x \in {a, b} : \A y \in {a, b} : x =< y
  <2>1. CASE a <= b
    BY <2>1
  <2>2. CASE b <= a
    BY <2>2
  <2> QED BY <2>1, <2>2
<1>2. Min({a, b}) \in {a, b} /\ \A y \in {a, b} : Min({a, b}) =< y
  BY <1>1 DEF Min
<1> QED BY <1>2

\* Two adjoining windows put together are one window.
LEMMA GlueWindows ==
  ASSUME NEW data \in Bytes, NEW a \in Nat, NEW b \in Nat, NEW d \in Nat,
         a <= b, b <= d, d <= Len(data)
  PROVE  SubSeq(data, a + 1, b) \o SubSeq(data, b + 1, d) = SubSeq(data, a + 1, d)
<1> DEFINE u == SubSeq(data, a + 1, b)
           v == SubSeq(data, b + 1, d)
           w == SubSeq(data, a + 1, d)
<1>0. Len(data) \in Nat /\ b <= Len(data) /\ a <= d
  BY DEF Bytes
<1>1. u \in Bytes /\ Len(u) = b - a /\ \A i \in 1 .. b - a : u[i] = data[a + i]
  BY <1>0, WindowIs
<1>2. v \in Bytes /\ Len(v) = d - b /\ \A i \in 1 .. d - b : v[i] = data[b + i]
  BY <1>0, WindowIs
<1>3. w \in Bytes /\ Len(w) = d - a /\ \A i \in 1 .. d - a : w[i] = data[a + i]
  BY <1>0, WindowIs
<1> HIDE DEF u, v, w
<1>4. u \o v \in Bytes /\ Len(u \o v) = d - a
  <2>1. u \o v \in Bytes /\ Len(u \o v) = Len(u) + Len(v)
    BY <1>1, <1>2, ConcatProperties DEF Bytes
  <2> QED BY <1>1, <1>2, <2>1
<1>5. ASSUME NEW i \in 1 .. d - a PROVE (u \o v)[i] = w[i]
  <2>0. (u \o v)[i] = IF i <= b - a THEN u[i] ELSE v[i - (b - a)]
    <3>1. \A j \in 1 .. Len(u) + Len(v) :
            (u \o v)[j] = IF j <= Len(u) THEN u[j] ELSE v[j - Len(u)]
      BY <1>1, <1>2, ConcatProperties DEF Bytes
    <3>2. i \in 1 .. Len(u) + Len(v) BY <1>1, <1>2
    <3>3. (u \o v)[i] = IF i <= Len(u) THEN u[i] ELSE v[i - Len(u)] BY <3>1, <3>2
    <3> QED BY <1>1, <3>3
  <2>1. CASE i <= b - a
    <3>1. i \in 1 .. b - a /\ (u \o v)[i] = u[i] BY <2>0, <2>1
    <3> QED BY <1>1, <1>3, <3>1
  <2>2. CASE ~(i <= b - a)
    <3>1. i - (b - a) \in 1 .. d - b /\ b + (i - (b - a)) = a + i
      BY <2>2
    <3>2. (u \o v)[i] = v[i - (b - a)] BY <2>0, <2>2
    <3> QED BY <1>2, <1>3, <3>1, <3>2
  <2> QED BY <2>1, <2>2
<1>6. u \o v = w
  <2> DEFINE x == u \o v
  <2>1. x \in Bytes /\ w \in Bytes /\ Len(x) = Len(w) /\ \A i \in 1 .. Len(x) : x[i] = w[i]
    BY <1>3, <1>4, <1>5
  <2> HIDE DEF x
  <2>2. x = w
    BY <2>1, SeqEqual DEF Bytes
  <2> QED BY <2>2 DEF x
<1> QED BY <1>6 DEF u, v, w

\* A window without its first l bytes is a window.
LEMMA DropWindow ==
  ASSUME NEW data \in Bytes, NEW a \in Nat, NEW b \in Nat, NEW l \in Nat,
         a + l <= b, b <= Len(data)
  PROVE  SubSeq(SubSeq(data, a + 1, b), l + 1, b - a) = SubSeq(data, a + l + 1, b)
<1> DEFINE u == SubSeq(data, a + 1, b)
           v == SubSeq(u, l + 1, b - a)
           w == SubSeq(data, a + l + 1, b)
<1>0. Len(data) \in Nat /\ a <= b /\ a + l \in Nat /\ b - a \in Nat /\ l <= b - a
  BY DEF Bytes
<1>1. u \in Bytes /\ Len(u) = b - a /\ \A i \in 1 .. b - a : u[i] = data[a + i]
  BY <1>0, WindowIs
<1> HIDE DEF u
<1>2. v \in Bytes /\ Len(v) = b - a - l /\ \A i \in 1 .. b - a - l : v[i] = u[l + i]
  <2> DEFINE c == b - a
  <2>1. u \in Bytes /\ l \in Nat /\ c \in Nat /\ l <= c /\ c <= Len(u)
    BY <1>0, <1>1
  <2> HIDE DEF c
  <2>2. SubSeq(u, l + 1, c) \in Bytes /\ Len(SubSeq(u, l + 1, c)) = c - l
        /\ \A i \in 1 .. c - l : SubSeq(u, l + 1, c)[i] = u[l + i]
    BY <2>1, WindowIs
  <2> QED BY ONLY <2>2 DEF c, v
<1>3. w \in Bytes /\ Len(w) = b - (a + l) /\ \A i \in 1 .. b - (a + l) : w[i] = data[a + l + i]
  BY <1>0, WindowIs
<1> HIDE DEF v, w
<1>4. Len(v) = Len(w)
  BY <1>2, <1>3
<1>5. ASSUME NEW i \in 1 .. b - a - l PROVE v[i] = w[i]
  <2>1. l + i \in 1 .. b - a /\ a + (l + i) = a + l + i /\ i \in 1 .. b - (a + l)
    BY <1>0
  <2> QED BY <1>1, <1>2, <1>3, <2>1
<1>6. v = [i \in 1 .. Len(v) |-> v[i]] /\ w = [i \in 1 .. Len(w) |-> w[i]]
  BY <1>2, <1>3 DEF Bytes
<1> QED BY <1>2, <1>4, <1>5, <1>6 DEF u, v, w

\* The frame at off of a window is the frame at a + off of the content.
LEMMA SameFrame ==
  ASSUME NEW data \in Bytes, NEW a \in Nat, NEW b \in Nat, a <= b, b <= Len(data),
         NEW off \in Nat
  PROVE  LET w == SubSeq(data, a + 1, b)
             P == SubSeq(data, 1, b)
         IN  /\ CompleteAt(w, off) <=> CompleteAt(P, a + off)
             /\ CompleteAt(w, off) => /\ CompleteAt(data, a + off)
                                      /\ After(P, a + off) = a + After(w, off)
                                      /\ After(data, a + off) = a + After(w, off)
                                      /\ payload(w, off) = payload(data, a + off)
<1> DEFINE w == SubSeq(data, a + 1, b)
           P == SubSeq(data, 1, b)
<1>1. 0 \in Nat /\ 0 + 1 = 1 /\ 0 + (a + off) = a + off /\ a + off \in Nat /\ 0 <= b
      /\ Len(data) \in Nat
  BY DEF Bytes
<1>2. CompleteAt(w, off) <=> Fits(data, a + off, b)
  BY WindowFits
<1>3. CompleteAt(P, a + off) <=> Fits(data, a + off, b)
  BY <1>1, WindowFits
<1>4. ASSUME CompleteAt(w, off)
      PROVE  /\ CompleteAt(data, a + off)
             /\ After(P, a + off) = a + After(w, off)
             /\ After(data, a + off) = a + After(w, off)
             /\ payload(w, off) = payload(data, a + off)
  <2>1. Fits(data, a + off, b) /\ CompleteAt(P, a + off)
    BY <1>2, <1>3, <1>4
  <2>2. a + After(w, off) = After(data, a + off) /\ payload(w, off) = payload(data, a + off)
    BY <1>4, WindowFits
  <2>3. 0 + After(P, a + off) = After(data, a + off)
    BY <1>1, <2>1, WindowFits
  <2>4. P \in Bytes
    BY <1>1, WindowIs
  <2>5. After(P, a + off) \in Nat
    <3> HIDE DEF P
    <3> QED BY <1>1, <2>1, <2>4, AfterInside
  <2>6. be16(data, a + off) \in Nat
    <3>1. a + off + 2 <= Len(data)
      BY <1>1, <2>1 DEF Fits
    <3> QED BY <1>1, <3>1, Be16Nat
  <2>7. CompleteAt(data, a + off)
    BY <1>1, <2>1, <2>6 DEF Fits, CompleteAt, After
  <2> QED BY <2>2, <2>3, <2>5, <2>7
<1> QED BY <1>2, <1>3, <1>4

-----------------------------------------------------------------------------
(* What every step of the source keeps.                                    *)

\* How much of the content the source has walked, and the bytes it has seen.
Offset == IF file.kind = "gzip" THEN src.inflated - Len(src.buf) + src.off ELSE src.off
Seen   == SubSeq(file.content, 1, src.inflated)

SourcePc == {"open", "fstat", "map", "slurp", "opened", "failed",
             "read", "inflate", "parse", "finish", "done"}

Source == [pc : SourcePc, buf : Bytes, len : Nat, off : Nat, read : Nat, inflated : Nat,
           zret : {"Z_OK", "Z_STREAM_END"}, full : BOOLEAN]

SourceType ==
  /\ file \in Files /\ chunk_size \in ChunkSizes /\ pos \in Nat
  /\ src \in Source
  /\ src.off <= src.len /\ src.len <= Len(src.buf)

\* Nothing has been walked before the run begins.
Opened ==
  src.pc \in {"open", "fstat", "map", "slurp", "opened"} =>
    /\ src.len = 0 /\ src.off = 0 /\ src.read = 0 /\ src.inflated = 0 /\ src.zret = "Z_OK"
    /\ file.kind = "gzip" \/ src.pc # "opened" => src.buf = << >>
    /\ file.kind = "gzip" => src.pc \in {"open", "opened"}

\* A mapped file or one in memory is walked as it is.
PlainWalk ==
  file.kind # "gzip" =>
    /\ src.pc \notin {"read", "inflate", "finish"}
    /\ src.pc \in {"opened", "parse", "done"} => src.buf = file.content
    /\ src.pc \in {"parse", "done"} => src.len = Len(src.buf)
    /\ src.pc = "done" => ~CompleteAt(file.content, src.off)

\* pending is a window of the content that ends with what has been inflated.
GzipWindow ==
  file.kind = "gzip" =>
    /\ src.read <= Len(file.reads)
    /\ src.inflated <= IF src.read = 0 THEN 0 ELSE file.reads[src.read]
    /\ src.pc \in {"inflate", "parse"} => src.read # 0
    /\ Len(src.buf) <= src.inflated
    /\ src.buf = SubSeq(file.content, src.inflated - Len(src.buf) + 1, src.inflated)

\* It begins on a frame boundary, and between two calls of parse_stream it
\* holds no complete frame.
GzipWalk ==
  file.kind = "gzip" =>
    /\ Reach(Seen)[Offset] = Reach(Seen)[0]
    /\ src.pc = "parse" => Reach(src.buf)[src.off] = src.len
    /\ src.pc \in {"read", "inflate", "finish", "done"} =>
         src.off = 0 /\ src.len = 0 /\ ~CompleteAt(Seen, Offset)
    /\ src.zret = "Z_STREAM_END" => file.ends = "marker" /\ src.inflated = Len(file.content)
    /\ src.pc = "done" => src.zret = "Z_STREAM_END" /\ src.buf = << >>

\* The frames still ahead are those the handler has not had.
Position ==
  /\ pos <= Len(Whole)
  /\ Rest(file.content)[Offset] = SubSeq(Whole, pos + 1, Len(Whole))

SourceInv == SourceType /\ Opened /\ PlainWalk /\ GzipWindow /\ GzipWalk /\ Position

Frames == {FrameOf[payload(file.content, o)] : o \in 0 .. Len(file.content)}

\* What the assumptions on Files say of the file being replayed.
LEMMA FileFacts ==
  ASSUME file \in Files
  PROVE  /\ file.content \in Bytes /\ Len(file.content) \in Nat
         /\ file.kind = "gzip" =>
              /\ Len(file.reads) \in Nat
              /\ \A i \in 1 .. Len(file.reads) : file.reads[i] \in 0 .. Len(file.content)
              /\ \A i \in 1 .. Len(file.reads) - 1 : file.reads[i] <= file.reads[i + 1]
              /\ Len(file.reads) # 0 => file.reads[Len(file.reads)] = Len(file.content)
<1>1. file.content \in Bytes /\ Len(file.content) \in Nat
  BY SourceAssumption DEF Bytes
<1>2. ASSUME file.kind = "gzip"
      PROVE  file.reads \in Seq(0 .. Len(file.content))
  BY <1>2, SourceAssumption
<1>3. ASSUME file.kind = "gzip"
      PROVE  /\ Len(file.reads) \in Nat
             /\ Len(file.reads) # 0 => file.reads # << >>
  BY <1>2, <1>3
<1>4. ASSUME file.kind = "gzip", NEW i \in 1 .. Len(file.reads)
      PROVE  file.reads[i] \in 0 .. Len(file.content)
  BY <1>2, <1>4, ElementOfSeq, Zenon
<1> QED BY <1>1, <1>3, <1>4, SourceAssumption

\* The frames of the file are a sequence.
LEMMA WholeSeq ==
  ASSUME file \in Files
  PROVE  Whole \in Seq(Frames) /\ Whole = Rest(file.content)[0] /\ Len(Whole) \in Nat
<1>1. file.content \in Bytes /\ 0 \in 0 .. Len(file.content)
  BY FileFacts
<1>2. Whole = Rest(file.content)[0]
  BY <1>1, RestIs DEF Whole
<1>3. Rest(file.content)[0] \in Seq(Frames)
  BY <1>1, RestSeq DEF Frames
<1> QED BY <1>2, <1>3

\* A step that only moves the program counter, and one that also reads.
LEMMA GotoFields ==
  ASSUME src \in Source, NEW p \in SourcePc, src' = [src EXCEPT !.pc = p]
  PROVE  /\ src' \in Source /\ src'.pc = p /\ src'.buf = src.buf /\ src'.len = src.len
         /\ src'.off = src.off /\ src'.read = src.read /\ src'.inflated = src.inflated
         /\ src'.zret = src.zret
  BY DEF Source

\* A source that is not open yet.
LEMMA SourceInvInit ==
  ASSUME SourceInit, pos = 0
  PROVE  SourceInv
<1>1. file \in Files /\ chunk_size \in ChunkSizes
      /\ src = [pc |-> "open", buf |-> << >>, len |-> 0, off |-> 0,
                read |-> 0, inflated |-> 0, zret |-> "Z_OK", full |-> FALSE]
  BY DEF SourceInit
<1>2. SourceType
  BY <1>1 DEF SourceType, Source, SourcePc, Bytes
<1>3. Opened /\ PlainWalk
  BY <1>1 DEF Opened, PlainWalk
<1>4. Offset = 0
  BY <1>1 DEF Offset
<1>5. GzipWindow
  BY <1>1, FileFacts DEF GzipWindow, Bytes
<1>6. GzipWalk
  BY <1>1, <1>4 DEF GzipWalk
<1>7. Position
  <2>1. Whole \in Seq(Frames) /\ Whole = Rest(file.content)[0] /\ Len(Whole) \in Nat
    BY <1>1, WholeSeq
  <2>2. SubSeq(Whole, 1, Len(Whole)) = Whole
    BY <2>1
  <2> QED BY <1>4, <2>1, <2>2 DEF Position
<1> QED BY <1>2, <1>3, <1>5, <1>6, <1>7 DEF SourceInv

\* Whole and the like do not change while the file is the same
LEMMA SourceInvSame ==
  ASSUME SourceInv, UNCHANGED <<file, chunk_size, src, pos>>
  PROVE  SourceInv'
  BY DEF SourceInv, SourceType, Opened, PlainWalk, GzipWindow, GzipWalk, Position, Offset, Seen,
         Whole

\* open, fstat, mmap, and reading a whole file into memory.
LEMMA SourceInvOpening ==
  ASSUME SourceInv, Opening, UNCHANGED pos
  PROVE  SourceInv'
<1>1. file' = file /\ chunk_size' = chunk_size
  BY DEF Opening, OpenFile, FstatFile, MapFile, SlurpFile
<1>2. file \in Files /\ file.content \in Bytes /\ Len(file.content) \in Nat
  BY FileFacts DEF SourceInv, SourceType
<1>3. /\ src.pc \in {"open", "fstat", "map", "slurp"}
      /\ src.buf = << >> /\ src.len = 0 /\ src.off = 0 /\ src.read = 0 /\ src.inflated = 0
      /\ src.zret = "Z_OK"
  BY DEF Opening, OpenFile, FstatFile, MapFile, SlurpFile, At, SourceInv, Opened
<1>4. /\ src' \in Source /\ src'.len = 0 /\ src'.off = 0 /\ src'.read = 0
      /\ src'.inflated = 0 /\ src'.zret = "Z_OK"
      /\ src'.pc \in {"failed", "opened", "fstat", "map", "slurp"}
      /\ file.kind = "gzip" => src'.pc \in {"failed", "opened"} /\ src'.buf = << >>
      /\ src'.pc # "opened" => src'.buf = << >>
      /\ src'.pc = "opened" => src'.buf = file.content \/ file.kind = "gzip"
  <2>1. ASSUME NEW p \in {"failed", "opened", "fstat", "map", "slurp"},
               src' = [src EXCEPT !.pc = p],
               p = "opened" => file.kind = "gzip" \/ file.content = << >>,
               file.kind = "gzip" => p \in {"failed", "opened"}
        PROVE  <1>4!:
    <3>1. src \in Source /\ p \in SourcePc
      BY DEF SourceInv, SourceType, SourcePc
    <3> QED BY <1>3, <2>1, <3>1, GotoFields
  <2>2. ASSUME src' = [src EXCEPT !.pc = "opened", !.buf = file.content], file.kind # "gzip"
        PROVE  <1>4!:
    BY <1>2, <1>3, <2>2 DEF SourceInv, SourceType, Source, SourcePc
  <2>3. CASE OpenFile
    <3>1. file.kind \in {"gzip", "mmap", "legacy", "memory"}
      BY <1>2, SourceAssumption
    <3>2. \E p \in {"failed", "opened", "fstat", "slurp"} :
            src' = [src EXCEPT !.pc = p] /\ (p = "opened" => file.kind = "gzip")
            /\ (file.kind = "gzip" => p \in {"failed", "opened"})
      BY <2>3, <3>1 DEF OpenFile, Goto
    <3> QED BY <2>1, <3>2
  <2>4. CASE FstatFile
    BY <2>1, <2>4 DEF FstatFile, Fail, Goto, At, SourceInv, Opened
  <2>5. CASE MapFile
    BY <2>1, <2>2, <2>5 DEF MapFile, Fail, Goto, At, SourceInv, Opened
  <2>6. CASE SlurpFile
    BY <2>1, <2>2, <2>6 DEF SlurpFile, Fail, Goto, At, SourceInv, Opened
  <2> QED BY <2>3, <2>4, <2>5, <2>6 DEF Opening
<1>5. SourceType' /\ Opened' /\ PlainWalk'
  <2>1. src'.off <= src'.len /\ src'.len <= Len(src'.buf)
    BY <1>4 DEF Source, Bytes
  <2>2. SourceType'
    BY <1>1, <1>4, <2>1 DEF SourceInv, SourceType
  <2>3. Opened' /\ PlainWalk'
    BY <1>1, <1>4 DEF Opened, PlainWalk
  <2> QED BY <2>2, <2>3
<1>6. Offset' = Offset /\ Seen' = Seen
  BY <1>1, <1>3, <1>4 DEF Offset, Seen
<1>7. GzipWindow' /\ GzipWalk'
  BY <1>1, <1>3, <1>4, <1>6 DEF SourceInv, GzipWindow, GzipWalk
<1>8. Position'
  BY <1>1, <1>6 DEF SourceInv, Position, Whole
<1> QED BY <1>5, <1>7, <1>8 DEF SourceInv

\* The run begins: nothing is inflated, or parse_stream is at the first byte.
LEMMA SourceInvStart ==
  ASSUME SourceInv, At("opened"), src' = StartRun(src), UNCHANGED <<file, chunk_size, pos>>
  PROVE  SourceInv'
<1>2. file \in Files /\ file.content \in Bytes /\ Len(file.content) \in Nat
  BY FileFacts DEF SourceInv, SourceType
<1>3. /\ src.pc = "opened" /\ src.len = 0 /\ src.off = 0 /\ src.read = 0 /\ src.inflated = 0
      /\ src.zret = "Z_OK"
      /\ file.kind = "gzip" => src.buf = << >>
      /\ file.kind # "gzip" => src.buf = file.content
  BY DEF At, SourceInv, Opened, PlainWalk
<1>4. /\ src' \in Source /\ src'.inflated = 0 /\ src'.off = 0 /\ src'.read = 0
      /\ src'.zret = src.zret /\ src'.buf = src.buf
      /\ file.kind = "gzip" => src'.pc = "read" /\ src'.len = 0
      /\ file.kind # "gzip" => src'.pc = "parse" /\ src'.len = Len(src.buf)
  <2>1. src \in Source /\ Len(src.buf) \in Nat
    BY DEF SourceInv, SourceType, Source, Bytes
  <2>2. CASE file.kind = "gzip"
    <3>1. src' = [src EXCEPT !.pc = "read"] /\ "read" \in SourcePc
      BY <2>2 DEF StartRun, SourcePc
    <3> QED BY <1>3, <2>1, <2>2, <3>1, GotoFields
  <2>3. CASE file.kind # "gzip"
    <3>1. src' = [src EXCEPT !.pc = "parse", !.len = Len(src.buf)]
      BY <2>3 DEF StartRun
    <3> QED BY <1>3, <2>1, <2>3, <3>1 DEF Source, SourcePc
  <2> QED BY <2>2, <2>3
<1>9. SourceType' /\ Opened' /\ PlainWalk'
  <2>1. src'.off <= src'.len /\ src'.len <= Len(src'.buf)
    BY <1>3, <1>4 DEF Source, Bytes
  <2>2. SourceType'
    BY <1>4, <2>1 DEF SourceInv, SourceType
  <2>3. Opened' /\ PlainWalk'
    BY <1>3, <1>4 DEF Opened, PlainWalk
  <2> QED BY <2>2, <2>3
<1>5. Offset' = Offset /\ Seen' = Seen
  BY <1>3, <1>4 DEF Offset, Seen
<1>6. GzipWindow'
  BY <1>3, <1>4, <1>5 DEF SourceInv, GzipWindow
<1>7. GzipWalk'
  <2>1. ASSUME file.kind = "gzip" PROVE ~CompleteAt(Seen, Offset)
    <3>1. Offset = 0 /\ Seen = << >>
      BY <1>2, <1>3, <2>1 DEF Offset, Seen, Bytes
    <3> QED BY <3>1 DEF CompleteAt
  <2> QED BY <1>3, <1>4, <1>5, <2>1 DEF SourceInv, GzipWalk
<1>8. Position'
  BY <1>5 DEF SourceInv, Position, Whole
<1> QED BY <1>6, <1>7, <1>8, <1>9 DEF SourceInv

\* A read of compressed bytes.
LEMMA SourceInvRead ==
  ASSUME SourceInv, ReadInput \/ Finish, UNCHANGED pos
  PROVE  SourceInv'
<1>1. file' = file /\ chunk_size' = chunk_size /\ src.pc \in {"read", "finish"}
  BY DEF ReadInput, Finish, At
<1>2. file \in Files /\ file.content \in Bytes /\ Len(file.content) \in Nat
      /\ file.kind = "gzip"
  BY <1>1, FileFacts DEF SourceInv, SourceType, PlainWalk
<1>3. /\ src' \in Source /\ src'.inflated = src.inflated /\ src'.off = src.off
      /\ src'.len = src.len /\ src'.zret = src.zret /\ src'.buf = src.buf
      /\ src'.pc \in {"failed", "finish", "inflate", "done"}
      /\ src'.pc = "done" => src.zret = "Z_STREAM_END" /\ src.buf = << >>
      /\ \/ src'.read = src.read /\ src'.pc # "inflate"
         \/ src'.read = src.read + 1 /\ src.read < Len(file.reads)
  <2>1. src \in Source
    BY DEF SourceInv, SourceType
  <2>2. CASE \E p \in {"failed", "finish", "done"} :
               /\ src' = [src EXCEPT !.pc = p]
               /\ p = "done" => src.zret = "Z_STREAM_END" /\ src.buf = << >>
    <3>1. PICK p \in {"failed", "finish", "done"} :
               /\ src' = [src EXCEPT !.pc = p]
               /\ p = "done" => src.zret = "Z_STREAM_END" /\ src.buf = << >>
      BY <2>2
    <3>2. p \in SourcePc
      BY DEF SourcePc
    <3> QED BY <2>1, <3>1, <3>2, GotoFields
  <2>3. CASE src.read < Len(file.reads) /\ src' = [src EXCEPT !.pc = "inflate", !.read = @ + 1]
    <3>1. src.read + 1 \in Nat /\ src' = [src EXCEPT !.pc = "inflate", !.read = src.read + 1]
      BY <2>1, <2>3 DEF Source
    <3>2. src' \in Source
      BY <2>1, <3>1 DEF Source, SourcePc
    <3>3. /\ src'.inflated = src.inflated /\ src'.off = src.off /\ src'.len = src.len
          /\ src'.zret = src.zret /\ src'.buf = src.buf /\ src'.pc = "inflate"
          /\ src'.read = src.read + 1
      BY <2>1, <3>1 DEF Source
    <3> QED BY <2>3, <3>2, <3>3
  <2> QED BY <2>2, <2>3 DEF ReadInput, Finish, Goto
<1>4. SourceType' /\ Opened' /\ PlainWalk'
  BY <1>1, <1>2, <1>3 DEF SourceInv, SourceType, Opened, PlainWalk
<1>5. Offset' = Offset /\ Seen' = Seen
  BY <1>1, <1>3 DEF Offset, Seen
<1>6. GzipWindow'
  <2>1. src'.inflated <= IF src'.read = 0 THEN 0 ELSE file.reads[src'.read]
    <3>1. CASE src'.read = src.read
      BY <1>2, <1>3, <3>1 DEF SourceInv, GzipWindow
    <3>2. CASE src'.read = src.read + 1 /\ src.read < Len(file.reads)
      <4>1. src.read \in Nat /\ src.inflated \in Nat
        BY DEF SourceInv, SourceType, Source
      <4>2. Len(file.reads) \in Nat
            /\ (\A i \in 1 .. Len(file.reads) : file.reads[i] \in 0 .. Len(file.content))
            /\ \A i \in 1 .. Len(file.reads) - 1 : file.reads[i] <= file.reads[i + 1]
        BY <1>2, FileFacts
      <4>3. src.inflated <= IF src.read = 0 THEN 0 ELSE file.reads[src.read]
        BY <1>2 DEF SourceInv, GzipWindow
      <4>4. src.read + 1 \in 1 .. Len(file.reads)
        BY <3>2, <4>1, <4>2
      <4>5. file.reads[src.read + 1] \in Nat
        BY <4>2, <4>4, <1>2
      <4>6. CASE src.read = 0
        BY <1>3, <3>2, <4>1, <4>3, <4>5, <4>6
      <4>7. CASE src.read # 0
        <5>1. src.read \in 1 .. Len(file.reads) - 1 /\ src.read \in 1 .. Len(file.reads)
          BY <3>2, <4>1, <4>2, <4>7
        <5>2. file.reads[src.read] \in 0 .. Len(file.content)
          BY <4>2, <5>1
        <5>3. file.reads[src.read] <= file.reads[src.read + 1]
          BY <4>2, <5>1
        <5> QED BY <1>3, <3>2, <4>1, <4>3, <4>5, <4>7, <5>2, <5>3
      <4> QED BY <4>6, <4>7
    <3> QED
      BY <1>3, <3>1, <3>2, Zenon
  <2>2. src'.read <= Len(file.reads)
    <3>1. src.read \in Nat /\ Len(file.reads) \in Nat /\ src.read <= Len(file.reads)
      BY <1>2, FileFacts DEF SourceInv, GzipWindow, SourceType, Source
    <3> QED BY <1>3, <3>1
  <2>3. src'.pc \in {"inflate", "parse"} => src'.read # 0
    BY <1>3 DEF SourceInv, SourceType, Source
  <2> QED BY <1>1, <1>2, <1>3, <2>1, <2>2, <2>3 DEF SourceInv, GzipWindow
<1>7. GzipWalk'
  BY <1>1, <1>2, <1>3, <1>4, <1>5 DEF SourceInv, GzipWalk
<1>8. Position'
  BY <1>1, <1>5 DEF SourceInv, Position, Whole
<1> QED BY <1>4, <1>6, <1>7, <1>8 DEF SourceInv

\* inflate appends a chunk to the carry; the window grows by what it inflated.
LEMMA SourceInvInflate ==
  ASSUME SourceInv, InflateChunk, UNCHANGED pos
  PROVE  SourceInv'
<1> DEFINE c == file.content
           p == src.inflated
           a == src.inflated - Len(src.buf)
           avail == file.reads[src.read]
           n == Min({chunk_size, avail - p})
           atEnd == n < chunk_size /\ src.read = Len(file.reads)
           data == src.buf \o SubSeq(c, p + 1, p + n)
<1>1. /\ file' = file /\ chunk_size' = chunk_size /\ src.pc = "inflate"
      /\ file \in Files /\ file.kind = "gzip" /\ src \in Source
      /\ chunk_size \in Nat \ {0}
  BY SourceAssumption DEF InflateChunk, At, SourceInv, SourceType, PlainWalk
<1>2. /\ c \in Bytes /\ Len(c) \in Nat /\ Len(file.reads) \in Nat
      /\ \A i \in 1 .. Len(file.reads) : file.reads[i] \in 0 .. Len(c)
      /\ Len(file.reads) # 0 => file.reads[Len(file.reads)] = Len(c)
  BY <1>1, FileFacts
<1>3. p \in Nat /\ src.buf \in Bytes /\ Len(src.buf) \in Nat /\ src.read \in Nat
  BY <1>1 DEF Source, Bytes
<1>4. /\ src.read \in 1 .. Len(file.reads) /\ p <= avail /\ Len(src.buf) <= p
      /\ src.buf = SubSeq(c, a + 1, p)
  BY <1>1, <1>2, <1>3 DEF SourceInv, GzipWindow
<1>5. avail \in 0 .. Len(c)
  BY <1>2, <1>4
<1>6. /\ n \in Nat /\ p + n \in Nat /\ p <= p + n /\ p + n <= avail /\ p + n <= Len(c)
      /\ n < chunk_size => p + n = avail
  <2>1. chunk_size \in Int /\ avail - p \in Int /\ avail - p >= 0
    BY <1>1, <1>3, <1>4, <1>5
  <2>2. n \in {chunk_size, avail - p} /\ n <= chunk_size /\ n <= avail - p
    BY <2>1, MinOfTwo
  <2>3. p \in Nat /\ avail \in Nat /\ Len(c) \in Nat /\ avail <= Len(c) /\ p <= avail
    BY <1>2, <1>3, <1>4, <1>5
  <2> HIDE DEF n, p, avail, c
  <2>4. CASE n = chunk_size
    BY <1>1, <2>2, <2>3, <2>4
  <2>5. CASE n = avail - p
    BY <2>1, <2>3, <2>5
  <2> QED BY <2>2, <2>4, <2>5
<1>7. a \in Nat /\ a <= p
  BY <1>3, <1>4
<1>8. data = SubSeq(c, a + 1, p + n) /\ data \in Bytes /\ Len(data) = p + n - a
  <2> HIDE DEF n, a, p, c
  <2>1. data = SubSeq(c, a + 1, p + n)
    BY <1>2, <1>3, <1>4, <1>6, <1>7, GlueWindows
  <2>2. SubSeq(c, a + 1, p + n) \in Bytes /\ Len(SubSeq(c, a + 1, p + n)) = p + n - a
    <3>1. /\ c \in Bytes /\ a \in Nat /\ p + n \in Nat /\ a <= p + n
          /\ p + n <= Len(c)
      BY <1>2, <1>3, <1>6, <1>7
    <3>2. \A d \in Nat : a <= d /\ d <= Len(c) =>
            SubSeq(c, a + 1, d) \in Bytes /\ Len(SubSeq(c, a + 1, d)) = d - a
      BY <3>1, WindowIs
    <3> QED BY <1>3, <1>6, <1>7, <3>1, <3>2
  <2> QED BY <2>1, <2>2
<1>9. CASE src' = [src EXCEPT !.pc = "failed"]
  <2>1. /\ src' \in Source /\ src'.pc = "failed" /\ src'.buf = src.buf /\ src'.len = src.len
        /\ src'.off = src.off /\ src'.read = src.read /\ src'.inflated = src.inflated
        /\ src'.zret = src.zret
    BY <1>1, <1>9, GotoFields DEF SourcePc
  <2>2. Offset' = Offset /\ Seen' = Seen
    BY <1>1, <2>1 DEF Offset, Seen
  <2>3. SourceType' /\ Opened' /\ PlainWalk'
    BY <1>1, <2>1 DEF SourceInv, SourceType, Opened, PlainWalk
  <2>4. GzipWindow' /\ GzipWalk'
    BY <1>1, <2>1, <2>2 DEF SourceInv, GzipWindow, GzipWalk
  <2>5. Position'
    BY <1>1, <2>2 DEF SourceInv, Position, Whole
  <2> QED BY <2>3, <2>4, <2>5 DEF SourceInv
<1>10. CASE src' = [src EXCEPT !.pc = "parse", !.buf = data, !.off = 0,
                               !.len = frame_boundary(data), !.inflated = p + n,
                               !.full = (n = chunk_size),
                               !.zret = IF atEnd /\ file.ends = "marker"
                                        THEN "Z_STREAM_END" ELSE "Z_OK"]
  <2>1. frame_boundary(data) = Reach(data)[0] /\ Reach(data)[0] \in 0 .. Len(data)
    <3> HIDE DEF data
    <3>1. 0 \in 0 .. Len(data)
      BY <1>8 DEF Bytes
    <3> QED BY <1>8, <3>1, ReachIs, ReachRange
  <2> HIDE DEF data, n, atEnd
  <2>2. /\ src'.pc = "parse" /\ src'.buf = data /\ src'.off = 0 /\ src'.len = Reach(data)[0]
        /\ src'.inflated = p + n /\ src'.read = src.read
        /\ src'.zret = IF atEnd /\ file.ends = "marker" THEN "Z_STREAM_END" ELSE "Z_OK"
    BY <1>1, <1>10, <2>1 DEF Source
  <2>3. src' \in Source
    <3>1. Reach(data)[0] \in Nat /\ (n = chunk_size) \in BOOLEAN
      BY <2>1
    <3> QED BY <1>1, <1>6, <1>8, <1>10, <2>1, <3>1 DEF Source, SourcePc
  <2>4. SourceType'
    BY <1>1, <2>1, <2>2, <2>3 DEF SourceInv, SourceType
  <2>5. Opened' /\ PlainWalk'
    BY <1>1, <2>2 DEF Opened, PlainWalk
  <2>6. GzipWindow'
    <3>1. p + n - Len(data) = a /\ Len(data) <= p + n
      <4>1. p \in Nat /\ n \in Nat /\ a \in Nat /\ a <= p /\ Len(data) = p + n - a
        BY <1>3, <1>6, <1>7, <1>8, Zenon
      <4> HIDE DEF a, p, c
      <4> QED BY ONLY <4>1
    <3>2. data = SubSeq(file.content, src'.inflated - Len(data) + 1, src'.inflated)
      <4>1. src'.inflated = p + n /\ src'.inflated - Len(data) = a
        BY <1>3, <1>6, <2>2, <3>1
      <4> QED BY <1>8, <4>1, Zenon
    <3>3. src'.read <= Len(file.reads) /\ src'.read # 0
      BY <1>2, <1>4, <2>2
    <3> QED BY <1>1, <1>6, <1>8, <2>2, <3>1, <3>2, <3>3 DEF GzipWindow
  <2>7. Offset = a /\ Offset' = a
    <3>1. src.off = 0
      BY <1>1 DEF SourceInv, GzipWalk
    <3>2. Offset = a + src.off
      BY <1>1, Zenon DEF Offset
    <3>3. Offset' = src'.inflated - Len(src'.buf) + src'.off
      BY <1>1, Zenon DEF Offset
    <3>4. p + n - Len(data) = a /\ a \in Nat
      <4>1. p \in Nat /\ n \in Nat /\ a \in Nat /\ a <= p /\ Len(data) = p + n - a
        BY <1>3, <1>6, <1>7, <1>8, Zenon
      <4> HIDE DEF a, p, c
      <4> QED BY ONLY <4>1
    <3>5. src'.inflated - Len(src'.buf) = a
      <4>1. src'.inflated - Len(data) = a
        BY <1>3, <1>6, <2>2, <3>4
      <4>2. src'.buf = data
        BY <2>2
      <4> QED BY <4>1, <4>2, Zenon
    <3>6. Offset = a + 0 /\ Offset' = a + 0
      BY <2>2, <3>1, <3>2, <3>3, <3>5, Zenon
    <3>7. a + 0 = a
      <4> HIDE DEF a
      <4> QED BY <3>4
    <3> QED BY <3>6, <3>7, Zenon
  <2>8. GzipWalk'
    <3> DEFINE P == SubSeq(c, 1, p)
               Q == SubSeq(c, 1, p + n)
    <3>1. Seen = P /\ Seen' = Q
      BY <1>1, <2>2 DEF Seen
    <3>2. P \in Bytes /\ Len(P) = p
      <4>1. p <= Len(c)
        BY <1>2, <1>3, <1>6
      <4> QED BY <1>2, <1>3, <4>1, PrefixIs
    <3>3. Reach(P)[a] = a
      <4>1. ~CompleteAt(P, a)
        BY <1>1, <2>7, <3>1 DEF SourceInv, GzipWalk
      <4>2. a \in 0 .. p
        BY <1>3, <1>7
      <4> HIDE DEF P, a, p
      <4> QED BY <3>2, <4>1, <4>2, ReachIs
    <3>4. Reach(P)[0] = a
      BY <1>1, <2>7, <3>1, <3>3 DEF SourceInv, GzipWalk
    <3>5. Reach(Q)[0] = Reach(Q)[Reach(P)[0]]
      <4>1. 0 \in 0 .. p
        BY <1>3
      <4> HIDE DEF p, c
      <4> QED BY SMTT(30), <1>2, <1>3, <1>6, <4>1, ReachPrefix
    <3>6. Reach(Seen')[Offset'] = Reach(Seen')[0]
      BY <2>7, <3>1, <3>4, <3>5
    <3>7. ASSUME atEnd, file.ends = "marker" PROVE p + n = Len(c)
      BY <1>2, <1>4, <1>6, <3>7 DEF atEnd
    <3>8. src'.zret = "Z_STREAM_END" => file.ends = "marker" /\ src'.inflated = Len(file.content)
      BY <2>2, <3>7
    <3> QED BY <1>1, <2>2, <3>6, <3>8 DEF GzipWalk
  <2>9. Position'
    BY <1>1, <2>7 DEF SourceInv, Position, Whole
  <2> QED BY <2>4, <2>5, <2>6, <2>8, <2>9 DEF SourceInv
<1> QED BY <1>9, <1>10 DEF InflateChunk, Goto

\* What the buffer shows at src.off, the content has at Offset.
LEMMA BufferShows ==
  ASSUME SourceInv, src.pc = "parse"
  PROVE  /\ Offset \in 0 .. Len(file.content)
         /\ CompleteAt(src.buf, src.off) =>
              /\ CompleteAt(file.content, Offset)
              /\ After(file.content, Offset) = Offset + 2 + be16(src.buf, src.off)
              /\ payload(src.buf, src.off) = payload(file.content, Offset)
         /\ file.kind = "gzip" =>
              /\ Seen \in Bytes /\ Len(Seen) = src.inflated /\ Offset \in 0 .. src.inflated
              /\ CompleteAt(src.buf, src.off) <=> CompleteAt(Seen, Offset)
              /\ CompleteAt(src.buf, src.off) =>
                   After(Seen, Offset) = Offset + 2 + be16(src.buf, src.off)
<1> DEFINE c == file.content
           p == src.inflated
           a == src.inflated - Len(src.buf)
           o == src.off
<1>1. /\ file \in Files /\ src.buf \in Bytes /\ Len(src.buf) \in Nat /\ src.off \in Nat
      /\ src.len \in Nat /\ src.inflated \in Nat /\ src.read \in Nat
      /\ src.off <= src.len /\ src.len <= Len(src.buf)
  BY DEF SourceInv, SourceType, Source, Bytes
<1>2. c \in Bytes /\ Len(c) \in Nat
  BY <1>1, FileFacts
<1>3. CASE file.kind # "gzip"
  <2>1. src.buf = c /\ Offset = o
    BY <1>3 DEF SourceInv, PlainWalk, Offset
  <2> QED BY <1>1, <1>2, <1>3, <2>1 DEF After
<1>4. CASE file.kind = "gzip"
  <2>1. Offset = a + o
    BY <1>4 DEF Offset
  <2>2. src.buf = SubSeq(c, a + 1, p) /\ Len(src.buf) <= p
    BY <1>4 DEF SourceInv, GzipWindow
  <2>3. p <= Len(c)
    <3>1. /\ src.read # 0 /\ src.read <= Len(file.reads)
          /\ src.inflated <= file.reads[src.read]
      BY <1>4 DEF SourceInv, GzipWindow
    <3>2. Len(file.reads) \in Nat
          /\ \A i \in 1 .. Len(file.reads) : file.reads[i] \in 0 .. Len(file.content)
      BY <1>1, <1>4, FileFacts
    <3>3. src.read \in 1 .. Len(file.reads)
      BY <1>1, <3>1, <3>2
    <3>4. file.reads[src.read] \in 0 .. Len(file.content)
      BY <3>2, <3>3
    <3> QED BY <1>1, <1>2, <3>1, <3>4
  <2>4. a \in Nat /\ a <= p /\ a + o \in 0 .. p
    <3>1. Len(src.buf) <= p /\ o <= Len(src.buf)
      BY <1>1, <2>2
    <3> QED BY <1>1, <3>1
  <2>5. SubSeq(c, 1, p) \in Bytes /\ Len(SubSeq(c, 1, p)) = p
    BY <1>1, <1>2, <2>3, PrefixIs
  <2>6. Seen = SubSeq(c, 1, p)
    BY DEF Seen
  <2>7. /\ p \in Nat /\ o \in Nat /\ a \in Nat /\ a <= p /\ p <= Len(c)
        /\ c \in Bytes /\ src.buf = SubSeq(c, a + 1, p)
    BY <1>1, <1>2, <2>2, <2>3, <2>4
  <2>8. /\ CompleteAt(src.buf, o) <=> CompleteAt(SubSeq(c, 1, p), a + o)
        /\ CompleteAt(src.buf, o) =>
             /\ CompleteAt(c, a + o)
             /\ After(SubSeq(c, 1, p), a + o) = a + After(src.buf, o)
             /\ After(c, a + o) = a + After(src.buf, o)
             /\ payload(src.buf, o) = payload(c, a + o)
    <3> HIDE DEF a, c, p, o
    <3> DEFINE w == SubSeq(c, a + 1, p)
    <3>1. /\ CompleteAt(w, o) <=> CompleteAt(SubSeq(c, 1, p), a + o)
          /\ CompleteAt(w, o) =>
               /\ CompleteAt(c, a + o)
               /\ After(SubSeq(c, 1, p), a + o) = a + After(w, o)
               /\ After(c, a + o) = a + After(w, o)
               /\ payload(w, o) = payload(c, a + o)
      BY <2>7, SameFrame
    <3>2. src.buf = w
      BY <2>7
    <3> HIDE DEF w
    <3> QED BY <3>1, <3>2
  <2>9. ASSUME CompleteAt(src.buf, o)
        PROVE  a + After(src.buf, o) = Offset + 2 + be16(src.buf, src.off)
    <3>1. be16(src.buf, o) \in Nat
      BY <1>1, <2>9, AfterInside
    <3> QED BY <1>1, <2>1, <2>4, <3>1 DEF After
  <2>10. Offset \in 0 .. Len(c)
    BY <1>1, <1>2, <2>1, <2>3, <2>4
  <2>11. ASSUME CompleteAt(src.buf, o)
         PROVE  /\ CompleteAt(c, Offset)
                /\ After(c, Offset) = Offset + 2 + be16(src.buf, src.off)
                /\ payload(src.buf, o) = payload(c, Offset)
                /\ After(Seen, Offset) = Offset + 2 + be16(src.buf, src.off)
    <3> HIDE DEF a, c, p, o
    <3> QED BY <2>1, <2>6, <2>8, <2>9, <2>11 DEF o
  <2> QED BY <1>4, <2>1, <2>4, <2>5, <2>6, <2>8, <2>10, <2>11
<1> QED BY <1>3, <1>4

\* parse_stream is given len bytes of the buffer; it sees a frame there just
\* when the buffer has one.
LEMMA HasFrameIs ==
  ASSUME SourceInv, src.pc = "parse"
  PROVE  /\ HasFrame <=> CompleteAt(src.buf, src.off)
         /\ HasFrame => src.off + 2 + be16(src.buf, src.off) \in src.off .. src.len
         /\ ~HasFrame /\ file.kind = "gzip" => src.off = src.len
<1> DEFINE o == src.off
           l == src.len
           w == SubSeq(src.buf, 1, l)
<1>1. /\ src.buf \in Bytes /\ Len(src.buf) \in Nat /\ o \in Nat /\ l \in Nat
      /\ o <= l /\ l <= Len(src.buf)
  BY DEF SourceInv, SourceType, Source, Bytes
<1>2. HasFrame <=> Fits(src.buf, o, l)
  <2>1. CompleteAt(w, o) <=> Fits(src.buf, 0 + o, l)
    <3>1. 0 \in Nat /\ 0 <= l /\ 0 + 1 = 1
      BY <1>1
    <3> QED BY <1>1, <3>1, WindowFits
  <2>2. 0 + o = o
    BY <1>1
  <2> QED BY <2>1, <2>2 DEF HasFrame, At
<1>3. ASSUME Fits(src.buf, o, l)
      PROVE  CompleteAt(src.buf, o) /\ o + 2 + be16(src.buf, o) \in o .. l
  <2>1. o + 2 <= Len(src.buf)
    BY <1>1, <1>3 DEF Fits
  <2>2. be16(src.buf, o) \in Nat
    BY <1>1, <2>1, Be16Nat
  <2> QED BY <1>1, <1>3, <2>1, <2>2 DEF Fits, CompleteAt, After
<1>4. ASSUME CompleteAt(src.buf, o) PROVE Fits(src.buf, o, l)
  <2>1. After(src.buf, o) \in o + 3 .. Len(src.buf) /\ be16(src.buf, o) \in Nat \ {0}
    BY <1>1, <1>4, AfterInside
  <2>2. After(src.buf, o) <= l
    <3>1. CASE file.kind # "gzip"
      BY <1>1, <2>1, <3>1 DEF SourceInv, PlainWalk
    <3>2. CASE file.kind = "gzip"
      <4>1. Reach(src.buf)[o] = l
        BY <3>2 DEF SourceInv, GzipWalk
      <4>2. Reach(src.buf)[o] = Reach(src.buf)[After(src.buf, o)]
        BY <1>1, <1>4, ReachIs
      <4>3. After(src.buf, o) \in 0 .. Len(src.buf)
        BY <1>1, <2>1
      <4>4. Reach(src.buf)[After(src.buf, o)] \in After(src.buf, o) .. Len(src.buf)
        BY <1>1, <4>3, ReachRange
      <4> QED BY <1>1, <2>1, <4>1, <4>2, <4>4
    <3> QED BY <3>1, <3>2
  <2> QED BY <1>1, <2>1, <2>2 DEF Fits, After
<1>5. ASSUME ~CompleteAt(src.buf, o), file.kind = "gzip" PROVE o = l
  <2>1. Reach(src.buf)[o] = l
    BY <1>5 DEF SourceInv, GzipWalk
  <2>2. Reach(src.buf)[o] = o
    BY <1>1, <1>5, ReachIs
  <2> QED BY <2>1, <2>2
<1> QED BY <1>2, <1>3, <1>4, <1>5

\* NextFrame is the frame of the file the handler has not had yet.
LEMMA NextFrameIs ==
  ASSUME SourceInv, HasFrame
  PROVE  /\ pos < Len(Whole) /\ NextFrame = Whole[pos + 1] /\ NextFrame \in Frames
         /\ Rest(file.content)[Offset + 2 + be16(src.buf, src.off)]
              = SubSeq(Whole, pos + 2, Len(Whole))
<1> DEFINE c == file.content
           g == Offset + 2 + be16(src.buf, src.off)
<1>1. src.pc = "parse" /\ CompleteAt(src.buf, src.off)
  BY HasFrameIs DEF HasFrame, At
<1>2. /\ Offset \in 0 .. Len(c) /\ CompleteAt(c, Offset) /\ After(c, Offset) = g
      /\ payload(src.buf, src.off) = payload(c, Offset)
  BY <1>1, BufferShows
<1>3. file \in Files /\ pos \in Nat /\ c \in Bytes /\ Len(c) \in Nat
  BY FileFacts DEF SourceInv, SourceType
<1>4. Whole \in Seq(Frames) /\ Len(Whole) \in Nat
  BY <1>3, WholeSeq
<1>5. NextFrame \in Frames /\ NextFrame = FrameOf[payload(c, Offset)]
  BY <1>2 DEF NextFrame, Frames
<1> HIDE DEF g, c
<1>6. Rest(c)[Offset] = <<NextFrame>> \o Rest(c)[g]
  BY <1>2, <1>3, <1>5, RestIs
<1>7. g \in 0 .. Len(c)
  BY <1>2, <1>3, AfterInside
<1>8. Rest(c)[g] \in Seq(Frames)
  BY <1>3, <1>7, RestSeq DEF Frames, c
<1>9. <<NextFrame>> \o Rest(c)[g] = SubSeq(Whole, pos + 1, Len(Whole)) /\ pos \in 0 .. Len(Whole)
  <2>1. Rest(c)[Offset] = SubSeq(Whole, pos + 1, Len(Whole)) /\ pos <= Len(Whole)
    BY DEF SourceInv, Position, c
  <2> QED BY SMTT(30), <1>3, <1>4, <1>6, <2>1
<1>10. pos < Len(Whole) /\ Whole[pos + 1] = NextFrame
       /\ Rest(c)[g] = SubSeq(Whole, pos + 2, Len(Whole))
  BY <1>4, <1>5, <1>8, <1>9, TakeFirst
<1> QED BY <1>5, <1>10 DEF g, c

\* A frame is handed over; the offset moves behind it.
LEMMA SourceInvTake ==
  ASSUME SourceInv, HasFrame, TakeFrame, pos' = pos + 1, UNCHANGED <<file, chunk_size>>
  PROVE  SourceInv'
<1> DEFINE o == src.off + 2 + be16(src.buf, src.off)
<1>1. /\ src.pc = "parse" /\ src \in Source /\ pos \in Nat /\ CompleteAt(src.buf, src.off)
      /\ o \in src.off .. src.len /\ src.len <= Len(src.buf) /\ file \in Files
  BY HasFrameIs DEF HasFrame, At, SourceInv, SourceType
<1>2. src.off \in Nat /\ src.len \in Nat /\ src.buf \in Bytes /\ Len(src.buf) \in Nat
      /\ src.inflated \in Nat
  BY <1>1 DEF Source, Bytes
<1>3. be16(src.buf, src.off) \in Nat /\ After(src.buf, src.off) = o
  BY <1>1, <1>2, AfterInside DEF After
<1>4. src' = [src EXCEPT !.off = o]
  BY <1>2, <1>3 DEF TakeFrame
<1> HIDE DEF o
<1>5. /\ src' \in Source /\ src'.off = o /\ src'.pc = "parse" /\ src'.buf = src.buf
      /\ src'.len = src.len /\ src'.read = src.read /\ src'.inflated = src.inflated
      /\ src'.zret = src.zret
  BY <1>1, <1>2, <1>4 DEF Source
<1>6. SourceType' /\ Opened' /\ PlainWalk' /\ GzipWindow'
  <2>1. SourceType'
    BY <1>1, <1>2, <1>5 DEF SourceInv, SourceType
  <2>2. Opened' /\ PlainWalk' /\ GzipWindow'
    BY <1>1, <1>5 DEF SourceInv, Opened, PlainWalk, GzipWindow
  <2> QED BY <2>1, <2>2
<1>7. Offset' = Offset + 2 + be16(src.buf, src.off) /\ Seen' = Seen
  BY SMTT(30), <1>2, <1>3, <1>5 DEF Offset, Seen, After
<1>8. GzipWalk'
  <2> SUFFICES ASSUME file.kind = "gzip" PROVE GzipWalk'
    BY DEF GzipWalk
  <2>1. Reach(src.buf)[o] = src.len
    <3>1. Reach(src.buf)[src.off] = src.len
      BY <1>1 DEF SourceInv, GzipWalk
    <3>2. src.off \in 0 .. Len(src.buf)
      BY <1>1, <1>2
    <3> QED BY <1>1, <1>2, <1>3, <3>1, <3>2, ReachIs
  <2>2. Reach(Seen)[Offset'] = Reach(Seen)[0]
    <3>1. /\ Seen \in Bytes /\ Offset \in 0 .. Len(Seen) /\ CompleteAt(Seen, Offset)
          /\ After(Seen, Offset) = Offset'
      BY <1>1, <1>7, BufferShows
    <3>2. Reach(Seen)[Offset] = Reach(Seen)[Offset']
      BY <3>1, ReachIs
    <3> QED BY <3>2 DEF SourceInv, GzipWalk
  <2> QED BY <1>5, <1>7, <2>1, <2>2 DEF SourceInv, GzipWalk
<1>9. Position'
  <2>1. /\ pos < Len(Whole) /\ Len(Whole) \in Nat
        /\ Rest(file.content)[Offset'] = SubSeq(Whole, pos + 2, Len(Whole))
    BY <1>1, <1>7, NextFrameIs, WholeSeq
  <2>2. Whole' = Whole
    BY DEF Whole
  <2>3. pos' <= Len(Whole) /\ pos' + 1 = pos + 2
    BY <1>1, <2>1
  <2> QED BY <2>1, <2>2, <2>3 DEF Position
<1> QED BY <1>6, <1>8, <1>9 DEF SourceInv

\* parse_stream returns: the bytes behind the last boundary are carried over.
LEMMA SourceInvReturns ==
  ASSUME SourceInv, ParseReturns, UNCHANGED pos
  PROVE  SourceInv'
<1>1. /\ file' = file /\ chunk_size' = chunk_size /\ src.pc = "parse" /\ ~HasFrame
      /\ file \in Files /\ src \in Source
      /\ src.off <= src.len /\ src.len <= Len(src.buf)
  BY DEF ParseReturns, At, SourceInv, SourceType
<1>2. src.off \in Nat /\ src.len \in Nat /\ src.buf \in Bytes /\ Len(src.buf) \in Nat
      /\ src.inflated \in Nat
  BY <1>1 DEF Source, Bytes
<1>3. ~CompleteAt(src.buf, src.off)
  BY <1>1, HasFrameIs
<1>4. CASE file.kind # "gzip"
  <2>1. src' = [src EXCEPT !.pc = "done"] /\ "done" \in SourcePc
    BY <1>4 DEF ParseReturns, Goto, SourcePc
  <2>2. /\ src' \in Source /\ src'.pc = "done" /\ src'.buf = src.buf /\ src'.len = src.len
        /\ src'.off = src.off /\ src'.read = src.read /\ src'.inflated = src.inflated
        /\ src'.zret = src.zret
    BY <1>1, <2>1, GotoFields
  <2>3. SourceType' /\ Opened' /\ GzipWindow' /\ GzipWalk'
    BY <1>1, <1>4, <2>2 DEF SourceInv, SourceType, Opened, GzipWindow, GzipWalk
  <2>4. PlainWalk'
    BY <1>1, <1>3, <1>4, <2>2 DEF SourceInv, PlainWalk
  <2>5. Position'
    BY <1>1, <1>4, <2>2 DEF SourceInv, Position, Whole, Offset
  <2> QED BY <2>3, <2>4, <2>5 DEF SourceInv
<1>5. CASE file.kind = "gzip"
  <2> DEFINE c == file.content
             p == src.inflated
             a == src.inflated - Len(src.buf)
             q == IF src.full THEN "inflate"
                  ELSE IF src.zret = "Z_STREAM_END" THEN "finish" ELSE "read"
             rest == SubSeq(src.buf, src.len + 1, Len(src.buf))
  <2>1. src' = [src EXCEPT !.buf = rest, !.off = 0, !.len = 0, !.pc = q]
    BY <1>5 DEF ParseReturns, carry
  <2>2. q \in {"inflate", "finish", "read"}
    OBVIOUS
  <2>3. src.off = src.len
    BY <1>1, <1>5, HasFrameIs
  <2>4. rest \in Bytes /\ Len(rest) = Len(src.buf) - src.len
    BY <1>1, <1>2, WindowIs
  <2> HIDE DEF q, rest
  <2>5. /\ src'.buf = rest /\ src'.off = 0 /\ src'.len = 0 /\ src'.pc = q
        /\ src'.read = src.read /\ src'.inflated = src.inflated /\ src'.zret = src.zret
    BY <1>1, <2>1 DEF Source
  <2>6. src' \in Source
    BY <1>1, <2>1, <2>2, <2>4 DEF Source, SourcePc
  <2>7. SourceType' /\ Opened' /\ PlainWalk'
    <3>1. src'.off <= src'.len /\ src'.len <= Len(src'.buf)
      BY <1>1, <1>2, <2>4, <2>5
    <3>2. SourceType'
      BY <1>1, <2>6, <3>1 DEF SourceInv, SourceType
    <3>3. Opened' /\ PlainWalk'
      BY <1>1, <1>5, <2>2, <2>5 DEF Opened, PlainWalk
    <3> QED BY <3>2, <3>3
  <2>8. Offset' = Offset /\ Seen' = Seen
    <3>1. src.inflated - (Len(src.buf) - src.len) + 0 = src.inflated - Len(src.buf) + src.off
      BY <1>1, <1>2, <2>3
    <3> QED BY <1>1, <1>5, <2>4, <2>5, <3>1 DEF Offset, Seen
  <2>9. GzipWindow'
    <3>1. /\ src.read # 0 /\ src.read <= Len(file.reads) /\ p <= file.reads[src.read]
          /\ src.buf = SubSeq(c, a + 1, p) /\ Len(src.buf) <= p
      BY <1>1, <1>5 DEF SourceInv, GzipWindow
    <3>2. c \in Bytes /\ p <= Len(c)
      <4>1. c \in Bytes /\ Len(c) \in Nat /\ Len(file.reads) \in Nat
            /\ \A i \in 1 .. Len(file.reads) : file.reads[i] \in 0 .. Len(c)
        BY <1>1, <1>5, FileFacts
      <4>2. src.read \in 1 .. Len(file.reads)
        BY <1>1, <3>1, <4>1 DEF Source
      <4>3. file.reads[src.read] \in 0 .. Len(c)
        BY <4>1, <4>2
      <4> QED BY <1>2, <3>1, <4>1, <4>3
    <3>3. rest = SubSeq(c, a + src.len + 1, p)
      <4>1. a \in Nat /\ a + src.len <= p /\ p - a = Len(src.buf)
        BY <1>1, <1>2, <3>1
      <4>2. SubSeq(SubSeq(c, a + 1, p), src.len + 1, p - a) = SubSeq(c, a + src.len + 1, p)
        <5> DEFINE l == src.len
        <5>1. c \in Bytes /\ a \in Nat /\ p \in Nat /\ l \in Nat /\ a + l <= p /\ p <= Len(c)
          BY <1>2, <3>2, <4>1
        <5> HIDE DEF a, p, c, l
        <5>2. SubSeq(SubSeq(c, a + 1, p), l + 1, p - a) = SubSeq(c, a + l + 1, p)
          BY <5>1, DropWindow
        <5> QED BY <5>2 DEF l
      <4> QED BY <3>1, <4>1, <4>2 DEF rest
    <3>4. a + src.len = p - Len(rest) /\ Len(rest) <= p
      BY SMTT(30), <1>1, <1>2, <2>4, <3>1
    <3>5. rest = SubSeq(c, p - Len(rest) + 1, p)
      <4> HIDE DEF a, p, c
      <4> QED BY <3>3, <3>4
    <3> QED BY <1>1, <1>5, <2>5, <3>1, <3>4, <3>5 DEF GzipWindow
  <2>10. GzipWalk'
    <3>1. ~CompleteAt(Seen, Offset)
      BY <1>1, <1>3, <1>5, BufferShows
    <3> QED BY <1>1, <1>5, <2>2, <2>5, <2>8, <3>1 DEF SourceInv, GzipWalk
  <2>11. Position'
    BY <1>1, <2>8 DEF SourceInv, Position, Whole
  <2> QED BY <2>7, <2>9, <2>10, <2>11 DEF SourceInv
<1> QED BY <1>4, <1>5

\* The three together.
LEMMA SourceInvRunning ==
  ASSUME SourceInv, Running, UNCHANGED pos
  PROVE  SourceInv'
  BY SourceInvRead, SourceInvInflate, SourceInvReturns DEF Running

\* A source that is done has handed over every frame, and a .gz file was whole.
LEMMA DoneIsWhole ==
  ASSUME SourceInv, src.pc = "done"
  PROVE  /\ pos = Len(Whole)
         /\ file.kind = "gzip" => /\ file.ends = "marker"
                                  /\ frame_boundary(file.content) = Len(file.content)
<1>1. file \in Files /\ pos \in Nat /\ src \in Source
      /\ file.content \in Bytes /\ Len(file.content) \in Nat
      /\ Whole \in Seq(Frames) /\ Len(Whole) \in Nat
  BY FileFacts, WholeSeq DEF SourceInv, SourceType
<1>2. src.buf \in Bytes /\ src.off \in Nat /\ src.inflated \in Nat
      /\ src.off <= src.len /\ src.len <= Len(src.buf)
  BY <1>1 DEF SourceInv, SourceType, Source
<1>3. ASSUME file.kind = "gzip"
      PROVE  /\ Offset = Len(file.content) /\ file.ends = "marker"
             /\ Seen = file.content
             /\ Reach(Seen)[Offset] = Reach(Seen)[0]
  <2>1. /\ src.inflated = Len(file.content) /\ src.buf = << >> /\ src.off = 0
        /\ file.ends = "marker" /\ Reach(Seen)[Offset] = Reach(Seen)[0]
    BY <1>3 DEF SourceInv, GzipWalk
  <2>2. Offset = Len(file.content)
    BY <1>1, <1>3, <2>1 DEF Offset
  <2>3. Seen = file.content
    BY <1>1, <2>1 DEF Seen, Bytes
  <2> QED BY <2>1, <2>2, <2>3
<1>4. Offset \in 0 .. Len(file.content) /\ ~CompleteAt(file.content, Offset)
  <2>1. CASE file.kind = "gzip"
    BY <1>1, <1>3, <2>1 DEF CompleteAt
  <2>2. CASE file.kind # "gzip"
    <3>1. Offset = src.off /\ ~CompleteAt(file.content, src.off) /\ src.buf = file.content
      BY <2>2 DEF SourceInv, PlainWalk, Offset
    <3>2. src.len \in Nat
      BY <1>1 DEF Source
    <3> QED BY <1>1, <1>2, <3>1, <3>2
  <2> QED BY <2>1, <2>2
<1>5. Rest(file.content)[Offset] = << >>
  BY <1>1, <1>4, RestIs
<1>6. pos = Len(Whole)
  <2>1. pos <= Len(Whole) /\ SubSeq(Whole, pos + 1, Len(Whole)) = << >>
    BY <1>5 DEF SourceInv, Position
  <2>2. Len(SubSeq(Whole, pos + 1, Len(Whole))) = Len(Whole) - pos
    BY <1>1, <2>1
  <2>3. Len(Whole) - pos = 0
    BY <2>1, <2>2
  <2> QED BY <1>1, <2>3
<1>7. ASSUME file.kind = "gzip" PROVE frame_boundary(file.content) = Len(file.content)
  <2>1. Reach(file.content)[0] = Reach(file.content)[Offset] /\ Offset = Len(file.content)
    BY <1>3, <1>7
  <2> QED BY <1>1, <1>4, <2>1, ReachIs
<1> QED BY <1>3, <1>6, <1>7

\* What CarryIsTail says follows from the invariant.
LEMMA CarryFromInv ==
  ASSUME SourceInv
  PROVE  CarryIsTail
<1> SUFFICES ASSUME file.kind = "gzip", src.pc \in {"read", "inflate", "finish"}
             PROVE  src.buf = SubSeq(file.content, frame_boundary(Seen) + 1, src.inflated)
  BY DEF CarryIsTail, Seen
<1>1. file \in Files /\ src \in Source /\ file.content \in Bytes /\ Len(file.content) \in Nat
  BY FileFacts DEF SourceInv, SourceType
<1>2. src.buf \in Bytes /\ Len(src.buf) \in Nat /\ src.inflated \in Nat /\ src.read \in Nat
  BY <1>1 DEF Source, Bytes
<1>3. /\ Len(src.buf) <= src.inflated /\ src.read <= Len(file.reads)
      /\ src.inflated <= IF src.read = 0 THEN 0 ELSE file.reads[src.read]
      /\ src.buf = SubSeq(file.content, src.inflated - Len(src.buf) + 1, src.inflated)
  BY DEF SourceInv, GzipWindow
<1>4. src.inflated <= Len(file.content)
  <2>1. CASE src.read = 0
    BY <1>1, <1>2, <1>3, <2>1
  <2>2. CASE src.read # 0
    <3>1. Len(file.reads) \in Nat
          /\ \A i \in 1 .. Len(file.reads) : file.reads[i] \in 0 .. Len(file.content)
      BY <1>1, FileFacts
    <3>2. src.read \in 1 .. Len(file.reads)
      BY <1>2, <1>3, <2>2, <3>1
    <3>3. file.reads[src.read] \in 0 .. Len(file.content)
      BY <3>1, <3>2
    <3> QED BY <1>1, <1>2, <1>3, <2>2, <3>3
  <2> QED BY <2>1, <2>2
<1>5. Seen \in Bytes /\ Len(Seen) = src.inflated
  BY <1>1, <1>2, <1>4, PrefixIs DEF Seen
<1>6. Offset = src.inflated - Len(src.buf) /\ ~CompleteAt(Seen, Offset)
      /\ Reach(Seen)[Offset] = Reach(Seen)[0]
  BY <1>2 DEF SourceInv, GzipWalk, Offset
<1>7. Offset \in 0 .. Len(Seen)
  BY <1>2, <1>3, <1>5, <1>6
<1>8. frame_boundary(Seen) = Offset
  BY <1>5, <1>6, <1>7, ReachIs
<1> QED BY <1>3, <1>6, <1>8

-----------------------------------------------------------------------------
(* What the process holds, and what the phases of main mean.               *)

\* What a source that has been opened keeps until it is destroyed.
Resource == CASE file.kind = "gzip"   -> {"fd"}
              [] file.kind = "legacy" -> {"fd"}
              [] file.kind = "memory" -> {}
              [] file.kind = "mmap"   -> IF file.content = << >> THEN {} ELSE {"map"}

HeldInv ==
  /\ phase = "opening" =>
       /\ src.pc \in {"open", "fstat", "map", "slurp", "opened", "failed"}
       /\ src.pc \in {"open", "failed"} => held = {}
       /\ src.pc \in {"fstat", "map"} => file.kind = "mmap" /\ held = {"fd"}
       /\ src.pc = "map" => file.content # << >>
       /\ src.pc = "slurp" => file.kind \in {"legacy", "memory"} /\ held = Resource
       /\ src.pc = "opened" => held = Resource
  /\ phase \in {"replaying", "serving", "stopping"} => held = Resource
  /\ phase = "exited" => held = {}

\* Success is only reported of a source that is done.
PhaseInv ==
  /\ phase \in {"opening", "replaying", "serving", "stopping", "exited", "terminated"}
  /\ phase = "replaying" /\ file.kind # "gzip" => src.pc \in {"parse", "done"}
  /\ phase = "serving" => src.pc = "done"
  /\ phase = "exited" /\ status = 0 => src.pc = "done"
  /\ phase = "stopping" => status = 1

ReplayInv == SourceInv /\ HeldInv /\ PhaseInv

\* The four kinds of source, and what each one holds.
LEMMA KindOf ==
  ASSUME SourceInv
  PROVE  /\ file.kind \in {"gzip", "mmap", "legacy", "memory"}
         /\ Resource = IF file.kind = "mmap"
                       THEN (IF file.content = << >> THEN {} ELSE {"map"})
                       ELSE IF file.kind = "memory" THEN {} ELSE {"fd"}
<1>1. file.kind \in {"gzip", "mmap", "legacy", "memory"}
  BY SourceAssumption DEF SourceInv, SourceType
<1> QED BY <1>1 DEF Resource

\* It holds before the file is opened.
LEMMA ReplayInvInit ==
  ASSUME NEW B, ReplayInit(B)
  PROVE  ReplayInv
<1>1. SourceInit /\ phase = "opening" /\ status = 0 /\ pos = 0
  BY DEF ReplayInit
<1>2. SourceInv
  BY <1>1, SourceInvInit
<1>3. src.pc = "open" /\ held = {}
  BY <1>1 DEF SourceInit
<1> QED BY <1>1, <1>2, <1>3 DEF ReplayInv, HeldInv, PhaseInv

\* Steps that leave the source, the phase and what is held alone.
LEMMA ReplayInvSame ==
  ASSUME ReplayInv, UNCHANGED <<srcvars, phase, status, pos>>
  PROVE  ReplayInv'
<1>1. SourceInv'
  BY SourceInvSame DEF ReplayInv, srcvars
<1>2. HeldInv' /\ PhaseInv'
  BY DEF ReplayInv, HeldInv, PhaseInv, Resource, srcvars
<1> QED BY <1>1, <1>2 DEF ReplayInv

\* Opening the file, also when one of its steps fails.
LEMMA ReplayInvOpen ==
  ASSUME ReplayInv, OpenStep
  PROVE  ReplayInv'
<1>1. phase = "opening" /\ Opening /\ UNCHANGED <<phase, status, pos, file>> /\ SourceInv
  BY DEF ReplayInv, OpenStep, Opening, OpenFile, FstatFile, MapFile, SlurpFile
<1>2. SourceInv'
  BY <1>1, SourceInvOpening
<1>3. PhaseInv'
  BY <1>1 DEF PhaseInv
<1>4. /\ file.kind \in {"gzip", "mmap", "legacy", "memory"}
      /\ Resource = IF file.kind = "mmap"
                    THEN (IF file.content = << >> THEN {} ELSE {"map"})
                    ELSE IF file.kind = "memory" THEN {} ELSE {"fd"}
      /\ Resource' = Resource
  BY <1>1, KindOf DEF Resource
<1>5. src \in Source
  BY <1>1 DEF SourceInv, SourceType
<1>6. ASSUME NEW p \in SourcePc, src' = [src EXCEPT !.pc = p] PROVE src'.pc = p
  BY <1>5, <1>6, GotoFields
<1>7. ASSUME src' = [src EXCEPT !.pc = "opened", !.buf = file.content] PROVE src'.pc = "opened"
  BY <1>5, <1>7 DEF Source
<1> HIDE DEF Resource
<1>8. HeldInv'
  <2>1. CASE OpenFile
    <3>1. held = {}
      BY <1>1, <2>1 DEF ReplayInv, HeldInv, OpenFile, At
    <3>2. \/ src'.pc = "failed" /\ held' = {}
          \/ /\ held' = IF file.kind = "memory" THEN {} ELSE {"fd"}
             /\ src'.pc = IF file.kind = "gzip" THEN "opened"
                          ELSE IF file.kind = "mmap" THEN "fstat" ELSE "slurp"
      BY <1>4, <1>6, <2>1, <3>1 DEF OpenFile, Goto, SourcePc
    <3> QED BY <1>1, <1>4, <3>2 DEF HeldInv
  <2>2. CASE FstatFile
    <3>1. held = {"fd"} /\ file.kind = "mmap"
      BY <1>1, <2>2 DEF ReplayInv, HeldInv, FstatFile, At
    <3>2. \/ src'.pc = "failed" /\ held' = {}
          \/ src'.pc = "opened" /\ held' = {} /\ file.content = << >>
          \/ src'.pc = "map" /\ held' = {"fd"} /\ file.content # << >>
      BY <1>6, <2>2, <3>1 DEF FstatFile, Fail, Goto, SourcePc
    <3> QED BY <1>1, <1>4, <3>1, <3>2 DEF HeldInv
  <2>3. CASE MapFile
    <3>1. held = {"fd"} /\ file.kind = "mmap" /\ file.content # << >>
      BY <1>1, <2>3 DEF ReplayInv, HeldInv, MapFile, At
    <3>2. \/ src'.pc = "failed" /\ held' = {}
          \/ src'.pc = "opened" /\ held' = {"map"}
      BY <1>6, <1>7, <2>3, <3>1 DEF MapFile, Fail, Goto, SourcePc
    <3> QED BY <1>1, <1>4, <3>1, <3>2 DEF HeldInv
  <2>4. CASE SlurpFile
    <3>1. held = Resource /\ file.kind \in {"legacy", "memory"}
      BY <1>1, <2>4 DEF ReplayInv, HeldInv, SlurpFile, At
    <3>2. \/ src'.pc = "failed" /\ held' = held \ {"fd"}
          \/ src'.pc = "opened" /\ held' = held
      BY <1>6, <1>7, <2>4 DEF SlurpFile, Fail, Goto, SourcePc
    <3> QED BY <1>1, <1>4, <3>1, <3>2 DEF HeldInv
  <2> QED BY <1>1, <2>1, <2>2, <2>3, <2>4 DEF Opening
<1> QED BY <1>2, <1>3, <1>8 DEF ReplayInv

\* main returns 1 after a failed open.
LEMMA ReplayInvOpenFails ==
  ASSUME ReplayInv, OpenFails
  PROVE  ReplayInv'
<1>1. SourceInv'
  BY SourceInvSame DEF ReplayInv, OpenFails, srcvars
<1>2. HeldInv' /\ PhaseInv'
  BY DEF ReplayInv, OpenFails, At, HeldInv, PhaseInv, srcvars
<1> QED BY <1>1, <1>2 DEF ReplayInv

\* The run begins.
LEMMA ReplayInvStart ==
  ASSUME ReplayInv, Start
  PROVE  ReplayInv'
<1>1. SourceInv'
  BY SourceInvStart DEF ReplayInv, Start
<1>2. HeldInv' /\ PhaseInv'
  <2>1. src \in Source /\ Len(src.buf) \in Nat
    BY DEF ReplayInv, SourceInv, SourceType, Source, Bytes
  <2>2. file.kind # "gzip" => src'.pc = "parse"
    BY <2>1 DEF Start, StartRun, Source
  <2> QED BY <2>2 DEF ReplayInv, Start, At, HeldInv, PhaseInv, Resource
<1> QED BY <1>1, <1>2 DEF ReplayInv

\* A step of the run between two frames.
LEMMA ReplayInvRun ==
  ASSUME ReplayInv, RunStep
  PROVE  ReplayInv'
<1>1. SourceInv'
  BY SourceInvRunning DEF ReplayInv, RunStep
<1>2. file' = file /\ held' = held
  BY DEF RunStep, Running, ReadInput, InflateChunk, ParseReturns, Finish
<1>3. file.kind # "gzip" => src'.pc = "done"
  <2> SUFFICES ASSUME file.kind # "gzip" PROVE src'.pc = "done"
    OBVIOUS
  <2>1. src \in Source /\ src.pc \in {"parse", "done"}
    BY DEF ReplayInv, RunStep, PhaseInv, SourceInv, SourceType
  <2>2. src' = [src EXCEPT !.pc = "done"]
    BY <2>1 DEF RunStep, Running, ReadInput, InflateChunk, ParseReturns, Finish, At, Goto
  <2> QED BY <2>1, <2>2, GotoFields DEF SourcePc
<1>4. HeldInv' /\ PhaseInv'
  BY <1>2, <1>3 DEF ReplayInv, RunStep, HeldInv, PhaseInv, Resource
<1> QED BY <1>1, <1>4 DEF ReplayInv

\* A frame is handed to the handler.
LEMMA ReplayInvTake ==
  ASSUME ReplayInv, phase = "replaying", HasFrame, TakeFrame, pos' = pos + 1,
         UNCHANGED <<file, chunk_size, held, phase, status>>
  PROVE  ReplayInv'
<1>1. SourceInv'
  BY SourceInvTake DEF ReplayInv
<1>2. src'.pc = src.pc
  BY DEF ReplayInv, SourceInv, SourceType, Source, TakeFrame
<1>3. HeldInv' /\ PhaseInv'
  BY <1>2 DEF ReplayInv, HeldInv, PhaseInv, Resource
<1> QED BY <1>1, <1>3 DEF ReplayInv

\* However a process that has its source ends, destroying it releases all.
LEMMA ReplayInvExit ==
  ASSUME ReplayInv, Release, phase' = "exited", UNCHANGED <<file, chunk_size, src, pos>>,
         phase \in {"replaying", "serving", "stopping"} \/ (phase = "opening" /\ At("opened")),
         status' = 0 => src.pc = "done"
  PROVE  ReplayInv'
<1>1. SourceInv'
  BY SourceInvSame DEF ReplayInv
<1>2. held = Resource
  BY DEF ReplayInv, HeldInv, At
<1>3. held' = {}
  BY <1>2, KindOf DEF ReplayInv, Release
<1>4. HeldInv' /\ PhaseInv'
  BY <1>3 DEF HeldInv, PhaseInv
<1> QED BY <1>1, <1>4 DEF ReplayInv

\* The same invariant says what SourceIsHeld does.
LEMMA HeldFromInv ==
  ASSUME ReplayInv
  PROVE  SourceIsHeld
<1>1. phase = "replaying" => held = Resource
  BY DEF ReplayInv, HeldInv
<1>2. phase = "exited" => held = {}
  BY DEF ReplayInv, HeldInv
<1>3. /\ file.kind = "gzip" => Resource = {"fd"}
      /\ file.kind = "mmap" => Resource = IF file.content = << >> THEN {} ELSE {"map"}
  BY KindOf DEF ReplayInv
<1>4. ASSUME phase = "replaying", file.kind = "mmap", src.len > 0 PROVE file.content # << >>
  <2>1. src \in Source /\ src.len <= Len(src.buf)
    BY DEF ReplayInv, SourceInv, SourceType
  <2>2. src.pc \in {"parse", "done"}
    BY <1>4 DEF ReplayInv, PhaseInv
  <2>3. src.buf = file.content
    BY <1>4, <2>2 DEF ReplayInv, SourceInv, PlainWalk
  <2> QED BY <1>4, <2>1, <2>3 DEF Source
<1> QED BY <1>1, <1>2, <1>3, <1>4 DEF SourceIsHeld

-----------------------------------------------------------------------------
(* The books of a prefix of the file.                                      *)

\* DispatchAll is the fold that FoldLemmas is about.
LEMMA DispatchFolds == ASSUME NEW s, NEW b PROVE DispatchAll(s, b) = FoldAll(s, b)
BY DEF DispatchAll, FoldLeft, FoldAll

\* The books of one frame more.
LEMMA PrefixNext ==
  ASSUME file \in Files, NEW k \in Nat, k < Len(Whole)
  PROVE  Sequential(Prefix(k + 1)) = dispatch(Whole[k + 1], Sequential(Prefix(k)))
<1>1. Whole \in Seq(Frames) /\ Len(Whole) \in Nat
  BY WholeSeq
<1>2. k + 1 \in 1 .. Len(Whole)
  BY <1>1
<1>3. Whole[k + 1] \in Frames /\ Prefix(k) \in Seq(Frames)
  BY <1>1, <1>2 DEF Prefix
<1>4. Prefix(k + 1) = Append(Prefix(k), Whole[k + 1])
  BY <1>1, <1>2 DEF Prefix
<1>5. FoldAll(Prefix(k + 1), NewBuilder) = dispatch(Whole[k + 1], FoldAll(Prefix(k), NewBuilder))
  BY <1>3, <1>4, FoldAppend
<1> QED BY <1>5, DispatchFolds DEF Sequential

\* The books of no frame and of all of them.
LEMMA PrefixEnds ==
  ASSUME file \in Files
  PROVE  Sequential(Prefix(0)) = NewBuilder /\ Prefix(Len(Whole)) = Whole
<1>1. Whole \in Seq(Frames) /\ Len(Whole) \in Nat
  BY WholeSeq
<1>2. Prefix(0) = << >> /\ Prefix(Len(Whole)) = Whole
  BY <1>1 DEF Prefix
<1> QED BY <1>2, FoldEmpty, DispatchFolds DEF Sequential
=============================================================================

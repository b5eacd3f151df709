----------------------------- MODULE FoldLemmas ----------------------------
(***************************************************************************)
(* Induction over the natural numbers in a first-order form, and what it   *)
(* shows of the two folds of the community modules that the specifications *)
(* use: FoldLeft over a sequence, with the step Step, and SumFunction over *)
(* a finite set, whose CHOOSE of the next element must not matter.  Then   *)
(* the extrema of sets of naturals, and division by a divisor that is not  *)
(* a numeral, of which the provers know only the definition.               *)
(***************************************************************************)
EXTENDS Integers, Sequences, FiniteSetsExt, Functions, WellFoundedInduction,
        SequenceTheorems, FiniteSetTheorems, TLAPS

CONSTANT Step(_, _)   \* what an element makes of the value accumulated so far

\* FoldLeft(LAMBDA g, f : Step(f, g), b, s) of SequencesExt, by its definition.
FoldAll(s, b) ==
  MapThenFoldSet(LAMBDA f, g : Step(f, g), b, LAMBDA i : s[i], LAMBDA T : Max(T), DOMAIN s)

\* Induction over the natural numbers, for a set.
LEMMA NatInduct ==
  ASSUME NEW S, 0 \in S, \A n \in Nat : n \in S => n + 1 \in S
  PROVE  Nat \subseteq S
<1> DEFINE T == Nat \ S
<1> SUFFICES ASSUME T # {} PROVE FALSE
  OBVIOUS
<1>1. IsWellFoundedOn(OpToRel(<, Nat), Nat)
  BY NatLessThanWellFounded
<1>2. \E x \in T : \A y \in T : ~(<<y, x>> \in OpToRel(<, Nat))
  <2>1. T \subseteq Nat
    OBVIOUS
  <2> HIDE DEF T
  <2> QED BY <1>1, <2>1, WFMin
<1>3. PICK x \in T : \A y \in T : ~(y < x)
  BY <1>2 DEF OpToRel
<1>4. x # 0 /\ x - 1 \in Nat
  OBVIOUS
<1>5. x - 1 \in S
  BY <1>3, <1>4
<1> QED BY <1>4, <1>5

\* Max of the community modules, a CHOOSE, picks the largest element of a
\* nonempty set of indices.
LEMMA MaxOf ==
  ASSUME NEW n \in Nat, NEW t, t \subseteq 1 .. n, t # {}
  PROVE  Max(t) \in t /\ \A y \in t : y <= Max(t)
<1> DEFINE P(k) == \A u \in SUBSET (1 .. k) : u # {} => \E x \in u : \A y \in u : x >= y
           S == {k \in Nat : P(k)}
<1>1. 0 \in S
  <2>1. 1 .. 0 = {}
    OBVIOUS
  <2> QED BY <2>1
<1>2. ASSUME NEW k \in Nat, k \in S PROVE k + 1 \in S
  <2> SUFFICES ASSUME NEW u \in SUBSET (1 .. k + 1), u # {}
               PROVE  \E x \in u : \A y \in u : x >= y
    OBVIOUS
  <2>1. CASE k + 1 \in u
    BY <2>1
  <2>2. CASE k + 1 \notin u
    <3>1. u \subseteq 1 .. k
      BY <2>2
    <3> QED BY <3>1, <1>2
  <2> QED BY <2>1, <2>2
<1>3. Nat \subseteq S
  <2> HIDE DEF S
  <2> QED BY <1>1, <1>2, NatInduct
<1>4. \E x \in t : \A y \in t : x >= y
  BY <1>3
<1> QED BY <1>4 DEF Max

\* g is the function on sets of indices that FoldLeft goes through.
FoldsTo(g, s, n, b) ==
  g = [t \in SUBSET (1 .. n) |->
         IF t = {} THEN b ELSE Step(s[Max(t)], g[t \ {Max(t)}])]

\* There is such a function, so the CHOOSE behind FoldLeft picks one.
LEMMA FoldExists ==
  ASSUME NEW s, NEW b, NEW n \in Nat
  PROVE  \E g : FoldsTo(g, s, n, b)
<1> DEFINE S == {k \in Nat : \E g : FoldsTo(g, s, k, b)}
<1>1. 0 \in S
  <2> DEFINE g == [t \in SUBSET (1 .. 0) |-> b]
  <2>1. FoldsTo(g, s, 0, b)
    BY DEF FoldsTo
  <2> QED BY <2>1
<1>2. ASSUME NEW k \in Nat, k \in S PROVE k + 1 \in S
  <2>1. PICK g : FoldsTo(g, s, k, b)
    BY <1>2
  <2> DEFINE h == [t \in SUBSET (1 .. k + 1) |->
                     IF t = {} THEN b ELSE Step(s[Max(t)], g[t \ {Max(t)}])]
  <2>2. ASSUME NEW t \in SUBSET (1 .. k) PROVE h[t] = g[t]
    <3>1. t \in SUBSET (1 .. k + 1)
      OBVIOUS
    <3>2. g[t] = IF t = {} THEN b ELSE Step(s[Max(t)], g[t \ {Max(t)}])
      BY <2>1 DEF FoldsTo
    <3> QED BY <3>1, <3>2
  <2>3. ASSUME NEW t \in SUBSET (1 .. k + 1), t # {}
        PROVE  t \ {Max(t)} \in SUBSET (1 .. k)
    <3>1. Max(t) \in t /\ \A y \in t : y <= Max(t)
      <4>1. k + 1 \in Nat /\ t \subseteq 1 .. k + 1
        OBVIOUS
      <4> QED BY <2>3, <4>1, MaxOf
    <3>2. \A y \in t : y # Max(t) => y \in 1 .. k
      <4> SUFFICES ASSUME NEW y \in t, y # Max(t) PROVE y \in 1 .. k
        OBVIOUS
      <4>1. y \in 1 .. k + 1 /\ Max(t) \in 1 .. k + 1 /\ y <= Max(t)
        BY <3>1
      <4> QED BY <4>1
    <3> QED BY <3>2
  <2>4. FoldsTo(h, s, k + 1, b)
    <3>1. ASSUME NEW t \in SUBSET (1 .. k + 1), t # {}
          PROVE  h[t \ {Max(t)}] = g[t \ {Max(t)}]
      BY <3>1, <2>2, <2>3
    <3> QED BY <3>1 DEF FoldsTo
  <2> QED BY <2>4
<1>3. Nat \subseteq S
  <2> HIDE DEF S
  <2> QED BY <1>1, <1>2, NatInduct
<1> QED BY <1>3

\* FoldAll is that function at the set of all indices.
LEMMA FoldIs ==
  ASSUME NEW s, NEW b, NEW n \in Nat, DOMAIN s = 1 .. n
  PROVE  \E g : FoldsTo(g, s, n, b) /\ FoldAll(s, b) = g[1 .. n]
<1> DEFINE it == CHOOSE g : FoldsTo(g, s, n, b)
<1>1. FoldsTo(it, s, n, b)
  BY FoldExists, Zenon
<1>2. FoldAll(s, b) = it[1 .. n]
  BY DEF FoldAll, MapThenFoldSet, FoldsTo
<1> QED BY <1>1, <1>2

\* a holds what the first k elements of s, for each k, make of b.
Accumulates(a, s, n, b) ==
  a[0] = b /\ \A k \in 0 .. n - 1 : a[k + 1] = Step(s[k + 1], a[k])

\* Taking the largest index off 1 .. k + 1 leaves 1 .. k.
LEMMA IntervalStep ==
  ASSUME NEW k \in Nat
  PROVE  1 .. k + 1 # {} /\ Max(1 .. k + 1) = k + 1 /\ (1 .. k + 1) \ {k + 1} = 1 .. k
<1>1. k + 1 \in 1 .. k + 1
  OBVIOUS
<1>2. Max(1 .. k + 1) \in 1 .. k + 1 /\ \A y \in 1 .. k + 1 : y <= Max(1 .. k + 1)
  <2>1. k + 1 \in Nat /\ 1 .. k + 1 \subseteq 1 .. k + 1 /\ 1 .. k + 1 # {}
    BY <1>1
  <2> QED BY <2>1, MaxOf
<1>3. Max(1 .. k + 1) = k + 1
  BY <1>1, <1>2
<1>4. (1 .. k + 1) \ {k + 1} = 1 .. k
  OBVIOUS
<1>5. 1 .. k + 1 # {}
  BY <1>1
<1> QED BY <1>3, <1>4, <1>5

\* FoldAll takes the elements first to last.
LEMMA FoldAllIs ==
  ASSUME NEW s, NEW b, NEW n \in Nat, DOMAIN s = 1 .. n
  PROVE  \E a : Accumulates(a, s, n, b) /\ FoldAll(s, b) = a[n]
<1>1. PICK g : FoldsTo(g, s, n, b) /\ FoldAll(s, b) = g[1 .. n]
  BY FoldIs
<1> DEFINE a == [k \in 0 .. n |-> g[1 .. k]]
<1>2. g[{}] = b
  BY <1>1 DEF FoldsTo
<1>3. a[0] = b
  <2>1. 1 .. 0 = {}
    OBVIOUS
  <2> QED BY <1>2, <2>1
<1>4. ASSUME NEW k \in 0 .. n - 1 PROVE a[k + 1] = Step(s[k + 1], a[k])
  <2> DEFINE t == 1 .. k + 1
  <2>1. t # {} /\ Max(t) = k + 1 /\ t \ {k + 1} = 1 .. k
    <3>1. k \in Nat
      OBVIOUS
    <3> QED BY <3>1, IntervalStep
  <2>2. t \in SUBSET (1 .. n)
    OBVIOUS
  <2>3. a[k + 1] = g[t] /\ a[k] = g[1 .. k]
    OBVIOUS
  <2> HIDE DEF t, a
  <2>4. g[t] = Step(s[Max(t)], g[t \ {Max(t)}])
    BY <1>1, <2>1, <2>2 DEF FoldsTo
  <2> QED BY <2>1, <2>3, <2>4
<1>5. a[n] = g[1 .. n]
  OBVIOUS
<1> QED BY <1>1, <1>3, <1>4, <1>5 DEF Accumulates

\* An empty sequence leaves the value as it is.
LEMMA FoldEmpty ==
  ASSUME NEW b PROVE FoldAll(<< >>, b) = b
<1>1. DOMAIN << >> = 1 .. 0
  OBVIOUS
<1>2. PICK a : Accumulates(a, << >>, 0, b) /\ FoldAll(<< >>, b) = a[0]
  BY <1>1, FoldAllIs
<1> QED BY <1>2 DEF Accumulates

\* The elements of s and then those of t.
LEMMA FoldConcat ==
  ASSUME NEW X, NEW s \in Seq(X), NEW t \in Seq(X), NEW b
  PROVE  FoldAll(s \o t, b) = FoldAll(t, FoldAll(s, b))
<1> DEFINE n == Len(s)
           m == Len(t)
           r == s \o t
<1>1. n \in Nat /\ m \in Nat /\ DOMAIN s = 1 .. n /\ DOMAIN t = 1 .. m /\ DOMAIN r = 1 .. n + m
  OBVIOUS
<1>2. /\ \A i \in 1 .. n : r[i] = s[i]
      /\ \A i \in 1 .. m : r[n + i] = t[i]
  OBVIOUS
<1>3. PICK g : Accumulates(g, s, n, b) /\ FoldAll(s, b) = g[n]
  BY <1>1, FoldAllIs
<1>4. PICK h : Accumulates(h, r, n + m, b) /\ FoldAll(r, b) = h[n + m]
  <2>1. n + m \in Nat
    BY <1>1
  <2> QED BY <1>1, <2>1, FoldAllIs
<1>5. PICK e : Accumulates(e, t, m, g[n]) /\ FoldAll(t, g[n]) = e[m]
  BY <1>1, FoldAllIs
<1> HIDE DEF n, m, r
<1>6. h[n] = g[n]
  <2> DEFINE S == {k \in Nat : k <= n => h[k] = g[k]}
  <2>1. 0 \in S
    BY <1>3, <1>4 DEF Accumulates
  <2>2. ASSUME NEW k \in Nat, k \in S PROVE k + 1 \in S
    <3> SUFFICES ASSUME k + 1 <= n PROVE h[k + 1] = g[k + 1]
      OBVIOUS
    <3>1. k \in 0 .. n - 1 /\ k \in 0 .. (n + m) - 1 /\ k + 1 \in 1 .. n /\ h[k] = g[k]
      BY <1>1, <2>2
    <3>2. g[k + 1] = Step(s[k + 1], g[k]) /\ h[k + 1] = Step(r[k + 1], h[k])
      BY <1>3, <1>4, <3>1 DEF Accumulates
    <3> QED BY <1>2, <3>1, <3>2
  <2>3. Nat \subseteq S
    <3> HIDE DEF S
    <3> QED BY <2>1, <2>2, NatInduct
  <2> QED BY <1>1, <2>3
<1>7. h[n + m] = e[m]
  <2> DEFINE S == {k \in Nat : k <= m => h[n + k] = e[k]}
  <2>1. 0 \in S
    <3>1. n + 0 = n
      BY <1>1
    <3> QED BY <1>5, <1>6, <3>1 DEF Accumulates
  <2>2. ASSUME NEW k \in Nat, k \in S PROVE k + 1 \in S
    <3> SUFFICES ASSUME k + 1 <= m PROVE h[n + (k + 1)] = e[k + 1]
      OBVIOUS
    <3>1. k \in 0 .. m - 1 /\ n + k \in 0 .. (n + m) - 1 /\ k + 1 \in 1 .. m /\ h[n + k] = e[k]
      BY <1>1, <2>2
    <3>2. e[k + 1] = Step(t[k + 1], e[k])
      BY <1>5, <3>1 DEF Accumulates
    <3>3. h[(n + k) + 1] = Step(r[(n + k) + 1], h[n + k])
      BY <1>4, <3>1 DEF Accumulates
    <3>4. (n + k) + 1 = n + (k + 1)
      BY <1>1
    <3> QED BY <1>2, <3>1, <3>2, <3>3, <3>4
  <2>3. Nat \subseteq S
    <3> HIDE DEF S
    <3> QED BY <2>1, <2>2, NatInduct
  <2> QED BY <1>1, <2>3
<1> QED BY <1>3, <1>4, <1>5, <1>7 DEF r

\* One more element is one more step.
LEMMA FoldAppend ==
  ASSUME NEW X, NEW s \in Seq(X), NEW f \in X, NEW b
  PROVE  FoldAll(Append(s, f), b) = Step(f, FoldAll(s, b))
<1>1. Append(s, f) = s \o <<f>> /\ <<f>> \in Seq(X)
  OBVIOUS
<1>2. ASSUME NEW c PROVE FoldAll(<<f>>, c) = Step(f, c)
  <2>1. DOMAIN <<f>> = 1 .. 1 /\ <<f>>[1] = f
    OBVIOUS
  <2>2. PICK a : Accumulates(a, <<f>>, 1, c) /\ FoldAll(<<f>>, c) = a[1]
    BY <2>1, FoldAllIs
  <2>3. a[0] = c /\ a[0 + 1] = Step(<<f>>[0 + 1], a[0])
    BY <2>2 DEF Accumulates
  <2> QED BY <2>1, <2>2, <2>3
<1>3. \A c : FoldAll(s \o <<f>>, c) = FoldAll(<<f>>, FoldAll(s, c))
  BY <1>1, FoldConcat, Zenon
<1> QED BY <1>1, <1>2, <1>3

-----------------------------------------------------------------------------
(* Sums over a finite set.                                                 *)

\* The element SumFunctionOnSet takes next.
First(t) == CHOOSE x \in t : TRUE

\* g is the function on the subsets of S that SumFunctionOnSet goes through.
SumsTo(g, f, S) ==
  g = [t \in SUBSET S |-> IF t = {} THEN 0 ELSE f[First(t)] + g[t \ {First(t)}]]

\* Taking an element off a subset of a finite set.
LEMMA Smaller ==
  ASSUME NEW S, IsFiniteSet(S), NEW t \in SUBSET S, NEW x \in t
  PROVE  /\ t \ {x} \in SUBSET S /\ IsFiniteSet(t) /\ IsFiniteSet(t \ {x})
         /\ Cardinality(t) \in Nat /\ Cardinality(t \ {x}) \in Nat
         /\ Cardinality(t) = Cardinality(t \ {x}) + 1
<1>1. IsFiniteSet(t) BY FS_Subset
<1>2. IsFiniteSet(t \ {x}) /\ Cardinality(t \ {x}) = Cardinality(t) - 1
  BY <1>1, FS_RemoveElement
<1>3. Cardinality(t) \in Nat /\ Cardinality(t \ {x}) \in Nat
  BY <1>1, <1>2, FS_CardinalityType
<1> QED BY <1>1, <1>2, <1>3

\* The element taken next is one of the set.
LEMMA FirstIn == ASSUME NEW t, t # {} PROVE First(t) \in t
BY DEF First

\* There is such a function, so the CHOOSE behind SumFunctionOnSet picks one.
LEMMA SumExists ==
  ASSUME NEW f, NEW S, IsFiniteSet(S)
  PROVE  \E g : SumsTo(g, f, S)
<1> DEFINE Small(k) == {t \in SUBSET S : Cardinality(t) <= k}
           Upto(g, k) == g = [t \in Small(k) |->
                                IF t = {} THEN 0 ELSE f[First(t)] + g[t \ {First(t)}]]
           N == {k \in Nat : \E g : Upto(g, k)}
<1>1. 0 \in N
  <2> DEFINE g == [t \in Small(0) |-> 0]
  <2>1. ASSUME NEW t \in Small(0) PROVE t = {}
    <3>1. IsFiniteSet(t) /\ Cardinality(t) \in Nat BY FS_Subset, FS_CardinalityType
    <3>2. Cardinality(t) = 0 BY <3>1
    <3> QED BY <3>1, <3>2, FS_EmptySet
  <2>2. Upto(g, 0) BY <2>1
  <2> QED BY <2>2
<1>2. ASSUME NEW k \in Nat, k \in N PROVE k + 1 \in N
  <2>1. PICK g : Upto(g, k) BY <1>2
  <2> DEFINE h == [t \in Small(k + 1) |->
                     IF t = {} THEN 0 ELSE f[First(t)] + g[t \ {First(t)}]]
  <2>2. ASSUME NEW t \in Small(k) PROVE h[t] = g[t]
    <3>1. Cardinality(t) \in Nat BY FS_Subset, FS_CardinalityType
    <3>2. t \in Small(k + 1) BY <3>1
    <3>3. g[t] = IF t = {} THEN 0 ELSE f[First(t)] + g[t \ {First(t)}] BY <2>1
    <3> QED BY <3>2, <3>3
  <2>3. ASSUME NEW t \in Small(k + 1), t # {} PROVE t \ {First(t)} \in Small(k)
    <3>1. PICK x : x = First(t) /\ x \in t BY <2>3, FirstIn
    <3>2. /\ t \ {x} \in SUBSET S /\ Cardinality(t \ {x}) \in Nat
          /\ Cardinality(t) = Cardinality(t \ {x}) + 1
      BY <3>1, Smaller
    <3> QED BY <3>1, <3>2
  <2>4. ASSUME NEW t \in Small(k + 1), t # {} PROVE h[t \ {First(t)}] = g[t \ {First(t)}]
    BY <2>2, <2>3, <2>4
  <2> HIDE DEF Small
  <2>5. Upto(h, k + 1) BY <2>4
  <2>6. \E x : Upto(x, k + 1)
    <3> HIDE DEF h, Upto
    <3> QED BY <2>5
  <2>7. k + 1 \in Nat OBVIOUS
  <2> HIDE DEF Upto
  <2> QED BY <2>6, <2>7
<1>3. Nat \subseteq N
  <2> HIDE DEF N
  <2> QED BY <1>1, <1>2, NatInduct
<1>4. Cardinality(S) \in Nat /\ Small(Cardinality(S)) = SUBSET S
  <2>1. Cardinality(S) \in Nat BY FS_CardinalityType
  <2>2. \A t \in SUBSET S : Cardinality(t) <= Cardinality(S) BY FS_Subset
  <2> QED BY <2>1, <2>2
<1>5. PICK g : Upto(g, Cardinality(S)) BY <1>3, <1>4
<1>6. SumsTo(g, f, S) BY <1>4, <1>5 DEF SumsTo
<1> QED BY <1>6

\* The sum of S is that function at S.
LEMMA SumIs ==
  ASSUME NEW f, NEW S, IsFiniteSet(S)
  PROVE  \E g : SumsTo(g, f, S) /\ SumFunctionOnSet(f, S) = g[S]
<1> DEFINE it == CHOOSE g : SumsTo(g, f, S)
<1>1. SumsTo(it, f, S) BY SumExists, Zenon
<1>2. SumFunctionOnSet(f, S) = it[S]
  BY DEF SumFunctionOnSet, FoldFunctionOnSet, MapThenFoldSet, SumsTo, First
<1> QED BY <1>1, <1>2

\* One step of it.
LEMMA SumStep ==
  ASSUME NEW f, NEW S, NEW g, SumsTo(g, f, S), NEW t \in SUBSET S
  PROVE  /\ t = {} => g[t] = 0
         /\ t # {} => g[t] = f[First(t)] + g[t \ {First(t)}]
BY DEF SumsTo

\* Two such functions agree where their summands do.
LEMMA SumAgrees ==
  ASSUME NEW f, NEW S, NEW g, SumsTo(g, f, S), NEW e, NEW T, NEW h, SumsTo(h, e, T),
         IsFiniteSet(S), T \subseteq S, \A x \in T : f[x] = e[x]
  PROVE  \A t \in SUBSET T : g[t] = h[t]
<1> DEFINE N == {k \in Nat : \A t \in SUBSET T : Cardinality(t) = k => g[t] = h[t]}
<1>0. \A t \in SUBSET T : t \in SUBSET S /\ IsFiniteSet(t) /\ Cardinality(t) \in Nat
  BY FS_Subset, FS_CardinalityType
<1>1. 0 \in N
  <2> SUFFICES ASSUME NEW t \in SUBSET T, Cardinality(t) = 0 PROVE g[t] = h[t] OBVIOUS
  <2>1. t = {} BY <1>0, FS_EmptySet
  <2>2. t \in SUBSET S BY <1>0
  <2>3. g[t] = 0 BY <2>1, <2>2 DEF SumsTo
  <2>4. h[t] = 0 BY <2>1 DEF SumsTo
  <2> QED BY <2>3, <2>4
<1>2. ASSUME NEW k \in Nat, k \in N PROVE k + 1 \in N
  <2> SUFFICES ASSUME NEW t \in SUBSET T, Cardinality(t) = k + 1 PROVE g[t] = h[t] OBVIOUS
  <2>1. t # {} BY FS_EmptySet
  <2>2. First(t) \in t BY <2>1, FirstIn
  <2> DEFINE u == t \ {First(t)}
  <2>3. u \in SUBSET T /\ Cardinality(u) = k
    <3>1. t \in SUBSET S BY <1>0
    <3>2. PICK x : x = First(t) /\ x \in t BY <2>2
    <3>3. Cardinality(t) = Cardinality(t \ {x}) + 1 /\ Cardinality(t \ {x}) \in Nat
      BY <3>1, <3>2, Smaller
    <3> QED BY <3>2, <3>3
  <2>4. g[u] = h[u] BY <1>2, <2>3
  <2>5. g[t] = f[First(t)] + g[u] BY <1>0, <2>1, SumStep
  <2>6. h[t] = e[First(t)] + h[u] BY <2>1, SumStep
  <2> QED BY <2>2, <2>4, <2>5, <2>6
<1>3. Nat \subseteq N
  <2> HIDE DEF N
  <2> QED BY <1>1, <1>2, NatInduct
<1> QED BY <1>0, <1>3

\* Sums of naturals are naturals.
LEMMA SumIsNat ==
  ASSUME NEW f, NEW S, NEW g, SumsTo(g, f, S), IsFiniteSet(S), \A x \in S : f[x] \in Nat
  PROVE  \A t \in SUBSET S : g[t] \in Nat
<1> DEFINE N == {k \in Nat : \A t \in SUBSET S : Cardinality(t) = k => g[t] \in Nat}
<1>0. \A t \in SUBSET S : IsFiniteSet(t) /\ Cardinality(t) \in Nat
  BY FS_Subset, FS_CardinalityType
<1>1. 0 \in N
  <2> SUFFICES ASSUME NEW t \in SUBSET S, Cardinality(t) = 0 PROVE g[t] \in Nat OBVIOUS
  <2>1. t = {} BY <1>0, FS_EmptySet
  <2>2. g[t] = 0 BY <2>1, SumStep
  <2> QED BY <2>2
<1>2. ASSUME NEW k \in Nat, k \in N PROVE k + 1 \in N
  <2> SUFFICES ASSUME NEW t \in SUBSET S, Cardinality(t) = k + 1 PROVE g[t] \in Nat OBVIOUS
  <2> DEFINE c == First(t)
  <2>1. t # {} BY FS_EmptySet
  <2>2. c \in t BY <2>1, FirstIn
  <2>3. g[t] = f[c] + g[t \ {c}] BY <2>1, SumStep
  <2> HIDE DEF c
  <2>4. t \ {c} \in SUBSET S /\ Cardinality(t \ {c}) = k
    <3>1. Cardinality(t) = Cardinality(t \ {c}) + 1 /\ Cardinality(t \ {c}) \in Nat
      BY <2>2, Smaller
    <3> QED BY <3>1
  <2>5. f[c] \in Nat /\ g[t \ {c}] \in Nat BY <1>2, <2>2, <2>4
  <2> QED BY <2>3, <2>5
<1>3. Nat \subseteq N
  <2> HIDE DEF N
  <2> QED BY <1>1, <1>2, NatInduct
<1> QED BY <1>0, <1>3

\* Any element may be taken first.
LEMMA SumAnyOrder ==
  ASSUME NEW f, NEW S, NEW g, SumsTo(g, f, S), IsFiniteSet(S), \A x \in S : f[x] \in Nat
  PROVE  \A t \in SUBSET S : \A y \in t : g[t] = f[y] + g[t \ {y}]
<1> DEFINE P(t) == \A y \in t : g[t] = f[y] + g[t \ {y}]
           N == {k \in Nat : \A t \in SUBSET S : Cardinality(t) = k => P(t)}
<1>0. \A t \in SUBSET S : IsFiniteSet(t) /\ Cardinality(t) \in Nat
  BY FS_Subset, FS_CardinalityType
<1>1. 0 \in N
  <2> SUFFICES ASSUME NEW t \in SUBSET S, Cardinality(t) = 0 PROVE P(t) OBVIOUS
  <2>1. t = {} BY <1>0, FS_EmptySet
  <2> QED BY <2>1
<1>2. ASSUME NEW k \in Nat, k \in N PROVE k + 1 \in N
  <2> SUFFICES ASSUME NEW t \in SUBSET S, Cardinality(t) = k + 1 PROVE P(t) OBVIOUS
  <2> DEFINE c == First(t)
  <2>1. t # {} BY FS_EmptySet
  <2>2. c \in t BY <2>1, FirstIn
  <2>3. g[t] = f[c] + g[t \ {c}] BY <2>1, SumStep
  <2> HIDE DEF c
  <2>4. ASSUME NEW y \in t PROVE t \ {y} \in SUBSET S /\ P(t \ {y})
    <3>1. Cardinality(t) = Cardinality(t \ {y}) + 1 /\ Cardinality(t \ {y}) \in Nat
      BY Smaller
    <3>2. t \ {y} \in SUBSET S /\ Cardinality(t \ {y}) = k BY <3>1
    <3> QED BY <1>2, <3>2
  <2>5. ASSUME NEW y \in t, y # c PROVE g[t] = f[y] + g[t \ {y}]
    <3> DEFINE u == (t \ {c}) \ {y}
    <3>1. (t \ {y}) \ {c} = u OBVIOUS
    <3>2. y \in t \ {c} /\ c \in t \ {y} BY <2>2, <2>5
    <3>3. g[t \ {c}] = f[y] + g[u] BY <2>2, <2>4, <3>2
    <3>4. g[t \ {y}] = f[c] + g[u] BY <2>4, <3>1, <3>2
    <3>5. f[y] \in Nat /\ f[c] \in Nat BY <2>2
    <3>6. g[u] \in Nat
      <4>1. u \in SUBSET S OBVIOUS
      <4> HIDE DEF u
      <4> QED BY <4>1, SumIsNat
    <3> HIDE DEF u
    <3> QED BY <2>3, <3>3, <3>4, <3>5, <3>6
  <2> QED BY <2>3, <2>5
<1>3. Nat \subseteq N
  <2> HIDE DEF N
  <2> QED BY <1>1, <1>2, NatInduct
<1> QED BY <1>0, <1>3

\* The empty sum is 0.
LEMMA SumEmpty == ASSUME NEW f PROVE SumFunctionOnSet(f, {}) = 0
<1>1. PICK g : SumsTo(g, f, {}) /\ SumFunctionOnSet(f, {}) = g[{}]
  BY FS_EmptySet, SumIs
<1> QED BY <1>1, SumStep

\* A sum of naturals is one.
LEMMA SumNat ==
  ASSUME NEW f, NEW S, IsFiniteSet(S), \A x \in S : f[x] \in Nat
  PROVE  SumFunctionOnSet(f, S) \in Nat
<1>1. PICK g : SumsTo(g, f, S) /\ SumFunctionOnSet(f, S) = g[S]
  BY SumIs
<1> QED BY <1>1, SumIsNat

\* A sum depends on its summands only.
LEMMA SumSame ==
  ASSUME NEW f, NEW e, NEW S, IsFiniteSet(S), \A x \in S : f[x] = e[x]
  PROVE  SumFunctionOnSet(f, S) = SumFunctionOnSet(e, S)
<1>1. PICK g : SumsTo(g, f, S) /\ SumFunctionOnSet(f, S) = g[S]
  BY SumIs
<1>2. PICK h : SumsTo(h, e, S) /\ SumFunctionOnSet(e, S) = h[S]
  BY SumIs
<1>3. g[S] = h[S] BY <1>1, <1>2, SumAgrees
<1> QED BY <1>1, <1>2, <1>3

\* One summand taken out.
LEMMA SumRemove ==
  ASSUME NEW f, NEW S, IsFiniteSet(S), \A x \in S : f[x] \in Nat, NEW y \in S
  PROVE  SumFunctionOnSet(f, S) = f[y] + SumFunctionOnSet(f, S \ {y})
<1>1. PICK g : SumsTo(g, f, S) /\ SumFunctionOnSet(f, S) = g[S]
  BY SumIs
<1>2. IsFiniteSet(S \ {y}) BY FS_RemoveElement
<1>3. PICK h : SumsTo(h, f, S \ {y}) /\ SumFunctionOnSet(f, S \ {y}) = h[S \ {y}]
  BY <1>2, SumIs
<1>4. g[S \ {y}] = h[S \ {y}] BY <1>1, <1>3, SumAgrees
<1>5. g[S] = f[y] + g[S \ {y}] BY <1>1, SumAnyOrder
<1> QED BY <1>1, <1>3, <1>4, <1>5

\* One summand more.
LEMMA SumAdd ==
  ASSUME NEW f, NEW S, IsFiniteSet(S), NEW y, y \notin S, \A x \in S \cup {y} : f[x] \in Nat
  PROVE  SumFunctionOnSet(f, S \cup {y}) = f[y] + SumFunctionOnSet(f, S)
<1>1. IsFiniteSet(S \cup {y}) BY FS_AddElement
<1>2. y \in S \cup {y} /\ (S \cup {y}) \ {y} = S OBVIOUS
<1>3. SumFunctionOnSet(f, S \cup {y}) = f[y] + SumFunctionOnSet(f, (S \cup {y}) \ {y})
  BY <1>1, <1>2, SumRemove
<1> QED BY <1>2, <1>3
-----------------------------------------------------------------------------
(* Extrema of sets of naturals.                                            *)

\* Every nonempty set of naturals has a least element, and Min is it.
LEMMA MinNat ==
  ASSUME NEW T, T \subseteq Nat, T # {}
  PROVE  Min(T) \in T /\ \A y \in T : Min(T) <= y
<1>1. \E x \in T : \A y \in T : ~ (<<y, x>> \in OpToRel(<, Nat))
  BY NatLessThanWellFounded, WFMin
<1>2. \E x \in T : \A y \in T : x <= y
  <2>1. PICK x \in T : \A y \in T : ~ (<<y, x>> \in OpToRel(<, Nat)) BY <1>1
  <2>2. ASSUME NEW y \in T PROVE x <= y
    <3>1. x \in Nat /\ y \in Nat OBVIOUS
    <3>2. ~ (y < x) BY <2>1, <3>1 DEF OpToRel
    <3> QED BY <3>1, <3>2
  <2> QED BY <2>2
<1> QED BY <1>2 DEF Min

\* Every nonempty finite set of naturals has a largest element, and Max is it.
LEMMA MaxNat ==
  ASSUME NEW T, IsFiniteSet(T), T \subseteq Nat, T # {}
  PROVE  Max(T) \in T /\ \A y \in T : y <= Max(T)
<1> DEFINE Largest(t) == \E x \in t : \A y \in t : x >= y
           N == {k \in Nat : \A t \in SUBSET T : Cardinality(t) = k /\ t # {} => Largest(t)}
<1>1. \A t \in SUBSET T : IsFiniteSet(t) /\ Cardinality(t) \in Nat
  BY FS_Subset, FS_CardinalityType
<1>2. 0 \in N
  <2>1. \A t \in SUBSET T : Cardinality(t) = 0 => t = {} BY <1>1, FS_EmptySet
  <2> QED BY <2>1
<1>3. ASSUME NEW k \in Nat, k \in N PROVE k + 1 \in N
  <2> SUFFICES ASSUME NEW t \in SUBSET T, Cardinality(t) = k + 1, t # {} PROVE Largest(t)
    OBVIOUS
  <2>1. PICK c : c \in t OBVIOUS
  <2>2. t \ {c} \in SUBSET T /\ Cardinality(t \ {c}) = k BY <1>1, <2>1, Smaller
  <2>3. CASE t \ {c} = {}
    <3>1. t = {c} /\ c \in Nat BY <2>1, <2>3
    <3> QED BY <3>1
  <2>4. CASE t \ {c} # {}
    <3>1. Largest(t \ {c}) BY <1>3, <2>2, <2>4
    <3>2. PICK x \in t \ {c} : \A y \in t \ {c} : x >= y BY <3>1
    <3>3. x \in Nat /\ c \in Nat /\ \A y \in t : y \in Nat BY <2>1
    <3>4. CASE x >= c
      <4>1. \A y \in t : x >= y BY <3>2, <3>4
      <4> QED BY <4>1
    <3>5. CASE ~(x >= c)
      <4>1. \A y \in t : c >= y BY <3>2, <3>3, <3>5
      <4> QED BY <2>1, <4>1
    <3> QED BY <3>4, <3>5
  <2> QED BY <2>3, <2>4
<1>4. Nat \subseteq N
  <2> HIDE DEF N
  <2> QED BY <1>2, <1>3, NatInduct
<1>5. Largest(T) BY <1>1, <1>4
<1> QED BY <1>5 DEF Max

\* The larger and the smaller of two numbers.
LEMMA MinMaxPair ==
  ASSUME NEW a \in Int, NEW b \in Int
  PROVE  /\ Min({a, b}) = IF a <= b THEN a ELSE b
         /\ Max({a, b}) = IF a >= b THEN a ELSE b
<1>1. \E x \in {a, b} : \A y \in {a, b} : x <= y OBVIOUS
<1>2. Min({a, b}) \in {a, b} /\ \A y \in {a, b} : Min({a, b}) <= y BY <1>1 DEF Min
<1>3. \E x \in {a, b} : \A y \in {a, b} : x >= y OBVIOUS
<1>4. Max({a, b}) \in {a, b} /\ \A y \in {a, b} : Max({a, b}) >= y BY <1>3 DEF Max
<1> QED BY <1>2, <1>4

-----------------------------------------------------------------------------
(* Division.                                                               *)

\* Euclidean division, as the provers know it.
LEMMA DivDef ==
  ASSUME NEW C \in Nat \ {0}, NEW a \in Int
  PROVE  /\ a % C \in 0 .. C - 1
         /\ a \div C \in Int
         /\ a = C * (a \div C) + (a % C)
OBVIOUS

\* A multiple of C smaller than C either way is 0.
LEMMA SmallMultiple ==
  ASSUME NEW C \in Nat \ {0}, NEW d \in Int, -C < C * d, C * d < C
  PROVE  d = 0
<1>1. CASE d >= 1
  <2>1. C * d >= C BY <1>1
  <2> QED BY <2>1
<1>2. CASE d <= -1
  <2>1. C * d <= -C BY <1>2
  <2> QED BY <2>1
<1> QED BY <1>1, <1>2

\* Multiplication distributes.
LEMMA Distributes ==
  ASSUME NEW C \in Int, NEW k \in Int, NEW d \in Int
  PROVE  C * (k + d) = C * k + C * d /\ C * (k - d) = C * k - C * d
OBVIOUS

\* There is one quotient and one residue.
LEMMA DivUnique ==
  ASSUME NEW C \in Nat \ {0}, NEW a \in Int, NEW k \in Int, NEW r \in 0 .. C - 1, a = C * k + r
  PROVE  a \div C = k /\ a % C = r
<1> DEFINE q == a \div C
           s == a % C
<1>1. q \in Int /\ s \in 0 .. C - 1 /\ a = C * q + s BY DivDef
<1> HIDE DEF q, s
<1>2. C * (k - q) = C * k - C * q BY <1>1, Distributes
<1>3. C * (k - q) = s - r BY <1>1, <1>2
<1>4. PICK d \in Int : d = k - q BY <1>1
<1>5. d = 0 BY <1>1, <1>3, <1>4, SmallMultiple
<1>6. q = k BY <1>1, <1>4, <1>5
<1>7. s = r BY <1>1, <1>6
<1> QED BY <1>6, <1>7 DEF q, s

\* A larger dividend has no smaller quotient.
LEMMA DivMono ==
  ASSUME NEW C \in Nat \ {0}, NEW a \in Int, NEW b \in Int, a <= b
  PROVE  a \div C <= b \div C
<1> DEFINE q == a \div C
           p == b \div C
<1>1. /\ q \in Int /\ a % C \in 0 .. C - 1 /\ a = C * q + (a % C)
      /\ p \in Int /\ b % C \in 0 .. C - 1 /\ b = C * p + (b % C)
  BY DivDef
<1> HIDE DEF q, p
<1>2. SUFFICES ASSUME q >= p + 1 PROVE FALSE BY <1>1 DEF q, p
<1>3. PICK d \in Int : d = q - p /\ d >= 1 BY <1>1, <1>2
<1>4. C * (q - p) = C * q - C * p BY <1>1, Distributes
<1>5. C * d >= C BY <1>3
<1> QED BY <1>1, <1>3, <1>4, <1>5

\* A quotient of naturals is a natural.
LEMMA DivNat ==
  ASSUME NEW C \in Nat \ {0}, NEW a \in Nat
  PROVE  a \div C \in Nat /\ a % C \in Nat /\ a % C < C /\ C * (a \div C) <= a
<1>1. 0 \div C = 0 BY DivUnique
<1>2. 0 \div C <= a \div C BY DivMono
<1> QED BY <1>1, <1>2, DivDef

\* Division undoes multiplication.
LEMMA DivMultiple ==
  ASSUME NEW C \in Nat \ {0}, NEW k \in Int
  PROVE  (C * k) \div C = k /\ (C * k) % C = 0 /\ (k * C) \div C = k /\ (k * C) % C = 0
<1>1. C * k = C * k + 0 /\ C * k \in Int /\ k * C = C * k OBVIOUS
<1> QED BY <1>1, DivUnique

\* Products are ordered as their factors.
LEMMA TimesMono ==
  ASSUME NEW C \in Nat, NEW k \in Int, NEW d \in Int, k <= d
  PROVE  C * k <= C * d
<1>1. PICK e \in Nat : e = d - k OBVIOUS
<1>2. C * e \in Nat OBVIOUS
<1>3. C * (d - k) = C * d - C * k BY Distributes
<1> QED BY <1>1, <1>2, <1>3

-----------------------------------------------------------------------------
(* Sums over intervals.                                                    *)

\* One bin more.
LEMMA SumNext ==
  ASSUME NEW f, NEW k \in Nat, \A i \in 1 .. k + 1 : f[i] \in Nat
  PROVE  /\ SumFunctionOnSet(f, 1 .. k) \in Nat
         /\ SumFunctionOnSet(f, 1 .. k + 1) = SumFunctionOnSet(f, 1 .. k) + f[k + 1]
<1>1. IsFiniteSet(1 .. k) BY FS_Interval
<1>2. 1 .. k + 1 = (1 .. k) \cup {k + 1} /\ k + 1 \notin 1 .. k OBVIOUS
<1>3. \A i \in 1 .. k : f[i] \in Nat BY <1>2
<1>4. SumFunctionOnSet(f, 1 .. k) \in Nat BY <1>1, <1>3, SumNat
<1>5. SumFunctionOnSet(f, (1 .. k) \cup {k + 1}) = f[k + 1] + SumFunctionOnSet(f, 1 .. k)
  BY <1>1, <1>2, SumAdd
<1>6. f[k + 1] \in Nat BY <1>2
<1>7. SumFunctionOnSet(f, 1 .. k + 1) = f[k + 1] + SumFunctionOnSet(f, 1 .. k) BY <1>2, <1>5, Zenon
<1> QED BY <1>4, <1>6, <1>7

\* The sum over no bin.
LEMMA SumNone == ASSUME NEW f PROVE SumFunctionOnSet(f, 1 .. 0) = 0
<1>1. 1 .. 0 = {} OBVIOUS
<1> QED BY <1>1, SumEmpty

\* A part of a sum of naturals is no larger than the whole.
LEMMA SumPart ==
  ASSUME NEW f, NEW S, IsFiniteSet(S), \A x \in S : f[x] \in Nat, NEW T \in SUBSET S
  PROVE  SumFunctionOnSet(f, T) <= SumFunctionOnSet(f, S)
<1> DEFINE Total(t) == SumFunctionOnSet(f, t)
           N == {k \in Nat : \A t \in SUBSET S :
                   T \subseteq t /\ Cardinality(t \ T) = k => Total(T) <= Total(t)}
<1>1. \A t \in SUBSET S : IsFiniteSet(t) /\ IsFiniteSet(t \ T) /\ Cardinality(t \ T) \in Nat
                          /\ Total(t) \in Nat
  <2> TAKE t \in SUBSET S
  <2>1. IsFiniteSet(t) BY FS_Subset
  <2>2. IsFiniteSet(t \ T) BY <2>1, FS_Subset
  <2>3. Total(t) \in Nat BY <2>1, SumNat
  <2> QED BY <2>1, <2>2, <2>3, FS_CardinalityType
<1>2. 0 \in N
  <2> SUFFICES ASSUME NEW t \in SUBSET S, T \subseteq t, Cardinality(t \ T) = 0
               PROVE  Total(T) <= Total(t)
    OBVIOUS
  <2>1. t \ T = {} BY <1>1, FS_EmptySet
  <2>2. t = T BY <2>1
  <2> HIDE DEF Total
  <2> QED BY <1>1, <2>2
<1>3. ASSUME NEW k \in Nat, k \in N PROVE k + 1 \in N
  <2> SUFFICES ASSUME NEW t \in SUBSET S, T \subseteq t, Cardinality(t \ T) = k + 1
               PROVE  Total(T) <= Total(t)
    OBVIOUS
  <2>1. t \ T # {} BY <1>1, FS_EmptySet
  <2>2. PICK y : y \in t \ T BY <2>1
  <2> DEFINE u == t \ {y}
  <2>3. u \in SUBSET S /\ T \subseteq u /\ u \ T = (t \ T) \ {y} BY <2>2
  <2>4. Cardinality((t \ T) \ {y}) = Cardinality(t \ T) - 1 BY <1>1, <2>2, FS_RemoveElement
  <2>5. Total(T) <= Total(u) BY <1>3, <2>3, <2>4
  <2>9. y \in t /\ \A x \in t : f[x] \in Nat BY <2>2
  <2>10. IsFiniteSet(t) BY <1>1
  <2>11. SumFunctionOnSet(f, t) = f[y] + SumFunctionOnSet(f, t \ {y})
    <3> HIDE DEF Total, u, N
    <3> QED BY <2>9, <2>10, SumRemove
  <2>6. Total(t) = f[y] + Total(u) BY <2>11
  <2>7. f[y] \in Nat BY <2>2
  <2>8. Total(u) \in Nat /\ Total(T) \in Nat /\ Total(t) \in Nat BY <1>1, <2>3
  <2> HIDE DEF Total, u
  <2> QED BY <2>5, <2>6, <2>7, <2>8
<1>4. Nat \subseteq N
  <2> HIDE DEF N
  <2> QED BY <1>2, <1>3, NatInduct
<1> QED BY <1>1, <1>4

\* A closed form for the sum of the first bins.
LEMMA SumClosed ==
  ASSUME NEW f, NEW n \in Nat, \A i \in 1 .. n : f[i] \in Nat,
         NEW F, F[0] = 0, \A k \in 0 .. n - 1 : F[k + 1] = F[k] + f[k + 1]
  PROVE  SumFunctionOnSet(f, 1 .. n) = F[n]
<1> DEFINE N == {k \in Nat : k <= n => SumFunctionOnSet(f, 1 .. k) = F[k]}
<1>1. 0 \in N BY SumNone
<1>2. ASSUME NEW k \in Nat, k \in N PROVE k + 1 \in N
  <2> SUFFICES ASSUME k + 1 <= n PROVE SumFunctionOnSet(f, 1 .. k + 1) = F[k + 1]
    OBVIOUS
  <2>1. SumFunctionOnSet(f, 1 .. k) = F[k] BY <1>2
  <2>2. F[k + 1] = F[k] + f[k + 1] OBVIOUS
  <2>3. \A i \in 1 .. k + 1 : f[i] \in Nat OBVIOUS
  <2> QED BY <2>1, <2>2, <2>3, SumNext
<1>3. Nat \subseteq N
  <2> HIDE DEF N
  <2> QED BY <1>1, <1>2, NatInduct
<1> QED BY <1>3

\* The first a bins and the next c of them.
LEMMA SumShift ==
  ASSUME NEW f, NEW a \in Nat, NEW c \in Nat, \A i \in 1 .. a + c : f[i] \in Nat,
         NEW g, \A i \in 1 .. c : g[i] = f[a + i]
  PROVE  SumFunctionOnSet(f, 1 .. a + c) = SumFunctionOnSet(f, 1 .. a) + SumFunctionOnSet(g, 1 .. c)
<1> DEFINE F(k) == SumFunctionOnSet(f, 1 .. a + k)
           G(k) == SumFunctionOnSet(g, 1 .. k)
           N == {k \in Nat : k <= c => F(k) = F(0) + G(k)}
<1>1. \A k \in 0 .. c : F(k) \in Nat /\ G(k) \in Nat
  <2> TAKE k \in 0 .. c
  <2>1. IsFiniteSet(1 .. a + k) /\ IsFiniteSet(1 .. k) BY FS_Interval
  <2>2. \A i \in 1 .. a + k : f[i] \in Nat OBVIOUS
  <2>3. \A i \in 1 .. k : g[i] \in Nat OBVIOUS
  <2> QED BY <2>1, <2>2, <2>3, SumNat
<1>2. 0 \in N
  <2>1. G(0) = 0 BY SumNone
  <2> HIDE DEF F, G
  <2> QED BY <2>1, <1>1
<1>3. ASSUME NEW k \in Nat, k \in N PROVE k + 1 \in N
  <2> SUFFICES ASSUME k + 1 <= c PROVE F(k + 1) = F(0) + G(k + 1)
    OBVIOUS
  <2>1. F(k) = F(0) + G(k) BY <1>3
  <2>2. F(k + 1) = F(k) + f[a + k + 1]
    <3>1. a + k \in Nat /\ \A i \in 1 .. (a + k) + 1 : f[i] \in Nat OBVIOUS
    <3>2. a + (k + 1) = (a + k) + 1 OBVIOUS
    <3> QED BY <3>1, <3>2, SumNext
  <2>3. G(k + 1) = G(k) + g[k + 1]
    <3>1. \A i \in 1 .. k + 1 : g[i] \in Nat OBVIOUS
    <3> QED BY <3>1, SumNext
  <2>4. g[k + 1] = f[a + k + 1] /\ g[k + 1] \in Nat OBVIOUS
  <2>5. F(k) \in Nat /\ G(k) \in Nat /\ F(0) \in Nat BY <1>1
  <2> HIDE DEF F, G
  <2> QED BY <2>1, <2>2, <2>3, <2>4, <2>5
<1>4. Nat \subseteq N
  <2> HIDE DEF N
  <2> QED BY <1>2, <1>3, NatInduct
<1>5. c \in N BY <1>4
<1>6. a + 0 = a OBVIOUS
<1> QED BY <1>5, <1>6

=============================================================================

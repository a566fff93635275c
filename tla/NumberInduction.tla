--------------------------- MODULE NumberInduction ---------------------------
(***************************************************************************)
(* Induction over numbers, stated with sets.  The library's induction      *)
(* theorems take an operator as a parameter, which no backend can          *)
(* instantiate; WFMin, on the minimal element of a set under a             *)
(* well-founded relation, takes a set, and induction follows: the numbers  *)
(* without the property have no least element.  Of the concatenation of a  *)
(* list of sequences it shows that it can be built one by one.             *)
(***************************************************************************)
EXTENDS Integers, SequencesExt, WellFoundedInduction, SequenceTheorems, TLAPS

\* The relation < of the natural numbers as a set of pairs.
Smaller == OpToRel(<, Nat)

\* What a pair of the relation says.
LEMMA SmallerIs == \A x, y \in Nat : <<x, y>> \in Smaller <=> x < y
BY DEF Smaller, OpToRel

\* A set of natural numbers that is not empty has a least element.
LEMMA LeastElement ==
  ASSUME NEW T \in SUBSET Nat, T # {} PROVE \E x \in T : \A y \in T : x <= y
<1>1. IsWellFoundedOn(Smaller, Nat)
  BY NatLessThanWellFounded DEF Smaller
<1> HIDE DEF Smaller
<1>2. \E x \in T : \A y \in T : ~ (<<y, x>> \in Smaller)
  BY <1>1, WFMin
<1>3. \A x, y \in T : ~(<<y, x>> \in Smaller) => x <= y
  <2> SUFFICES ASSUME NEW x \in T, NEW y \in T, ~(<<y, x>> \in Smaller) PROVE x <= y
    OBVIOUS
  <2>1. x \in Nat /\ y \in Nat
    OBVIOUS
  <2>2. ~(y < x)
    BY <2>1, SmallerIs
  <2> QED
    BY <2>1, <2>2
<1> QED
  BY <1>2, <1>3

\* A set with 0 and the successor of each of its numbers has every number.
LEMMA SetInduction ==
  ASSUME NEW T, 0 \in T, \A n \in Nat : n \in T => n + 1 \in T
  PROVE  Nat \subseteq T
<1> SUFFICES ASSUME NEW z \in Nat, z \notin T PROVE FALSE
  OBVIOUS
<1> DEFINE R == Nat \ T
<1>1. PICK x \in R : \A y \in R : x <= y
  BY LeastElement
<1>2. x # 0 /\ x - 1 \in Nat /\ x - 1 \in T
  BY <1>1
<1> QED
  BY <1>1, <1>2

\* A set with 0 and, below n, the successor of each of its numbers has the
\* numbers up to n.
LEMMA UpTo ==
  ASSUME NEW n \in Nat, NEW T, 0 \in T, \A k \in 0 .. n - 1 : k \in T => k + 1 \in T
  PROVE  0 .. n \subseteq T
<1> DEFINE R == {k \in Nat : k <= n => k \in T}
<1>1. 0 \in R
  OBVIOUS
<1>2. \A k \in Nat : k \in R => k + 1 \in R
  OBVIOUS
<1> HIDE DEF R
<1>3. Nat \subseteq R
  BY <1>1, <1>2, SetInduction
<1> QED
  BY <1>3 DEF R

\* A set that has each number up to n after which it has all has the numbers up
\* to n.
LEMMA Downwards ==
  ASSUME NEW n \in Nat, NEW T,
         \A k \in 1 .. n : (\A j \in 1 .. n : j > k => j \in T) => k \in T
  PROVE  1 .. n \subseteq T
<1> DEFINE R == {m \in 0 .. n : \A j \in 1 .. n : j > n - m => j \in T}
<1>1. 0 \in R
  OBVIOUS
<1>2. ASSUME NEW m \in 0 .. n - 1, m \in R PROVE m + 1 \in R
  <2>1. n - m \in 1 .. n /\ n - m \in T
    BY <1>2
  <2> QED
    BY <1>2, <2>1
<1> HIDE DEF R
<1>3. 0 .. n \subseteq R
  BY <1>1, <1>2, UpTo
<1>4. n \in R
  BY <1>3
<1> QED
  BY <1>4 DEF R

-----------------------------------------------------------------------------
\* The concatenations of the first sequences of g.
Concats(n, S, g, f) ==
  f \in [0 .. n -> Seq(S)] /\ f[0] = <<>> /\ \A i \in 0 .. n - 1 : f[i + 1] = f[i] \o g[i + 1]

\* There are such concatenations.
LEMMA PrefixesExist ==
  ASSUME NEW n \in Nat, NEW S, NEW g \in [1 .. n -> Seq(S)] PROVE \E f : Concats(n, S, g, f)
<1> DEFINE F == [0 .. n -> Seq(S)]
           Right(f, i) == f[i + 1] = f[i] \o g[i + 1]
           T == {m \in 0 .. n : \E f \in F : f[0] = <<>> /\ \A i \in 0 .. m - 1 : Right(f, i)}
<1>1. 0 \in T
  <2>1. [i \in 0 .. n |-> <<>>] \in F
    OBVIOUS
  <2>2. \A i \in 0 .. 0 - 1 : FALSE
    OBVIOUS
  <2> HIDE DEF F, Right
  <2>3. \E f \in F : f[0] = <<>> /\ \A i \in 0 .. 0 - 1 : Right(f, i)
    <3>1. [i \in 0 .. n |-> <<>>][0] = <<>>
      OBVIOUS
    <3> QED
      BY <2>1, <2>2, <3>1
  <2> QED
    BY <2>3
<1>2. ASSUME NEW m \in 0 .. n - 1, m \in T PROVE m + 1 \in T
  <2>1. PICK f \in F : f[0] = <<>> /\ \A i \in 0 .. m - 1 : Right(f, i)
    BY <1>2
  <2> DEFINE x == f[m] \o g[m + 1]
             h == [f EXCEPT ![m + 1] = x]
  <2>2. m \in 0 .. n /\ m + 1 \in 1 .. n
    OBVIOUS
  <2>3. x \in Seq(S)
    <3>1. f[m] \in Seq(S) /\ g[m + 1] \in Seq(S)
      BY <2>2
    <3> QED
      BY <3>1, ConcatProperties
  <2> HIDE DEF x
  <2>4. h \in F /\ h[m + 1] = x /\ \A i \in 0 .. n : i # m + 1 => h[i] = f[i]
    BY <2>2, <2>3
  <2> HIDE DEF h
  <2>5. Right(h, m)
    <3>1. h[m] = f[m]
      BY <2>2, <2>4
    <3> QED
      BY <2>4, <3>1 DEF x
  <2>6. ASSUME NEW i \in 0 .. m - 1 PROVE Right(h, i)
    <3>1. h[i] = f[i] /\ h[i + 1] = f[i + 1]
      BY <2>2, <2>4
    <3> QED
      BY <2>1, <3>1
  <2>7. h[0] = <<>>
    BY <2>1, <2>4
  <2>8. \A i \in 0 .. (m + 1) - 1 : i = m \/ i \in 0 .. m - 1
    OBVIOUS
  <2> HIDE DEF F, Right
  <2>9. \A i \in 0 .. (m + 1) - 1 : Right(h, i)
    BY <2>5, <2>6, <2>8
  <2> QED
    BY <2>2, <2>4, <2>7, <2>9
<1> HIDE DEF T
<1>3. 0 .. n \subseteq T
  BY <1>1, <1>2, UpTo
<1>4. n \in T
  BY <1>3
<1> QED
  BY <1>4 DEF T, Concats

\* FlattenSeq is the last of the concatenations.
LEMMA FlattenIs ==
  ASSUME NEW n \in Nat, NEW S, NEW g \in [1 .. n -> Seq(S)], Len(g) = n,
         NEW f, Concats(n, S, g, f)
  PROVE  FlattenSeq(g) = f[n]
<1>1. CASE n = 0
  <2>1. g = <<>>
    BY <1>1
  <2> QED
    BY <1>1, <2>1 DEF FlattenSeq, Concats
<1>2. CASE n # 0
  <2> DEFINE Body(h) == [i \in 1 .. Len(g) |-> IF i = 1 THEN g[i] ELSE h[i - 1] \o g[i]]
             m == CHOOSE h : h = Body(h)
             u == [i \in 1 .. n |-> f[i]]
  <2>a. \A i \in 0 .. n - 1 : f[i + 1] = f[i] \o g[i + 1]
    BY DEF Concats
  <2>b. f[1] = <<>> \o g[1] /\ g[1] \in Seq(S)
    <3>1. 0 \in 0 .. n - 1 /\ 1 \in 1 .. n /\ 0 + 1 = 1
      BY <1>2
    <3>2. f[0 + 1] = f[0] \o g[0 + 1]
      BY <2>a, <3>1
    <3> QED
      BY <3>1, <3>2 DEF Concats
  <2>1. FlattenSeq(g) = m[n]
    BY <1>2 DEF FlattenSeq
  <2>2. u = Body(u)
    <3>1. f[1] = g[1]
      BY <2>b, ConcatEmptySeq
    <3>2. ASSUME NEW i \in 1 .. n, i # 1 PROVE f[i] = u[i - 1] \o g[i]
      <4>1. i - 1 \in 0 .. n - 1 /\ i - 1 \in 1 .. n /\ (i - 1) + 1 = i
        BY <3>2
      <4>2. f[(i - 1) + 1] = f[i - 1] \o g[(i - 1) + 1]
        BY <2>a, <4>1
      <4>3. u[i - 1] = f[i - 1]
        BY <4>1
      <4> HIDE DEF u
      <4> QED
        BY <4>1, <4>2, <4>3
    <3> QED
      BY <3>1, <3>2
  <2>3. m = Body(m)
    BY <2>2
  <2> HIDE DEF m
  <2> DEFINE T == {i \in 0 .. n : i = 0 \/ m[i] = f[i]}
  <2>4. 0 \in T
    OBVIOUS
  <2>5. ASSUME NEW i \in 0 .. n - 1, i \in T PROVE i + 1 \in T
    <3>1. CASE i = 0
      <4>1. m[1] = g[1]
        BY <1>2, <2>3
      <4>2. m[1] = f[1]
        BY <4>1, <2>b, ConcatEmptySeq
      <4> QED
        BY <3>1, <4>2, <1>2
    <3>2. CASE i # 0
      <4>1. i + 1 \in 1 .. n /\ i + 1 # 1 /\ i + 1 - 1 = i
        BY <3>2
      <4>2. m[i + 1] = m[i] \o g[i + 1]
        <5>1. \A k \in 1 .. n : k # 1 => m[k] = m[k - 1] \o g[k]
          BY <2>3
        <5>2. PICK k \in 1 .. n : k = i + 1
          BY <4>1
        <5>3. m[k] = m[k - 1] \o g[k]
          BY <4>1, <5>1, <5>2
        <5>4. k - 1 = i
          BY <5>2
        <5> QED
          BY <5>2, <5>3, <5>4
      <4>3. f[i + 1] = f[i] \o g[i + 1]
        BY <2>a, <4>1
      <4>4. m[i] = f[i]
        BY <2>5, <3>2
      <4>5. m[i + 1] = f[i + 1]
        BY <4>1, <4>2, <4>3, <4>4
      <4> QED
        BY <4>1, <4>5
    <3> QED
      BY <3>1, <3>2
  <2> HIDE DEF T
  <2>6. 0 .. n \subseteq T
    BY <2>4, <2>5, UpTo
  <2>7. n \in T
    BY <2>6
  <2> QED
    BY <1>2, <2>1, <2>7 DEF T
<1> QED
  BY <1>1, <1>2
=============================================================================

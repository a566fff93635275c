---------------------------- MODULE VersionsProofs ----------------------------
(***************************************************************************)
(* Proofs about Versions, for any tags of a remote and any pattern: what   *)
(* version_tag returns, that version_less is the strict weak order which   *)
(* std::sort requires, and what version_less and version_match say of the  *)
(* numbers that versions stand for.                                        *)
(***************************************************************************)
EXTENDS Versions, NumberInduction, FiniteSetTheorems, SequenceTheorems

-----------------------------------------------------------------------------
\* std::lexicographical_compare is a strict total order of sequences of numbers.

\* The sequences differ at i first, and s is less there or ends before.
LexAt(s, t, i) ==
  /\ i \in 1 .. Len(t)
  /\ \A j \in 1 .. i - 1 : j \in 1 .. Len(s) /\ s[j] = t[j]
  /\ i \in 1 .. Len(s) => s[i] < t[i]

\* Lex is about such a place.
LEMMA LexIs ==
  ASSUME NEW s \in Seq(Nat), NEW t \in Seq(Nat) PROVE Lex(s, t) <=> \E i \in Nat : LexAt(s, t, i)
<1>1. DOMAIN s = 1 .. Len(s) /\ DOMAIN t = 1 .. Len(t) /\ Len(t) \in Nat
  OBVIOUS
<1>2. ASSUME NEW i \in Nat PROVE LexAt(s, t, i) <=>
        /\ i \in DOMAIN t
        /\ \A j \in 1 .. i - 1 : j \in DOMAIN s /\ s[j] = t[j]
        /\ i \in DOMAIN s => s[i] < t[i]
  BY <1>1 DEF LexAt
<1>3. \A i \in DOMAIN t : i \in Nat
  BY <1>1
<1> QED
  BY <1>2, <1>3 DEF Lex

\* The numbers of a sequence.
LEMMA Elements ==
  ASSUME NEW s \in Seq(Nat) PROVE Len(s) \in Nat /\ \A i \in 1 .. Len(s) : s[i] \in Nat
OBVIOUS

\* A sequence is not less than itself.
LEMMA LexIrreflexive == ASSUME NEW s \in Seq(Nat) PROVE ~ Lex(s, s)
BY DEF Lex

\* Lex goes on along a chain.
LEMMA LexTransitive ==
  ASSUME NEW s \in Seq(Nat), NEW t \in Seq(Nat), NEW u \in Seq(Nat), Lex(s, t), Lex(t, u)
  PROVE  Lex(s, u)
<1>1. PICK i \in Nat : LexAt(s, t, i)
  BY LexIs
<1>2. PICK k \in Nat : LexAt(t, u, k)
  BY LexIs
<1>3. SUFFICES \E n \in Nat : LexAt(s, u, n)
  BY LexIs
<1>4. /\ Len(s) \in Nat /\ Len(t) \in Nat /\ Len(u) \in Nat
      /\ \A n \in 1 .. Len(s) : s[n] \in Nat
      /\ \A n \in 1 .. Len(t) : t[n] \in Nat
      /\ \A n \in 1 .. Len(u) : u[n] \in Nat
  BY Elements
<1>5. CASE i < k
  <2>1. LexAt(s, u, i)
    BY <1>1, <1>2, <1>4, <1>5 DEF LexAt
  <2> QED
    BY <2>1
<1>6. CASE i = k
  <2>1. i \in 1 .. Len(s) => i \in 1 .. Len(t) /\ s[i] < t[i] /\ t[i] < u[i]
    BY <1>1, <1>2, <1>6 DEF LexAt
  <2>2. ASSUME i \in 1 .. Len(s) PROVE s[i] < u[i]
    <3>1. s[i] < t[i] /\ t[i] < u[i]
      BY <2>1, <2>2
    <3>2. i \in 1 .. Len(t) /\ i \in 1 .. Len(u)
      BY <1>1, <1>2, <1>6 DEF LexAt
    <3>3. s[i] \in Nat /\ t[i] \in Nat /\ u[i] \in Nat
      BY <1>4, <2>2, <3>2
    <3> QED
      BY <3>1, <3>3
  <2>3. \A j \in 1 .. i - 1 : j \in 1 .. Len(s) /\ s[j] = u[j]
    BY <1>1, <1>2, <1>6 DEF LexAt
  <2>4. LexAt(s, u, i)
    BY <2>2, <2>3, <1>2, <1>6 DEF LexAt
  <2> QED
    BY <2>4
<1>7. CASE i > k
  <2>1. k \in 1 .. Len(s) /\ s[k] = t[k] /\ k \in 1 .. Len(t)
    BY <1>1, <1>2, <1>4, <1>7 DEF LexAt
  <2>2. ASSUME NEW j \in 1 .. k - 1 PROVE j \in 1 .. Len(s) /\ s[j] = u[j]
    <3>1. j \in 1 .. i - 1
      BY <1>7
    <3>2. s[j] = t[j] /\ t[j] = u[j] /\ j \in 1 .. Len(s)
      BY <3>1, <1>1, <1>2 DEF LexAt
    <3> QED
      BY <3>2
  <2>3. LexAt(s, u, k)
    BY <2>1, <2>2, <1>2 DEF LexAt
  <2> QED
    BY <2>3
<1> QED
  BY <1>5, <1>6, <1>7

\* Of two different sequences one is less.
LEMMA LexTotal ==
  ASSUME NEW s \in Seq(Nat), NEW t \in Seq(Nat), s # t PROVE Lex(s, t) \/ Lex(t, s)
<1>0. Len(s) \in Nat /\ Len(t) \in Nat /\ DOMAIN s = 1 .. Len(s) /\ DOMAIN t = 1 .. Len(t)
      /\ (\A i \in 1 .. Len(s) : s[i] \in Nat) /\ \A i \in 1 .. Len(t) : t[i] \in Nat
  OBVIOUS
<1> DEFINE D == {i \in Nat : \/ i \in 1 .. Len(s) /\ i \notin 1 .. Len(t)
                             \/ i \in 1 .. Len(t) /\ i \notin 1 .. Len(s)
                             \/ i \in 1 .. Len(s) /\ i \in 1 .. Len(t) /\ s[i] # t[i]}
<1>1. D # {}
  <2>1. CASE Len(s) = Len(t)
    <3>1. PICK i \in 1 .. Len(s) : s[i] # t[i]
      BY <2>1, SeqEqual
    <3>2. i \in 1 .. Len(t) /\ i \in Nat
      BY <2>1, <1>0
    <3>3. i \in D
      BY <3>1, <3>2
    <3> QED
      BY <3>3
  <2>2. CASE Len(s) < Len(t)
    <3>1. Len(t) \in D
      BY <2>2, <1>0
    <3> QED
      BY <3>1
  <2>3. CASE Len(t) < Len(s)
    <3>1. Len(s) \in D
      BY <2>3, <1>0
    <3> QED
      BY <3>1
  <2>4. Len(s) \in Nat /\ Len(t) \in Nat
    BY <1>0
  <2> HIDE DEF D
  <2> QED
    BY <2>1, <2>2, <2>3, <2>4
<1>2. PICK i \in D : \A j \in D : i <= j
  BY <1>1, LeastElement
<1>3. \A j \in 1 .. i - 1 : j \in 1 .. Len(s) /\ j \in 1 .. Len(t) /\ s[j] = t[j]
  BY <1>0, <1>2
<1>4. SUFFICES LexAt(s, t, i) \/ LexAt(t, s, i)
  BY <1>2, LexIs
<1>5. CASE i \in 1 .. Len(s) /\ i \notin 1 .. Len(t)
  BY <1>3, <1>5 DEF LexAt
<1>6. CASE i \in 1 .. Len(t) /\ i \notin 1 .. Len(s)
  BY <1>3, <1>6 DEF LexAt
<1>7. CASE i \in 1 .. Len(s) /\ i \in 1 .. Len(t) /\ s[i] # t[i]
  <2>1. s[i] < t[i] \/ t[i] < s[i]
    BY <1>0, <1>7
  <2> QED
    BY <1>3, <1>7, <2>1 DEF LexAt
<1> QED
  BY <1>2, <1>5, <1>6, <1>7

-----------------------------------------------------------------------------
\* version_parse gives sequences of numbers.

\* The greatest number of a set of numbers up to n.
LEMMA GreatestElement ==
  ASSUME NEW n \in Nat, NEW T \in SUBSET (0 .. n), T # {}
  PROVE  Max(T) \in T /\ \A j \in T : j <= Max(T)
<1> DEFINE D == {n - j : j \in T}
<1>1. D \in SUBSET Nat /\ D # {}
  <2>1. \A j \in T : j \in 0 .. n
    OBVIOUS
  <2>2. \A j \in 0 .. n : n - j \in Nat
    OBVIOUS
  <2> QED
    BY <2>1, <2>2
<1>2. PICK d \in D : \A e \in D : d <= e
  BY <1>1, LeastElement
<1>3. PICK x \in T : d = n - x
  BY <1>2
<1>4. \A y \in T : x >= y
  <2>1. ASSUME NEW y \in T PROVE x >= y
    <3>1. n - x <= n - y
      BY <1>2, <1>3
    <3>2. x \in Nat /\ y \in Nat
      OBVIOUS
    <3> QED
      BY <3>1, <3>2
  <2> QED
    BY <2>1
<1>5. \E z \in T : \A y \in T : z >= y
  BY <1>4
<1>6. Max(T) \in T /\ \A y \in T : Max(T) >= y
  BY <1>5 DEF Max
<1>7. \A y \in T : y \in Nat
  OBVIOUS
<1> QED
  BY <1>6, <1>7

\* The least number of a set of numbers.
LEMMA LeastNumber ==
  ASSUME NEW T \in SUBSET Nat, T # {} PROVE Min(T) \in T /\ \A j \in T : Min(T) <= j
<1>1. \E x \in T : \A y \in T : x =< y
  BY LeastElement
<1> QED
  BY <1>1 DEF Min

\* The parts of a version without the zeros at the end.
Stripped(s, r) ==
  /\ r \in Seq(Nat) /\ Len(r) <= Len(s)
  /\ \A i \in 1 .. Len(r) : r[i] = s[i]
  /\ \A i \in Len(r) + 1 .. Len(s) : s[i] = 0
  /\ Len(r) > 0 => r[Len(r)] # 0

\* vector_remove_trailing_zeros removes them.
LEMMA ZerosRemoved ==
  ASSUME NEW s \in Seq(Nat) PROVE Stripped(s, vector_remove_trailing_zeros(s))
<1> DEFINE T == {0} \cup {i \in DOMAIN s : s[i] # 0}
           m == Max(T)
           r == SubSeq(s, 1, m)
<1>0. Len(s) \in Nat /\ DOMAIN s = 1 .. Len(s) /\ \A i \in 1 .. Len(s) : s[i] \in Nat
  OBVIOUS
<1>1. T \in SUBSET (0 .. Len(s)) /\ T # {}
  BY <1>0
<1>2. m \in T /\ \A j \in T : j <= m
  BY <1>0, <1>1, GreatestElement
<1>3. m \in 0 .. Len(s) /\ (m = 0 \/ s[m] # 0)
  BY <1>1, <1>2
<1>4. \A i \in m + 1 .. Len(s) : s[i] = 0
  <2>1. ASSUME NEW i \in m + 1 .. Len(s), s[i] # 0 PROVE FALSE
    <3>1. i \in T
      BY <2>1, <1>0, <1>3
    <3>2. i <= m
      BY <3>1, <1>2
    <3> QED
      BY <3>2, <1>3
  <2> QED
    BY <2>1
<1> HIDE DEF m
<1>5. r \in Seq(Nat) /\ Len(r) = m /\ \A i \in 1 .. m : r[i] = s[i]
  <2>1. \A i \in 1 .. m : s[i] \in Nat
    BY <1>0, <1>3
  <2>2. /\ r \in Seq(Nat) /\ Len(r) = (IF 1 <= m THEN m - 1 + 1 ELSE 0)
        /\ \A i \in 1 .. m - 1 + 1 : r[i] = s[1 + i - 1]
    BY <2>1, <1>3, SubSeqProperties
  <2> HIDE DEF r
  <2>3. \A i \in 1 .. m : i \in 1 .. m - 1 + 1 /\ 1 + i - 1 = i
    BY <1>3
  <2> QED
    BY <2>2, <2>3, <1>3
<1> HIDE DEF r
<1>6. Stripped(s, r)
  BY <1>0, <1>3, <1>4, <1>5 DEF Stripped
<1> QED
  BY <1>6 DEF vector_remove_trailing_zeros, r, m

\* The characters of a version or a tag.
Char == {Star} \cup Marks \cup Nat

\* The numbers of a text, from its first n characters.
LEMMA NumbersTyped ==
  ASSUME NEW chars \in Seq(Char) PROVE Numbers(chars) \in Seq(Nat)
<1> DEFINE n == Len(chars)
           Part(f, i) == IF i = 0 THEN <<>>
                         ELSE CASE chars[i] \in Marks -> f[i - 1]
                                [] chars[i] = Star    -> Append(f[i - 1], MaxInt)
                                [] OTHER              -> Append(f[i - 1], chars[i])
           Body(f) == [i \in 0 .. Len(chars) |-> Part(f, i)]
           F == [0 .. n -> Seq(Nat)]
           parts == CHOOSE f : f = Body(f)
<1>0. n \in Nat /\ (\A i \in 1 .. n : chars[i] \in Char) /\ MaxInt \in Nat
  BY VersionsAssumption
<1>1. Numbers(chars) = parts[n]
  BY DEF Numbers
<1>2. ASSUME NEW f, NEW i \in 1 .. n, f[i - 1] \in Seq(Nat) PROVE Part(f, i) \in Seq(Nat)
  <2>1. chars[i] \in Marks \/ chars[i] = Star \/ (chars[i] \notin Marks /\ chars[i] # Star /\ chars[i] \in Nat)
    BY <1>0 DEF Char
  <2>2. chars[i] = Star => chars[i] \notin Marks
    BY VersionsAssumption DEF Marks
  <2>3. \A x \in Nat : Append(f[i - 1], x) \in Seq(Nat)
    BY <1>2, AppendProperties
  <2> QED
    BY <2>1, <2>2, <2>3, <1>0, <1>2
<1>3. ASSUME NEW f, NEW h, NEW i \in 0 .. n, i # 0 => f[i - 1] = h[i - 1] PROVE Part(f, i) = Part(h, i)
  BY <1>3
<1>4. \A f : Part(f, 0) = <<>>
  OBVIOUS
<1> HIDE DEF Part, n
<1> DEFINE T == {m \in 0 .. n : \E f \in F : \A i \in 0 .. m : f[i] = Part(f, i)}
<1>5. 0 \in T
  <2>1. [i \in 0 .. n |-> <<>>] \in F
    OBVIOUS
  <2>2. PICK f \in F : f[0] = <<>>
    <3>1. [i \in 0 .. n |-> <<>>][0] = <<>>
      BY <1>0
    <3> HIDE DEF F
    <3> QED
      BY <2>1, <3>1
  <2>3. \A i \in 0 .. 0 : f[i] = Part(f, i)
    BY <2>2, <1>4
  <2>4. 0 \in 0 .. n
    BY <1>0
  <2> HIDE DEF F
  <2> QED
    BY <2>2, <2>3, <2>4
<1>6. ASSUME NEW m \in 0 .. n - 1, m \in T PROVE m + 1 \in T
  <2>1. PICK f \in F : \A i \in 0 .. m : f[i] = Part(f, i)
    BY <1>6
  <2> DEFINE x == Part(f, m + 1)
             h == [f EXCEPT ![m + 1] = x]
  <2>2. m \in 0 .. n /\ m + 1 \in 1 .. n /\ m + 1 \in 0 .. n /\ (m + 1) - 1 = m
    BY <1>0
  <2>3. x \in Seq(Nat)
    BY <2>2, <1>2
  <2> HIDE DEF x
  <2>4. h \in F /\ h[m + 1] = x /\ \A i \in 0 .. n : i # m + 1 => h[i] = f[i]
    BY <2>2, <2>3
  <2> HIDE DEF h
  <2>5. ASSUME NEW i \in 0 .. m + 1 PROVE h[i] = Part(h, i)
    <3>1. i \in 0 .. n /\ (i # 0 => i - 1 \in 0 .. n /\ i - 1 # m + 1)
      BY <2>2, <1>0
    <3>2. Part(h, i) = Part(f, i)
      BY <3>1, <2>4, <1>3
    <3>3. CASE i = m + 1
      BY <3>2, <3>3, <2>4 DEF x
    <3>4. CASE i # m + 1
      BY <3>1, <3>2, <3>4, <2>1, <2>4
    <3> QED
      BY <3>3, <3>4
  <2> HIDE DEF F
  <2> QED
    BY <2>2, <2>4, <2>5
<1> HIDE DEF T
<1>7. 0 .. n \subseteq T
  BY <1>0, <1>5, <1>6, UpTo
<1>8. PICK f \in F : \A i \in 0 .. n : f[i] = Part(f, i)
  BY <1>0, <1>7 DEF T
<1>9. f = Body(f)
  BY <1>8 DEF n
<1>10. parts = Body(parts)
  BY <1>9
<1> HIDE DEF parts
<1>11. \A i \in 0 .. n : parts[i] = Part(parts, i)
  BY <1>10 DEF n
<1> DEFINE R == {i \in 0 .. n : parts[i] \in Seq(Nat)}
<1>12. 0 \in R
  <2>1. 0 \in 0 .. n /\ <<>> \in Seq(Nat)
    BY <1>0
  <2>2. parts[0] = <<>>
    BY <2>1, <1>4, <1>11
  <2> QED
    BY <2>1, <2>2
<1>13. ASSUME NEW i \in 0 .. n - 1, i \in R PROVE i + 1 \in R
  <2>1. i + 1 \in 1 .. n /\ i + 1 \in 0 .. n /\ (i + 1) - 1 = i
    BY <1>0
  <2>2. Part(parts, i + 1) \in Seq(Nat)
    BY <2>1, <1>2, <1>13
  <2> QED
    BY <2>1, <2>2, <1>11
<1> HIDE DEF R
<1>14. 0 .. n \subseteq R
  BY <1>0, <1>12, <1>13, UpTo
<1> QED
  BY <1>0, <1>1, <1>14 DEF R

\* What version_parse returns.
Parsed == [normal : Seq(Nat), has_rc : BOOLEAN, rc : Seq(Nat), build : Seq(Nat), size : Nat]

\* Where the normal part of a version, or its pre-release, ends.
LEMMA FirstIs ==
  ASSUME NEW str \in Seq(Char), NEW marks
  PROVE  /\ First(str, marks) \in 1 .. Len(str) + 1
         /\ \A i \in 1 .. First(str, marks) - 1 : str[i] \notin marks
         /\ (\A i \in 1 .. Len(str) : str[i] \notin marks) => First(str, marks) = Len(str) + 1
<1> DEFINE T == {i \in DOMAIN str : str[i] \in marks} \cup {Len(str) + 1}
<1>1. Len(str) \in Nat /\ DOMAIN str = 1 .. Len(str)
  OBVIOUS
<1>2. T \in SUBSET Nat /\ T # {}
  BY <1>1
<1>3. Min(T) \in T /\ \A j \in T : Min(T) <= j
  BY <1>2, LeastNumber
<1>4. First(str, marks) = Min(T)
  BY DEF First
<1>5. Min(T) \in 1 .. Len(str) + 1
  BY <1>1, <1>3
<1>6. ASSUME NEW i \in 1 .. Min(T) - 1, str[i] \in marks PROVE FALSE
  <2>1. i \in T
    BY <1>1, <1>5, <1>6
  <2>2. Min(T) <= i
    BY <1>3, <2>1
  <2> QED
    BY <1>5, <2>2
<1>7. (\A i \in 1 .. Len(str) : str[i] \notin marks) => Min(T) = Len(str) + 1
  BY <1>1, <1>3
<1> QED
  BY <1>4, <1>5, <1>6, <1>7

\* A part of a text has the numbers of that part.
LEMMA PartsTyped ==
  ASSUME NEW str \in Seq(Char), NEW a \in Int, NEW b \in Int, a >= 1, b <= Len(str)
  PROVE  SubSeq(str, a, b) \in Seq(Char) /\ Parts(SubSeq(str, a, b)) \in Seq(Nat)
<1>1. \A i \in a .. b : str[i] \in Char
  OBVIOUS
<1>2. SubSeq(str, a, b) \in Seq(Char)
  BY <1>1, SubSeqProperties
<1>3. Numbers(SubSeq(str, a, b)) \in Seq(Nat)
  BY <1>2, NumbersTyped
<1>4. Parts(SubSeq(str, a, b)) \in Seq(Nat)
  BY <1>3, ZerosRemoved DEF Parts, Stripped
<1> QED
  BY <1>2, <1>4

\* version_parse gives three sequences of numbers.
LEMMA ParseTyped == ASSUME NEW str \in Seq(Char) PROVE version_parse(str) \in Parsed
<1> DEFINE n == First(str, {Dash, Plus})
           b == First(str, {Plus})
<1>1. Len(str) \in Nat /\ n \in 1 .. Len(str) + 1 /\ b \in 1 .. Len(str) + 1
  BY FirstIs
<1>2. version_parse(str) =
        [normal |-> Parts(SubSeq(str, 1, n - 1)), has_rc |-> n < b,
         rc |-> Parts(SubSeq(str, n + 1, b - 1)), build |-> Parts(SubSeq(str, b + 1, Len(str))),
         size |-> Len(str)]
  BY DEF version_parse
<1> HIDE DEF n, b
<1>3. Parts(SubSeq(str, 1, n - 1)) \in Seq(Nat)
  BY <1>1, PartsTyped
<1>4. Parts(SubSeq(str, n + 1, b - 1)) \in Seq(Nat)
  BY <1>1, PartsTyped
<1>5. Parts(SubSeq(str, b + 1, Len(str))) \in Seq(Nat)
  BY <1>1, PartsTyped
<1> QED
  BY <1>1, <1>2, <1>3, <1>4, <1>5 DEF Parsed

-----------------------------------------------------------------------------
\* Less is a strict weak order of parsed versions.

\* The versions have the same precedence.
Equal(x, y) ==
  x.normal = y.normal /\ x.has_rc = y.has_rc /\ x.rc = y.rc /\ x.build = y.build /\ x.size = y.size

\* The components of a parsed version.
LEMMA ParsedHas ==
  ASSUME NEW x \in Parsed
  PROVE  x.normal \in Seq(Nat) /\ x.has_rc \in BOOLEAN /\ x.rc \in Seq(Nat) /\ x.build \in Seq(Nat) /\ x.size \in Nat
BY DEF Parsed

\* No version is less than itself.
LEMMA LessIrreflexive == ASSUME NEW x \in Parsed PROVE ~ Less(x, x)
BY ParsedHas, LexIrreflexive DEF Less

\* Less goes on along a chain.
LEMMA LessTransitive ==
  ASSUME NEW x \in Parsed, NEW y \in Parsed, NEW z \in Parsed, Less(x, y), Less(y, z)
  PROVE  Less(x, z)
<1>1. /\ Lex(x.normal, y.normal) /\ Lex(y.normal, z.normal) => Lex(x.normal, z.normal)
      /\ Lex(x.rc, y.rc) /\ Lex(y.rc, z.rc) => Lex(x.rc, z.rc)
      /\ Lex(x.build, y.build) /\ Lex(y.build, z.build) => Lex(x.build, z.build)
  BY ParsedHas, LexTransitive
<1>2. x.size < y.size /\ y.size < z.size => x.size < z.size
  BY ParsedHas
<1> QED
  BY <1>1, <1>2 DEF Less

\* Of two versions one is less, or they have the same precedence.
LEMMA LessTotal ==
  ASSUME NEW x \in Parsed, NEW y \in Parsed PROVE Equal(x, y) <=> ~ Less(x, y) /\ ~ Less(y, x)
<1>1. /\ x.normal # y.normal => Lex(x.normal, y.normal) \/ Lex(y.normal, x.normal)
      /\ x.rc # y.rc => Lex(x.rc, y.rc) \/ Lex(y.rc, x.rc)
      /\ x.build # y.build => Lex(x.build, y.build) \/ Lex(y.build, x.build)
  BY ParsedHas, LexTotal
<1>2. ~ Lex(x.normal, x.normal) /\ ~ Lex(x.rc, x.rc) /\ ~ Lex(x.build, x.build)
  BY ParsedHas, LexIrreflexive
<1>3. (x.size = y.size <=> ~(x.size < y.size) /\ ~(y.size < x.size)) /\ x.has_rc \in BOOLEAN /\ y.has_rc \in BOOLEAN
  BY ParsedHas
<1> QED
  BY <1>1, <1>2, <1>3 DEF Less, Equal

-----------------------------------------------------------------------------
\* The pattern and the tags of a call.
Inputs == ver \in Versions /\ tags \in TagLists

\* They never change.
LEMMA InputsStay == Spec => []Inputs
<1>1. Init => Inputs
  BY DEF Init, Inputs
<1>2. Inputs /\ [Next]_vars => Inputs'
  BY DEF Inputs, Next, Sort, Throw, Found, TryNext, NotFound, vars
<1> QED
  BY <1>1, <1>2, PTL DEF Spec

\* Their characters.
LEMMA InputsTyped ==
  ASSUME Inputs
  PROVE  /\ tags \in Seq(Seq(Char)) /\ \A tag \in TagSet : tag \in Seq(Char)
         /\ ver \in Seq(({Star} \cup Other \cup Nat) \ {Dash, Plus}) /\ ver \in Seq(Char)
<1>1. tags \in Seq(Seq(Char)) /\ ver \in Seq(({Star} \cup Other \cup Nat) \ {Dash, Plus})
  BY VersionsAssumption DEF Inputs, Char
<1>2. \A i \in DOMAIN tags : tags[i] \in Seq(Char)
  BY <1>1
<1>3. ({Star} \cup Other \cup Nat) \ {Dash, Plus} \subseteq Char
  BY DEF Char, Marks
<1>4. ver \in Seq(Char)
  BY <1>1, <1>3, SeqMonotonic
<1> QED
  BY <1>1, <1>2, <1>4 DEF TagSet

\* version_less is the strict weak order that std::sort requires, whatever the
\* remote's tags are.
THEOREM SortHasItsOrder == Spec => []LessIsStrictWeakOrder
<1>1. Inputs => LessIsStrictWeakOrder
  <2> SUFFICES ASSUME Inputs, NEW x \in TagSet, NEW y \in TagSet, NEW z \in TagSet
               PROVE  /\ ~ version_less(x, x)
                      /\ version_less(x, y) /\ version_less(y, z) => version_less(x, z)
                      /\ /\ ~ version_less(x, y) /\ ~ version_less(y, x)
                         /\ ~ version_less(y, z) /\ ~ version_less(z, y)
                         => ~ version_less(x, z) /\ ~ version_less(z, x)
    BY DEF LessIsStrictWeakOrder
  <2> DEFINE a == version_parse(x)
             b == version_parse(y)
             d == version_parse(z)
  <2>1. a \in Parsed /\ b \in Parsed /\ d \in Parsed
    BY InputsTyped, ParseTyped
  <2> HIDE DEF a, b, d
  <2>2. ~ Less(a, a) /\ (Less(a, b) /\ Less(b, d) => Less(a, d))
    BY <2>1, LessIrreflexive, LessTransitive
  <2>3. (Equal(a, b) <=> ~ Less(a, b) /\ ~ Less(b, a)) /\ (Equal(b, d) <=> ~ Less(b, d) /\ ~ Less(d, b))
        /\ (Equal(a, d) <=> ~ Less(a, d) /\ ~ Less(d, a))
    BY <2>1, LessTotal
  <2>4. Equal(a, b) /\ Equal(b, d) => Equal(a, d)
    BY DEF Equal
  <2> QED
    BY <2>2, <2>3, <2>4 DEF version_less, a, b, d
<1> QED
  BY <1>1, InputsStay, PTL

-----------------------------------------------------------------------------
\* What the order of versions means for the numbers they stand for.

\* The places at which two versions have a number, or one of them has.
LEMMA LongestIs ==
  ASSUME NEW s \in Seq(Nat), NEW t \in Seq(Nat)
  PROVE  \A i : i \in Longest(s, t) <=> i \in Nat /\ i >= 1 /\ (i <= Len(s) \/ i <= Len(t))
<1>1. Len(s) \in Nat /\ Len(t) \in Nat
  OBVIOUS
<1> DEFINE T == {Len(s), Len(t)}
           n == Len(s) + Len(t)
<1>2. n \in Nat /\ T \in SUBSET (0 .. n) /\ T # {}
  BY <1>1
<1> HIDE DEF T, n
<1>3. Max(T) \in T /\ \A j \in T : j <= Max(T)
  BY <1>2, GreatestElement
<1> USE DEF T
<1>4. Max(T) \in {Len(s), Len(t)} /\ Len(s) <= Max(T) /\ Len(t) <= Max(T)
  BY <1>3
<1> QED
  BY <1>1, <1>4 DEF Longest

\* The parts that are left are a sequence of numbers.
LEMMA StrippedHas ==
  ASSUME NEW s \in Seq(Nat), NEW r, Stripped(s, r)
  PROVE  /\ r \in Seq(Nat) /\ Len(r) \in Nat /\ DOMAIN r = 1 .. Len(r)
         /\ Len(s) \in Nat /\ Len(r) <= Len(s)
         /\ (Len(r) > 0 => r[Len(r)] # 0) /\ \A i \in 1 .. Len(r) : r[i] \in Nat
<1>1. r \in Seq(Nat)
  BY DEF Stripped
<1>2. Len(r) \in Nat /\ DOMAIN r = 1 .. Len(r) /\ \A i \in 1 .. Len(r) : r[i] \in Nat
  BY <1>1
<1> QED
  BY <1>1, <1>2 DEF Stripped

\* A version and what is left of it without zeros at the end have the same numbers.
LEMMA PaddedStripped ==
  ASSUME NEW s \in Seq(Nat), NEW r, Stripped(s, r), NEW i \in Nat, i >= 1
  PROVE  Padded(s, i) = Padded(r, i) /\ Padded(r, i) \in Nat
<1>1. Len(s) \in Nat /\ DOMAIN s = 1 .. Len(s) /\ (\A j \in 1 .. Len(s) : s[j] \in Nat)
  OBVIOUS
<1>2. r \in Seq(Nat) /\ Len(r) \in Nat /\ DOMAIN r = 1 .. Len(r) /\ (\A j \in 1 .. Len(r) : r[j] \in Nat)
  BY DEF Stripped
<1> QED
  BY <1>1, <1>2 DEF Stripped, Padded

\* If a number of t is the first to differ and is greater, then the parts of s
\* are lexicographically less than those of t.
LEMMA LowerIsLess ==
  ASSUME NEW s \in Seq(Nat), NEW t \in Seq(Nat), NEW r, NEW q, Stripped(s, r), Stripped(t, q),
         LowerNumbers(s, t)
  PROVE  Lex(r, q)
<1>0. /\ r \in Seq(Nat) /\ Len(r) \in Nat /\ DOMAIN r = 1 .. Len(r)
      /\ q \in Seq(Nat) /\ Len(q) \in Nat /\ DOMAIN q = 1 .. Len(q)
      /\ \A j \in 1 .. Len(r) : r[j] \in Nat
      /\ \A j \in 1 .. Len(q) : q[j] \in Nat
  BY StrippedHas
<1>1. PICK i \in Longest(s, t) : /\ Padded(s, i) < Padded(t, i)
                                 /\ \A j \in 1 .. i - 1 : Padded(s, j) = Padded(t, j)
  BY DEF LowerNumbers
<1>2. i \in Nat /\ i >= 1
  BY LongestIs
<1>3. Padded(r, i) < Padded(q, i) /\ Padded(r, i) \in Nat /\ Padded(q, i) \in Nat
  BY <1>1, <1>2, PaddedStripped
<1>4. \A j \in 1 .. i - 1 : Padded(r, j) = Padded(q, j)
  <2>1. ASSUME NEW j \in 1 .. i - 1 PROVE Padded(r, j) = Padded(q, j)
    <3>1. j \in Nat /\ j >= 1
      BY <1>2
    <3>2. Padded(s, j) = Padded(r, j) /\ Padded(t, j) = Padded(q, j)
      BY <3>1, PaddedStripped
    <3> QED
      BY <3>2, <1>1
  <2> QED
    BY <2>1
<1>5. i \in 1 .. Len(q)
  BY <1>0, <1>2, <1>3 DEF Padded
<1>6. SUFFICES \E n \in Nat : LexAt(r, q, n)
  BY <1>0, LexIs
<1>7. CASE i <= Len(r) + 1
  <2>1. \A j \in 1 .. i - 1 : j \in 1 .. Len(r) /\ r[j] = q[j]
    BY <1>0, <1>2, <1>4, <1>5, <1>7 DEF Padded
  <2>2. i \in 1 .. Len(r) => r[i] < q[i]
    BY <1>0, <1>3, <1>5 DEF Padded
  <2> QED
    BY <1>2, <1>5, <2>1, <2>2 DEF LexAt
<1>8. CASE i > Len(r) + 1
  <2>1. \A j \in 1 .. Len(r) : r[j] = q[j]
    BY <1>0, <1>2, <1>4, <1>5, <1>8 DEF Padded
  <2>2. LexAt(r, q, Len(r) + 1)
    BY <1>0, <1>2, <1>5, <1>8, <2>1 DEF LexAt
  <2> QED
    BY <1>0, <2>2
<1> QED
  BY <1>0, <1>2, <1>7, <1>8

\* Versions with the same numbers have the same parts.
LEMMA SameAreEqual ==
  ASSUME NEW s \in Seq(Nat), NEW t \in Seq(Nat), NEW r, NEW q, Stripped(s, r), Stripped(t, q),
         SameNumbers(s, t)
  PROVE  r = q
<1>0. /\ r \in Seq(Nat) /\ Len(r) \in Nat /\ DOMAIN r = 1 .. Len(r) /\ Len(s) \in Nat /\ Len(r) <= Len(s)
      /\ q \in Seq(Nat) /\ Len(q) \in Nat /\ DOMAIN q = 1 .. Len(q) /\ Len(t) \in Nat /\ Len(q) <= Len(t)
      /\ Len(r) > 0 => r[Len(r)] # 0
      /\ Len(q) > 0 => q[Len(q)] # 0
  BY StrippedHas
<1>1. ASSUME NEW i \in Nat, i >= 1, i <= Len(r) \/ i <= Len(q) PROVE Padded(r, i) = Padded(q, i)
  <2>0. i <= Len(s) \/ i <= Len(t)
    BY <1>0, <1>1
  <2>1. i \in Longest(s, t)
    BY <2>0, <1>1, LongestIs
  <2>2. Padded(s, i) = Padded(t, i)
    BY <2>1 DEF SameNumbers
  <2> QED
    BY <2>2, <1>1, PaddedStripped
<1>2. ~ Len(r) < Len(q)
  <2> SUFFICES ASSUME Len(r) < Len(q) PROVE FALSE
    OBVIOUS
  <2>1. Padded(r, Len(q)) = Padded(q, Len(q))
    BY <1>0, <1>1
  <2> QED
    BY <1>0, <2>1 DEF Padded
<1>3. ~ Len(q) < Len(r)
  <2> SUFFICES ASSUME Len(q) < Len(r) PROVE FALSE
    OBVIOUS
  <2>1. Padded(r, Len(r)) = Padded(q, Len(r))
    BY <1>0, <1>1
  <2> QED
    BY <1>0, <2>1 DEF Padded
<1>4. Len(r) = Len(q)
  <2>1. Len(r) \in Nat /\ Len(q) \in Nat
    BY <1>0
  <2> QED
    BY ONLY <2>1, <1>2, <1>3
<1>5. ASSUME NEW i \in 1 .. Len(r) PROVE r[i] = q[i]
  <2>1. Padded(r, i) = Padded(q, i)
    BY <1>0, <1>1
  <2> QED
    BY <1>0, <1>4, <2>1 DEF Padded
<1> QED
  BY <1>0, <1>4, <1>5, SeqEqual

\* The normal part of a tag are the numbers before its first "-" or "+".
LEMMA NormalIs ==
  ASSUME NEW str \in Seq(Char)
  PROVE  /\ Numbers(NormalChars(str)) \in Seq(Nat)
         /\ Stripped(Numbers(NormalChars(str)), version_parse(str).normal)
<1> DEFINE n == First(str, {Dash, Plus})
<1>1. Len(str) \in Nat /\ n \in 1 .. Len(str) + 1
  BY FirstIs
<1>2. NormalChars(str) = SubSeq(str, 1, n - 1)
  BY DEF NormalChars
<1>3. version_parse(str).normal = Parts(SubSeq(str, 1, n - 1))
  BY DEF version_parse
<1> HIDE DEF n
<1>4. SubSeq(str, 1, n - 1) \in Seq(Char)
  BY <1>1, PartsTyped
<1>5. Numbers(NormalChars(str)) \in Seq(Nat)
  BY <1>2, <1>4, NumbersTyped
<1>6. version_parse(str).normal = vector_remove_trailing_zeros(Numbers(NormalChars(str)))
  BY <1>2, <1>3 DEF Parts
<1> QED
  BY <1>5, <1>6, ZerosRemoved

\* version_less orders tags by their normal numbers, "1" and "1.0" being the
\* same, and puts a pre-release below its release, whatever the remote's tags are.
THEOREM SortOrdersNumbers == Spec => []LessIsPrecedence
<1>1. Inputs => LessIsPrecedence
  <2> SUFFICES ASSUME Inputs, NEW x \in TagSet, NEW y \in TagSet
               PROVE  /\ LowerNumbers(Numbers(NormalChars(x)), Numbers(NormalChars(y))) => version_less(x, y)
                      /\ /\ SameNumbers(Numbers(NormalChars(x)), Numbers(NormalChars(y)))
                         /\ version_parse(x).has_rc /\ ~ version_parse(y).has_rc
                         => version_less(x, y)
    BY DEF LessIsPrecedence
  <2> DEFINE s == Numbers(NormalChars(x))
             t == Numbers(NormalChars(y))
             r == version_parse(x).normal
             q == version_parse(y).normal
  <2>1. x \in Seq(Char) /\ y \in Seq(Char)
    BY InputsTyped
  <2>2. s \in Seq(Nat) /\ t \in Seq(Nat) /\ Stripped(s, r) /\ Stripped(t, q)
    BY <2>1, NormalIs
  <2> HIDE DEF s, t, r, q
  <2>3. LowerNumbers(s, t) => Lex(r, q)
    BY <2>2, LowerIsLess
  <2>4. SameNumbers(s, t) => r = q
    BY <2>2, SameAreEqual
  <2> QED
    BY <2>3, <2>4 DEF version_less, Less, s, t, r, q
<1> QED
  BY <1>1, InputsStay, PTL

\* A pattern has no pre-release: all its numbers are normal ones.
LEMMA PatternIsNormal ==
  ASSUME Inputs
  PROVE  /\ Numbers(ver) \in Seq(Nat) /\ Stripped(Numbers(ver), Parts(ver))
         /\ version_parse(ver).normal = Parts(ver)
<1>1. ver \in Seq(Char) /\ ver \in Seq(({Star} \cup Other \cup Nat) \ {Dash, Plus})
  BY InputsTyped
<1>2. \A i \in 1 .. Len(ver) : ver[i] \notin {Dash, Plus}
  BY <1>1
<1>3. First(ver, {Dash, Plus}) = Len(ver) + 1
  BY <1>1, <1>2, FirstIs
<1>4. Len(ver) + 1 - 1 = Len(ver) /\ SubSeq(ver, 1, Len(ver)) = ver
  BY <1>1, SubSeqFull
<1>5. Numbers(ver) \in Seq(Nat)
  BY <1>1, NumbersTyped
<1>6. version_parse(ver).normal = Parts(SubSeq(ver, 1, First(ver, {Dash, Plus}) - 1))
  BY DEF version_parse
<1> DEFINE n == First(ver, {Dash, Plus}) - 1
<1>7. version_parse(ver).normal = Parts(ver)
  <2>1. Len(ver) \in Nat
    BY <1>1
  <2>2. n = Len(ver)
    BY <2>1, <1>3
  <2>3. version_parse(ver).normal = Parts(SubSeq(ver, 1, n))
    BY <1>6
  <2> HIDE DEF n
  <2>4. SubSeq(ver, 1, n) = ver
    BY <2>2, <1>4
  <2> QED
    BY <2>3, <2>4
<1>8. Stripped(Numbers(ver), Parts(ver))
  BY <1>5, ZerosRemoved DEF Parts
<1> QED
  BY <1>5, <1>7, <1>8

\* version_match compares the parts of a tag without its trailing zeros, and
\* so finds whether the pattern covers all its numbers.
LEMMA MatchCovers ==
  ASSUME NEW s \in Seq(Nat), NEW v, Stripped(s, v), NEW t \in Seq(Nat), NEW q, Stripped(t, q)
  PROVE  Match(v, q) <=> Covers(v, t)
<1>0. /\ v \in Seq(Nat) /\ Len(v) \in Nat /\ DOMAIN v = 1 .. Len(v)
      /\ q \in Seq(Nat) /\ Len(q) \in Nat /\ DOMAIN q = 1 .. Len(q) /\ Len(t) \in Nat /\ Len(q) <= Len(t)
      /\ Len(q) > 0 => q[Len(q)] # 0
      /\ MaxInt \in Nat /\ MaxInt # 0
  BY VersionsAssumption, StrippedHas
<1>1. \A i \in Nat : i >= 1 => Padded(t, i) = Padded(q, i)
  BY PaddedStripped
<1>2. \A i : i \in Longest(v, t) <=> i \in Nat /\ i >= 1 /\ (i <= Len(v) \/ i <= Len(t))
  BY <1>0, LongestIs
<1>3. \A i \in 1 .. Len(v) : Mismatch(v, q, i) <=> v[i] # MaxInt /\ v[i] # Padded(q, i)
  BY <1>0 DEF Mismatch, Padded
<1> DEFINE wildcard == v # <<>> /\ v[Len(v)] = MaxInt
<1>4. Match(v, q) <=> v = q \/ ((\A i \in 1 .. Len(v) : ~ Mismatch(v, q, i)) /\ (wildcard \/ Len(v) >= Len(q)))
  BY <1>0 DEF Match
<1>5. Covers(v, t) <=> \A i \in Longest(v, t) : Padded(v, i) \in {MaxInt, Padded(t, i)} \/ (i > Len(v) /\ wildcard)
  BY DEF Covers
<1> HIDE DEF wildcard
<1>6. ASSUME Match(v, q), NEW i \in Longest(v, t)
      PROVE  Padded(v, i) \in {MaxInt, Padded(t, i)} \/ (i > Len(v) /\ wildcard)
  <2>0. i \in Nat /\ i >= 1 /\ Padded(t, i) = Padded(q, i)
    BY <1>1, <1>2
  <2>1. CASE v = q
    BY <2>0, <2>1
  <2>2. CASE i <= Len(v) /\ ~ Mismatch(v, q, i)
    BY <2>0, <2>2, <1>0, <1>3 DEF Padded
  <2>3. CASE i > Len(v) /\ Len(v) >= Len(q)
    BY <2>0, <2>3, <1>0 DEF Padded
  <2> QED
    BY <2>0, <2>1, <2>2, <2>3, <1>0, <1>4, <1>6
<1>7. ASSUME Covers(v, t) PROVE Match(v, q)
  <2>1. ASSUME NEW i \in 1 .. Len(v) PROVE ~ Mismatch(v, q, i)
    <3>0. i \in Nat /\ i >= 1 /\ i <= Len(v) /\ ~(i > Len(v))
      BY <1>0
    <3>1. i \in Longest(v, t) /\ i \in Nat /\ i >= 1 /\ ~(i > Len(v))
      BY <3>0, <1>2
    <3>2. Padded(v, i) \in {MaxInt, Padded(q, i)}
      BY <3>1, <1>1, <1>5, <1>7
    <3>3. Padded(v, i) = v[i]
      BY <1>0 DEF Padded
    <3> QED
      BY <3>2, <3>3, <1>3
  <2>2. ASSUME ~ wildcard, Len(v) < Len(q) PROVE FALSE
    <3>1. Len(q) \in Longest(v, t) /\ Len(q) >= 1
      BY <1>0, <1>2, <2>2
    <3>2. Padded(v, Len(q)) \in {MaxInt, Padded(q, Len(q))}
      BY <3>1, <1>0, <1>1, <1>5, <1>7, <2>2
    <3> QED
      BY <3>1, <3>2, <1>0, <2>2 DEF Padded
  <2> QED
    BY <2>1, <2>2, <1>0, <1>4
<1> QED
  BY <1>5, <1>6, <1>7

\* version_match accepts a tag exactly when the pattern covers the numbers of
\* the tag, whatever pattern and tags are.
THEOREM PatternsCover == Spec => []MatchIsCover
<1>1. Inputs => MatchIsCover
  <2> SUFFICES ASSUME Inputs, NEW tag \in TagSet
               PROVE  version_match(ver, tag, FALSE) <=> Covers(Parts(ver), Numbers(NormalChars(tag)))
    BY DEF MatchIsCover
  <2>1. tag \in Seq(Char)
    BY InputsTyped
  <2>2. version_match(ver, tag, FALSE) <=> Match(Parts(ver), version_parse(tag).normal)
    BY PatternIsNormal DEF version_match
  <2>3. Numbers(ver) \in Seq(Nat) /\ Stripped(Numbers(ver), Parts(ver))
    BY PatternIsNormal
  <2>4. Numbers(NormalChars(tag)) \in Seq(Nat) /\ Stripped(Numbers(NormalChars(tag)), version_parse(tag).normal)
    BY <2>1, NormalIs
  <2> QED
    BY <2>2, <2>3, <2>4, MatchCovers
<1> QED
  BY <1>1, InputsStay, PTL

-----------------------------------------------------------------------------
\* What version_tag returns.

\* The list s is a sorted list of the tags: it has exactly these tags, and no
\* tag is less than a later one.
Sorted(s) ==
  /\ Len(s) \in Nat
  /\ \A k \in 1 .. Len(s) : s[k] \in TagSet
  /\ \A tag \in TagSet : \E k \in 1 .. Len(s) : s[k] = tag
  /\ \A i, k \in 1 .. Len(s) : i < k => ~ version_less(s[i], s[k])

\* The sort loses no tag and invents none: an injection of the places of a
\* list reaches all of them.
LEMMA DescendingIs ==
  ASSUME Inputs, NEW s \in Descending(tags) PROVE Sorted(s)
<1> DEFINE n == Len(tags)
           D == DOMAIN tags
<1>0. n \in Nat /\ D = 1 .. n
  BY InputsTyped
<1>1. PICK q \in [D -> D] :
        /\ s = [i \in D |-> tags[q[i]]]
        /\ \A i, j \in D : i < j => q[i] # q[j] /\ ~ version_less(tags[q[i]], tags[q[j]])
  BY DEF Descending
<1> HIDE DEF n, D
<1>2. \A i \in D : q[i] \in D /\ s[i] = tags[q[i]]
  BY <1>1
<1>3. IsFiniteSet(D)
  <2>1. IsFiniteSet(1 .. n)
    BY <1>0, FS_Interval
  <2> QED
    BY <2>1, <1>0
<1>4. IsInjective(q)
  <2> SUFFICES ASSUME NEW a \in D, NEW b \in D, q[a] = q[b] PROVE a = b
    BY <1>1 DEF IsInjective
  <2>1. a \in Nat /\ b \in Nat
    BY <1>0
  <2>2. ~ a < b /\ ~ b < a
    BY <1>1
  <2> QED
    BY <2>1, <2>2
<1>5. q \in Injection(D, D)
  BY <1>1, <1>4 DEF Injection
<1>6. q \in Surjection(D, D)
  BY <1>3, <1>5, FS_Injection
<1>7. \A t \in D : \E i \in D : q[i] = t
  BY <1>6 DEF Surjection
<1>8. Len(s) = n
  <2>1. s = [i \in 1 .. n |-> tags[q[i]]]
    BY <1>0, <1>1
  <2> QED
    BY <2>1, <1>0
<1>9. TagSet = {tags[i] : i \in D}
  BY DEF TagSet, D
<1>10. \A k \in D : s[k] \in TagSet
  BY <1>2, <1>9
<1>11. \A tag \in TagSet : \E k \in D : s[k] = tag
  BY <1>2, <1>7, <1>9
<1>12. \A i, k \in D : i < k => ~ version_less(s[i], s[k])
  BY <1>1, <1>2
<1> QED
  BY <1>0, <1>8, <1>10, <1>11, <1>12 DEF Sorted

\* The result and the tags tried so far.
SearchInv ==
  /\ Inputs
  /\ pc \in {"sort", "search"} => result = NoTag
  /\ pc \in {"search", "done"} =>
       /\ Sorted(sorted) /\ it \in Nat /\ it >= 1
       /\ \A k \in 1 .. Len(sorted) : k < it => ~ version_match(ver, sorted[k], ignore_rc)
  /\ pc = "done" =>
       \/ result = NoTag /\ it > Len(sorted)
       \/ /\ it <= Len(sorted) /\ result = sorted[it]
          /\ version_match(ver, sorted[it], ignore_rc)

\* It is inductive.
LEMMA SearchInvInvariant == Spec => []SearchInv
<1>1. Init => SearchInv
  BY DEF Init, SearchInv, Inputs
<1>2. SearchInv /\ [Next]_vars => SearchInv'
  <2> SUFFICES ASSUME SearchInv, [Next]_vars PROVE SearchInv'
    OBVIOUS
  <2>1. CASE Sort
    <3>1. Sorted(sorted')
      BY <2>1, DescendingIs DEF Sort, SearchInv
    <3>2. Sorted(sorted)'
      BY <3>1, <2>1 DEF Sort, Sorted, TagSet
    <3> QED
      BY <3>2, <2>1 DEF Sort, SearchInv, Inputs
  <2>2. CASE Throw
    BY <2>2 DEF Throw, SearchInv, Inputs
  <2>3. CASE Found
    <3>1. Sorted(sorted)'
      BY <2>3 DEF Found, SearchInv, Sorted, TagSet
    <3> QED
      BY <3>1, <2>3 DEF Found, SearchInv, Inputs
  <2>4. CASE TryNext
    <3>1. Sorted(sorted)'
      BY <2>4 DEF TryNext, SearchInv, Sorted, TagSet
    <3>2. it \in Nat /\ it' = it + 1
      BY <2>4 DEF TryNext, SearchInv
    <3>3. \A k \in 1 .. Len(sorted) : k < it + 1 => ~ version_match(ver, sorted[k], ignore_rc)
      <4>1. ASSUME NEW k \in 1 .. Len(sorted), k < it + 1 PROVE k < it \/ k = it
        BY <3>2, <4>1
      <4> QED
        BY <4>1, <2>4 DEF TryNext, SearchInv
    <3> QED
      BY <3>1, <3>2, <3>3, <2>4 DEF TryNext, SearchInv, Inputs
  <2>5. CASE NotFound
    <3>1. Sorted(sorted)'
      BY <2>5 DEF NotFound, SearchInv, Sorted, TagSet
    <3> QED
      BY <3>1, <2>5 DEF NotFound, SearchInv, Inputs
  <2>6. CASE UNCHANGED vars
    BY <2>6 DEF vars, SearchInv, Inputs, Sorted, TagSet
  <2> QED
    BY <2>1, <2>2, <2>3, <2>4, <2>5, <2>6 DEF Next
<1> QED
  BY <1>1, <1>2, PTL DEF Spec

\* version_tag returns a matching tag that no matching tag is greater than, and
\* nothing only if no tag matches: the sort keeps all tags, the first match in
\* its order is returned.
THEOREM GreatestIsReturned == Spec => []ResultIsGreatest
<1>1. SearchInv => ResultIsGreatest
  <2> SUFFICES ASSUME SearchInv, pc = "done"
               PROVE  LET matching == {tag \in TagSet : version_match(ver, tag, ignore_rc)}
                      IN IF result = NoTag THEN matching = {}
                         ELSE result \in matching /\ \A tag \in matching : ~ version_less(result, tag)
    BY DEF ResultIsGreatest
  <2> DEFINE matching == {tag \in TagSet : version_match(ver, tag, ignore_rc)}
  <2>1. /\ Inputs /\ Sorted(sorted) /\ it \in Nat /\ it >= 1
        /\ \A k \in 1 .. Len(sorted) : k < it => ~ version_match(ver, sorted[k], ignore_rc)
        /\ \/ result = NoTag /\ it > Len(sorted)
           \/ /\ it <= Len(sorted) /\ result = sorted[it]
              /\ version_match(ver, sorted[it], ignore_rc)
    BY DEF SearchInv
  <2>2. Len(sorted) \in Nat
    BY <2>1 DEF Sorted
  <2>3. NoTag \notin TagSet
    BY <2>1, VersionsAssumption DEF Inputs, TagSet
  <2>4. ASSUME NEW tag \in matching PROVE \E k \in 1 .. Len(sorted) : k >= it /\ sorted[k] = tag
    <3>1. PICK k \in 1 .. Len(sorted) : sorted[k] = tag
      BY <2>1 DEF Sorted
    <3>2. ~ k < it
      BY <3>1, <2>1
    <3> QED
      BY <3>1, <3>2, <2>1
  <2>5. CASE result = NoTag /\ it > Len(sorted)
    BY <2>1, <2>2, <2>4, <2>5
  <2>6. CASE it <= Len(sorted) /\ result = sorted[it] /\ version_match(ver, sorted[it], ignore_rc)
    <3>1. it \in 1 .. Len(sorted) /\ result \in TagSet /\ result # NoTag /\ result \in matching
      BY <2>1, <2>2, <2>3, <2>6 DEF Sorted
    <3>2. ASSUME NEW tag \in matching PROVE ~ version_less(result, tag)
      <4>1. PICK k \in 1 .. Len(sorted) : k >= it /\ sorted[k] = tag
        BY <2>4
      <4>2. CASE k > it
        BY <4>1, <4>2, <3>1, <2>1, <2>6 DEF Sorted
      <4>3. CASE k = it
        <5>1. version_parse(result) \in Parsed
          BY <2>1, <3>1, InputsTyped, ParseTyped
        <5>2. ~ version_less(result, result)
          BY <5>1, LessIrreflexive DEF version_less
        <5> QED
          BY <4>1, <4>3, <5>2, <2>6
      <4> QED
        BY <4>1, <4>2, <4>3, <2>1
    <3> QED
      BY <3>1, <3>2
  <2> QED
    BY <2>1, <2>5, <2>6
<1> QED
  BY <1>1, SearchInvInvariant, PTL
=============================================================================

--------------------------- MODULE ParametersProofs ---------------------------
(***************************************************************************)
(* Proofs about Parameters, for texts of any length over any characters.   *)
(***************************************************************************)
EXTENDS Parameters, NumberInduction, SequenceTheorems

\* What was read before the next character: a dollar that something follows,
\* or "$(" without a ")" since.
Scanned ==
  /\ state = "ST_PARAM_BEGIN" => it \in 1 .. Len(str) - 1 /\ str[it] = "$"
  /\ state = "ST_PARAM" =>
       \E k \in 1 .. Len(str) : k + 1 <= it /\ At(k, "$", "(")
                                /\ \A j \in k + 2 .. it : str[j] # ")"
  /\ returned # "no" => it = Len(str)
  /\ returned = "assertion" => state # "ST_NONE"

\* The invariant on which the others rest.
ScanInv == TypeOK /\ Scanned

LEMMA ScanInit == Init => ScanInv
  BY TextsAssumption DEF Init, ScanInv, TypeOK, Scanned

LEMMA ScanStep == ScanInv /\ [Next]_vars => ScanInv'
<1> SUFFICES ASSUME ScanInv, [Next]_vars PROVE ScanInv'
  OBVIOUS
<1> USE DEF ScanInv
<1>0. str \in Seq(Chars) /\ it \in Nat /\ Len(str) \in Nat
  BY TextsAssumption DEF TypeOK
<1>1. ASSUME Reads
      PROVE  /\ str' = str /\ str[it + 1] \in Chars /\ it + 1 \in 1 .. Len(str)
             /\ it' = it + 1 /\ returned = "no" /\ returned' = "no"
  BY <1>0, <1>1 DEF Reads, TypeOK, Scanned
<1>2. CASE Dollar
  <2>1. /\ Reads /\ state = "ST_NONE" /\ str[it + 1] = "$" /\ it + 1 # Len(str)
        /\ state' = "ST_PARAM_BEGIN" /\ param' = param /\ result' = result
        /\ undefined_params' = undefined_params
    BY <1>2 DEF Dollar, c, is_last
  <2>2. TypeOK'
    BY <2>1, <1>0, <1>1 DEF TypeOK
  <2>3. Scanned'
    BY <2>1, <1>0, <1>1 DEF Scanned
  <2> QED BY <2>2, <2>3
<1>3. CASE Plain
  <2>1. Reads
    BY <1>3 DEF Plain
  <2>2. TypeOK'
    BY <1>3, <2>1, <1>0, <1>1 DEF Plain, TypeOK, c
  <2>3. Scanned'
    BY <1>3, <2>1, <1>1 DEF Plain, Scanned
  <2> QED BY <2>2, <2>3
<1>4. CASE Open
  <2>1. Reads
    BY <1>4 DEF Open
  <2>2. TypeOK'
    BY <1>4, <2>1, <1>0, <1>1 DEF Open, TypeOK
  <2>3. PICK k \in 1 .. Len(str) : k = it /\ str[k] = "$" /\ str[k + 1] = "("
    BY <1>4, <1>0 DEF Open, Scanned, c
  <2>4. At(k, "$", "(")'
    BY <2>1, <2>3, <1>0, <1>1 DEF At
  <2>5. \A j \in k + 2 .. it' : str'[j] # ")"
    BY <2>1, <2>3, <1>0, <1>1
  <2>6. Scanned'
    BY <1>4, <2>1, <2>3, <2>4, <2>5, <1>1 DEF Open, Scanned
  <2> QED BY <2>2, <2>6
<1>5. CASE Escape
  <2>1. Reads
    BY <1>5 DEF Escape
  <2>2. TypeOK'
    BY <1>5, <2>1, <1>0, <1>1 DEF Escape, TypeOK, c
  <2>3. Scanned'
    BY <1>5, <2>1, <1>1 DEF Escape, Scanned
  <2> QED BY <2>2, <2>3
<1>6. CASE NoParameter
  <2>1. Reads
    BY <1>6 DEF NoParameter
  <2>2. <<"$", c>> \in Seq(Chars)
    BY <2>1, <1>1, CharsAssumption DEF c
  <2>3. TypeOK'
    BY <1>6, <2>1, <2>2, <1>0, <1>1 DEF NoParameter, TypeOK
  <2>4. Scanned'
    BY <1>6, <2>1, <1>1 DEF NoParameter, Scanned
  <2> QED BY <2>3, <2>4
<1>7. CASE Name
  <2>1. Reads
    BY <1>7 DEF Name
  <2>2. TypeOK'
    BY <1>7, <2>1, <1>0, <1>1 DEF Name, TypeOK, c
  <2>3. PICK k \in 1 .. Len(str) : k + 1 <= it /\ At(k, "$", "(")
                                   /\ \A j \in k + 2 .. it : str[j] # ")"
    BY <1>7 DEF Name, Scanned
  <2>4. k + 1 <= it' /\ At(k, "$", "(")' /\ \A j \in k + 2 .. it' : str'[j] # ")"
    BY <1>7, <2>1, <2>3, <1>0, <1>1 DEF Name, c, At
  <2>5. Scanned'
    BY <1>7, <2>1, <2>4, <1>1 DEF Name, Scanned
  <2> QED BY <2>2, <2>5
<1>8. CASE Close
  <2>1. Reads
    BY <1>8 DEF Close
  <2>2. param \in DOMAIN params => params[param] \in Seq(Chars)
    BY ParamsAssumption
  <2>3. param \in Seq(Chars) /\ result \in Seq(Chars) /\ undefined_params \in Seq(Seq(Chars))
    BY DEF TypeOK
  <2>4. result' \in Seq(Chars) /\ undefined_params' \in Seq(Seq(Chars))
    <3>1. CASE param \in DOMAIN params
      <4>1. result' = result \o params[param] /\ undefined_params' = undefined_params
        BY <1>8, <3>1 DEF Close
      <4> QED BY <4>1, <3>1, <2>2, <2>3, ConcatProperties
    <3>2. CASE param \notin DOMAIN params
      <4>1. result' = result /\ undefined_params' = Append(undefined_params, param)
        BY <1>8, <3>2 DEF Close
      <4> QED BY <4>1, <2>3, AppendProperties
    <3> QED BY <3>1, <3>2
  <2>5. TypeOK'
    BY <1>8, <2>1, <2>4, <1>0, <1>1 DEF Close, TypeOK
  <2>6. Scanned'
    BY <1>8, <2>1, <1>1 DEF Close, Scanned
  <2> QED BY <2>5, <2>6
<1>9. CASE Return
  <2>1. TypeOK'
    BY <1>9 DEF Return, TypeOK
  <2>2. Scanned'
    BY <1>9, <1>0 DEF Return, Scanned, At
  <2> QED BY <2>1, <2>2
<1>10. CASE UNCHANGED vars
  BY <1>10 DEF vars, TypeOK, Scanned, At
<1> QED BY <1>2, <1>3, <1>4, <1>5, <1>6, <1>7, <1>8, <1>9, <1>10 DEF Next

LEMMA ScanInvariant == Spec => []ScanInv
  BY ScanInit, ScanStep, PTL DEF Spec

\* Every variable has its type in every state of string_replace_parameters.
THEOREM ParametersTypeCorrect == Spec => []TypeOK
<1>1. ScanInv => TypeOK
  BY DEF ScanInv
<1> QED BY <1>1, ScanInvariant, PTL

\* The assertion at the end of string_replace_parameters fails for nothing but
\* a "$(" that is not closed: never for a dollar at the end of a text.
THEOREM AssertsOnlyUnclosed == Spec => []OnlyUnclosedAsserts
<1>1. ScanInv => OnlyUnclosedAsserts
  <2> SUFFICES ASSUME ScanInv, returned = "assertion"
               PROVE  \E k \in 1 .. Len(str) : At(k, "$", "(") /\ Closes(k) = {}
    BY DEF OnlyUnclosedAsserts
  <2>1. str \in Seq(Chars) /\ Len(str) \in Nat
    BY TextsAssumption DEF ScanInv, TypeOK
  <2>2. it = Len(str) /\ state = "ST_PARAM"
    BY <2>1 DEF ScanInv, TypeOK, Scanned
  <2>3. PICK k \in 1 .. Len(str) : At(k, "$", "(") /\ \A j \in k + 2 .. it : str[j] # ")"
    BY <2>2 DEF ScanInv, Scanned
  <2>4. Closes(k) = {}
    BY <2>2, <2>3 DEF Closes
  <2> QED BY <2>3, <2>4
<1> QED BY <1>1, ScanInvariant, PTL

-----------------------------------------------------------------------------
\* What a text means, place by place: the functions that Meaning and Unknown
\* look up at its first place, with the text as a parameter.
Places(t)     == 1 .. Len(t) + 2
Brackets(t, k) == {j \in k + 2 .. Len(t) : t[j] = ")"}
Pair(t, k, a, b) == k + 1 <= Len(t) /\ t[k] = a /\ t[k + 1] = b
NameAt(t, k)  == SubSeq(t, k + 2, Min(Brackets(t, k)) - 1)

Ends(t, k) == k > Len(t) \/ (Pair(t, k, "$", "(") /\ Brackets(t, k) = {})

\* The place after what begins at k, the text that it gives and the parameter
\* that it misses.
Beyond(t, k) ==
  CASE Pair(t, k, "$", "(") -> Min(Brackets(t, k)) + 1
    [] Pair(t, k, "$", "$") -> k + 2
    [] OTHER                -> k + 1
Piece(t, k) ==
  CASE Pair(t, k, "$", "(") -> IF NameAt(t, k) \in DOMAIN params THEN params[NameAt(t, k)] ELSE <<>>
    [] Pair(t, k, "$", "$") -> <<"$">>
    [] OTHER                -> <<t[k]>>
Missing(t, k) ==
  IF Pair(t, k, "$", "(") /\ NameAt(t, k) \notin DOMAIN params THEN <<NameAt(t, k)>> ELSE <<>>

Pieces(t)   == [k \in Places(t) |-> IF Ends(t, k) THEN <<>> ELSE Piece(t, k)]
Missings(t) == [k \in Places(t) |-> IF Ends(t, k) THEN <<>> ELSE Missing(t, k)]

\* w collects what g gives at each place from k on.
Collects(t, S, g, w) ==
  /\ w \in [Places(t) -> Seq(S)]
  /\ \A k \in Places(t) : w[k] = IF Ends(t, k) THEN <<>> ELSE g[k] \o w[Beyond(t, k)]
From(t, S, g) == CHOOSE w : Collects(t, S, g, w)

\* The least of a set of places.
LEMMA LeastPlace ==
  ASSUME NEW T \in SUBSET Nat, T # {} PROVE Min(T) \in T /\ \A j \in T : Min(T) <= j
<1>1. \E x \in T : \A y \in T : x =< y
  BY LeastElement
<1> QED
  BY <1>1 DEF Min

\* What begins at a place ends after it, within the text.
LEMMA BeyondIsAfter ==
  ASSUME NEW t \in Seq(Chars), NEW k \in Places(t), ~ Ends(t, k)
  PROVE  Beyond(t, k) \in Places(t) /\ Beyond(t, k) > k /\ Beyond(t, k) <= Len(t) + 1
<1>1. Len(t) \in Nat /\ k \in 1 .. Len(t)
  BY DEF Places, Ends
<1>2. CASE Pair(t, k, "$", "(")
  <2>1. Brackets(t, k) # {} /\ Brackets(t, k) \in SUBSET Nat
    BY <1>1, <1>2 DEF Ends, Brackets
  <2>2. Min(Brackets(t, k)) \in k + 2 .. Len(t)
    BY <2>1, LeastPlace DEF Brackets
  <2> QED
    BY <1>1, <1>2, <2>2 DEF Beyond, Places
<1>3. CASE ~ Pair(t, k, "$", "(")
  BY <1>1, <1>3 DEF Beyond, Places, Pair
<1> QED
  BY <1>2, <1>3

\* There is a function that collects.
LEMMA FromIs ==
  ASSUME NEW t \in Seq(Chars), NEW S, NEW g \in [Places(t) -> Seq(S)]
  PROVE  Collects(t, S, g, From(t, S, g))
<1> DEFINE n == Len(t) + 2
           Right(w, k) == w[k] = IF Ends(t, k) THEN <<>> ELSE g[k] \o w[Beyond(t, k)]
           W == [1 .. n -> Seq(S)]
           T == {m \in 0 .. n : \E w \in W : \A k \in 1 .. n : k > n - m => Right(w, k)}
<1>0. n \in Nat /\ Places(t) = 1 .. n
  BY DEF Places
<1>b. \A k \in 1 .. n : ~ Ends(t, k) => Beyond(t, k) \in 1 .. n /\ Beyond(t, k) > k
  BY <1>0, BeyondIsAfter
<1> HIDE DEF n
<1>1. 0 \in T
  <2>1. [k \in 1 .. n |-> <<>>] \in W
    OBVIOUS
  <2> QED
    BY <2>1, <1>0
<1>2. ASSUME NEW m \in 0 .. n - 1, m \in T PROVE m + 1 \in T
  <2>1. PICK w \in W : \A k \in 1 .. n : k > n - m => Right(w, k)
    BY <1>2
  <2> DEFINE p == n - m
             x == IF Ends(t, p) THEN <<>> ELSE g[p] \o w[Beyond(t, p)]
             v == [w EXCEPT ![p] = x]
  <2>2. p \in 1 .. n
    BY <1>0
  <2>3. x \in Seq(S)
    <3>1. CASE Ends(t, p)
      BY <3>1
    <3>2. CASE ~ Ends(t, p)
      <4>1. w[Beyond(t, p)] \in Seq(S) /\ g[p] \in Seq(S)
        BY <2>2, <3>2, <1>b, <1>0
      <4> QED
        BY <3>2, <4>1, ConcatProperties
    <3> QED
      BY <3>1, <3>2
  <2> HIDE DEF x
  <2>4. v \in W
    BY <2>2, <2>3
  <2>5. v[p] = x /\ \A k \in 1 .. n : k # p => v[k] = w[k]
    BY <2>2
  <2> HIDE DEF v
  <2>6. \A k \in 1 .. n : k >= p /\ ~ Ends(t, k) => v[Beyond(t, k)] = w[Beyond(t, k)]
    BY <2>2, <2>5, <1>b, <1>0
  <2>7. Right(v, p)
    BY <2>2, <2>5, <2>6 DEF x
  <2>8. ASSUME NEW k \in 1 .. n, k > n - (m + 1) PROVE Right(v, k)
    <3>1. CASE k = p
      BY <3>1, <2>7
    <3>2. CASE k # p
      <4>1. k > n - m
        BY <3>2, <2>8, <1>0
      <4>2. Right(w, k) /\ v[k] = w[k]
        BY <4>1, <3>2, <2>1, <2>5
      <4> QED
        BY <4>1, <4>2, <2>6, <1>0
    <3> QED
      BY <3>1, <3>2
  <2> HIDE DEF Right, W
  <2> QED
    BY <2>4, <2>8, <1>0
<1> HIDE DEF T
<1>3. 0 .. n \subseteq T
  BY <1>0, <1>1, <1>2, UpTo
<1>4. n \in T
  BY <1>0, <1>3
<1>5. \E w \in W : \A k \in 1 .. n : Right(w, k)
  BY <1>0, <1>4 DEF T
<1>6. \E w : Collects(t, S, g, w)
  BY <1>0, <1>5 DEF Collects
<1> QED
  BY <1>6 DEF From

\* What begins at a place gives characters, and misses names.
LEMMA PiecesTyped ==
  ASSUME NEW t \in Seq(Chars)
  PROVE  Pieces(t) \in [Places(t) -> Seq(Chars)] /\ Missings(t) \in [Places(t) -> Seq(Seq(Chars))]
<1> SUFFICES ASSUME NEW k \in Places(t), ~ Ends(t, k)
             PROVE  Piece(t, k) \in Seq(Chars) /\ Missing(t, k) \in Seq(Seq(Chars))
  BY DEF Pieces, Missings
<1>1. k \in 1 .. Len(t) /\ t[k] \in Chars /\ "$" \in Chars /\ Len(t) \in Nat
  BY CharsAssumption DEF Places, Ends
<1>2. CASE Pair(t, k, "$", "(")
  <2>1. Brackets(t, k) # {} /\ Brackets(t, k) \in SUBSET Nat
    BY <1>1, <1>2 DEF Ends, Brackets
  <2>2. Min(Brackets(t, k)) \in k + 2 .. Len(t)
    BY <2>1, LeastPlace DEF Brackets
  <2>3. \A i \in k + 2 .. Min(Brackets(t, k)) - 1 : t[i] \in Chars
    BY <1>1, <2>2
  <2>4. NameAt(t, k) \in Seq(Chars)
    BY <1>1, <2>2, <2>3, SubSeqProperties DEF NameAt
  <2>5. Piece(t, k) = IF NameAt(t, k) \in DOMAIN params THEN params[NameAt(t, k)] ELSE <<>>
    BY <1>2 DEF Piece, Pair
  <2>6. Missing(t, k) \in {<<NameAt(t, k)>>, <<>>}
    BY <1>2 DEF Missing
  <2>7. Piece(t, k) \in Seq(Chars)
    BY <2>5, ParamsAssumption
  <2>8. <<NameAt(t, k)>> \in Seq(Seq(Chars)) /\ <<>> \in Seq(Seq(Chars))
    BY <2>4
  <2> QED
    BY <2>6, <2>7, <2>8
<1>3. CASE ~ Pair(t, k, "$", "(")
  BY <1>1, <1>3 DEF Piece, Missing
<1> QED
  BY <1>2, <1>3

Meanings(t) == From(t, Chars, Pieces(t))
Unknowns(t) == From(t, Seq(Chars), Missings(t))

\* The functions that are defined by looking ahead are the ones that collect.
LEMMA MeaningIs == ASSUME TypeOK PROVE Meaning = Meanings(str)[1]
<1> DEFINE n == Len(str) + 2
           Arm(f, k) ==
               CASE k > Len(str)                            -> <<>>
                 [] At(k, "$", "(") /\ Closes(k) = {}       -> <<>>
                 [] At(k, "$", "(") /\ Closes(k) # {}       ->
                      (IF Named(k) \in DOMAIN params THEN params[Named(k)] ELSE <<>>)
                      \o f[Min(Closes(k)) + 1]
                 [] At(k, "$", "$")                         -> <<"$">> \o f[k + 2]
                 [] OTHER                                   -> <<str[k]>> \o f[k + 1]
           Body(f) == [k \in 1 .. Len(str) + 2 |-> Arm(f, k)]
           m == CHOOSE f : f = Body(f)
           w == Meanings(str)
<1>1. Meaning = m[1]
  BY DEF Meaning
<1>2. str \in Seq(Chars) /\ n \in Nat /\ 1 \in 1 .. n /\ Places(str) = 1 .. n
  BY TextsAssumption DEF TypeOK, Places
<1>3. Collects(str, Chars, Pieces(str), w)
  BY <1>2, FromIs, PiecesTyped DEF Meanings
<1>4. ASSUME NEW k \in 1 .. n
      PROVE  /\ Closes(k) = Brackets(str, k) /\ Named(k) = NameAt(str, k)
             /\ At(k, "$", "(") = Pair(str, k, "$", "(") /\ At(k, "$", "$") = Pair(str, k, "$", "$")
  BY DEF Closes, Brackets, Named, NameAt, At, Pair
<1>6. ASSUME NEW f, NEW k \in 1 .. n
      PROVE  Arm(f, k) = IF Ends(str, k) THEN <<>> ELSE Pieces(str)[k] \o f[Beyond(str, k)]
  <2>1. CASE k > Len(str)
    <3>1. ~ At(k, "$", "(") /\ ~ At(k, "$", "$") /\ Ends(str, k)
      BY <2>1, <1>2 DEF At, Ends
    <3> QED
      BY <2>1, <3>1
  <2>2. CASE ~ (k > Len(str)) /\ Pair(str, k, "$", "(") /\ Closes(k) = {}
    <3>1. At(k, "$", "(") /\ ~ At(k, "$", "$") /\ Ends(str, k)
      BY <2>2, <1>4 DEF At, Ends
    <3> QED
      BY <2>2, <3>1
  <2>3. CASE ~ (k > Len(str)) /\ Pair(str, k, "$", "(") /\ Closes(k) # {}
    <3>1. At(k, "$", "(") /\ ~ At(k, "$", "$") /\ ~ Pair(str, k, "$", "$") /\ ~ Ends(str, k)
      BY <2>3, <1>4 DEF At, Ends, Pair
    <3>2. Arm(f, k) = (IF Named(k) \in DOMAIN params THEN params[Named(k)] ELSE <<>>)
                      \o f[Min(Closes(k)) + 1]
      BY <2>3, <3>1
    <3>3. /\ Pieces(str)[k] = IF Named(k) \in DOMAIN params THEN params[Named(k)] ELSE <<>>
          /\ Beyond(str, k) = Min(Closes(k)) + 1
      BY <2>3, <3>1, <1>2, <1>4 DEF Pieces, Piece, Beyond
    <3> QED
      BY <3>1, <3>2, <3>3
  <2>4. CASE ~ (k > Len(str)) /\ Pair(str, k, "$", "$")
    <3>1. ~ At(k, "$", "(") /\ At(k, "$", "$") /\ ~ Pair(str, k, "$", "(") /\ ~ Ends(str, k)
      BY <2>4, <1>4 DEF At, Ends, Pair
    <3>2. Arm(f, k) = <<"$">> \o f[k + 2]
      BY <2>4, <3>1
    <3>3. Pieces(str)[k] = <<"$">> /\ Beyond(str, k) = k + 2
      BY <2>4, <3>1, <1>2 DEF Pieces, Piece, Beyond
    <3> QED
      BY <3>1, <3>2, <3>3
  <2>5. CASE ~ (k > Len(str)) /\ ~ Pair(str, k, "$", "(") /\ ~ Pair(str, k, "$", "$")
    <3>1. ~ At(k, "$", "(") /\ ~ At(k, "$", "$") /\ ~ Ends(str, k)
      BY <2>5, <1>4 DEF Ends
    <3>2. Arm(f, k) = <<str[k]>> \o f[k + 1]
      BY <2>5, <3>1
    <3>3. Pieces(str)[k] = <<str[k]>> /\ Beyond(str, k) = k + 1
      BY <2>5, <3>1, <1>2 DEF Pieces, Piece, Beyond
    <3> QED
      BY <3>1, <3>2, <3>3
  <2> QED
    BY <2>1, <2>2, <2>3, <2>4, <2>5
<1> HIDE DEF Arm
<1>7. \E f : f = Body(f)
  <2> DEFINE u == [k \in 1 .. n |-> w[k]]
  <2>1. ASSUME NEW k \in 1 .. n PROVE Arm(u, k) = w[k]
    <3>1. CASE Ends(str, k)
      BY <3>1, <1>6, <1>3, <1>2 DEF Collects
    <3>2. CASE ~ Ends(str, k)
      <4>1. Beyond(str, k) \in 1 .. n
        BY <3>2, <1>2, BeyondIsAfter
      <4>2. u[Beyond(str, k)] = w[Beyond(str, k)]
        BY <4>1
      <4> HIDE DEF u, w
      <4> QED
        BY <3>2, <4>2, <1>6, <1>3, <1>2 DEF Collects
    <3> QED
      BY <3>1, <3>2
  <2>2. u = Body(u)
    BY <2>1
  <2> QED
    BY <2>2
<1>8. m = Body(m)
  BY <1>7
<1> HIDE DEF m, w
<1>9. ASSUME NEW k \in 1 .. n, \A j \in 1 .. n : j > k => m[j] = w[j] PROVE m[k] = w[k]
  <2>1. m[k] = Arm(m, k)
    BY <1>8
  <2>2. w[k] = IF Ends(str, k) THEN <<>> ELSE Pieces(str)[k] \o w[Beyond(str, k)]
    BY <1>2, <1>3 DEF Collects
  <2>3. ~ Ends(str, k) => Beyond(str, k) \in 1 .. n /\ Beyond(str, k) > k
    BY <1>2, BeyondIsAfter
  <2> QED
    BY <2>1, <2>2, <2>3, <1>6, <1>9
<1> HIDE DEF n
<1> DEFINE T == {k \in 1 .. n : m[k] = w[k]}
<1>10. \A k \in 1 .. n : (\A j \in 1 .. n : j > k => j \in T) => k \in T
  BY <1>9
<1> HIDE DEF T
<1>11. 1 .. n \subseteq T
  BY <1>2, <1>10, Downwards
<1> QED
  BY <1>1, <1>2, <1>11 DEF w, T

\* The parameters without a value, in the same way.
LEMMA UnknownIs == ASSUME TypeOK PROVE Unknown = Unknowns(str)[1]
<1> DEFINE n == Len(str) + 2
           Arm(f, k) ==
               CASE k > Len(str)                            -> <<>>
                 [] At(k, "$", "(") /\ Closes(k) = {}       -> <<>>
                 [] At(k, "$", "(") /\ Closes(k) # {}       ->
                      (IF Named(k) \in DOMAIN params THEN <<>> ELSE <<Named(k)>>)
                      \o f[Min(Closes(k)) + 1]
                 [] At(k, "$", "$")                         -> f[k + 2]
                 [] OTHER                                   -> f[k + 1]
           Body(f) == [k \in 1 .. Len(str) + 2 |-> Arm(f, k)]
           m == CHOOSE f : f = Body(f)
           w == Unknowns(str)
<1>1. Unknown = m[1]
  BY DEF Unknown
<1>2. str \in Seq(Chars) /\ n \in Nat /\ 1 \in 1 .. n /\ Places(str) = 1 .. n
  BY TextsAssumption DEF TypeOK, Places
<1>3. Collects(str, Seq(Chars), Missings(str), w)
  BY <1>2, FromIs, PiecesTyped DEF Unknowns
<1>4. ASSUME NEW k \in 1 .. n
      PROVE  /\ Closes(k) = Brackets(str, k) /\ Named(k) = NameAt(str, k)
             /\ At(k, "$", "(") = Pair(str, k, "$", "(") /\ At(k, "$", "$") = Pair(str, k, "$", "$")
  BY DEF Closes, Brackets, Named, NameAt, At, Pair
<1>6. ASSUME NEW f, NEW k \in 1 .. n, ~ Ends(str, k) => f[Beyond(str, k)] \in Seq(Seq(Chars))
      PROVE  Arm(f, k) = IF Ends(str, k) THEN <<>> ELSE Missings(str)[k] \o f[Beyond(str, k)]
  <2>1. CASE k > Len(str)
    <3>1. ~ At(k, "$", "(") /\ ~ At(k, "$", "$") /\ Ends(str, k)
      BY <2>1, <1>2 DEF At, Ends
    <3> QED
      BY <2>1, <3>1
  <2>2. CASE ~ (k > Len(str)) /\ Pair(str, k, "$", "(") /\ Closes(k) = {}
    <3>1. At(k, "$", "(") /\ ~ At(k, "$", "$") /\ Ends(str, k)
      BY <2>2, <1>4 DEF At, Ends
    <3> QED
      BY <2>2, <3>1
  <2>3. CASE ~ (k > Len(str)) /\ Pair(str, k, "$", "(") /\ Closes(k) # {}
    <3>1. At(k, "$", "(") /\ ~ At(k, "$", "$") /\ ~ Pair(str, k, "$", "$") /\ ~ Ends(str, k)
      BY <2>3, <1>4 DEF At, Ends, Pair
    <3>2. Arm(f, k) = (IF Named(k) \in DOMAIN params THEN <<>> ELSE <<Named(k)>>)
                      \o f[Min(Closes(k)) + 1]
      BY <2>3, <3>1
    <3>3. /\ Missings(str)[k] = IF Named(k) \in DOMAIN params THEN <<>> ELSE <<Named(k)>>
          /\ Beyond(str, k) = Min(Closes(k)) + 1
      BY <2>3, <3>1, <1>2, <1>4 DEF Missings, Missing, Beyond
    <3> QED
      BY <3>1, <3>2, <3>3
  <2>4. CASE ~ (k > Len(str)) /\ Pair(str, k, "$", "$")
    <3>1. ~ At(k, "$", "(") /\ At(k, "$", "$") /\ ~ Pair(str, k, "$", "(") /\ ~ Ends(str, k)
      BY <2>4, <1>4 DEF At, Ends, Pair
    <3>2. Arm(f, k) = f[k + 2]
      BY <2>4, <3>1
    <3>3. Missings(str)[k] = <<>> /\ Beyond(str, k) = k + 2
      BY <2>4, <3>1, <1>2 DEF Missings, Missing, Beyond
    <3> QED
      BY <3>1, <3>2, <3>3, <1>6, ConcatEmptySeq
  <2>5. CASE ~ (k > Len(str)) /\ ~ Pair(str, k, "$", "(") /\ ~ Pair(str, k, "$", "$")
    <3>1. ~ At(k, "$", "(") /\ ~ At(k, "$", "$") /\ ~ Ends(str, k)
      BY <2>5, <1>4 DEF Ends
    <3>2. Arm(f, k) = f[k + 1]
      BY <2>5, <3>1
    <3>3. Missings(str)[k] = <<>> /\ Beyond(str, k) = k + 1
      BY <2>5, <3>1, <1>2 DEF Missings, Missing, Beyond
    <3> QED
      BY <3>1, <3>2, <3>3, <1>6, ConcatEmptySeq
  <2> QED
    BY <2>1, <2>2, <2>3, <2>4, <2>5
<1> HIDE DEF Arm
<1>7. \E f : f = Body(f)
  <2> DEFINE u == [k \in 1 .. n |-> w[k]]
  <2>1. ASSUME NEW k \in 1 .. n PROVE Arm(u, k) = w[k]
    <3>1. CASE Ends(str, k)
      BY <3>1, <1>6, <1>3, <1>2 DEF Collects
    <3>2. CASE ~ Ends(str, k)
      <4>1. Beyond(str, k) \in 1 .. n
        BY <3>2, <1>2, BeyondIsAfter
      <4>2. u[Beyond(str, k)] = w[Beyond(str, k)] /\ w[Beyond(str, k)] \in Seq(Seq(Chars))
        BY <4>1, <1>2, <1>3 DEF Collects
      <4> HIDE DEF u, w
      <4>3. Arm(u, k) = Missings(str)[k] \o u[Beyond(str, k)]
        BY <3>2, <4>2, <1>6
      <4> QED
        BY <3>2, <4>2, <4>3, <1>3, <1>2 DEF Collects
    <3> QED
      BY <3>1, <3>2
  <2>2. u = Body(u)
    BY <2>1
  <2> QED
    BY <2>2
<1>8. m = Body(m)
  BY <1>7
<1> HIDE DEF m, w
<1>9. ASSUME NEW k \in 1 .. n, \A j \in 1 .. n : j > k => m[j] = w[j] PROVE m[k] = w[k]
  <2>1. m[k] = Arm(m, k)
    BY <1>8
  <2>2. w[k] = IF Ends(str, k) THEN <<>> ELSE Missings(str)[k] \o w[Beyond(str, k)]
    BY <1>2, <1>3 DEF Collects
  <2>3. ~ Ends(str, k) => Beyond(str, k) \in 1 .. n /\ Beyond(str, k) > k
    BY <1>2, BeyondIsAfter
  <2>4. CASE Ends(str, k)
    BY <2>1, <2>2, <2>4, <1>6
  <2>5. CASE ~ Ends(str, k)
    <3>1. m[Beyond(str, k)] = w[Beyond(str, k)] /\ w[Beyond(str, k)] \in Seq(Seq(Chars))
      BY <2>3, <2>5, <1>9, <1>2, <1>3 DEF Collects
    <3>2. Arm(m, k) = Missings(str)[k] \o m[Beyond(str, k)]
      BY <2>5, <3>1, <1>6
    <3> QED
      BY <2>1, <2>2, <2>5, <3>1, <3>2
  <2> QED
    BY <2>4, <2>5
<1> HIDE DEF n
<1> DEFINE T == {k \in 1 .. n : m[k] = w[k]}
<1>10. \A k \in 1 .. n : (\A j \in 1 .. n : j > k => j \in T) => k \in T
  BY <1>9
<1> HIDE DEF T
<1>11. 1 .. n \subseteq T
  BY <1>2, <1>10, Downwards
<1> QED
  BY <1>1, <1>2, <1>11 DEF w, T
-----------------------------------------------------------------------------
\* What was read up to place k of t gave r, and missed the parameters in ud.
Done(t, r, ud, k) ==
  /\ r \o Meanings(t)[k] = Meanings(t)[1]
  /\ ud \o Unknowns(t)[k] = Unknowns(t)[1]

\* What is done when the next character is read: all before it, all before the
\* dollar that was read, or all before the "$(" that is not closed yet.
ReadSoFar ==
  /\ state = "ST_NONE" => Done(str, result, undefined_params, it + 1)
  /\ state = "ST_PARAM_BEGIN" => Done(str, result, undefined_params, it)
  /\ state = "ST_PARAM" =>
       \E k \in 1 .. Len(str) : /\ k + 1 <= it /\ Pair(str, k, "$", "(")
                                /\ \A j \in k + 2 .. it : str[j] # ")"
                                /\ param = SubSeq(str, k + 2, it)
                                /\ Done(str, result, undefined_params, k)

ReadInv == ScanInv /\ ReadSoFar

\* The functions that collect have values at each place.
LEMMA DoneTyped ==
  ASSUME NEW t \in Seq(Chars)
  PROVE  /\ \A k \in Places(t) : /\ Meanings(t)[k] \in Seq(Chars)
                                 /\ Unknowns(t)[k] \in Seq(Seq(Chars))
                                 /\ Meanings(t)[k] = IF Ends(t, k) THEN <<>> ELSE Piece(t, k) \o Meanings(t)[Beyond(t, k)]
                                 /\ Unknowns(t)[k] = IF Ends(t, k) THEN <<>> ELSE Missing(t, k) \o Unknowns(t)[Beyond(t, k)]
                                 /\ ~ Ends(t, k) => Piece(t, k) \in Seq(Chars) /\ Missing(t, k) \in Seq(Seq(Chars))
<1>1. Pieces(t) \in [Places(t) -> Seq(Chars)] /\ Missings(t) \in [Places(t) -> Seq(Seq(Chars))]
  BY PiecesTyped
<1>2. Collects(t, Chars, Pieces(t), Meanings(t)) /\ Collects(t, Seq(Chars), Missings(t), Unknowns(t))
  BY <1>1, FromIs DEF Meanings, Unknowns
<1>3. ASSUME NEW k \in Places(t), ~ Ends(t, k)
      PROVE  Pieces(t)[k] = Piece(t, k) /\ Missings(t)[k] = Missing(t, k)
  BY <1>3 DEF Pieces, Missings
<1> QED
  BY <1>1, <1>2, <1>3 DEF Collects

\* Concatenation of texts is associative.
LEMMA TextsAssociate ==
  ASSUME NEW x \in Seq(Chars), NEW y \in Seq(Chars), NEW z \in Seq(Chars)
  PROVE  (x \o y) \o z = x \o (y \o z)
BY ONLY ConcatAssociative

\* The same of lists of names.
LEMMA NamesAssociate ==
  ASSUME NEW x \in Seq(Seq(Chars)), NEW y \in Seq(Seq(Chars)), NEW z \in Seq(Seq(Chars))
  PROVE  (x \o y) \o z = x \o (y \o z)
BY ONLY ConcatAssociative

\* Reading what begins at a place is one step of what collects.
LEMMA DoneStep ==
  ASSUME NEW t \in Seq(Chars), NEW r \in Seq(Chars), NEW ud \in Seq(Seq(Chars)),
         NEW k \in Places(t), ~ Ends(t, k), Done(t, r, ud, k)
  PROVE  Done(t, r \o Piece(t, k), ud \o Missing(t, k), Beyond(t, k))
<1> DEFINE b == Beyond(t, k)
<1>1. b \in Places(t)
  BY BeyondIsAfter
<1>2. /\ Meanings(t)[b] \in Seq(Chars) /\ Piece(t, k) \in Seq(Chars)
      /\ Meanings(t)[k] = Piece(t, k) \o Meanings(t)[b]
  BY <1>1, DoneTyped
<1>3. /\ Unknowns(t)[b] \in Seq(Seq(Chars)) /\ Missing(t, k) \in Seq(Seq(Chars))
      /\ Unknowns(t)[k] = Missing(t, k) \o Unknowns(t)[b]
  BY <1>1, DoneTyped
<1> HIDE DEF b
<1>a. Meanings(t)[b] \in Seq(Chars) /\ Piece(t, k) \in Seq(Chars)
  BY <1>2
<1>b. Unknowns(t)[b] \in Seq(Seq(Chars)) /\ Missing(t, k) \in Seq(Seq(Chars))
  BY <1>3
<1>4. (r \o Piece(t, k)) \o Meanings(t)[b] = r \o (Piece(t, k) \o Meanings(t)[b])
  BY <1>a, TextsAssociate
<1>5. (ud \o Missing(t, k)) \o Unknowns(t)[b] = ud \o (Missing(t, k) \o Unknowns(t)[b])
  BY <1>b, NamesAssociate
<1> QED
  BY <1>2, <1>3, <1>4, <1>5 DEF Done, b

\* A character that begins nothing.
LEMMA DonePlain ==
  ASSUME NEW t \in Seq(Chars), NEW r \in Seq(Chars), NEW ud \in Seq(Seq(Chars)),
         NEW k \in 1 .. Len(t), ~ Pair(t, k, "$", "("), ~ Pair(t, k, "$", "$"), Done(t, r, ud, k)
  PROVE  Done(t, r \o <<t[k]>>, ud, k + 1)
<1>1. k \in Places(t) /\ ~ Ends(t, k)
  BY DEF Places, Ends
<1>2. Piece(t, k) = <<t[k]>> /\ Missing(t, k) = <<>> /\ Beyond(t, k) = k + 1
  BY DEF Piece, Missing, Beyond
<1>3. ud \o <<>> = ud
  BY ConcatEmptySeq
<1> QED
  BY <1>1, <1>2, <1>3, DoneStep

\* Two characters, one after the other.
LEMMA TwoCharacters ==
  ASSUME NEW a \in Chars, NEW b \in Chars PROVE <<a>> \o <<b>> = <<a, b>>
<1> DEFINE s == <<a>> \o <<b>>
           r == <<a, b>>
<1>1. <<a>> \in Seq(Chars) /\ <<b>> \in Seq(Chars)
  OBVIOUS
<1>2. Len(<<a>>) = 1 /\ Len(<<b>>) = 1 /\ <<a>>[1] = a /\ <<b>>[2 - 1] = b
  OBVIOUS
<1>3. /\ s \in Seq(Chars) /\ Len(s) = Len(<<a>>) + Len(<<b>>)
      /\ \A i \in 1 .. Len(<<a>>) + Len(<<b>>) : s[i] = IF i <= Len(<<a>>) THEN <<a>>[i] ELSE <<b>>[i - Len(<<a>>)]
  BY <1>1, ConcatProperties
<1>4. r \in Seq(Chars) /\ Len(r) = 2 /\ r[1] = a /\ r[2] = b
  OBVIOUS
<1> HIDE DEF s, r
<1>5. s[1] = <<a>>[1] /\ s[2] = <<b>>[2 - 1] /\ Len(s) = 2
  BY <1>2, <1>3
<1>6. \A i \in 1 .. Len(s) : s[i] = r[i]
  BY <1>2, <1>4, <1>5
<1>7. s = r
  BY ONLY <1>3, <1>4, <1>5, <1>6, SeqEqual
<1> QED
  BY <1>7 DEF s, r

\* No character has been read.
LEMMA ReadInit == Init => ReadInv
<1> SUFFICES ASSUME Init PROVE ReadSoFar
  BY ScanInit DEF ReadInv
<1>1. str \in Seq(Chars) /\ 1 \in Places(str)
  BY TextsAssumption DEF Init, Places
<1>2. <<>> \o Meanings(str)[1] = Meanings(str)[1] /\ <<>> \o Unknowns(str)[1] = Unknowns(str)[1]
  BY <1>1, DoneTyped, ConcatEmptySeq
<1>3. it + 1 = 1
  BY DEF Init
<1> QED
  BY <1>2, <1>3 DEF Init, ReadSoFar, Done

\* Each character completes what it ends.
LEMMA ReadStep == ReadInv /\ [Next]_vars => ReadInv'
<1> SUFFICES ASSUME ReadInv, [Next]_vars PROVE ReadSoFar'
  BY ScanStep DEF ReadInv
<1>0. /\ str \in Seq(Chars) /\ it \in Nat /\ Len(str) \in Nat
      /\ result \in Seq(Chars) /\ undefined_params \in Seq(Seq(Chars))
      /\ state \in {"ST_NONE", "ST_PARAM_BEGIN", "ST_PARAM"}
  BY TextsAssumption DEF ReadInv, ScanInv, TypeOK
<1>1. ASSUME Reads
      PROVE  /\ str' = str /\ str[it + 1] \in Chars /\ it + 1 \in 1 .. Len(str) /\ it' = it + 1
  BY <1>0, <1>1 DEF Reads
<1>b. ASSUME state = "ST_PARAM_BEGIN" PROVE it \in 1 .. Len(str) - 1 /\ str[it] = "$"
  BY <1>b DEF ReadInv, ScanInv, Scanned
<1> USE DEF c
<1>2. CASE Dollar
  BY <1>2, <1>1 DEF Dollar, ReadInv, ReadSoFar
<1>3. CASE Plain
  <2>1. Reads /\ state = "ST_NONE" /\ result' = Append(result, str[it + 1]) /\ UNCHANGED <<state, undefined_params>>
    BY <1>3 DEF Plain
  <2>2. ~ Pair(str, it + 1, "$", "(") /\ ~ Pair(str, it + 1, "$", "$")
    BY <1>3, <1>0 DEF Plain, is_last, Pair
  <2>3. Done(str, result, undefined_params, it + 1)
    BY <2>1 DEF ReadInv, ReadSoFar
  <2>4. Done(str, result \o <<str[it + 1]>>, undefined_params, it + 1 + 1)
    BY <2>1, <2>2, <2>3, <1>0, <1>1, DonePlain
  <2>5. result' = result \o <<str[it + 1]>>
    BY <2>1, <1>0, <1>1, AppendIsConcat
  <2> QED
    BY <2>1, <2>4, <2>5, <1>0, <1>1 DEF ReadSoFar
<1>4. CASE Open
  <2>1. Reads /\ state = "ST_PARAM_BEGIN" /\ str[it + 1] = "(" /\ state' = "ST_PARAM"
        /\ param' = param /\ UNCHANGED <<result, undefined_params>>
    BY <1>4 DEF Open
  <2>2. it \in 1 .. Len(str) /\ Pair(str, it, "$", "(")
    BY <2>1, <1>b, <1>0 DEF Pair
  <2>3. Done(str, result, undefined_params, it)
    BY <2>1 DEF ReadInv, ReadSoFar
  <2>4. param = <<>>
    BY <2>1 DEF ReadInv, ScanInv, TypeOK
  <2>5. SubSeq(str, it + 2, it + 1) = <<>>
    BY <1>0
  <2>6. /\ it + 1 <= it' /\ \A j \in it + 2 .. it' : str[j] # ")"
        /\ param' = SubSeq(str, it + 2, it')
    BY <2>1, <2>4, <2>5, <1>0, <1>1
  <2> QED
    BY <2>1, <2>2, <2>3, <2>6, <1>1 DEF ReadSoFar
<1>5. CASE Escape
  <2>1. Reads /\ state = "ST_PARAM_BEGIN" /\ str[it + 1] = "$" /\ state' = "ST_NONE"
        /\ result' = Append(result, "$") /\ UNCHANGED undefined_params
    BY <1>5 DEF Escape
  <2>2. it \in 1 .. Len(str) /\ Pair(str, it, "$", "$") /\ ~ Pair(str, it, "$", "(")
    BY <2>1, <1>b, <1>0 DEF Pair
  <2>3. Done(str, result, undefined_params, it)
    BY <2>1 DEF ReadInv, ReadSoFar
  <2>4. it \in Places(str) /\ ~ Ends(str, it)
    BY <2>2, <1>0 DEF Places, Ends
  <2>5. Piece(str, it) = <<"$">> /\ Missing(str, it) = <<>> /\ Beyond(str, it) = it + 2
    BY <2>2 DEF Piece, Missing, Beyond
  <2>6. Done(str, result \o <<"$">>, undefined_params \o <<>>, it + 2)
    BY <2>3, <2>4, <2>5, <1>0, DoneStep
  <2>7. result' = result \o <<"$">> /\ undefined_params \o <<>> = undefined_params
    BY <2>1, <1>0, AppendIsConcat, ConcatEmptySeq, CharsAssumption
  <2>8. it' + 1 = it + 2
    BY <2>1, <1>0, <1>1
  <2> QED
    BY <2>1, <2>6, <2>7, <2>8, <1>1 DEF ReadSoFar
<1>6. CASE NoParameter
  <2>1. Reads /\ state = "ST_PARAM_BEGIN" /\ str[it + 1] \notin {"$", "("} /\ state' = "ST_NONE"
        /\ result' = result \o <<"$", str[it + 1]>> /\ UNCHANGED undefined_params
    BY <1>6 DEF NoParameter
  <2>2. /\ it \in 1 .. Len(str) /\ ~ Pair(str, it, "$", "$") /\ ~ Pair(str, it, "$", "(") /\ str[it] = "$"
        /\ ~ Pair(str, it + 1, "$", "$") /\ ~ Pair(str, it + 1, "$", "(")
    BY <2>1, <1>b, <1>0 DEF Pair
  <2>3. Done(str, result, undefined_params, it)
    BY <2>1 DEF ReadInv, ReadSoFar
  <2>4. Done(str, result \o <<"$">>, undefined_params, it + 1)
    BY <2>2, <2>3, <1>0, DonePlain
  <2>5. result \o <<"$">> \in Seq(Chars) /\ <<"$">> \in Seq(Chars) /\ <<str[it + 1]>> \in Seq(Chars)
    BY <2>1, <1>0, <1>1, CharsAssumption
  <2>6. Done(str, (result \o <<"$">>) \o <<str[it + 1]>>, undefined_params, it + 1 + 1)
    BY <2>1, <2>2, <2>4, <2>5, <1>0, <1>1, DonePlain
  <2>7. (result \o <<"$">>) \o <<str[it + 1]>> = result \o (<<"$">> \o <<str[it + 1]>>)
    BY <2>5, <1>0, ConcatAssociative
  <2>8. <<"$">> \o <<str[it + 1]>> = <<"$", str[it + 1]>>
    BY <2>1, <1>1, CharsAssumption, TwoCharacters
  <2>9. it' + 1 = it + 1 + 1
    BY <2>1, <1>0, <1>1
  <2> QED
    BY <2>1, <2>6, <2>7, <2>8, <2>9, <1>1 DEF ReadSoFar
<1>7. CASE Name
  <2>1. Reads /\ state = "ST_PARAM" /\ str[it + 1] # ")" /\ state' = "ST_PARAM"
        /\ param' = Append(param, str[it + 1]) /\ UNCHANGED <<result, undefined_params>>
    BY <1>7 DEF Name
  <2>2. PICK k \in 1 .. Len(str) : /\ k + 1 <= it /\ Pair(str, k, "$", "(")
                                   /\ \A j \in k + 2 .. it : str[j] # ")"
                                   /\ param = SubSeq(str, k + 2, it)
                                   /\ Done(str, result, undefined_params, k)
    BY <2>1 DEF ReadInv, ReadSoFar
  <2>3. param' = SubSeq(str, k + 2, it + 1)
    <3>1. k + 2 \in 1 .. Len(str) /\ it + 1 \in k + 2 .. Len(str)
      BY <2>1, <2>2, <1>0, <1>1
    <3>2. \A m \in 1 .. Len(str) : \A n \in m .. Len(str) :
            SubSeq(str, m, n) = SubSeq(str, m, n - 1) \o <<str[n]>>
      BY <1>0, SubSeqRecursiveSecond
    <3>3. it + 1 - 1 = it /\ param \in Seq(Chars)
      BY <1>0 DEF ReadInv, ScanInv, TypeOK
    <3>4. Append(param, str[it + 1]) = param \o <<str[it + 1]>>
      BY <2>1, <3>3, <1>1, AppendIsConcat
    <3>5. SubSeq(str, k + 2, it + 1) = SubSeq(str, k + 2, it) \o <<str[it + 1]>>
      BY <3>1, <3>2, <3>3, <1>0
    <3> QED
      BY <2>1, <2>2, <3>4, <3>5
  <2>4. k + 1 <= it' /\ \A j \in k + 2 .. it' : str[j] # ")"
    BY <2>1, <2>2, <1>0, <1>1
  <2> QED
    BY <2>1, <2>2, <2>3, <2>4, <1>1 DEF ReadSoFar
<1>8. CASE Close
  <2>1. Reads /\ state = "ST_PARAM" /\ str[it + 1] = ")" /\ state' = "ST_NONE"
    BY <1>8 DEF Close
  <2>2. PICK k \in 1 .. Len(str) : /\ k + 1 <= it /\ Pair(str, k, "$", "(")
                                   /\ \A j \in k + 2 .. it : str[j] # ")"
                                   /\ param = SubSeq(str, k + 2, it)
                                   /\ Done(str, result, undefined_params, k)
    BY <2>1 DEF ReadInv, ReadSoFar
  <2>3. it + 1 \in Brackets(str, k) /\ \A j \in Brackets(str, k) : it + 1 <= j
    BY <2>1, <2>2, <1>0, <1>1 DEF Brackets
  <2>4. Min(Brackets(str, k)) = it + 1
    <3>1. Brackets(str, k) \in SUBSET Nat
      BY <1>0 DEF Brackets
    <3>2. Min(Brackets(str, k)) \in Brackets(str, k) /\ Min(Brackets(str, k)) <= it + 1
      BY <2>3, <3>1, LeastPlace
    <3> QED
      BY <2>3, <3>1, <3>2, <1>0
  <2>5. NameAt(str, k) = param
    BY <2>2, <2>4, <1>0 DEF NameAt
  <2>6. k \in Places(str) /\ ~ Ends(str, k)
    BY <2>2, <2>3, <1>0 DEF Places, Ends
  <2>7. ~ Pair(str, k, "$", "$")
    BY <2>2 DEF Pair
  <2>8. Beyond(str, k) = it + 1 + 1
    BY <2>2, <2>4, <2>7 DEF Beyond
  <2>9. /\ Piece(str, k) = IF param \in DOMAIN params THEN params[param] ELSE <<>>
        /\ Missing(str, k) = IF param \in DOMAIN params THEN <<>> ELSE <<param>>
    BY <2>2, <2>5, <2>7 DEF Piece, Missing
  <2>10. Done(str, result \o Piece(str, k), undefined_params \o Missing(str, k), it + 1 + 1)
    BY <2>2, <2>6, <2>8, <1>0, DoneStep
  <2>11. result' = result \o Piece(str, k) /\ undefined_params' = undefined_params \o Missing(str, k)
    <3>1. CASE param \in DOMAIN params
      <4>1. result' = result \o params[param] /\ undefined_params' = undefined_params
        BY <1>8, <3>1 DEF Close
      <4> QED
        BY <4>1, <3>1, <2>9, <1>0, ConcatEmptySeq
    <3>2. CASE param \notin DOMAIN params
      <4>1. result' = result /\ undefined_params' = Append(undefined_params, param)
        BY <1>8, <3>2 DEF Close
      <4>2. param \in Seq(Chars)
        BY DEF ReadInv, ScanInv, TypeOK
      <4> QED
        BY <4>1, <4>2, <3>2, <2>9, <1>0, ConcatEmptySeq, AppendIsConcat
    <3> QED
      BY <3>1, <3>2
  <2> QED
    BY <2>1, <2>10, <2>11, <1>1 DEF ReadSoFar
<1>9. CASE Return
  BY <1>9 DEF Return, ReadInv, ReadSoFar
<1>10. CASE UNCHANGED vars
  BY <1>10 DEF vars, ReadInv, ReadSoFar
<1> QED
  BY <1>2, <1>3, <1>4, <1>5, <1>6, <1>7, <1>8, <1>9, <1>10 DEF Next

\* The same for every state of a call.
LEMMA ReadInvariant == Spec => []ReadInv
  BY ReadInit, ReadStep, PTL DEF Spec

\* When the call ends, nothing is left to collect.
LEMMA ReadToTheEnd ==
  ASSUME ReadInv, returned # "no" PROVE result = Meanings(str)[1] /\ undefined_params = Unknowns(str)[1]
<1>0. /\ str \in Seq(Chars) /\ Len(str) \in Nat /\ it = Len(str)
      /\ result \in Seq(Chars) /\ undefined_params \in Seq(Seq(Chars))
      /\ state \in {"ST_NONE", "ST_PARAM_BEGIN", "ST_PARAM"}
  BY TextsAssumption DEF ReadInv, ScanInv, TypeOK, Scanned
<1>1. PICK k \in Places(str) : Done(str, result, undefined_params, k) /\ Ends(str, k)
  <2>1. CASE state = "ST_NONE"
    <3>1. it + 1 \in Places(str) /\ Ends(str, it + 1)
      BY <1>0 DEF Places, Ends
    <3> QED
      BY <2>1, <3>1 DEF ReadInv, ReadSoFar
  <2>2. CASE state = "ST_PARAM_BEGIN"
    BY <2>2, <1>0 DEF ReadInv, ScanInv, Scanned
  <2>3. CASE state = "ST_PARAM"
    <3>1. PICK k \in 1 .. Len(str) : /\ Pair(str, k, "$", "(") /\ \A j \in k + 2 .. it : str[j] # ")"
                                     /\ Done(str, result, undefined_params, k)
      BY <2>3 DEF ReadInv, ReadSoFar
    <3>2. k \in Places(str) /\ Brackets(str, k) = {}
      BY <3>1, <1>0 DEF Places, Brackets
    <3> QED
      BY <3>1, <3>2 DEF Ends
  <2> QED
    BY <1>0, <2>1, <2>2, <2>3
<1>2. Meanings(str)[k] = <<>> /\ Unknowns(str)[k] = <<>>
  BY <1>0, <1>1, DoneTyped
<1> QED
  BY <1>0, <1>1, <1>2, ConcatEmptySeq DEF Done

\* string_replace_parameters returns what the text means, read by looking ahead
\* from each place: values are put in for closed parameters and never looked at
\* again, "$$" is a dollar, any other dollar stays, and what follows an unclosed
\* "$(" is dropped.
THEOREM ReplacesAsRead == Spec => []ResultIsMeaning
<1>1. ReadInv => ResultIsMeaning
  BY ReadToTheEnd, MeaningIs DEF ResultIsMeaning, ReadInv, ScanInv
<1> QED
  BY <1>1, ReadInvariant, PTL

\* Every closed parameter without a value is reported under its own name, in
\* the order of the text, and nothing else is.
THEOREM ReportsUndefined == Spec => []UndefinedIsReported
<1>1. ReadInv => UndefinedIsReported
  BY ReadToTheEnd, UnknownIs DEF UndefinedIsReported, ReadInv, ScanInv
<1> QED
  BY <1>1, ReadInvariant, PTL
-----------------------------------------------------------------------------
\* One character of a text whose dollars are doubled.
Doubled(ch) == IF ch = "$" THEN <<"$", "$">> ELSE <<ch>>

\* Doubled characters are one or two.
LEMMA DoubledTyped ==
  ASSUME NEW ch \in Chars
  PROVE  /\ Doubled(ch) \in Seq(Chars) /\ Len(Doubled(ch)) = (IF ch = "$" THEN 2 ELSE 1)
         /\ Doubled(ch)[1] = ch
         /\ ch = "$" => Doubled(ch)[2] = "$"
BY DEF Doubled

\* x is the beginning of y.
Begins(S, x, y) == \E s \in Seq(S) : y = x \o s

\* Each concatenation is the beginning of the last.
LEMMA PrefixesBegin ==
  ASSUME NEW n \in Nat, NEW S, NEW g \in [1 .. n -> Seq(S)], NEW f, Concats(n, S, g, f),
         NEW i \in 0 .. n
  PROVE  Begins(S, f[i], f[n])
<1> DEFINE T == {j \in 0 .. n : Begins(S, f[n - j], f[n])}
<1>0. f \in [0 .. n -> Seq(S)] /\ \A k \in 0 .. n - 1 : f[k + 1] = f[k] \o g[k + 1]
  BY DEF Concats
<1>a. \A x, y, z \in Seq(S) : (x \o y) \o z = x \o (y \o z)
  BY ONLY ConcatAssociative
<1>1. 0 \in T
  <2>1. f[n] \in Seq(S) /\ n - 0 = n /\ <<>> \in Seq(S)
    BY <1>0
  <2>2. f[n] = f[n] \o <<>>
    BY <2>1, ConcatEmptySeq
  <2>3. Begins(S, f[n], f[n])
    BY <2>1, <2>2 DEF Begins
  <2> QED
    BY <2>1, <2>3
<1>2. ASSUME NEW j \in 0 .. n - 1, j \in T PROVE j + 1 \in T
  <2> DEFINE k == n - (j + 1)
  <2>1. k \in 0 .. n /\ k \in 0 .. n - 1 /\ n - j = k + 1 /\ k + 1 \in 1 .. n
    OBVIOUS
  <2>2. PICK s \in Seq(S) : f[n] = f[k + 1] \o s
    BY <1>2, <2>1 DEF Begins
  <2> HIDE DEF k
  <2>3. f[k + 1] = f[k] \o g[k + 1] /\ f[k] \in Seq(S) /\ g[k + 1] \in Seq(S)
    BY <2>1, <1>0
  <2>4. g[k + 1] \o s \in Seq(S)
    BY <2>3, ConcatProperties
  <2>5. f[n] = f[k] \o (g[k + 1] \o s)
    <3>1. (f[k] \o g[k + 1]) \o s = f[k] \o (g[k + 1] \o s)
      BY <2>3, <1>a
    <3> QED
      BY <2>2, <2>3, <3>1
  <2>6. Begins(S, f[k], f[n])
    BY <2>4, <2>5 DEF Begins
  <2> QED
    BY <2>6 DEF k
<1> HIDE DEF T
<1>3. 0 .. n \subseteq T
  BY <1>1, <1>2, UpTo
<1>4. n - i \in T /\ n - (n - i) = i
  BY <1>3
<1> QED
  BY <1>4 DEF T

\* The characters of a text, doubled.
Doubles(text) == [j \in DOMAIN text |-> Doubled(text[j])]

\* f collects the doubled characters of text.
Doubling(text, f) == Concats(Len(text), Chars, Doubles(text), f)

\* A text is escaped character by character.
LEMMA EscapedIs ==
  ASSUME NEW text \in Seq(Chars)
  PROVE  /\ Doubles(text) \in [1 .. Len(text) -> Seq(Chars)]
         /\ \E f : Doubling(text, f)
         /\ \A f : Doubling(text, f) => Escaped(text) = f[Len(text)]
<1>1. Len(text) \in Nat /\ DOMAIN text = 1 .. Len(text) /\ \A i \in 1 .. Len(text) : text[i] \in Chars
  OBVIOUS
<1>2. Doubles(text) \in [1 .. Len(text) -> Seq(Chars)]
  BY <1>1, DoubledTyped DEF Doubles
<1>3. Doubles(text) \in Seq(Seq(Chars)) /\ Len(Doubles(text)) = Len(text)
  BY <1>1, <1>2
<1>4. Escaped(text) = FlattenSeq(Doubles(text))
  BY DEF Escaped, Doubles, Doubled
<1>5. \E f : Doubling(text, f)
  BY <1>1, <1>2, PrefixesExist DEF Doubling
<1>6. ASSUME NEW f, Doubling(text, f) PROVE Escaped(text) = f[Len(text)]
  BY <1>1, <1>2, <1>3, <1>4, <1>6, FlattenIs DEF Doubling
<1> QED
  BY <1>2, <1>5, <1>6

\* What an escaped text has after the first n doubled characters.
HasNext(text, f, n) ==
  /\ Escaped(text) \in Seq(Chars) /\ f[n] \in Seq(Chars)
  /\ Len(f[n]) + 1 <= Len(Escaped(text)) /\ Escaped(text)[Len(f[n]) + 1] = text[n + 1]
  /\ text[n + 1] = "$" => /\ Len(f[n]) + 2 <= Len(Escaped(text))
                          /\ Escaped(text)[Len(f[n]) + 2] = "$"
  /\ Len(f[n + 1]) = Len(f[n]) + IF text[n + 1] = "$" THEN 2 ELSE 1

\* It has the next character of the text, doubled if it is a dollar.
LEMMA EscapedHas ==
  ASSUME NEW text \in Seq(Chars), NEW f, Doubling(text, f), NEW n \in 0 .. Len(text) - 1
  PROVE  HasNext(text, f, n)
<1> DEFINE L == Len(text)
           d == Doubled(text[n + 1])
<1>1. L \in Nat /\ n \in 0 .. L /\ n + 1 \in 1 .. L /\ n + 1 \in 0 .. L /\ text[n + 1] \in Chars
  OBVIOUS
<1>2. Doubles(text) \in [1 .. L -> Seq(Chars)] /\ Escaped(text) = f[L]
  BY EscapedIs
<1>3. f \in [0 .. L -> Seq(Chars)] /\ f[n + 1] = f[n] \o d /\ d \in Seq(Chars)
  <2>1. f \in [0 .. L -> Seq(Chars)] /\ f[n + 1] = f[n] \o Doubles(text)[n + 1]
    BY <1>1 DEF Doubling, Concats
  <2>2. Doubles(text)[n + 1] = d
    BY <1>1 DEF Doubles
  <2> QED
    BY <2>1, <2>2, <1>1, DoubledTyped
<1>4. /\ Len(d) = (IF text[n + 1] = "$" THEN 2 ELSE 1)
      /\ d[1] = text[n + 1]
      /\ text[n + 1] = "$" => d[2] = "$"
  BY <1>1, DoubledTyped
<1> HIDE DEF d, L
<1>a. Concats(L, Chars, Doubles(text), f)
  BY DEF Doubling, L
<1>b. Begins(Chars, f[n + 1], f[L])
  BY <1>1, <1>2, <1>a, PrefixesBegin
<1>5. PICK s \in Seq(Chars) : f[L] = f[n + 1] \o s
  BY <1>b DEF Begins
<1> DEFINE a == f[n]
           b == f[n + 1]
<1>6. a \in Seq(Chars) /\ b \in Seq(Chars) /\ b = a \o d
  BY <1>1, <1>3
<1> HIDE DEF a, b
<1>7. /\ Len(b) = Len(a) + Len(d) /\ Len(a) \in Nat /\ Len(d) \in Nat
      /\ \A i \in 1 .. Len(a) + Len(d) : b[i] = IF i <= Len(a) THEN a[i] ELSE d[i - Len(a)]
  BY <1>3, <1>6, ConcatProperties
<1>8. b[Len(a) + 1] = d[1]
  BY <1>4, <1>7
<1>9. text[n + 1] = "$" => b[Len(a) + 2] = d[2]
  BY <1>4, <1>7
<1> DEFINE e == b \o s
<1>10. /\ e \in Seq(Chars) /\ Len(e) = Len(b) + Len(s) /\ Len(s) \in Nat /\ Len(b) \in Nat
       /\ \A i \in 1 .. Len(b) + Len(s) : e[i] = IF i <= Len(b) THEN b[i] ELSE s[i - Len(b)]
  BY <1>6, ConcatProperties
<1> HIDE DEF e
<1>11. Len(b) <= Len(e) /\ \A i \in 1 .. Len(b) : e[i] = b[i]
  BY <1>10
<1>12. /\ Len(a) + 1 \in 1 .. Len(b)
       /\ text[n + 1] = "$" => Len(a) + 2 \in 1 .. Len(b)
       /\ Len(e) \in Nat
  BY <1>4, <1>7, <1>10
<1>13. Len(a) + 1 <= Len(e) /\ e[Len(a) + 1] = text[n + 1]
  BY <1>4, <1>7, <1>8, <1>11, <1>12
<1>14. text[n + 1] = "$" => Len(a) + 2 <= Len(e) /\ e[Len(a) + 2] = "$"
  BY <1>4, <1>7, <1>9, <1>11, <1>12
<1>15. Escaped(text) = e
  BY <1>2, <1>5 DEF e, b
<1> QED
  BY <1>4, <1>6, <1>7, <1>10, <1>13, <1>14, <1>15 DEF a, b, HasNext

\* How much of an escaped text was read, and that it came out as it was.
EscapeSoFar ==
  \A text \in Texts : \A f :
    str = Escaped(text) /\ Doubling(text, f) =>
      \E n \in 0 .. Len(text) :
        /\ result = SubSeq(text, 1, n) /\ undefined_params = <<>>
        /\ \/ state = "ST_NONE" /\ it = Len(f[n])
           \/ /\ state = "ST_PARAM_BEGIN" /\ it = Len(f[n]) + 1
              /\ n < Len(text) /\ text[n + 1] = "$"

EscapeInv == ScanInv /\ EscapeSoFar

\* No character has been read.
LEMMA EscapeInit == Init => EscapeInv
<1> SUFFICES ASSUME Init, NEW text \in Texts, NEW f, str = Escaped(text), Doubling(text, f)
             PROVE  \E n \in 0 .. Len(text) :
                      /\ result = SubSeq(text, 1, n) /\ undefined_params = <<>>
                      /\ state = "ST_NONE" /\ it = Len(f[n])
  BY ScanInit DEF EscapeInv, EscapeSoFar
<1>1. text \in Seq(Chars) /\ 0 \in 0 .. Len(text)
  BY TextsAssumption
<1>2. f[0] = <<>> /\ SubSeq(text, 1, 0) = <<>>
  BY <1>1 DEF Doubling, Concats
<1>3. result = SubSeq(text, 1, 0) /\ undefined_params = <<>> /\ state = "ST_NONE" /\ it = Len(f[0])
  BY <1>2 DEF Init
<1> QED
  BY <1>1, <1>3

\* Reading a doubled dollar, or a character that is none, gives the next
\* character of the text.
LEMMA EscapeStep == EscapeInv /\ [Next]_vars => EscapeInv'
<1> SUFFICES ASSUME EscapeInv, [Next]_vars, NEW text \in Texts, NEW f,
                    str' = Escaped(text), Doubling(text, f)
             PROVE  \E n \in 0 .. Len(text) :
                      /\ result' = SubSeq(text, 1, n) /\ undefined_params' = <<>>
                      /\ \/ state' = "ST_NONE" /\ it' = Len(f[n])
                         \/ /\ state' = "ST_PARAM_BEGIN" /\ it' = Len(f[n]) + 1
                            /\ n < Len(text) /\ text[n + 1] = "$"
  BY ScanStep DEF EscapeInv, EscapeSoFar
<1>0. str' = str
  BY DEF Next, Dollar, Plain, Open, Escape, NoParameter, Name, Close, Return, Reads, vars
<1>1. PICK n \in 0 .. Len(text) :
        /\ result = SubSeq(text, 1, n) /\ undefined_params = <<>>
        /\ \/ state = "ST_NONE" /\ it = Len(f[n])
           \/ /\ state = "ST_PARAM_BEGIN" /\ it = Len(f[n]) + 1
              /\ n < Len(text) /\ text[n + 1] = "$"
  BY <1>0 DEF EscapeInv, EscapeSoFar
<1>2. /\ text \in Seq(Chars) /\ str \in Seq(Chars) /\ Len(text) \in Nat /\ Len(str) \in Nat
      /\ str = Escaped(text) /\ f[n] \in Seq(Chars) /\ Len(f[n]) \in Nat /\ it \in Nat
  <2>1. text \in Seq(Chars) /\ str \in Seq(Chars) /\ it \in Nat
    BY TextsAssumption DEF EscapeInv, ScanInv, TypeOK
  <2>2. f[n] \in Seq(Chars)
    BY DEF Doubling, Concats
  <2> QED
    BY <2>1, <2>2, <1>0
<1>3. n = Len(text) => Len(f[n]) = Len(str)
  BY <1>2, EscapedIs
<1>4. ASSUME n < Len(text)
      PROVE  /\ Len(f[n]) + 1 <= Len(str) /\ str[Len(f[n]) + 1] = text[n + 1]
             /\ text[n + 1] = "$" => Len(f[n]) + 2 <= Len(str) /\ str[Len(f[n]) + 2] = "$"
             /\ Len(f[n + 1]) = Len(f[n]) + IF text[n + 1] = "$" THEN 2 ELSE 1
  <2>1. n \in 0 .. Len(text) - 1
    BY <1>2, <1>4
  <2>2. HasNext(text, f, n)
    BY <1>2, <2>1, EscapedHas
  <2> QED
    BY <1>2, <2>2 DEF HasNext
<1>5. ASSUME n < Len(text)
      PROVE  /\ n + 1 \in 0 .. Len(text) /\ text[n + 1] \in Chars
             /\ Append(SubSeq(text, 1, n), text[n + 1]) = SubSeq(text, 1, n + 1)
  <2>1. n + 1 \in 1 .. Len(text) /\ 1 \in 1 .. Len(text) /\ n + 1 \in 0 .. Len(text) /\ n + 1 - 1 = n
    BY <1>2, <1>5
  <2>2. \A m \in 1 .. Len(text) : SubSeq(text, 1, m) = SubSeq(text, 1, m - 1) \o <<text[m]>>
    BY <1>2, <2>1, SubSeqRecursiveSecond
  <2>3. SubSeq(text, 1, n + 1) = SubSeq(text, 1, n) \o <<text[n + 1]>>
    <3>1. PICK m \in 1 .. Len(text) : m = n + 1
      BY <2>1
    <3>2. m - 1 = n
      BY <3>1
    <3> QED
      BY <2>2, <3>1, <3>2
  <2>4. SubSeq(text, 1, n) \in Seq(Chars) /\ text[n + 1] \in Chars
    BY <1>1, <1>2, <2>1, SubSeqProperties
  <2> QED
    BY <2>1, <2>3, <2>4, AppendIsConcat
<1>6. ASSUME Reads PROVE it < Len(str) /\ it' = it + 1
  BY <1>6 DEF Reads
<1> USE DEF c, is_last
<1>7. CASE Dollar
  <2>1. Reads /\ state = "ST_NONE" /\ str[it + 1] = "$" /\ state' = "ST_PARAM_BEGIN"
        /\ UNCHANGED <<result, undefined_params>>
    BY <1>7 DEF Dollar
  <2>2. it = Len(f[n]) /\ n < Len(text)
    BY <2>1, <1>1, <1>2, <1>3, <1>6
  <2>3. text[n + 1] = "$"
    BY <2>1, <2>2, <1>4
  <2> QED
    BY <2>1, <2>2, <2>3, <1>1, <1>6
<1>8. CASE Plain
  <2>1. Reads /\ state = "ST_NONE" /\ (str[it + 1] # "$" \/ it + 1 = Len(str)) /\ state' = "ST_NONE"
        /\ result' = Append(result, str[it + 1]) /\ undefined_params' = undefined_params
    BY <1>8 DEF Plain
  <2>2. it = Len(f[n]) /\ n < Len(text)
    BY <2>1, <1>1, <1>2, <1>3, <1>6
  <2>3. str[it + 1] = text[n + 1] /\ text[n + 1] # "$"
    BY <2>1, <2>2, <1>2, <1>4
  <2>4. result' = SubSeq(text, 1, n + 1) /\ it' = Len(f[n + 1]) /\ n + 1 \in 0 .. Len(text)
    BY <2>1, <2>2, <2>3, <1>1, <1>4, <1>5, <1>6
  <2> QED
    BY <2>1, <2>4, <1>1
<1>9. ASSUME state = "ST_PARAM_BEGIN" PROVE n < Len(text) /\ text[n + 1] = "$" /\ it = Len(f[n]) + 1 /\ str[it + 1] = "$"
  BY <1>9, <1>1, <1>2, <1>4
<1>10. CASE Escape
  <2>1. Reads /\ state = "ST_PARAM_BEGIN" /\ str[it + 1] = "$" /\ state' = "ST_NONE"
        /\ result' = Append(result, str[it + 1]) /\ undefined_params' = undefined_params
    BY <1>10 DEF Escape
  <2>2. n < Len(text) /\ text[n + 1] = "$" /\ it = Len(f[n]) + 1 /\ it' = it + 1
    BY <2>1, <1>6, <1>9
  <2>3. result' = SubSeq(text, 1, n + 1)
    BY <2>1, <2>2, <1>1, <1>5
  <2>4. it' = Len(f[n + 1]) /\ n + 1 \in 0 .. Len(text)
    BY <2>2, <1>2, <1>4, <1>5
  <2> QED
    BY <2>1, <2>3, <2>4, <1>1
<1>11. CASE Open \/ NoParameter
  BY <1>9, <1>11 DEF Open, NoParameter
<1>12. CASE Name \/ Close
  BY <1>1, <1>12 DEF Name, Close
<1>13. CASE Return \/ UNCHANGED vars
  BY <1>1, <1>13 DEF Return, vars
<1> QED
  BY <1>7, <1>8, <1>10, <1>11, <1>12, <1>13 DEF Next

\* The same for every state of a call.
LEMMA EscapeInvariant == Spec => []EscapeInv
  BY EscapeInit, EscapeStep, PTL DEF Spec

\* A text whose dollars are doubled comes out of string_replace_parameters as it
\* was, whatever the parameters are: an including file can pass parameters on to
\* the file it includes.
THEOREM EscapesAreUndone == Spec => []EscapeIsUndone
<1>1. EscapeInv => EscapeIsUndone
  <2> SUFFICES ASSUME EscapeInv, returned # "no", NEW text \in Texts, str = Escaped(text)
               PROVE  returned = "result" /\ Escaped(result) = str /\ undefined_params = <<>>
    BY DEF EscapeIsUndone, EscapedTexts
  <2>1. text \in Seq(Chars) /\ Len(text) \in Nat /\ it = Len(str)
    BY TextsAssumption DEF EscapeInv, ScanInv, Scanned
  <2>2. PICK f : Doubling(text, f)
    BY <2>1, EscapedIs
  <2>3. PICK n \in 0 .. Len(text) :
          /\ result = SubSeq(text, 1, n) /\ undefined_params = <<>>
          /\ \/ state = "ST_NONE" /\ it = Len(f[n])
             \/ /\ state = "ST_PARAM_BEGIN" /\ it = Len(f[n]) + 1
                /\ n < Len(text) /\ text[n + 1] = "$"
    BY <2>2 DEF EscapeInv, EscapeSoFar
  <2>4. ASSUME n < Len(text) PROVE FALSE
    <3>0. n \in 0 .. Len(text) - 1
      BY <2>1, <2>4
    <3>a. HasNext(text, f, n)
      BY <2>1, <2>2, <3>0, EscapedHas
    <3>1. /\ str \in Seq(Chars) /\ f[n] \in Seq(Chars) /\ Len(f[n]) + 1 <= Len(str)
          /\ text[n + 1] = "$" => Len(f[n]) + 2 <= Len(str)
      BY <3>a DEF HasNext
    <3>2. Len(str) \in Nat /\ Len(f[n]) \in Nat
      BY <3>1
    <3> QED
      BY <2>1, <2>3, <3>1, <3>2
  <2>5. n = Len(text) /\ state = "ST_NONE"
    BY <2>1, <2>3, <2>4
  <2>6. result = text
    BY <2>1, <2>3, <2>5, SubSeqFull
  <2>7. returned = "result"
    BY <2>5 DEF EscapeInv, ScanInv, Scanned, TypeOK
  <2> QED
    BY <2>3, <2>6, <2>7
<1> QED
  BY <1>1, EscapeInvariant, PTL
=============================================================================

----------------------------- MODULE CodeGenProofs -----------------------------
(***************************************************************************)
(* What CMakeGenerator writes, for every configuration.  The indentation   *)
(* is that of the open blocks, so that the assertion in unindent() never   *)
(* fails; the blocks of the text are nested and closed by their own ends;  *)
(* and the text defines everything before it is used.                      *)
(***************************************************************************)
EXTENDS CodeGen, NumberInduction, SequenceTheorems

\* The steps outside of a target keep to the outermost level.
Outside ==
  \/ Begin \/ TargetOptions \/ SetSettings \/ SystemPackages \/ ExternalPackage \/ ExternalDone
  \/ Done

\* They keep the types and the indentation.
LEMMA OutsideKeeps == TypeOK /\ Outside => TypeOK'
<1> SUFFICES ASSUME TypeOK, Outside PROVE TypeOK'
  OBVIOUS
<1> USE DEF TypeOK, Level, group, loopVars
<1>1. CASE Begin            BY <1>1 DEF Begin
<1>2. CASE TargetOptions    BY <1>2 DEF TargetOptions
<1>3. CASE SetSettings      BY <1>3 DEF SetSettings
<1>4. CASE SystemPackages   BY <1>4 DEF SystemPackages
<1>5. CASE ExternalPackage  BY <1>5 DEF ExternalPackage
<1>6. CASE ExternalDone     BY <1>6 DEF ExternalDone
<1>7. CASE Done             BY <1>7 DEF Done
<1> QED BY <1>1, <1>2, <1>3, <1>4, <1>5, <1>6, <1>7 DEF Outside

\* A target, a group and a visibility are one level each, and each is left by
\* as much as it was entered.
Inside ==
  \/ TargetBegin \/ GroupSkip \/ GroupBegin \/ VisibilitySkip \/ VisibilityBegin
  \/ GlobalValues \/ Configuration \/ VisibilityEnd \/ GroupEnd \/ TargetEnd

\* They keep the types and the indentation, too.
LEMMA InsideKeeps == TypeOK /\ Inside => TypeOK'
<1> SUFFICES ASSUME TypeOK, Inside PROVE TypeOK'
  OBVIOUS
<1> USE DEF TypeOK, Level, group, loopVars
<1>1. CASE TargetBegin      BY <1>1 DEF TargetBegin, Groups
<1>2. CASE GroupSkip        BY <1>2 DEF GroupSkip
<1>3. CASE GroupBegin       BY <1>3 DEF GroupBegin
<1>4. CASE VisibilitySkip   BY <1>4 DEF VisibilitySkip
<1>5. CASE VisibilityBegin  BY <1>5 DEF VisibilityBegin
<1>6. CASE GlobalValues     BY <1>6 DEF GlobalValues
<1>7. CASE Configuration    BY <1>7 DEF Configuration
<1>8. CASE VisibilityEnd    BY <1>8 DEF VisibilityEnd
<1>9. CASE GroupEnd         BY <1>9 DEF GroupEnd
<1>10. CASE TargetEnd       BY <1>10 DEF TargetEnd
<1> QED
  BY <1>1, <1>2, <1>3, <1>4, <1>5, <1>6, <1>7, <1>8, <1>9, <1>10 DEF Inside

\* The indentation never becomes negative and is that of the open blocks, for
\* every configuration (the assertion in unindent()).
THEOREM IndentationIsLevel == Spec => []TypeOK
<1>1. Init => TypeOK
  BY DEF Init, TypeOK, Level
<1>2. TypeOK /\ [Next]_vars => TypeOK'
  <2> SUFFICES ASSUME TypeOK, [Next]_vars PROVE TypeOK'
    OBVIOUS
  <2>1. CASE Next
    BY <2>1, OutsideKeeps, InsideKeeps DEF Next, Outside, Inside
  <2>2. CASE UNCHANGED vars
    BY <2>2 DEF vars, loopVars, TypeOK, Level, group
  <2> QED BY <2>1, <2>2
<1> QED BY <1>1, <1>2, PTL DEF Spec

-----------------------------------------------------------------------------
\* Lists.

\* A function over the first numbers is a list.
LEMMA ListIs ==
  ASSUME NEW n \in Nat, NEW f, f = [i \in 1 .. n |-> f[i]]
  PROVE  IsList(f) /\ Len(f) = n /\ DOMAIN f = 1 .. n
<1>1. f \in [1 .. n -> ToSet(f)]
  BY DEF ToSet
<1>2. f \in Seq(ToSet(f))
  BY <1>1
<1>3. Len(f) = n
  BY <1>1
<1> QED
  BY <1>2, <1>3, <1>1 DEF IsList

\* A list is a function over its places.
LEMMA ListHas ==
  ASSUME NEW f, IsList(f)
  PROVE  Len(f) \in Nat /\ DOMAIN f = 1 .. Len(f) /\ f = [i \in 1 .. Len(f) |-> f[i]]
BY DEF IsList

\* A list of some type.
LEMMA SeqIsList == ASSUME NEW S, NEW f \in Seq(S) PROVE IsList(f)
<1>1. Len(f) \in Nat /\ f = [i \in 1 .. Len(f) |-> f[i]]
  OBVIOUS
<1> QED
  BY <1>1, ListIs

\* Two lists, one after the other.
LEMMA ListsConcat ==
  ASSUME NEW f, NEW g, IsList(f), IsList(g)
  PROVE  /\ IsList(f \o g) /\ Len(f \o g) = Len(f) + Len(g)
         /\ \A i \in 1 .. Len(f) : (f \o g)[i] = f[i]
         /\ \A i \in 1 .. Len(g) : (f \o g)[Len(f) + i] = g[i]
<1> DEFINE S == ToSet(f) \cup ToSet(g)
<1>1. f \in Seq(S) /\ g \in Seq(S)
  BY SeqMonotonic DEF IsList
<1> HIDE DEF S
<1>2. Len(f) \in Nat /\ Len(g) \in Nat
  BY <1>1
<1>3. /\ f \o g \in Seq(S) /\ Len(f \o g) = Len(f) + Len(g)
      /\ \A i \in 1 .. Len(f) + Len(g) : (f \o g)[i] = IF i <= Len(f) THEN f[i] ELSE g[i - Len(f)]
  BY <1>1, ConcatProperties
<1>4. ASSUME NEW i \in 1 .. Len(g) PROVE (f \o g)[Len(f) + i] = g[i]
  <2>1. Len(f) + i \in 1 .. Len(f) + Len(g) /\ ~(Len(f) + i <= Len(f)) /\ (Len(f) + i) - Len(f) = i
    BY <1>2
  <2> QED
    BY <1>3, <2>1
<1>5. ASSUME NEW i \in 1 .. Len(f) PROVE (f \o g)[i] = f[i]
  <2>1. i \in 1 .. Len(f) + Len(g) /\ i <= Len(f)
    BY <1>2
  <2> QED
    BY <1>3, <2>1
<1> QED
  BY <1>3, <1>4, <1>5, SeqIsList

-----------------------------------------------------------------------------
\* The blocks that are open, the innermost last.

Stacks == Seq(Opening)
Push(o, word) == o \o <<word>>

\* The words that open a block.
LEMMA OpeningAre ==
  /\ ToSet(Groups) = {"sources", "includes", "pchs", "dependencies", "definitions", "properties",
                      "compile_options", "link_options"}
  /\ ToSet(Visibilities) = {"PUBLIC", "INTERFACE", "PRIVATE"}
  /\ "?" \notin Opening /\ {"function", "if", "else", "config"} \subseteq Opening
  /\ ToSet(Groups) \subseteq Opening /\ ToSet(Visibilities) \subseteq Opening
<1>1. ToSet(Groups) = {"sources", "includes", "pchs", "dependencies", "definitions", "properties",
                       "compile_options", "link_options"}
  <2>1. DOMAIN Groups = 1 .. 8
    BY DEF Groups
  <2>2. \A i \in 1 .. 8 : i = 1 \/ i = 2 \/ i = 3 \/ i = 4 \/ i = 5 \/ i = 6 \/ i = 7 \/ i = 8
    OBVIOUS
  <2>3. /\ Groups[1] = "sources" /\ Groups[2] = "includes" /\ Groups[3] = "pchs"
        /\ Groups[4] = "dependencies" /\ Groups[5] = "definitions" /\ Groups[6] = "properties"
        /\ Groups[7] = "compile_options" /\ Groups[8] = "link_options"
    BY DEF Groups
  <2>4. 1 \in 1 .. 8 /\ 2 \in 1 .. 8 /\ 3 \in 1 .. 8 /\ 4 \in 1 .. 8 /\ 5 \in 1 .. 8 /\ 6 \in 1 .. 8
        /\ 7 \in 1 .. 8 /\ 8 \in 1 .. 8
    OBVIOUS
  <2> QED
    BY <2>1, <2>2, <2>3, <2>4 DEF ToSet
<1>2. ToSet(Visibilities) = {"PUBLIC", "INTERFACE", "PRIVATE"}
  <2>1. DOMAIN Visibilities = 1 .. 3
    BY DEF Visibilities
  <2>2. \A i \in 1 .. 3 : i = 1 \/ i = 2 \/ i = 3
    OBVIOUS
  <2>3. Visibilities[1] = "PUBLIC" /\ Visibilities[2] = "INTERFACE" /\ Visibilities[3] = "PRIVATE"
    BY DEF Visibilities
  <2> QED
    BY <2>1, <2>2, <2>3 DEF ToSet
<1> QED
  BY <1>1, <1>2 DEF Opening

\* A block more.
LEMMA PushIs ==
  ASSUME NEW o \in Stacks, NEW word \in Opening
  PROVE  /\ Push(o, word) \in Stacks /\ Push(o, word) # <<>>
         /\ Len(Push(o, word)) = Len(o) + 1 /\ Len(o) \in Nat
         /\ Last(Push(o, word)) = word /\ Front(Push(o, word)) = o
<1>1. <<word>> \in Seq(Opening) /\ Len(<<word>>) = 1 /\ <<word>>[1] = word /\ Len(o) \in Nat
  BY DEF Stacks
<1> DEFINE p == Push(o, word)
<1>2. /\ p \in Seq(Opening) /\ Len(p) = Len(o) + 1
      /\ \A i \in 1 .. Len(o) + 1 : p[i] = IF i <= Len(o) THEN o[i] ELSE <<word>>[i - Len(o)]
  BY <1>1, ConcatProperties DEF Stacks, Push
<1> HIDE DEF p
<1>3. p[Len(o) + 1] = word
  <2>1. Len(o) + 1 \in 1 .. Len(o) + 1 /\ ~(Len(o) + 1 <= Len(o)) /\ (Len(o) + 1) - Len(o) = 1
    BY <1>1
  <2> QED
    BY <1>1, <1>2, <2>1
<1>4. p # <<>>
  BY <1>1, <1>2
<1>5. Front(p) = o
  <2>1. Len(p) - 1 = Len(o)
    BY <1>1, <1>2
  <2>2. \A i \in 1 .. Len(o) : p[i] \in Opening
    BY <1>1, <1>2
  <2>3. /\ SubSeq(p, 1, Len(o)) \in Seq(Opening)
        /\ Len(SubSeq(p, 1, Len(o))) = (IF 1 <= Len(o) THEN Len(o) - 1 + 1 ELSE 0)
        /\ \A i \in 1 .. Len(o) - 1 + 1 : SubSeq(p, 1, Len(o))[i] = p[1 + i - 1]
    BY <1>1, <2>2, SubSeqProperties
  <2> DEFINE r == SubSeq(p, 1, Len(o))
  <2> HIDE DEF r
  <2>4. Len(r) = Len(o)
    BY <1>1, <2>3 DEF r
  <2>5. ASSUME NEW i \in 1 .. Len(r) PROVE r[i] = o[i]
    <3>1. i \in 1 .. Len(o) - 1 + 1 /\ 1 + i - 1 = i /\ i \in 1 .. Len(o) + 1 /\ i <= Len(o)
      BY <1>1, <2>4
    <3>2. r[i] = p[i]
      BY <2>3, <3>1 DEF r
    <3> QED
      BY <1>2, <3>1, <3>2
  <2>6. r \in Seq(Opening) /\ o \in Seq(Opening)
    BY <2>3 DEF r, Stacks
  <2>7. r = o
    BY <2>4, <2>5, <2>6, SeqEqual
  <2> QED
    BY <2>1, <2>7 DEF Front, r
<1> QED
  BY <1>1, <1>2, <1>3, <1>4, <1>5 DEF p, Last, Stacks

\* No stack is the mark of a wrong end.
LEMMA NoStack == <<"?">> \notin Stacks
<1> SUFFICES ASSUME <<"?">> \in Seq(Opening) PROVE FALSE
  BY DEF Stacks
<1>1. "?" \in Opening
  BY ElementOfSeq
<1> QED
  BY <1>1, OpeningAre

-----------------------------------------------------------------------------
\* How a line is nested.

\* The words of a line inside of the innermost block, which opens none.
Plain(word) ==
  word \notin Opening \cup {"else", "endif", "endfunction", "endconfig", "endgroup"}

\* Blocks that are opened and closed by words of their own.
Blocks == {"function", "if", "config"} \cup ToSet(Groups)

\* The line l turns the stack a into b, and is indented as deep as it is nested.
Step(a, l, d, b) ==
  /\ l = [indent |-> l.indent, text |-> l.text] /\ l.indent \in Nat
  /\ OpenAt(a, l.text[1]) \in Stacks /\ l.indent + d = Len(OpenAt(a, l.text[1]))
  /\ b = OpenAfter(a, l)

\* What a word closes.
LEMMA ClosesIs ==
  /\ \A word : word \notin {"else", "endif", "endfunction", "endconfig", "endgroup"} => Closes(word) = {}
  /\ Closes("else") = {"if", "else"} /\ Closes("endif") = {"if", "else"}
  /\ Closes("endfunction") = {"function"} /\ Closes("endconfig") = {"config"}
  /\ Closes("endgroup") = ToSet(Groups)
BY DEF Closes

\* A plain word leaves the stack.
LEMMA PlainOpens ==
  ASSUME NEW o \in Stacks, NEW word, Plain(word) PROVE OpenAt(o, word) = o /\ word \notin Opening
<1>1. word \notin {"endgroup"} \cup ToSet(Visibilities) /\ Closes(word) = {}
  BY OpeningAre, ClosesIs DEF Plain
<1> QED
  BY <1>1 DEF OpenAt, Plain

\* A block opens in the stack that is there.
LEMMA BlockOpens ==
  ASSUME NEW o \in Stacks, NEW word \in Blocks PROVE OpenAt(o, word) = o /\ word \in Opening
<1>1. word \notin {"endgroup"} \cup ToSet(Visibilities) /\ Closes(word) = {}
  BY OpeningAre, ClosesIs DEF Blocks
<1> QED
  BY <1>1, OpeningAre DEF OpenAt, Blocks

\* The ends of blocks other than groups.
LEMMA EndCloses ==
  ASSUME NEW o \in Stacks, NEW word, NEW block \in {"function", "if", "else", "config"},
         block \in Closes(word), word # "endgroup"
  PROVE  OpenAt(Push(o, block), word) = o
<1>1. Last(Push(o, block)) = block /\ Front(Push(o, block)) = o /\ Push(o, block) # <<>>
  BY PushIs, OpeningAre
<1>2. block \notin ToSet(Visibilities)
  BY OpeningAre
<1> HIDE DEF Push
<1> QED
  BY <1>1, <1>2 DEF OpenAt

\* The end of a group without visibilities.
LEMMA GroupCloses ==
  ASSUME NEW o \in Stacks, NEW g \in ToSet(Groups) PROVE OpenAt(Push(o, g), "endgroup") = o
<1>1. Last(Push(o, g)) = g /\ Front(Push(o, g)) = o /\ Push(o, g) # <<>>
  BY PushIs, OpeningAre
<1>2. g \notin ToSet(Visibilities) /\ Closes("endgroup") = ToSet(Groups) /\ g \in Closes("endgroup")
  BY OpeningAre, ClosesIs
<1> HIDE DEF Push
<1> QED
  BY <1>1, <1>2 DEF OpenAt

\* The end of a group ends its last visibility.
LEMMA VisibilityCloses ==
  ASSUME NEW o \in Stacks, NEW g \in ToSet(Groups), NEW v \in ToSet(Visibilities)
  PROVE  OpenAt(Push(Push(o, g), v), "endgroup") = o
<1>1. Last(Push(o, g)) = g /\ Front(Push(o, g)) = o /\ Push(o, g) # <<>> /\ Push(o, g) \in Stacks
  BY PushIs, OpeningAre
<1>2. Last(Push(Push(o, g), v)) = v /\ Front(Push(Push(o, g), v)) = Push(o, g) /\ Push(Push(o, g), v) # <<>>
  BY <1>1, PushIs, OpeningAre
<1>3. Closes("endgroup") = ToSet(Groups) /\ g \in Closes("endgroup")
  BY OpeningAre, ClosesIs
<1> HIDE DEF Push
<1> QED
  BY <1>1, <1>2, <1>3 DEF OpenAt

\* A visibility is in its group, and ends the one before it.
LEMMA VisibilityOpens ==
  ASSUME NEW o \in Stacks, NEW g \in ToSet(Groups), NEW v \in ToSet(Visibilities), NEW w \in ToSet(Visibilities)
  PROVE  OpenAt(Push(o, g), v) = Push(o, g) /\ OpenAt(Push(Push(o, g), w), v) = Push(o, g)
<1>1. Last(Push(o, g)) = g /\ Push(o, g) # <<>> /\ Push(o, g) \in Stacks
  BY PushIs, OpeningAre
<1>2. Last(Push(Push(o, g), w)) = w /\ Front(Push(Push(o, g), w)) = Push(o, g) /\ Push(Push(o, g), w) # <<>>
  BY <1>1, PushIs, OpeningAre
<1>3. Closes(v) = {} /\ g \notin ToSet(Visibilities)
  BY OpeningAre, ClosesIs
<1> HIDE DEF Push
<1> QED
  BY <1>1, <1>2, <1>3 DEF OpenAt

\* The lines L, indented by d more, turn the stack o into q and are nested well.
Nests(f, L, d) == \A i \in 1 .. Len(L) : Step(f[i - 1], L[i], d, f[i])
Nested(o, L, d, q) ==
  /\ IsList(L) /\ o \in Stacks /\ q \in Stacks
  /\ \E f : f[0] = o /\ f[Len(L)] = q /\ Nests(f, L, d)

\* No lines.
LEMMA NestedNothing == ASSUME NEW o \in Stacks, NEW d PROVE Nested(o, <<>>, d, o)
<1>1. <<>> \in Seq({}) /\ Len(<<>>) = 0
  OBVIOUS
<1>3. IsList(<<>>)
  BY <1>1, SeqIsList
<1>2. [i \in {0} |-> o][0] = o /\ 1 .. 0 = {}
  OBVIOUS
<1> QED
  BY <1>1, <1>2, <1>3 DEF Nested, Nests

\* One line.
LEMMA NestedLine ==
  ASSUME NEW o \in Stacks, NEW q \in Stacks, NEW text, NEW d, Step(o, [indent |-> 0, text |-> text], d, q)
  PROVE  Nested(o, Line(text), d, q)
<1> DEFINE l == [indent |-> 0, text |-> text]
<1>1. <<l>> \in Seq({l}) /\ Len(<<l>>) = 1 /\ <<l>>[1] = l
  OBVIOUS
<1>2. IsList(<<l>>)
  BY <1>1, SeqIsList
<1> DEFINE f == [i \in 0 .. 1 |-> IF i = 0 THEN o ELSE q]
<1>3. f[0] = o /\ f[1] = q
  OBVIOUS
<1> HIDE DEF f, l
<1>4. Nests(f, <<l>>, d)
  <2> SUFFICES ASSUME NEW i \in 1 .. 1 PROVE Step(f[i - 1], <<l>>[i], d, f[i])
    BY <1>1 DEF Nests
  <2>1. i = 1 /\ i - 1 = 0
    OBVIOUS
  <2>2. Step(o, l, d, q)
    BY DEF l
  <2> QED
    BY <1>1, <1>3, <2>1, <2>2
<1>5. Nested(o, <<l>>, d, q)
  BY <1>1, <1>2, <1>3, <1>4 DEF Nested
<1> QED
  BY <1>5 DEF Line, l

\* One part after the other.
LEMMA NestedConcat ==
  ASSUME NEW o, NEW p, NEW q, NEW d, NEW L, NEW M, Nested(o, L, d, p), Nested(p, M, d, q)
  PROVE  Nested(o, L \o M, d, q)
<1>1. /\ IsList(L) /\ IsList(M) /\ o \in Stacks /\ q \in Stacks
      /\ Len(L) \in Nat /\ Len(M) \in Nat
  BY ListHas DEF Nested
<1>2. PICK f : f[0] = o /\ f[Len(L)] = p /\ Nests(f, L, d)
  BY DEF Nested
<1>3. PICK g : g[0] = p /\ g[Len(M)] = q /\ Nests(g, M, d)
  BY DEF Nested
<1> DEFINE h == [i \in 0 .. Len(L) + Len(M) |-> IF i <= Len(L) THEN f[i] ELSE g[i - Len(L)]]
<1>4. \A i \in 0 .. Len(L) : h[i] = f[i]
  BY <1>1
<1>5. \A i \in 0 .. Len(M) : h[Len(L) + i] = g[i]
  <2>1. ASSUME NEW i \in 0 .. Len(M) PROVE h[Len(L) + i] = g[i]
    <3>1. Len(L) + i \in 0 .. Len(L) + Len(M) /\ (Len(L) + i) - Len(L) = i
      BY <1>1
    <3>2. CASE i = 0
      BY <3>1, <3>2, <1>1, <1>2, <1>3
    <3>3. CASE i # 0
      <4>1. ~(Len(L) + i <= Len(L))
        BY <3>3, <1>1
      <4> QED
        BY <3>1, <4>1
    <3> QED
      BY <3>2, <3>3
  <2> QED
    BY <2>1
<1> HIDE DEF h
<1>6. /\ IsList(L \o M) /\ Len(L \o M) = Len(L) + Len(M)
      /\ \A i \in 1 .. Len(L) : (L \o M)[i] = L[i]
      /\ \A i \in 1 .. Len(M) : (L \o M)[Len(L) + i] = M[i]
  BY <1>1, ListsConcat
<1>7. Nests(h, L \o M, d)
  <2> SUFFICES ASSUME NEW i \in 1 .. Len(L) + Len(M) PROVE Step(h[i - 1], (L \o M)[i], d, h[i])
    BY <1>6 DEF Nests
  <2>1. CASE i <= Len(L)
    <3>1. i \in 1 .. Len(L) /\ i - 1 \in 0 .. Len(L) /\ i \in 0 .. Len(L)
      BY <2>1, <1>1
    <3>2. Step(f[i - 1], L[i], d, f[i])
      BY <3>1, <1>2 DEF Nests
    <3> QED
      BY <3>1, <3>2, <1>4, <1>6
  <2>2. CASE ~(i <= Len(L))
    <3>1. PICK k \in 1 .. Len(M) : i = Len(L) + k
      BY <2>2, <1>1
    <3>2. k - 1 \in 0 .. Len(M) /\ k \in 0 .. Len(M) /\ i - 1 = Len(L) + (k - 1)
      BY <3>1, <1>1
    <3>3. Step(g[k - 1], M[k], d, g[k])
      BY <1>3 DEF Nests
    <3>4. h[i - 1] = g[k - 1] /\ h[i] = g[k] /\ (L \o M)[i] = M[k]
      BY <3>1, <3>2, <1>5, <1>6
    <3> QED
      BY <3>3, <3>4
  <2> QED
    BY <2>1, <2>2
<1>8. h[0] = o /\ h[Len(L) + Len(M)] = q
  <2>1. 0 \in 0 .. Len(L) /\ Len(M) \in 0 .. Len(M)
    BY <1>1
  <2> QED
    BY <2>1, <1>2, <1>3, <1>4, <1>5
<1> QED
  BY <1>1, <1>6, <1>7, <1>8 DEF Nested

\* Lines that are indented by k.
Shift(L, k) == [i \in DOMAIN L |-> [L[i] EXCEPT !.indent = @ + k]]

\* Lines that are nested stay so when they are indented as deep as they are.
LEMMA NestedShift ==
  ASSUME NEW o, NEW q, NEW L, NEW d \in Nat, NEW k \in Nat, Nested(o, L, d + k, q)
  PROVE  Nested(o, Shift(L, k), d, q)
<1>1. IsList(L) /\ o \in Stacks /\ q \in Stacks /\ Len(L) \in Nat /\ DOMAIN L = 1 .. Len(L)
  BY ListHas DEF Nested
<1>2. PICK f : f[0] = o /\ f[Len(L)] = q /\ Nests(f, L, d + k)
  BY DEF Nested
<1> DEFINE M == Shift(L, k)
<1>3. M = [i \in 1 .. Len(L) |-> [L[i] EXCEPT !.indent = @ + k]]
  BY <1>1 DEF Shift
<1> HIDE DEF M
<1>4. \A i \in 1 .. Len(L) : M[i] = [L[i] EXCEPT !.indent = @ + k]
  BY <1>3
<1>5. M = [i \in 1 .. Len(L) |-> M[i]]
  BY <1>3
<1>6. IsList(M) /\ Len(M) = Len(L)
  BY <1>1, <1>5, ListIs
<1>7. Nests(f, M, d)
  <2> SUFFICES ASSUME NEW i \in 1 .. Len(L) PROVE Step(f[i - 1], M[i], d, f[i])
    BY <1>6 DEF Nests
  <2>1. Step(f[i - 1], L[i], d + k, f[i])
    BY <1>2 DEF Nests
  <2> DEFINE l == L[i]
             m == M[i]
  <2>2. l = [indent |-> l.indent, text |-> l.text] /\ l.indent \in Nat
    BY <2>1 DEF Step
  <2>3. m = [l EXCEPT !.indent = @ + k]
    BY <1>4
  <2> HIDE DEF l, m
  <2>4. m = [indent |-> l.indent + k, text |-> l.text]
    BY <2>2, <2>3
  <2>5. m.indent = l.indent + k /\ m.text = l.text /\ m.indent \in Nat /\ m = [indent |-> m.indent, text |-> m.text]
    BY <2>2, <2>4
  <2>6. m.indent + d = l.indent + (d + k)
    BY <2>2, <2>5
  <2> QED
    BY <2>1, <2>5, <2>6 DEF Step, OpenAfter, l, m
<1> QED
  BY <1>1, <1>2, <1>6, <1>7 DEF Nested, M

\* A line that leaves the stack a open, and what it opens itself.
LEMMA StepLine ==
  ASSUME NEW o \in Stacks, NEW text, NEW a \in Stacks, OpenAt(o, text[1]) = a, NEW q,
         q = a \o (IF text[1] \in Opening THEN <<text[1]>> ELSE <<>>)
  PROVE  Step(o, [indent |-> 0, text |-> text], Len(a), q)
<1> DEFINE l == [indent |-> 0, text |-> text]
<1>1. l.indent = 0 /\ l.text = text /\ l = [indent |-> l.indent, text |-> l.text]
  OBVIOUS
<1>2. Len(a) \in Nat
  BY DEF Stacks
<1> HIDE DEF l
<1>3. Step(o, l, Len(a), q)
  BY <1>1, <1>2 DEF Step, OpenAfter
<1> QED
  BY <1>3 DEF l

\* A line that is indented as deep as the stack.
LEMMA NestedPlain ==
  ASSUME NEW o \in Stacks, NEW text, Plain(text[1])
  PROVE  Nested(o, Line(text), Len(o), o)
<1>1. OpenAt(o, text[1]) = o /\ text[1] \notin Opening
  BY PlainOpens
<1>2. o \o <<>> = o /\ Len(o) \in Nat
  BY DEF Stacks
<1>3. Step(o, [indent |-> 0, text |-> text], Len(o), o)
  BY <1>1, <1>2, StepLine
<1> QED
  BY <1>3, NestedLine

\* A line that opens a block.
LEMMA NestedOpen ==
  ASSUME NEW o \in Stacks, NEW text, text[1] \in Blocks
  PROVE  Nested(o, Line(text), Len(o), Push(o, text[1])) /\ Push(o, text[1]) \in Stacks
<1>1. OpenAt(o, text[1]) = o /\ text[1] \in Opening
  BY BlockOpens
<1>2. Push(o, text[1]) \in Stacks /\ Len(o) \in Nat
  BY <1>1, PushIs
<1>3. Step(o, [indent |-> 0, text |-> text], Len(o), Push(o, text[1]))
  BY <1>1, StepLine DEF Push
<1> QED
  BY <1>2, <1>3, NestedLine

\* A line that ends a block.
LEMMA NestedEnd ==
  ASSUME NEW o \in Stacks, NEW p \in Stacks, NEW text, text[1] \notin Opening, OpenAt(p, text[1]) = o
  PROVE  Nested(p, Line(text), Len(o), o)
<1>1. o \o <<>> = o /\ Len(o) \in Nat
  BY DEF Stacks
<1>2. Step(p, [indent |-> 0, text |-> text], Len(o), o)
  BY <1>1, StepLine
<1> QED
  BY <1>2, NestedLine

-----------------------------------------------------------------------------
\* Lines that leave open what is open.

Flat(L) == \A o \in Stacks : Nested(o, L, Len(o), o)

\* What Flat says of a stack.
LEMMA FlatIn == ASSUME NEW L, Flat(L), NEW o \in Stacks PROVE Nested(o, L, Len(o), o)
BY DEF Flat

\* Flat lines are a list.
LEMMA FlatList == ASSUME NEW L, Flat(L) PROVE IsList(L)
<1>1. <<>> \in Stacks
  BY DEF Stacks
<1> QED
  BY <1>1, FlatIn DEF Nested

\* No lines.
LEMMA FlatNothing == Flat(<<>>)
BY NestedNothing DEF Flat

\* A plain line.
LEMMA FlatLine == ASSUME NEW text, Plain(text[1]) PROVE Flat(Line(text))
BY NestedPlain DEF Flat

\* One part after the other.
LEMMA FlatConcat == ASSUME NEW L, NEW M, Flat(L), Flat(M) PROVE Flat(L \o M)
BY FlatIn, NestedConcat DEF Flat

\* In a block the lines are one deeper.
LEMMA FlatInside ==
  ASSUME NEW L, Flat(L), NEW o \in Stacks, NEW block \in Opening
  PROVE  Nested(Push(o, block), In(L), Len(o), Push(o, block))
<1>1. Push(o, block) \in Stacks /\ Len(Push(o, block)) = Len(o) + 1 /\ Len(o) \in Nat
  BY PushIs
<1>2. Nested(Push(o, block), L, Len(o) + 1, Push(o, block))
  BY <1>1, FlatIn
<1>3. Nested(Push(o, block), Shift(L, 1), Len(o), Push(o, block))
  BY <1>1, <1>2, NestedShift
<1>4. In(L) = Shift(L, 1)
  BY DEF In, Shift
<1> QED
  BY <1>3, <1>4

-----------------------------------------------------------------------------
\* The words and the indentation of lines.

Has(L, W, D) ==
  /\ IsList(L)
  /\ \A i \in 1 .. Len(L) : /\ L[i] = [indent |-> L[i].indent, text |-> L[i].text]
                            /\ L[i].indent \in D /\ L[i].text[1] \in W

\* No lines have any words.
LEMMA HasNothing == ASSUME NEW W, NEW D PROVE Has(<<>>, W, D)
<1>1. <<>> \in Seq({}) /\ Len(<<>>) = 0
  OBVIOUS
<1>2. IsList(<<>>)
  BY <1>1, SeqIsList
<1> QED
  BY <1>1, <1>2 DEF Has

\* What lines have they have among more.
LEMMA HasMore ==
  ASSUME NEW W, NEW V, NEW D, NEW E, W \subseteq V, D \subseteq E, NEW L, Has(L, W, D) PROVE Has(L, V, E)
BY DEF Has

\* A list of texts, with the same first words.
LEMMA HasTexts ==
  ASSUME NEW n \in Nat, NEW text, NEW W, \A i \in 1 .. n : text[i][1] \in W
  PROVE  Has([i \in 1 .. n |-> [indent |-> 0, text |-> text[i]]], W, {0})
<1> DEFINE L == [i \in 1 .. n |-> [indent |-> 0, text |-> text[i]]]
<1>1. L = [i \in 1 .. n |-> L[i]] /\ \A i \in 1 .. n : L[i] = [indent |-> 0, text |-> text[i]]
  OBVIOUS
<1> HIDE DEF L
<1>2. IsList(L) /\ Len(L) = n
  BY <1>1, ListIs
<1>3. ASSUME NEW i \in 1 .. n
      PROVE  /\ L[i] = [indent |-> L[i].indent, text |-> L[i].text]
             /\ L[i].indent \in {0} /\ L[i].text[1] \in W
  BY <1>1
<1>4. Has(L, W, {0})
  BY <1>2, <1>3 DEF Has
<1> QED
  BY <1>4 DEF L

\* One line.
LEMMA HasLine == ASSUME NEW text, NEW W, text[1] \in W PROVE Has(Line(text), W, {0})
<1> DEFINE texts == [i \in 1 .. 1 |-> text]
           L == [i \in 1 .. 1 |-> [indent |-> 0, text |-> texts[i]]]
<1>1. \A i \in 1 .. 1 : texts[i] = text
  OBVIOUS
<1> HIDE DEF texts
<1>2. Has(L, W, {0})
  BY <1>1, HasTexts
<1>3. L = [i \in 1 .. 1 |-> [indent |-> 0, text |-> text]]
  BY <1>1
<1>4. [i \in 1 .. 1 |-> [indent |-> 0, text |-> text]] = <<[indent |-> 0, text |-> text]>>
  OBVIOUS
<1> HIDE DEF L
<1> QED
  BY <1>2, <1>3, <1>4 DEF Line

\* One part after the other.
LEMMA HasConcat ==
  ASSUME NEW W, NEW D, NEW L, NEW M, Has(L, W, D), Has(M, W, D) PROVE Has(L \o M, W, D)
<1> DEFINE N == L \o M
<1>1. IsList(L) /\ IsList(M) /\ Len(L) \in Nat /\ Len(M) \in Nat
  BY ListHas DEF Has
<1>2. /\ IsList(N) /\ Len(N) = Len(L) + Len(M)
      /\ \A i \in 1 .. Len(L) : N[i] = L[i]
      /\ \A i \in 1 .. Len(M) : N[Len(L) + i] = M[i]
  BY <1>1, ListsConcat
<1> HIDE DEF N
<1>3. ASSUME NEW i \in 1 .. Len(N)
      PROVE  /\ N[i] = [indent |-> N[i].indent, text |-> N[i].text]
             /\ N[i].indent \in D /\ N[i].text[1] \in W
  <2>1. CASE i \in 1 .. Len(L)
    BY <1>2, <2>1 DEF Has
  <2>2. CASE i \notin 1 .. Len(L)
    <3>0. i - Len(L) \in 1 .. Len(M) /\ i = Len(L) + (i - Len(L))
      <4>1. i \in 1 .. Len(L) + Len(M)
        BY <1>2
      <4> QED
        BY <4>1, <1>1, <2>2
    <3>1. PICK k \in 1 .. Len(M) : i = Len(L) + k
      BY <3>0
    <3>2. N[i] = M[k]
      BY <1>2, <3>1
    <3> QED
      BY <3>2 DEF Has
  <2> QED
    BY <2>1, <2>2
<1>4. Has(N, W, D)
  BY <1>2, <1>3 DEF Has
<1> QED
  BY <1>4 DEF N

\* Lines of a block are not at the outermost level.
LEMMA HasIn ==
  ASSUME NEW W, NEW D \in SUBSET Nat, NEW L, Has(L, W, D) PROVE Has(In(L), W, Nat \ {0})
<1> DEFINE M == In(L)
<1>1. IsList(L) /\ Len(L) \in Nat /\ DOMAIN L = 1 .. Len(L)
  BY ListHas DEF Has
<1>2. M = [i \in 1 .. Len(L) |-> [L[i] EXCEPT !.indent = @ + 1]]
  BY <1>1 DEF In
<1> HIDE DEF M
<1>3. M = [i \in 1 .. Len(L) |-> M[i]] /\ \A i \in 1 .. Len(L) : M[i] = [L[i] EXCEPT !.indent = @ + 1]
  BY <1>2
<1>4. IsList(M) /\ Len(M) = Len(L)
  BY <1>1, <1>3, ListIs
<1>5. ASSUME NEW i \in 1 .. Len(L)
      PROVE  /\ M[i] = [indent |-> M[i].indent, text |-> M[i].text]
             /\ M[i].indent \in Nat \ {0} /\ M[i].text[1] \in W
  <2> DEFINE l == L[i]
             m == M[i]
  <2>1. l = [indent |-> l.indent, text |-> l.text] /\ l.indent \in Nat /\ l.text[1] \in W
    BY DEF Has
  <2>2. m = [l EXCEPT !.indent = @ + 1]
    BY <1>3
  <2> HIDE DEF l, m
  <2>3. m = [indent |-> l.indent + 1, text |-> l.text]
    BY <2>1, <2>2
  <2>4. m = [indent |-> m.indent, text |-> m.text] /\ m.indent \in Nat \ {0} /\ m.text[1] \in W
    BY <2>1, <2>3
  <2> QED
    BY <2>4 DEF m
<1>6. Has(M, W, Nat \ {0})
  BY <1>4, <1>5 DEF Has
<1> QED
  BY <1>6 DEF M

\* Plain words, not indented, leave open what is open.
LEMMA FlatHas ==
  ASSUME NEW L, NEW W, Has(L, W, {0}), \A word \in W : Plain(word) PROVE Flat(L)
<1> DEFINE n == Len(L)
<1>1. IsList(L) /\ n \in Nat
  BY ListHas DEF Has
<1>2. ASSUME NEW o \in Stacks PROVE Nested(o, L, Len(o), o)
  <2> DEFINE f == [i \in 0 .. n |-> o]
  <2>1. \A i \in 0 .. n : f[i] = o
    OBVIOUS
  <2> HIDE DEF f
  <2>2. ASSUME NEW i \in 1 .. n PROVE Step(f[i - 1], L[i], Len(o), f[i])
    <3> DEFINE text == L[i].text
    <3>1. f[i - 1] = o /\ f[i] = o
      BY <1>1, <2>1
    <3>2. L[i] = [indent |-> 0, text |-> text] /\ Plain(text[1])
      BY DEF Has
    <3> HIDE DEF text
    <3>3. OpenAt(o, text[1]) = o /\ text[1] \notin Opening /\ o \o <<>> = o
      BY <3>2, PlainOpens DEF Stacks
    <3>4. Step(o, [indent |-> 0, text |-> text], Len(o), o)
      BY <3>3, StepLine
    <3> QED
      BY <3>1, <3>2, <3>4
  <2>3. Nests(f, L, Len(o))
    BY <2>2 DEF Nests
  <2>4. f[0] = o /\ f[n] = o
    BY <1>1, <2>1
  <2> QED
    BY <1>1, <2>3, <2>4 DEF Nested
<1> QED
  BY <1>2 DEF Flat

-----------------------------------------------------------------------------
\* Lists of parts.

\* What holds of no lines and of one part after the other holds of all parts.
LEMMA FlattenIn ==
  ASSUME NEW n \in Nat, NEW S, NEW X \in SUBSET Seq(S), <<>> \in X, \A x, y \in X : x \o y \in X,
         NEW g \in [1 .. n -> X]
  PROVE  FlattenSeq(g) \in X
<1>1. g = [i \in 1 .. n |-> g[i]] /\ Len(g) = n
  BY ListIs
<1>2. g \in [1 .. n -> Seq(S)]
  OBVIOUS
<1>3. PICK f : Concats(n, S, g, f)
  BY <1>2, PrefixesExist
<1>4. FlattenSeq(g) = f[n]
  BY <1>1, <1>2, <1>3, FlattenIs
<1>5. f[0] = <<>> /\ \A i \in 0 .. n - 1 : f[i + 1] = f[i] \o g[i + 1]
  BY <1>3 DEF Concats
<1> DEFINE T == {i \in 0 .. n : f[i] \in X}
<1>6. 0 \in T
  BY <1>5
<1>7. ASSUME NEW i \in 0 .. n - 1, i \in T PROVE i + 1 \in T
  <2>1. i + 1 \in 1 .. n /\ i + 1 \in 0 .. n
    OBVIOUS
  <2>2. f[i] \in X /\ g[i + 1] \in X
    BY <1>7, <2>1
  <2> QED
    BY <2>1, <2>2, <1>5
<1> HIDE DEF T
<1>8. 0 .. n \subseteq T
  BY <1>6, <1>7, UpTo
<1> QED
  BY <1>4, <1>8 DEF T

\* The lines of lists.
LEMMA PartsTyped ==
  ASSUME NEW n \in Nat, NEW g, g = [i \in 1 .. n |-> g[i]], \A i \in 1 .. n : IsList(g[i])
  PROVE  \E S : \A i \in 1 .. n : g[i] \in Seq(S)
<1> DEFINE S == UNION {ToSet(g[i]) : i \in 1 .. n}
<1>1. ASSUME NEW i \in 1 .. n PROVE g[i] \in Seq(S)
  <2>1. g[i] \in Seq(ToSet(g[i]))
    BY DEF IsList
  <2>2. ToSet(g[i]) \subseteq S
    OBVIOUS
  <2> HIDE DEF S
  <2> QED
    BY <2>1, <2>2, SeqMonotonic
<1> HIDE DEF S
<1> QED
  BY <1>1

\* A list of flat parts.
LEMMA FlatFlatten ==
  ASSUME NEW n \in Nat, NEW g, g = [i \in 1 .. n |-> g[i]], \A i \in 1 .. n : Flat(g[i])
  PROVE  Flat(FlattenSeq(g))
<1>1. PICK S : \A i \in 1 .. n : g[i] \in Seq(S)
  BY FlatList, PartsTyped
<1> DEFINE X == {L \in Seq(S) : Flat(L)}
<1>2. <<>> \in X
  BY FlatNothing
<1>3. ASSUME NEW x \in X, NEW y \in X PROVE x \o y \in X
  <2>1. x \o y \in Seq(S)
    BY ConcatProperties
  <2> QED
    BY <2>1, FlatConcat
<1>4. g \in [1 .. n -> X]
  BY <1>1
<1>5. X \in SUBSET Seq(S)
  OBVIOUS
<1> HIDE DEF X
<1>6. FlattenSeq(g) \in X
  BY <1>2, <1>3, <1>4, <1>5, FlattenIn
<1> QED
  BY <1>6 DEF X

\* A list of parts with the same words.
LEMMA HasFlatten ==
  ASSUME NEW n \in Nat, NEW g, g = [i \in 1 .. n |-> g[i]], NEW W, NEW D, \A i \in 1 .. n : Has(g[i], W, D)
  PROVE  Has(FlattenSeq(g), W, D)
<1>1. PICK S : \A i \in 1 .. n : g[i] \in Seq(S)
  BY PartsTyped DEF Has
<1> DEFINE X == {L \in Seq(S) : Has(L, W, D)}
<1>2. <<>> \in X
  BY HasNothing
<1>3. ASSUME NEW x \in X, NEW y \in X PROVE x \o y \in X
  <2>1. x \o y \in Seq(S)
    BY ConcatProperties
  <2> QED
    BY <2>1, HasConcat
<1>4. g \in [1 .. n -> X]
  BY <1>1
<1>5. X \in SUBSET Seq(S)
  OBVIOUS
<1> HIDE DEF X
<1>6. FlattenSeq(g) \in X
  BY <1>2, <1>3, <1>4, <1>5, FlattenIn
<1> QED
  BY <1>6 DEF X

\* Only keeps a list.
LEMMA OnlyIs ==
  ASSUME NEW seq, IsList(seq), NEW set PROVE Only(seq, set) \in Seq(ToSet(seq) \cap set)
<1> DEFINE n == Len(seq)
           S == ToSet(seq) \cap set
           Part(f, i) == IF i = 0 THEN <<>>
                         ELSE IF seq[i] \in set THEN Append(f[i - 1], seq[i]) ELSE f[i - 1]
           Body(f) == [i \in 0 .. Len(seq) |-> Part(f, i)]
           F == [0 .. n -> Seq(S)]
           only == CHOOSE f : f = Body(f)
<1>0. n \in Nat /\ \A i \in 1 .. n : seq[i] \in ToSet(seq)
  BY ListHas DEF ToSet
<1>1. Only(seq, set) = only[n]
  BY DEF Only
<1>2. ASSUME NEW f, NEW i \in 1 .. n, f[i - 1] \in Seq(S) PROVE Part(f, i) \in Seq(S)
  <2>1. seq[i] \in set => seq[i] \in S
    BY <1>0
  <2>2. i # 0
    OBVIOUS
  <2> HIDE DEF S
  <2>3. seq[i] \in S => Append(f[i - 1], seq[i]) \in Seq(S)
    BY <1>2, AppendProperties
  <2> QED
    BY <2>1, <2>2, <2>3, <1>2
<1>3. ASSUME NEW f, NEW h, NEW i \in 0 .. n, i # 0 => f[i - 1] = h[i - 1] PROVE Part(f, i) = Part(h, i)
  BY <1>3
<1>4. \A f : Part(f, 0) = <<>>
  OBVIOUS
<1> HIDE DEF Part, n, S
<1> DEFINE T == {m \in 0 .. n : \E f \in F : \A i \in 0 .. m : f[i] = Part(f, i)}
<1>5. 0 \in T
  <2>1. [i \in 0 .. n |-> <<>>] \in F
    OBVIOUS
  <2>2. PICK f \in F : f[0] = <<>>
    <3>1. [i \in 0 .. n |-> <<>>][0] = <<>>
      BY <1>0
    <3> HIDE DEF F
    <3> QED
      BY <2>1, <3>1
  <2>3. \A i \in 0 .. 0 : f[i] = Part(f, i)
    BY <2>2, <1>4
  <2>4. 0 \in 0 .. n
    BY <1>0
  <2> HIDE DEF F
  <2> QED
    BY <2>2, <2>3, <2>4
<1>6. ASSUME NEW m \in 0 .. n - 1, m \in T PROVE m + 1 \in T
  <2>1. PICK f \in F : \A i \in 0 .. m : f[i] = Part(f, i)
    BY <1>6
  <2> DEFINE x == Part(f, m + 1)
             h == [f EXCEPT ![m + 1] = x]
  <2>2. m \in 0 .. n /\ m + 1 \in 1 .. n /\ m + 1 \in 0 .. n /\ (m + 1) - 1 = m
    BY <1>0
  <2>3. x \in Seq(S)
    BY <2>2, <1>2
  <2> HIDE DEF x
  <2>4. h \in F /\ h[m + 1] = x /\ \A i \in 0 .. n : i # m + 1 => h[i] = f[i]
    BY <2>2, <2>3
  <2> HIDE DEF h
  <2>5. ASSUME NEW i \in 0 .. m + 1 PROVE h[i] = Part(h, i)
    <3>1. i \in 0 .. n /\ (i # 0 => i - 1 \in 0 .. n /\ i - 1 # m + 1)
      BY <2>2, <1>0
    <3>2. Part(h, i) = Part(f, i)
      BY <3>1, <2>4, <1>3
    <3>3. CASE i = m + 1
      BY <3>2, <3>3, <2>4 DEF x
    <3>4. CASE i # m + 1
      BY <3>1, <3>2, <3>4, <2>1, <2>4
    <3> QED
      BY <3>3, <3>4
  <2> HIDE DEF F
  <2> QED
    BY <2>2, <2>4, <2>5
<1> HIDE DEF T
<1>7. 0 .. n \subseteq T
  BY <1>0, <1>5, <1>6, UpTo
<1>8. PICK f \in F : \A i \in 0 .. n : f[i] = Part(f, i)
  BY <1>0, <1>7 DEF T
<1>9. f = Body(f)
  BY <1>8 DEF n
<1>10. only = Body(only)
  BY <1>9
<1> HIDE DEF only
<1>11. \A i \in 0 .. n : only[i] = Part(only, i)
  BY <1>10 DEF n
<1> DEFINE R == {i \in 0 .. n : only[i] \in Seq(S)}
<1>12. 0 \in R
  <2>1. 0 \in 0 .. n /\ <<>> \in Seq(S)
    BY <1>0
  <2>2. only[0] = <<>>
    BY <2>1, <1>4, <1>11
  <2> QED
    BY <2>1, <2>2
<1>13. ASSUME NEW i \in 0 .. n - 1, i \in R PROVE i + 1 \in R
  <2>1. i + 1 \in 1 .. n /\ i + 1 \in 0 .. n /\ (i + 1) - 1 = i
    BY <1>0
  <2>2. Part(only, i + 1) \in Seq(S)
    BY <2>1, <1>2, <1>13
  <2> QED
    BY <2>1, <2>2, <1>11
<1> HIDE DEF R
<1>14. 0 .. n \subseteq R
  BY <1>0, <1>12, <1>13, UpTo
<1> QED
  BY <1>0, <1>1, <1>14 DEF R, S

-----------------------------------------------------------------------------
\* What the generator writes.

\* The words of lines without a block.
LEMMA PlainWords ==
  \A word \in {"value", "key", "option", "set", "cmake_minimum_required", "project", "find_package",
               "add_subdirectory", "message", "call", "add_library", "add_executable", "add_alias"} :
    Plain(word)
BY OpeningAre DEF Plain, Opening

\* The keys of a map, in order.
LEMMA SortedIs ==
  ASSUME NEW map
  PROVE  /\ IsList(Sorted(map)) /\ Len(Sorted(map)) \in Nat /\ DOMAIN Sorted(map) = 1 .. Len(Sorted(map))
         /\ Sorted(map) \in Seq(DOMAIN map)
<1>1. Sorted(map) \in Seq(ToSet(Order) \cap DOMAIN map)
  BY ConfigurationsAreDecoded, OnlyIs DEF Sorted
<1>2. Sorted(map) \in Seq(DOMAIN map)
  BY <1>1, SeqMonotonic
<1> QED
  BY <1>2, SeqIsList, ListHas

\* A line for each option.
LEMMA HasOption == ASSUME NEW opts PROVE Has(Option(opts), {"option"}, {0})
<1> DEFINE s == Sorted(opts)
           n == Len(s)
           text == [i \in 1 .. n |-> <<"option", s[i], opts[s[i]]>>]
<1>1. n \in Nat /\ DOMAIN s = 1 .. n
  BY SortedIs
<1>2. Option(opts) = [i \in 1 .. n |-> [indent |-> 0, text |-> <<"option", s[i], opts[s[i]]>>]]
  BY <1>1 DEF Option, Lines
<1> HIDE DEF n, s
<1>3. \A i \in 1 .. n : text[i] = <<"option", s[i], opts[s[i]]>> /\ text[i][1] = "option"
  OBVIOUS
<1> HIDE DEF text
<1>4. Option(opts) = [i \in 1 .. n |-> [indent |-> 0, text |-> text[i]]]
  BY <1>2, <1>3
<1>5. \A i \in 1 .. n : text[i][1] \in {"option"}
  BY <1>3
<1> QED
  BY <1>1, <1>4, <1>5, HasTexts

\* A line for each setting.
LEMMA HasSet == ASSUME NEW settings, NEW force PROVE Has(Set(settings, force), {"set"}, {0})
<1> DEFINE s == Sorted(settings)
           n == Len(s)
           text == [i \in 1 .. n |-> <<"set", s[i], settings[s[i]], force>>]
<1>1. n \in Nat /\ DOMAIN s = 1 .. n
  BY SortedIs
<1>2. Set(settings, force) = [i \in 1 .. n |-> [indent |-> 0, text |-> <<"set", s[i], settings[s[i]], force>>]]
  BY <1>1 DEF Set, Lines
<1> HIDE DEF n, s
<1>3. \A i \in 1 .. n : text[i] = <<"set", s[i], settings[s[i]], force>> /\ text[i][1] = "set"
  OBVIOUS
<1> HIDE DEF text
<1>4. Set(settings, force) = [i \in 1 .. n |-> [indent |-> 0, text |-> text[i]]]
  BY <1>2, <1>3
<1>5. \A i \in 1 .. n : text[i][1] \in {"set"}
  BY <1>3
<1> QED
  BY <1>1, <1>4, <1>5, HasTexts

\* The lines of a map, and of values.
KeyLines(map) ==
  [i \in DOMAIN Sorted(map) |-> [indent |-> 0, text |-> <<"key", Sorted(map)[i], map[Sorted(map)[i]]>>]]

\* A line for each key of a map.
LEMMA HasKeys == ASSUME NEW map PROVE Has(KeyLines(map), {"value", "key"}, {0})
<1> DEFINE s == Sorted(map)
           n == Len(s)
           L == KeyLines(map)
           text == [i \in 1 .. n |-> <<"key", s[i], map[s[i]]>>]
<1>1. n \in Nat /\ DOMAIN s = 1 .. n
  BY SortedIs
<1>2. L = [i \in 1 .. n |-> [indent |-> 0, text |-> <<"key", s[i], map[s[i]]>>]]
  BY <1>1 DEF KeyLines
<1> HIDE DEF n, s, L
<1>3. \A i \in 1 .. n : text[i] = <<"key", s[i], map[s[i]]>> /\ text[i][1] = "key"
  OBVIOUS
<1> HIDE DEF text
<1>4. L = [i \in 1 .. n |-> [indent |-> 0, text |-> text[i]]]
  BY <1>2, <1>3
<1>5. \A i \in 1 .. n : text[i][1] \in {"value", "key"}
  BY <1>3
<1>6. Has(L, {"value", "key"}, {0})
  BY <1>1, <1>4, <1>5, HasTexts
<1> QED
  BY <1>6 DEF L

\* A line for each alias of a target.
LEMMA HasAliases == ASSUME NEW t, IsList(t.aliases) PROVE Has(Aliases(t), {"add_alias"}, {0})
<1> DEFINE n == Len(t.aliases)
           text == [i \in 1 .. n |-> <<"add_alias", t.aliases[i], t.name>>]
<1>1. n \in Nat /\ DOMAIN t.aliases = 1 .. n
  BY ListHas
<1>2. Aliases(t) = [i \in 1 .. n |-> [indent |-> 0, text |-> <<"add_alias", t.aliases[i], t.name>>]]
  BY <1>1 DEF Aliases, Lines
<1> HIDE DEF n
<1>3. \A i \in 1 .. n : text[i] = <<"add_alias", t.aliases[i], t.name>> /\ text[i][1] = "add_alias"
  OBVIOUS
<1> HIDE DEF text
<1>4. Aliases(t) = [i \in 1 .. n |-> [indent |-> 0, text |-> text[i]]]
  BY <1>2, <1>3
<1>5. \A i \in 1 .. n : text[i][1] \in {"add_alias"}
  BY <1>3
<1> QED
  BY <1>1, <1>4, <1>5, HasTexts

\* A line for each value, or for each key of a definition.
ValueLines(prefix, values) ==
  [i \in DOMAIN values |-> [indent |-> 0, text |-> <<"value", concatenate_paths(prefix, values[i])>>]]

\* A line for each value.
LEMMA HasPaths ==
  ASSUME NEW prefix, NEW values, IsList(values) PROVE Has(ValueLines(prefix, values), {"value", "key"}, {0})
<1> DEFINE n == Len(values)
           L == ValueLines(prefix, values)
           text == [i \in 1 .. n |-> <<"value", concatenate_paths(prefix, values[i])>>]
<1>1. n \in Nat /\ DOMAIN values = 1 .. n
  BY ListHas
<1>2. L = [i \in 1 .. n |-> [indent |-> 0, text |-> <<"value", concatenate_paths(prefix, values[i])>>]]
  BY <1>1 DEF ValueLines
<1> HIDE DEF n, L
<1>3. \A i \in 1 .. n : text[i] = <<"value", concatenate_paths(prefix, values[i])>> /\ text[i][1] = "value"
  OBVIOUS
<1> HIDE DEF text
<1>4. L = [i \in 1 .. n |-> [indent |-> 0, text |-> text[i]]]
  BY <1>2, <1>3
<1>5. \A i \in 1 .. n : text[i][1] \in {"value", "key"}
  BY <1>3
<1>6. Has(L, {"value", "key"}, {0})
  BY <1>1, <1>4, <1>5, HasTexts
<1> QED
  BY <1>6 DEF L

\* The lines of a definition.
LEMMA HasDefinition == ASSUME NEW def PROVE Has(definition(def), {"value", "key"}, {0})
<1>1. <<"value", def.value>>[1] = "value"
  OBVIOUS
<1>2. Has(Line(<<"value", def.value>>), {"value", "key"}, {0})
  BY <1>1, HasLine
<1>3. Has(KeyLines(def.map), {"value", "key"}, {0})
  BY HasKeys
<1>4. CASE None(def.map)
  BY <1>2, <1>4 DEF definition
<1>5. CASE ~ None(def.map)
  <2>1. definition(def) = KeyLines(def.map)
    BY <1>5 DEF definition, KeyLines, Lines
  <2> QED
    BY <1>3, <2>1
<1> QED
  BY <1>4, <1>5

\* The lines of definitions.
LEMMA HasDefinitions ==
  ASSUME NEW values, IsList(values)
  PROVE  Has(FlattenSeq([i \in DOMAIN values |-> definition(values[i])]), {"value", "key"}, {0})
<1> DEFINE n == Len(values)
           L == [i \in DOMAIN values |-> definition(values[i])]
<1>1. n \in Nat /\ DOMAIN values = 1 .. n
  BY ListHas
<1>2. L = [i \in 1 .. n |-> L[i]] /\ \A i \in 1 .. n : L[i] = definition(values[i])
  BY <1>1
<1> HIDE DEF n, L
<1>3. \A i \in 1 .. n : Has(L[i], {"value", "key"}, {0})
  BY <1>2, HasDefinition
<1>4. Has(FlattenSeq(L), {"value", "key"}, {0})
  BY <1>1, <1>2, <1>3, HasFlatten
<1> QED
  BY <1>4 DEF L

\* The values of a group.
LEMMA HasValues ==
  ASSUME NEW g, NEW prefix, NEW values, g # "properties" => IsList(values)
  PROVE  Has(Values(g, prefix, values), {"value", "key"}, {0})
<1>1. CASE g = "properties"
  <2>1. Values(g, prefix, values) = KeyLines(values)
    BY <1>1 DEF Values, KeyLines, Lines
  <2> QED
    BY <2>1, HasKeys
<1>2. CASE g = "definitions"
  BY <1>2, HasDefinitions DEF Values
<1>3. CASE g \in {"sources", "includes", "pchs"}
  <2>1. Values(g, prefix, values) = ValueLines(prefix, values)
    BY <1>3 DEF Values, ValueLines, Lines
  <2> QED
    BY <2>1, <1>3, HasPaths
<1>4. CASE g \notin {"properties", "definitions", "sources", "includes", "pchs"}
  <2>1. Values(g, prefix, values) = ValueLines(NoExpression, values)
    BY <1>4 DEF Values, ValueLines, Lines
  <2> QED
    BY <2>1, <1>4, HasPaths
<1> QED
  BY <1>1, <1>2, <1>3, <1>4

\* All these lines leave open what is open.
LEMMA FlatOption == ASSUME NEW opts PROVE Flat(Option(opts))
BY HasOption, FlatHas, PlainWords

\* The same of settings.
LEMMA FlatSet == ASSUME NEW settings, NEW force PROVE Flat(Set(settings, force))
BY HasSet, FlatHas, PlainWords

\* The same of aliases.
LEMMA FlatAliases == ASSUME NEW t, IsList(t.aliases) PROVE Flat(Aliases(t))
BY HasAliases, FlatHas, PlainWords

\* The same of values.
LEMMA FlatValues ==
  ASSUME NEW g, NEW prefix, NEW values, g # "properties" => IsList(values)
  PROVE  Flat(Values(g, prefix, values))
BY HasValues, FlatHas, PlainWords

\* A block of flat lines is flat.
LEMMA FlatBlock ==
  ASSUME NEW begin, NEW L, Flat(L), NEW end, end[1] \notin Opening, end[1] # "endgroup",
         begin[1] \in {"function", "if", "config"}, begin[1] \in Closes(end[1])
  PROVE  Flat(Line(begin) \o In(L) \o Line(end))
<1> SUFFICES ASSUME NEW o \in Stacks PROVE Nested(o, Line(begin) \o In(L) \o Line(end), Len(o), o)
  BY DEF Flat
<1> DEFINE p == Push(o, begin[1])
<1>1. begin[1] \in Blocks /\ begin[1] \in Opening
  BY OpeningAre DEF Blocks
<1>2. Nested(o, Line(begin), Len(o), p) /\ p \in Stacks
  BY <1>1, NestedOpen
<1>3. Nested(p, In(L), Len(o), p)
  BY <1>1, FlatInside
<1>4. OpenAt(p, end[1]) = o
  BY EndCloses
<1> HIDE DEF p
<1>5. Nested(p, Line(end), Len(o), o)
  BY <1>2, <1>4, NestedEnd
<1>6. Nested(o, Line(begin) \o In(L), Len(o), p)
  BY <1>2, <1>3, NestedConcat
<1> QED
  BY <1>5, <1>6, NestedConcat

\* Words that end a block.
LEMMA EndWords ==
  /\ "endfunction" \notin Opening /\ "endif" \notin Opening /\ "endconfig" \notin Opening /\ "endgroup" \notin Opening
BY OpeningAre DEF Opening

\* A condition around flat lines.
LEMMA FlatIf == ASSUME NEW cond, NEW L, Flat(L) PROVE Flat(If(cond, L))
<1> DEFINE begin == <<"if", cond>>
           end == <<"endif">>
<1>1. begin[1] = "if" /\ end[1] = "endif"
  OBVIOUS
<1> HIDE DEF begin, end
<1>2. "if" \in Closes("endif")
  BY ClosesIs
<1>3. Flat(Line(begin) \o In(L) \o Line(end))
  BY <1>1, <1>2, EndWords, FlatBlock
<1> QED
  BY <1>3 DEF If, begin, end

\* A function of flat lines.
LEMMA FlatFunction ==
  ASSUME NEW name, NEW L, Flat(L) PROVE Flat(Line(<<"function", name>>) \o In(L) \o Line(<<"endfunction">>))
<1> DEFINE begin == <<"function", name>>
           end == <<"endfunction">>
<1>1. begin[1] = "function" /\ end[1] = "endfunction"
  OBVIOUS
<1> HIDE DEF begin, end
<1>2. "function" \in Closes("endfunction")
  BY ClosesIs
<1>3. Flat(Line(begin) \o In(L) \o Line(end))
  BY <1>1, <1>2, EndWords, FlatBlock
<1> QED
  BY <1>3 DEF begin, end

\* A configuration with its values.
LEMMA FlatConfig ==
  ASSUME NEW name, NEW L, Flat(L) PROVE Flat(Line(<<"config", name>>) \o In(L) \o Line(<<"endconfig">>))
<1> DEFINE begin == <<"config", name>>
           end == <<"endconfig">>
<1>1. begin[1] = "config" /\ end[1] = "endconfig"
  OBVIOUS
<1> HIDE DEF begin, end
<1>2. "config" \in Closes("endconfig")
  BY ClosesIs
<1>3. Flat(Line(begin) \o In(L) \o Line(end))
  BY <1>1, <1>2, EndWords, FlatBlock
<1> QED
  BY <1>3 DEF begin, end

\* A condition with an alternative, after flat lines.
LEMMA FlatElse ==
  ASSUME NEW K, NEW L, NEW M, Flat(K), Flat(L), Flat(M)
  PROVE  Flat(K \o Line(<<"if", "EXISTS">>) \o In(L) \o Line(<<"else">>) \o In(M) \o Line(<<"endif">>))
<1> DEFINE begin == <<"if", "EXISTS">>
           else == <<"else">>
           end == <<"endif">>
<1>1. begin[1] = "if" /\ else[1] = "else" /\ end[1] = "endif"
  OBVIOUS
<1> HIDE DEF begin, else, end
<1> SUFFICES ASSUME NEW o \in Stacks
             PROVE  Nested(o, K \o Line(begin) \o In(L) \o Line(else) \o In(M) \o Line(end), Len(o), o)
  BY DEF Flat, begin, else, end
<1> DEFINE p == Push(o, "if")
           q == Push(o, "else")
<1>2. Nested(o, Line(begin), Len(o), p) /\ p \in Stacks
  BY <1>1, NestedOpen DEF Blocks
<1>3. Nested(p, In(L), Len(o), p) /\ Nested(q, In(M), Len(o), q) /\ q \in Stacks
  BY FlatInside, OpeningAre, PushIs
<1>4. OpenAt(p, "else") = o /\ OpenAt(q, "endif") = o
  BY EndCloses, ClosesIs
<1>5. q = o \o <<"else">> /\ "else" \in Opening
  BY OpeningAre DEF Push
<1> HIDE DEF p, q
<1>6. Nested(p, Line(else), Len(o), q)
  <2>1. Step(p, [indent |-> 0, text |-> else], Len(o), q)
    BY <1>1, <1>2, <1>4, <1>5, StepLine
  <2> QED
    BY <2>1, <1>2, <1>3, NestedLine
<1>7. Nested(q, Line(end), Len(o), o)
  BY <1>1, <1>3, <1>4, EndWords, NestedEnd
<1>a. Nested(o, K, Len(o), o)
  BY FlatIn
<1>b. Nested(o, K \o Line(begin), Len(o), p)
  BY <1>2, <1>a, NestedConcat
<1>8. Nested(o, K \o Line(begin) \o In(L), Len(o), p)
  BY <1>3, <1>b, NestedConcat
<1>9. Nested(o, K \o Line(begin) \o In(L) \o Line(else), Len(o), q)
  BY <1>6, <1>8, NestedConcat
<1>10. Nested(o, K \o Line(begin) \o In(L) \o Line(else) \o In(M), Len(o), q)
  BY <1>3, <1>9, NestedConcat
<1> QED
  BY <1>7, <1>10, NestedConcat

-----------------------------------------------------------------------------
\* The blocks that are open where write() is.

\* Only lists of targets, groups, visibilities and configurations are left.
WorkTyped ==
  /\ config \in Configurations
  /\ pc \in {"targets", "groups", "visibility", "values", "configurations"} =>
       left \in Seq(ToSet(config.targets))
  /\ pc \in {"groups", "visibility", "values", "configurations"} => left # <<>>
  /\ groups \in Seq(ToSet(Groups)) /\ vis \in Seq(ToSet(Visibilities))
  /\ pc = "configurations" => confs \in Seq(DOMAIN configs.configurations)

\* The stack of a target, and of one of its groups.
InFunction == Push(<<>>, "function")
InGroup(g) == Push(InFunction, g)

\* The blocks o are those of the place in write(); a visibility that was
\* written stays open until the next one or the end of the group.
Here(o) ==
  /\ pc \notin {"groups", "visibility", "values", "configurations"} => o = <<>>
  /\ pc = "groups" => o = InFunction
  /\ pc = "visibility" =>
       o = InGroup(group) \/ \E v \in ToSet(Visibilities) : o = Push(InGroup(group), v)
  /\ pc \in {"values", "configurations"} =>
       IF group = "properties" THEN o = InGroup(group)
       ELSE \E v \in ToSet(Visibilities) : o = Push(InGroup(group), v)

NestInv == \E o : Nested(<<>>, out, 0, o) /\ Here(o)

\* Stacks and their depth.
LEMMA StacksAre ==
  /\ <<>> \in Stacks /\ Len(<<>>) = 0
  /\ InFunction \in Stacks /\ Len(InFunction) = 1
  /\ \A g \in ToSet(Groups) : InGroup(g) \in Stacks /\ Len(InGroup(g)) = 2
  /\ \A g \in ToSet(Groups), v \in ToSet(Visibilities) :
       Push(InGroup(g), v) \in Stacks /\ Len(Push(InGroup(g), v)) = 3
<1>1. <<>> \in Stacks /\ Len(<<>>) = 0
  BY DEF Stacks
<1> DEFINE Deeper(o, k) == o \in Stacks /\ Len(o) = k
<1>5. ASSUME NEW o, NEW k \in Nat, Deeper(o, k), NEW word \in Opening PROVE Deeper(Push(o, word), k + 1)
  BY <1>5, PushIs
<1> HIDE DEF Deeper
<1>6. 0 + 1 = 1 /\ 1 + 1 = 2 /\ 2 + 1 = 3 /\ 0 \in Nat /\ 1 \in Nat /\ 2 \in Nat
  OBVIOUS
<1>7. "function" \in Opening /\ ToSet(Groups) \subseteq Opening /\ ToSet(Visibilities) \subseteq Opening
  BY OpeningAre
<1>8. Deeper(InFunction, 1)
  <2>1. Deeper(<<>>, 0)
    BY <1>1 DEF Deeper
  <2>2. Deeper(Push(<<>>, "function"), 0 + 1)
    BY <2>1, <1>5, <1>6, <1>7
  <2> QED
    BY <2>2, <1>6 DEF InFunction
<1>9. ASSUME NEW g \in ToSet(Groups) PROVE Deeper(InGroup(g), 2)
  <2>1. Deeper(Push(InFunction, g), 1 + 1)
    BY <1>8, <1>5, <1>6, <1>7
  <2> QED
    BY <2>1, <1>6 DEF InGroup
<1>10. ASSUME NEW g \in ToSet(Groups), NEW v \in ToSet(Visibilities) PROVE Deeper(Push(InGroup(g), v), 3)
  <2>1. Deeper(Push(InGroup(g), v), 2 + 1)
    BY <1>9, <1>5, <1>6, <1>7
  <2> QED
    BY <2>1, <1>6
<1>2. InFunction \in Stacks /\ Len(InFunction) = 1
  BY <1>8 DEF Deeper
<1>3. ASSUME NEW g \in ToSet(Groups) PROVE InGroup(g) \in Stacks /\ Len(InGroup(g)) = 2
  BY <1>9 DEF Deeper
<1>4. ASSUME NEW g \in ToSet(Groups), NEW v \in ToSet(Visibilities)
      PROVE  Push(InGroup(g), v) \in Stacks /\ Len(Push(InGroup(g), v)) = 3
  BY <1>10 DEF Deeper
<1> QED
  BY <1>1, <1>2, <1>3, <1>4

\* Lines that are written continue what is written.
LEMMA WriteNested ==
  ASSUME NEW o, NEW q, NEW k \in Nat, NEW L, Nested(<<>>, out, 0, o), Nested(o, L, k, q), WriteAt(k, L)
  PROVE  Nested(<<>>, out', 0, q)
<1>1. out' = out \o Shift(L, k)
  BY DEF WriteAt, Shift
<1>2. 0 + k = k
  OBVIOUS
<1>3. Nested(o, Shift(L, k), 0, q)
  BY <1>2, NestedShift
<1> QED
  BY <1>1, <1>3, NestedConcat

\* Lines of the outermost level.
LEMMA WriteOutside ==
  ASSUME Nested(<<>>, out, 0, <<>>), indent = 0, NEW L, Flat(L), Write(L)
  PROVE  Nested(<<>>, out', 0, <<>>)
<1>1. Nested(<<>>, L, 0, <<>>) /\ 0 \in Nat
  BY StacksAre, FlatIn
<1>2. WriteAt(0, L)
  BY DEF Write
<1> QED
  BY <1>1, <1>2, WriteNested

\* The element of a list that comes next, and the list after it.
LEMMA HeadIs ==
  ASSUME NEW S, NEW s \in Seq(S), s # <<>> PROVE Head(s) \in S /\ Tail(s) \in Seq(S)
BY HeadTailProperties

\* The target that is written.
LEMMA TargetTyped ==
  ASSUME WorkTyped, pc \in {"targets", "groups", "visibility", "values", "configurations"}, left # <<>>
  PROVE  /\ IsList(target.aliases)
         /\ \A g \in ToSet(Groups) \ {"properties"}, v \in ToSet(Visibilities) :
              /\ IsList(target.groups[g][v].global)
              /\ \A n \in DOMAIN target.groups[g][v].configurations :
                   IsList(target.groups[g][v].configurations[n])
<1>1. target \in ToSet(config.targets) /\ config \in Configurations
  BY HeadIs DEF WorkTyped, target
<1>2. PICK i \in DOMAIN config.targets : target = config.targets[i]
  BY <1>1 DEF ToSet
<1>3. ToSet(Groups) \ {"properties"} = {"sources", "includes", "pchs", "dependencies", "definitions",
                                        "compile_options", "link_options"}
      /\ ToSet(Visibilities) = {"PUBLIC", "INTERFACE", "PRIVATE"}
  BY OpeningAre
<1>4. IsList(target.aliases)
  BY <1>1, <1>2, ConfigurationsAreDecoded
<1>5. ASSUME NEW g \in ToSet(Groups) \ {"properties"}, NEW v \in ToSet(Visibilities)
      PROVE  /\ IsList(target.groups[g][v].global)
             /\ \A n \in DOMAIN target.groups[g][v].configurations :
                  IsList(target.groups[g][v].configurations[n])
  <2>1. g \in {"sources", "includes", "pchs", "dependencies", "definitions", "compile_options", "link_options"}
        /\ v \in {"PUBLIC", "INTERFACE", "PRIVATE"}
    BY <1>3
  <2>2. LET given == config.targets[i].groups[g][v]
        IN /\ IsList(given.global)
           /\ \A n \in DOMAIN given.configurations : IsList(given.configurations[n])
    <3>1. \A j \in DOMAIN config.targets :
            \A h \in {"sources", "includes", "pchs", "dependencies", "definitions", "compile_options",
                      "link_options"}, w \in {"PUBLIC", "INTERFACE", "PRIVATE"} :
              LET given == config.targets[j].groups[h][w]
              IN /\ IsList(given.global)
                 /\ \A n \in DOMAIN given.configurations : IsList(given.configurations[n])
      BY <1>1, ConfigurationsAreDecoded, Zenon
    <3> QED
      BY <2>1, <3>1, Zenon
  <2> QED
    BY <1>2, <2>2
<1> QED
  BY <1>4, <1>5

\* The values that are written next.
LEMMA ConfigsTyped ==
  ASSUME TypeOK, WorkTyped, pc \in {"values", "configurations"}
  PROVE  /\ group \in ToSet(Groups)
         /\ group # "properties" =>
              /\ IsList(configs.global)
              /\ \A n \in DOMAIN configs.configurations : IsList(configs.configurations[n])
<1>1. group \in ToSet(Groups)
  BY HeadIs DEF TypeOK, WorkTyped, group
<1>2. CASE group # "properties"
  <2>1. Head(vis) \in ToSet(Visibilities)
    BY <1>2, HeadIs DEF TypeOK, WorkTyped
  <2>2. configs = target.groups[group][Head(vis)]
    BY <1>2 DEF configs, setting
  <2>3. left # <<>>
    BY DEF WorkTyped
  <2> QED
    BY <1>1, <1>2, <2>1, <2>2, <2>3, TargetTyped
<1> QED
  BY <1>1, <1>2

\* The head of the file and the packages.
LEMMA OutsideNests == ASSUME TypeOK, WorkTyped, NestInv, Outside PROVE NestInv'
<1>1. indent = 0 /\ Nested(<<>>, out, 0, <<>>)
  BY DEF Outside, Begin, TargetOptions, SetSettings, SystemPackages, ExternalPackage, ExternalDone, Done,
         TypeOK, Level, NestInv, Here
<1>2. SUFFICES Nested(<<>>, out', 0, <<>>) /\ pc' \notin {"groups", "visibility", "values", "configurations"}
  BY DEF NestInv, Here
<1>3. CASE Begin
  <2> DEFINE first == <<"cmake_minimum_required">>
             second == <<"project", config.project>>
  <2>1. first[1] = "cmake_minimum_required" /\ second[1] = "project"
    OBVIOUS
  <2>2. Flat(Line(first)) /\ Flat(Line(second)) /\ Flat(Option(config.options))
    BY <2>1, PlainWords, FlatLine, FlatOption
  <2>3. Flat(Line(first) \o Line(second) \o Option(config.options))
    BY <2>2, FlatConcat
  <2> QED
    BY <1>1, <1>3, <2>3, WriteOutside DEF Begin
<1>4. CASE TargetOptions
  <2> DEFINE names == Sorted(config_target_options)
             L == [i \in DOMAIN names |-> Option(config_target_options[names[i]])]
             n == Len(names)
  <2>1. n \in Nat /\ DOMAIN names = 1 .. n
    BY SortedIs
  <2>2. L = [i \in 1 .. n |-> L[i]] /\ \A i \in 1 .. n : L[i] = Option(config_target_options[names[i]])
    BY <2>1
  <2>3. Write(FlattenSeq(L)) /\ pc' = "settings"
    BY <1>4 DEF TargetOptions
  <2> HIDE DEF n, L, names
  <2>4. \A i \in 1 .. n : Flat(L[i])
    BY <2>2, FlatOption
  <2>5. Flat(FlattenSeq(L))
    BY <2>1, <2>2, <2>4, FlatFlatten
  <2> QED
    BY <1>1, <2>3, <2>5, WriteOutside
<1>5. CASE SetSettings
  BY <1>1, <1>5, FlatSet, WriteOutside DEF SetSettings
<1>6. CASE SystemPackages
  <2> DEFINE L == [i \in DOMAIN Of("system") |->
                     LET pkg == Of("system")[i] IN If(pkg.if_, Line(<<"find_package", pkg.name, pkg.is_required>>))]
             n == Len(Of("system"))
  <2>0. IsList(Of("system"))
    BY ConfigurationsAreDecoded, OnlyIs, SeqIsList DEF Of, WorkTyped
  <2>1. n \in Nat /\ DOMAIN Of("system") = 1 .. n
    BY <2>0, ListHas
  <2>2. L = [i \in 1 .. n |-> L[i]]
        /\ \A i \in 1 .. n : L[i] = LET pkg == Of("system")[i]
                                    IN If(pkg.if_, Line(<<"find_package", pkg.name, pkg.is_required>>))
    BY <2>1
  <2>3. Write(FlattenSeq(L)) /\ pc' = "external"
    BY <1>6 DEF SystemPackages
  <2> HIDE DEF n, L
  <2>4. ASSUME NEW i \in 1 .. n PROVE Flat(L[i])
    <3> DEFINE pkg == Of("system")[i]
               text == <<"find_package", pkg.name, pkg.is_required>>
    <3>1. text[1] = "find_package"
      OBVIOUS
    <3>2. L[i] = If(pkg.if_, Line(text))
      BY <2>2
    <3> HIDE DEF text, pkg
    <3> QED
      BY <3>1, <3>2, PlainWords, FlatLine, FlatIf
  <2>5. Flat(FlattenSeq(L))
    BY <2>1, <2>2, <2>4, FlatFlatten
  <2> QED
    BY <1>1, <2>3, <2>5, WriteOutside
<1>7. CASE ExternalPackage
  <2> DEFINE pkg == Head(left)
             func == <<"cgen_package", count>>
             add == <<"add_subdirectory", pkg.name>>
             message == <<"message", pkg.name>>
             call == <<"call", func>>
             old == Line(<<"function", func>>)
              \o In(Set(pkg.options, TRUE)
                    \o Line(<<"if", "EXISTS">>) \o In(Line(<<"add_subdirectory", pkg.name>>))
                    \o Line(<<"else">>) \o In(Line(<<"message", pkg.name>>)) \o Line(<<"endif">>))
              \o Line(<<"endfunction">>)
              \o If(pkg.if_, Line(<<"call", func>>))
  <2>1. add[1] = "add_subdirectory" /\ message[1] = "message" /\ call[1] = "call"
    OBVIOUS
  <2>2. Write(old) /\ pc' = "external"
    BY <1>7 DEF ExternalPackage
  <2>3. Flat(Line(add)) /\ Flat(Line(message)) /\ Flat(Line(call)) /\ Flat(Set(pkg.options, TRUE))
    BY <2>1, PlainWords, FlatLine, FlatSet
  <2> DEFINE set == Set(pkg.options, TRUE)
             inner == set \o Line(<<"if", "EXISTS">>) \o In(Line(add)) \o Line(<<"else">>) \o In(Line(message))
                      \o Line(<<"endif">>)
  <2>5. Flat(inner)
    BY <2>3, FlatElse
  <2> HIDE DEF inner
  <2>6. Flat(Line(<<"function", func>>) \o In(inner) \o Line(<<"endfunction">>))
    BY <2>5, FlatFunction
  <2>7. Flat(If(pkg.if_, Line(call)))
    BY <2>3, FlatIf
  <2>8. Flat(Line(<<"function", func>>) \o In(inner) \o Line(<<"endfunction">>) \o If(pkg.if_, Line(call)))
    BY <2>6, <2>7, FlatConcat
  <2>9. Flat(old)
    BY <2>8 DEF inner
  <2> HIDE DEF old
  <2> QED
    BY <1>1, <2>2, <2>9, WriteOutside
<1>8. CASE ExternalDone
  BY <1>1, <1>8 DEF ExternalDone
<1>9. CASE Done
  BY <1>1, <1>9 DEF Done, loopVars
<1> QED
  BY <1>3, <1>4, <1>5, <1>6, <1>7, <1>8, <1>9 DEF Outside


\* A target, its groups and its visibilities.
LEMMA InsideNests == ASSUME TypeOK, WorkTyped, NestInv, Inside PROVE NestInv'
<1>1. PICK o : Nested(<<>>, out, 0, o) /\ Here(o)
  BY DEF NestInv
<1>2. /\ groups # <<>> => group \in ToSet(Groups)
      /\ vis # <<>> => Head(vis) \in ToSet(Visibilities)
  BY HeadIs DEF WorkTyped, group
<1>3. ASSUME NEW k \in Nat, NEW L, NEW q, Nested(o, L, k, q), WriteAt(k, L), Here(q)' PROVE NestInv'
  <2>1. Nested(<<>>, out', 0, q)
    BY <1>1, <1>3, WriteNested
  <2> QED
    BY <1>3, <2>1 DEF NestInv
<1>4. ASSUME out' = out, Here(o)' PROVE NestInv'
  BY <1>1, <1>4 DEF NestInv
<1>5. 0 \in Nat /\ 1 \in Nat /\ 2 \in Nat /\ 3 \in Nat
  OBVIOUS
<1>6. CASE TargetBegin
  <2> DEFINE f == <<"function", func_name>>
             M == Set(target.settings, FALSE) \o Line(Add(target)) \o Aliases(target)
             L == Line(f) \o In(M)
  <2>1. f[1] = "function" /\ "function" \in Blocks
    BY DEF Blocks
  <2>2. o = <<>> /\ indent = 0 /\ Write(L) /\ pc' = "groups"
    BY <1>1, <1>6 DEF TargetBegin, Here, TypeOK, Level
  <2>3. IsList(target.aliases)
    BY <1>6, TargetTyped DEF TargetBegin
  <2>4. Flat(Line(Add(target)))
    <3>1. Add(target)[1] \in {"add_library", "add_executable"}
      BY DEF Add
    <3> QED
      BY <3>1, PlainWords, FlatLine
  <2>5. Flat(M)
    BY <2>3, <2>4, FlatSet, FlatAliases, FlatConcat
  <2> HIDE DEF f, M
  <2>6. Nested(<<>>, Line(f), 0, InFunction)
    BY <2>1, NestedOpen, StacksAre DEF InFunction
  <2>7. Nested(InFunction, In(M), 0, InFunction)
    BY <2>5, FlatInside, StacksAre, OpeningAre DEF InFunction
  <2>8. Nested(<<>>, L, 0, InFunction)
    BY <2>6, <2>7, NestedConcat
  <2> HIDE DEF L
  <2>9. Here(InFunction)'
    BY <2>2 DEF Here
  <2> QED
    BY <1>3, <1>5, <2>2, <2>8, <2>9 DEF Write
<1>7. CASE GroupSkip
  BY <1>1, <1>4, <1>7 DEF GroupSkip, Here
<1>8. CASE GroupBegin
  <2> DEFINE text == <<group, target.name>>
  <2>1. text[1] = group /\ group \in ToSet(Groups) /\ group \in Blocks
    BY <1>2, <1>8 DEF GroupBegin, Blocks
  <2>2. o = InFunction /\ indent = 1 /\ Write(Line(text)) /\ group' = group
        /\ (IF group = "properties" THEN pc' = "values" ELSE pc' = "visibility")
    BY <1>1, <1>8 DEF GroupBegin, Here, TypeOK, Level, group
  <2> HIDE DEF text
  <2>3. Nested(o, Line(text), 1, InGroup(group))
    BY <2>1, <2>2, NestedOpen, StacksAre DEF InGroup
  <2>4. Here(InGroup(group))'
    BY <2>2 DEF Here, InGroup, InFunction
  <2> QED
    BY <1>3, <1>5, <2>2, <2>3, <2>4 DEF Write
<1>9. CASE VisibilitySkip
  <2>1. pc' = pc /\ pc = "visibility" /\ out' = out /\ group' = group
    BY <1>9 DEF VisibilitySkip, group
  <2> QED
    BY <1>1, <1>4, <2>1 DEF Here, InGroup, InFunction
<1>10. CASE VisibilityBegin
  <2> DEFINE v == Head(vis)
             g == group
             text == <<v>>
             q == Push(InGroup(g), v)
  <2>1. /\ g \in ToSet(Groups) /\ g # "properties" /\ v \in ToSet(Visibilities) /\ v \in Opening /\ text[1] = v
        /\ indent = 2 /\ Write(Line(text)) /\ group' = g /\ pc' = "values"
    BY <1>2, <1>10, OpeningAre DEF VisibilityBegin, TypeOK, Level, group, loopVars
  <2>2. o = InGroup(g) \/ \E w \in ToSet(Visibilities) : o = Push(InGroup(g), w)
    BY <1>1, <1>10 DEF VisibilityBegin, Here
  <2> HIDE DEF g, v, text
  <2>3. InFunction \in Stacks /\ InGroup(g) \in Stacks /\ Len(InGroup(g)) = 2 /\ q \in Stacks /\ o \in Stacks
    BY <2>1, <2>2, StacksAre
  <2>4. OpenAt(o, v) = InGroup(g)
    <3>1. CASE o = InGroup(g)
      BY <2>1, <2>3, <3>1, VisibilityOpens DEF InGroup
    <3>2. ASSUME NEW w \in ToSet(Visibilities), o = Push(InGroup(g), w) PROVE OpenAt(o, v) = InGroup(g)
      BY <2>1, <2>3, <3>2, VisibilityOpens DEF InGroup
    <3> QED
      BY <2>2, <3>1, <3>2
  <2>5. q = InGroup(g) \o <<text[1]>>
    BY <2>1 DEF Push
  <2>6. Step(o, [indent |-> 0, text |-> text], 2, q)
    BY <2>1, <2>3, <2>4, <2>5, StepLine
  <2>7. Nested(o, Line(text), 2, q)
    BY <2>3, <2>6, NestedLine
  <2>8. PICK c : c = q
    OBVIOUS
  <2>9. c = Push(InGroup(group'), v)
    BY <2>1, <2>8
  <2>10. Here(c)'
    BY <2>1, <2>9 DEF Here, InGroup, InFunction
  <2> HIDE DEF q
  <2>11. Nested(o, Line(text), 2, c)
    BY <2>7, <2>8
  <2> QED
    BY <1>3, <1>5, <2>1, <2>10, <2>11 DEF Write
<1>11. CASE GlobalValues \/ Configuration
  <2>1. /\ pc \in {"values", "configurations"} /\ pc' = "configurations" /\ group' = group
        /\ indent \in Nat /\ indent = (IF group = "properties" THEN 2 ELSE 3)
    BY <1>11 DEF GlobalValues, Configuration, TypeOK, Level, group
  <2>2. /\ group \in ToSet(Groups)
        /\ group # "properties" =>
             /\ IsList(configs.global)
             /\ \A n \in DOMAIN configs.configurations : IsList(configs.configurations[n])
    BY <2>1, ConfigsTyped
  <2>3. IF group = "properties" THEN o = InGroup(group)
        ELSE \E v \in ToSet(Visibilities) : o = Push(InGroup(group), v)
    BY <1>1, <2>1 DEF Here
  <2>4. o \in Stacks /\ Len(o) = indent
    BY <2>1, <2>2, <2>3, StacksAre
  <2>5. Here(o)'
    BY <2>1, <2>3 DEF Here, InGroup, InFunction
  <2>6. ASSUME NEW L, Flat(L), Write(L) PROVE NestInv'
    BY <1>3, <2>1, <2>4, <2>5, <2>6, FlatIn DEF Write
  <2>7. CASE GlobalValues
    BY <2>2, <2>6, <2>7, FlatValues DEF GlobalValues
  <2>8. CASE Configuration
    <3> DEFINE c == Head(confs)
               values == configs.configurations[c]
    <3>1. c \in DOMAIN configs.configurations
      BY <2>8, HeadIs DEF Configuration, WorkTyped
    <3>2. Flat(Values(group, target.path, values))
      BY <2>2, <3>1, FlatValues
    <3>3. Flat(Line(<<"config", c>>) \o In(Values(group, target.path, values)) \o Line(<<"endconfig">>))
      BY <3>2, FlatConfig
    <3> QED
      BY <1>4, <2>5, <2>6, <2>8, <3>3 DEF Configuration
  <2> QED
    BY <1>11, <2>7, <2>8
<1>12. CASE VisibilityEnd
  <2>1. pc = "configurations" /\ pc' = "visibility" /\ out' = out /\ group' = group /\ group # "properties"
    BY <1>12 DEF VisibilityEnd, group
  <2> QED
    BY <1>1, <1>4, <2>1 DEF Here, InGroup, InFunction
<1>13. CASE GroupEnd
  <2> DEFINE text == <<"endgroup">>
  <2>1. text[1] = "endgroup"
    OBVIOUS
  <2>2. /\ pc = "visibility" \/ (pc = "configurations" /\ group = "properties")
        /\ pc' = "groups" /\ indent = 2 /\ WriteAt(indent', Line(text)) /\ indent' = indent - 1
        /\ group \in ToSet(Groups)
    BY <1>2, <1>13 DEF GroupEnd, TypeOK, Level
  <2> HIDE DEF text
  <2>3. o = InGroup(group) \/ \E v \in ToSet(Visibilities) : o = Push(InGroup(group), v)
    BY <1>1, <2>2 DEF Here
  <2>4. InFunction \in Stacks /\ Len(InFunction) = 1 /\ o \in Stacks
    BY <2>2, <2>3, StacksAre
  <2>5. OpenAt(o, "endgroup") = InFunction
    BY <2>2, <2>3, <2>4, GroupCloses, VisibilityCloses DEF InGroup
  <2>6. Nested(o, Line(text), 1, InFunction)
    BY <2>1, <2>4, <2>5, EndWords, NestedEnd
  <2>7. Here(InFunction)'
    BY <2>2 DEF Here
  <2>8. indent' = 1
    BY <2>2
  <2> QED
    BY <1>3, <1>5, <2>2, <2>6, <2>7, <2>8
<1>14. CASE TargetEnd
  <2> DEFINE text == <<"endfunction">>
             call == <<"call", func_name>>
             L == Line(text) \o If(target.if_, Line(call))
  <2>1. text[1] = "endfunction" /\ call[1] = "call"
    OBVIOUS
  <2>2. o = InFunction /\ indent' = 0 /\ pc' = "targets" /\ WriteAt(indent', L)
    BY <1>1, <1>14 DEF TargetEnd, Here, TypeOK, Level
  <2> HIDE DEF text, call
  <2>3. OpenAt(InFunction, "endfunction") = <<>> /\ InFunction \in Stacks
    BY StacksAre, EndCloses, ClosesIs DEF InFunction
  <2>4. Nested(InFunction, Line(text), 0, <<>>)
    BY <2>1, <2>3, StacksAre, EndWords, NestedEnd
  <2>5. Flat(If(target.if_, Line(call)))
    BY <2>1, PlainWords, FlatLine, FlatIf
  <2>6. Nested(<<>>, If(target.if_, Line(call)), 0, <<>>)
    BY <2>5, StacksAre, FlatIn
  <2>7. Nested(InFunction, L, 0, <<>>)
    BY <2>4, <2>6, NestedConcat
  <2>8. Here(<<>>)'
    BY <2>2 DEF Here
  <2> HIDE DEF L
  <2> QED
    BY <1>3, <1>5, <2>2, <2>7, <2>8
<1> QED
  BY <1>6, <1>7, <1>8, <1>9, <1>10, <1>11, <1>12, <1>13, <1>14 DEF Inside

\* What is left of the loops stays within the configuration.
LEMMA WorkKeeps == ASSUME TypeOK, WorkTyped, Next PROVE WorkTyped'
<1>1. Groups \in Seq(ToSet(Groups)) /\ Visibilities \in Seq(ToSet(Visibilities)) /\ <<>> \in Seq(ToSet(Visibilities))
  BY OpeningAre DEF Groups, Visibilities
<1>2. config' = config /\ config \in Configurations
  BY DEF Next, Begin, TargetOptions, SetSettings, SystemPackages, ExternalPackage, ExternalDone, TargetBegin,
         GroupSkip, GroupBegin, VisibilitySkip, VisibilityBegin, GlobalValues, Configuration, VisibilityEnd,
         GroupEnd, TargetEnd, Done, WorkTyped
<1> DEFINE In5(p) == p \in {"targets", "groups", "visibility", "values", "configurations"}
           In4(p) == p \in {"groups", "visibility", "values", "configurations"}
           T == Seq(ToSet(config.targets))
<1>3. config.targets \in T
  BY <1>2, ConfigurationsAreDecoded DEF IsList
<1>4. (In5(pc) => left \in T) /\ (In4(pc) => left # <<>>)
  BY DEF WorkTyped
<1>5. \A s \in T : s # <<>> => Tail(s) \in T
  BY HeadIs
<1> DEFINE L == (In5(pc') => left' \in T) /\ (In4(pc') => left' # <<>>)
           G == groups' \in Seq(ToSet(Groups)) /\ vis' \in Seq(ToSet(Visibilities))
           C == pc' = "configurations" => confs' \in Seq(DOMAIN (configs').configurations)
<1>6. groups \in Seq(ToSet(Groups)) /\ vis \in Seq(ToSet(Visibilities))
  BY DEF WorkTyped
<1>7. ASSUME L, G, C PROVE WorkTyped'
  BY <1>2, <1>7 DEF WorkTyped
<1>8. CASE Outside
  <2>1. /\ pc' \notin {"groups", "visibility", "values", "configurations"} /\ UNCHANGED <<groups, vis>>
        /\ pc' = "targets" => left' = config.targets
    BY <1>8 DEF Outside, Begin, TargetOptions, SetSettings, SystemPackages, ExternalPackage, ExternalDone, Done,
           loopVars
  <2> QED
    BY <1>3, <1>6, <1>7, <2>1
<1>9. CASE TargetBegin
  <2>1. pc = "targets" /\ left # <<>> /\ pc' = "groups" /\ left' = left /\ groups' = Groups /\ vis' = vis
    BY <1>9 DEF TargetBegin
  <2> QED
    BY <1>1, <1>4, <1>6, <1>7, <2>1
<1>10. CASE GroupSkip \/ GroupEnd
  <2>1. In4(pc) /\ pc' = "groups" /\ left' = left /\ groups' = Tail(groups) /\ groups # <<>> /\ vis' = vis
    BY <1>10 DEF GroupSkip, GroupEnd, TypeOK
  <2>2. groups' \in Seq(ToSet(Groups))
    BY <1>6, <2>1, HeadIs
  <2> QED
    BY <1>4, <1>6, <1>7, <2>1, <2>2
<1>11. CASE GroupBegin
  <2>1. pc = "groups" /\ pc' \in {"values", "visibility"} /\ left' = left /\ groups' = groups
        /\ vis' \in {<<>>, Visibilities}
    BY <1>11 DEF GroupBegin
  <2> QED
    BY <1>1, <1>4, <1>6, <1>7, <2>1
<1>12. CASE VisibilitySkip \/ VisibilityEnd
  <2>1. In4(pc) /\ pc' = "visibility" /\ left' = left /\ groups' = groups /\ vis' = Tail(vis) /\ vis # <<>>
    BY <1>12 DEF VisibilitySkip, VisibilityEnd, TypeOK
  <2>2. vis' \in Seq(ToSet(Visibilities))
    BY <1>6, <2>1, HeadIs
  <2> QED
    BY <1>4, <1>6, <1>7, <2>1, <2>2
<1>13. CASE VisibilityBegin
  <2>1. pc = "visibility" /\ pc' = "values" /\ left' = left /\ groups' = groups /\ vis' = vis
    BY <1>13 DEF VisibilityBegin, loopVars
  <2> QED
    BY <1>4, <1>6, <1>7, <2>1
<1>14. CASE GlobalValues
  <2>1. In4(pc) /\ pc' = "configurations" /\ left' = left /\ groups' = groups /\ vis' = vis
        /\ confs' = Sorted(configs.configurations)
    BY <1>14 DEF GlobalValues
  <2>2. configs' = configs
    BY <2>1, <1>2 DEF configs, setting, group, target
  <2>3. C
    BY <2>1, <2>2, SortedIs
  <2> QED
    BY <1>4, <1>6, <1>7, <2>1, <2>3
<1>15. CASE Configuration
  <2>1. In4(pc) /\ pc = "configurations" /\ pc' = pc /\ left' = left /\ groups' = groups /\ vis' = vis
        /\ confs' = Tail(confs) /\ confs # <<>>
    BY <1>15 DEF Configuration
  <2>2. configs' = configs
    BY <2>1, <1>2 DEF configs, setting, group, target
  <2>3. C
    BY <2>1, <2>2, HeadIs DEF WorkTyped
  <2> QED
    BY <1>4, <1>6, <1>7, <2>1, <2>3
<1>16. CASE TargetEnd
  <2>1. pc = "groups" /\ pc' = "targets" /\ left' = Tail(left) /\ groups' = groups /\ vis' = vis
    BY <1>16 DEF TargetEnd
  <2> QED
    BY <1>4, <1>5, <1>6, <1>7, <2>1
<1> QED
  BY <1>8, <1>9, <1>10, <1>11, <1>12, <1>13, <1>14, <1>15, <1>16 DEF Next, Outside

\* What the lines between two stacks say of the text as CMake reads it.
LEMMA NestedIsNested == ASSUME Nested(<<>>, out, 0, <<>>) PROVE WellNested
<1> DEFINE n == Len(out)
           Body(f) == [i \in 0 .. Len(out) |-> IF i = 0 THEN <<>> ELSE OpenAfter(f[i - 1], out[i])]
           open == CHOOSE f : f = Body(f)
<1>1. n \in Nat /\ DOMAIN out = 1 .. n
  BY ListHas DEF Nested
<1>2. PICK f : f[0] = <<>> /\ f[n] = <<>> /\ Nests(f, out, 0)
  BY DEF Nested
<1> DEFINE g == [i \in 0 .. n |-> f[i]]
<1>3. \A i \in 0 .. n : g[i] = f[i]
  OBVIOUS
<1>4. g = Body(g)
  <2>1. ASSUME NEW i \in 0 .. n, i # 0 PROVE f[i] = OpenAfter(g[i - 1], out[i])
    <3>1. i \in 1 .. n /\ i - 1 \in 0 .. n
      BY <1>1, <2>1
    <3>2. Step(f[i - 1], out[i], 0, f[i])
      BY <1>2, <3>1 DEF Nests
    <3>3. g[i - 1] = f[i - 1]
      BY <1>3, <3>1
    <3> HIDE DEF g
    <3> QED
      BY <3>2, <3>3 DEF Step
  <2>2. ASSUME NEW i \in 0 .. n PROVE f[i] = IF i = 0 THEN <<>> ELSE OpenAfter(g[i - 1], out[i])
    BY <1>2, <2>1
  <2> QED
    BY <2>2
<1>5. open = Body(open)
  BY <1>4
<1> HIDE DEF open, g
<1>6. \A i \in 0 .. n : open[i] = IF i = 0 THEN <<>> ELSE OpenAfter(open[i - 1], out[i])
  BY <1>5
<1> HIDE DEF n
<1> DEFINE T == {i \in 0 .. n : open[i] = f[i]}
<1>7. 0 \in T
  BY <1>1, <1>2, <1>6
<1>8. ASSUME NEW i \in 0 .. n - 1, i \in T PROVE i + 1 \in T
  <2>1. i + 1 \in 1 .. n /\ i + 1 \in 0 .. n /\ (i + 1) - 1 = i /\ i + 1 # 0
    BY <1>1
  <2>2. Step(f[i], out[i + 1], 0, f[i + 1])
    BY <1>2, <2>1 DEF Nests, n
  <2>3. open[i + 1] = OpenAfter(open[i], out[i + 1])
    BY <1>6, <2>1
  <2> QED
    BY <1>8, <2>1, <2>2, <2>3 DEF Step
<1> HIDE DEF T
<1>9. 0 .. n \subseteq T
  BY <1>1, <1>7, <1>8, UpTo
<1>10. \A i \in 0 .. n : open[i] = f[i]
  BY <1>9 DEF T
<1>11. ASSUME NEW i \in DOMAIN out
       PROVE  LET here == OpenAt(open[i - 1], out[i].text[1]) IN here # <<"?">> /\ out[i].indent = Len(here)
  <2>1. i \in 1 .. n /\ i - 1 \in 0 .. n
    BY <1>1
  <2>2. Step(open[i - 1], out[i], 0, f[i])
    BY <1>2, <1>10, <2>1 DEF Nests, n
  <2> DEFINE here == OpenAt(open[i - 1], out[i].text[1])
  <2>3. here \in Stacks /\ out[i].indent \in Nat /\ out[i].indent + 0 = Len(here)
    BY <2>2 DEF Step
  <2> HIDE DEF here
  <2>4. here # <<"?">> /\ out[i].indent = Len(here)
    BY <2>3, NoStack
  <2> QED
    BY <2>4 DEF here
<1>12. open[n] = <<>>
  BY <1>1, <1>2, <1>10
<1> QED
  BY <1>11, <1>12 DEF WellNested, open, n

\* Every block of the text is closed by its own end, and every line is
\* indented as deep as it is nested, for every configuration (indent() and
\* unindent() over all of write()).
THEOREM BlocksAreNested == Spec => []WellNested
<1> DEFINE IInv == TypeOK /\ WorkTyped /\ NestInv
<1>1. Init => IInv
  <2> SUFFICES ASSUME Init PROVE WorkTyped /\ NestInv /\ TypeOK
    OBVIOUS
  <2>1. TypeOK
    BY DEF Init, TypeOK, Level
  <2>2. WorkTyped
    BY DEF Init, WorkTyped
  <2>3. Nested(<<>>, out, 0, <<>>) /\ Here(<<>>)
    BY NestedNothing, StacksAre DEF Init, Here
  <2> QED
    BY <2>1, <2>2, <2>3 DEF NestInv
<1>2. IInv /\ [Next]_vars => IInv'
  <2> SUFFICES ASSUME TypeOK, WorkTyped, NestInv, [Next]_vars PROVE IInv'
    OBVIOUS
  <2>1. CASE Next
    <3>1. TypeOK'
      BY <2>1, OutsideKeeps, InsideKeeps DEF Next, Outside, Inside
    <3>2. WorkTyped'
      BY <2>1, WorkKeeps
    <3>3. NestInv'
      BY <2>1, OutsideNests, InsideNests DEF Next, Outside, Inside
    <3> QED
      BY <3>1, <3>2, <3>3
  <2>2. CASE UNCHANGED vars
    <3>1. UNCHANGED <<config, pc, out, indent, left, count, groups, vis, confs>>
      BY <2>2 DEF vars, loopVars
    <3>2. TypeOK'
      BY <3>1 DEF TypeOK, Level, group
    <3>3. WorkTyped'
      BY <3>1 DEF WorkTyped, configs, setting, group, target
    <3>4. NestInv'
      BY <3>1 DEF NestInv, Here, group, InGroup, InFunction
    <3> QED
      BY <3>2, <3>3, <3>4
  <2> QED
    BY <2>1, <2>2
<1>3. IInv => WellNested
  <2> SUFFICES ASSUME IInv, pc = "done" PROVE WellNested
    BY DEF WellNested
  <2>1. Nested(<<>>, out, 0, <<>>)
    BY DEF NestInv, Here
  <2> QED
    BY <2>1, NestedIsNested
<1> QED
  BY <1>1, <1>2, <1>3, PTL DEF Spec

-----------------------------------------------------------------------------
\* The order of words in lines.

\* First words of U, and then words of V.
Split(L, U, V) ==
  /\ IsList(L)
  /\ \E c \in 0 .. Len(L) : \A i \in 1 .. Len(L) : L[i].text[1] \in IF i <= c THEN U ELSE V

\* A text that is there once, and no other with its word.
Once(L, text) ==
  /\ IsList(L)
  /\ \E i \in 1 .. Len(L) : L[i].text = text /\ \A j \in 1 .. Len(L) \ {i} : L[j].text[1] # text[1]

\* No option or setting at the outermost level.
TopFree(L) ==
  /\ IsList(L) /\ \A i \in 1 .. Len(L) : L[i].indent = 0 => L[i].text[1] \notin {"option", "set"}

\* The lines of N are those of L and then those of M.
Joined(L, M, N) ==
  /\ IsList(N) /\ Len(L) \in Nat /\ Len(M) \in Nat /\ Len(N) = Len(L) + Len(M)
  /\ \A i \in 1 .. Len(L) : i \in 1 .. Len(N) /\ N[i] = L[i]
  /\ \A k \in 1 .. Len(M) : Len(L) + k \in 1 .. Len(N) /\ N[Len(L) + k] = M[k]
  /\ \A i \in 1 .. Len(N) : i \in 1 .. Len(L) \/ \E k \in 1 .. Len(M) : i = Len(L) + k

\* A line of two lists is one of the first or of the second.
LEMMA ConcatAt == ASSUME NEW L, NEW M, IsList(L), IsList(M) PROVE Joined(L, M, L \o M)
<1> DEFINE n == Len(L)
           m == Len(M)
           N == L \o M
<1>0. n \in Nat /\ m \in Nat
  BY ListHas
<1>1. /\ IsList(N) /\ Len(N) = n + m
      /\ \A i \in 1 .. n : N[i] = L[i]
      /\ \A k \in 1 .. m : N[n + k] = M[k]
  BY ListsConcat
<1> HIDE DEF n, m, N
<1>2. \A i \in 1 .. n : i \in 1 .. n + m
  BY <1>0
<1>3. \A k \in 1 .. m : n + k \in 1 .. n + m
  BY <1>0
<1>4. ASSUME NEW i \in 1 .. n + m PROVE i \in 1 .. n \/ \E k \in 1 .. m : i = n + k
  <2>1. i \notin 1 .. n => i - n \in 1 .. m /\ i = n + (i - n)
    BY <1>0
  <2> QED
    BY <2>1
<1> QED
  BY <1>0, <1>1, <1>2, <1>3, <1>4 DEF Joined, n, m, N

\* In a block the words are the same.
LEMMA InAt ==
  ASSUME NEW L, NEW W, NEW D \in SUBSET Nat, Has(L, W, D)
  PROVE  IsList(In(L)) /\ Len(In(L)) = Len(L) /\ \A i \in 1 .. Len(L) : In(L)[i].text = L[i].text
<1> DEFINE M == In(L)
<1>1. IsList(L) /\ Len(L) \in Nat /\ DOMAIN L = 1 .. Len(L)
  BY ListHas DEF Has
<1>2. M = [i \in 1 .. Len(L) |-> [L[i] EXCEPT !.indent = @ + 1]]
  BY <1>1 DEF In
<1> HIDE DEF M
<1>3. M = [i \in 1 .. Len(L) |-> M[i]] /\ \A i \in 1 .. Len(L) : M[i] = [L[i] EXCEPT !.indent = @ + 1]
  BY <1>2
<1>4. IsList(M) /\ Len(M) = Len(L)
  BY <1>1, <1>3, ListIs
<1>5. ASSUME NEW i \in 1 .. Len(L) PROVE M[i].text = L[i].text
  <2> DEFINE l == L[i]
             m == M[i]
  <2>1. l = [indent |-> l.indent, text |-> l.text]
    BY DEF Has
  <2>2. m = [l EXCEPT !.indent = @ + 1]
    BY <1>3
  <2> HIDE DEF l, m
  <2>3. m = [indent |-> l.indent + 1, text |-> l.text]
    BY <2>1, <2>2
  <2>4. m.text = l.text
    BY <2>3
  <2> QED
    BY <2>4 DEF l, m
<1> QED
  BY <1>4, <1>5 DEF M

\* Lines with words of one kind.
LEMMA SplitAll == ASSUME NEW L, NEW U, NEW V, NEW D, Has(L, U, D) PROVE Split(L, U, V)
<1>1. Len(L) \in 0 .. Len(L) /\ \A i \in 1 .. Len(L) : i <= Len(L)
  BY ListHas DEF Has
<1> QED
  BY <1>1 DEF Split, Has

\* More of the second words.
LEMMA SplitLeft ==
  ASSUME NEW L, NEW M, NEW U, NEW V, NEW D, Split(L, U, V), Has(M, V, D) PROVE Split(L \o M, U, V)
<1> DEFINE N == L \o M
<1>1. Joined(L, M, N)
  <2>1. IsList(L) /\ IsList(M)
    BY DEF Split, Has
  <2> QED
    BY <2>1, ConcatAt
<1> HIDE DEF N
<1>2. PICK c \in 0 .. Len(L) : \A i \in 1 .. Len(L) : L[i].text[1] \in IF i <= c THEN U ELSE V
  BY DEF Split
<1>3. c \in 0 .. Len(N) /\ \A k \in 1 .. Len(M) : ~ (Len(L) + k <= c)
  BY <1>1 DEF Joined
<1>4. ASSUME NEW i \in 1 .. Len(N) PROVE N[i].text[1] \in IF i <= c THEN U ELSE V
  <2>1. CASE i \in 1 .. Len(L)
    BY <1>1, <1>2, <2>1 DEF Joined
  <2>2. ASSUME NEW k \in 1 .. Len(M), i = Len(L) + k PROVE N[i].text[1] \in IF i <= c THEN U ELSE V
    BY <1>1, <1>3, <2>2 DEF Has, Joined
  <2> QED
    BY <1>1, <2>1, <2>2 DEF Joined
<1> QED
  BY <1>1, <1>3, <1>4 DEF Split, N, Joined

\* More of the first words.
LEMMA SplitRight ==
  ASSUME NEW L, NEW M, NEW U, NEW V, NEW D, Has(L, U, D), Split(M, U, V) PROVE Split(L \o M, U, V)
<1> DEFINE N == L \o M
<1>1. Joined(L, M, N)
  <2>1. IsList(L) /\ IsList(M)
    BY DEF Split, Has
  <2> QED
    BY <2>1, ConcatAt
<1> HIDE DEF N
<1>2. PICK c \in 0 .. Len(M) : \A i \in 1 .. Len(M) : M[i].text[1] \in IF i <= c THEN U ELSE V
  BY DEF Split
<1> DEFINE d == Len(L) + c
<1>3. /\ d \in 0 .. Len(N) /\ \A i \in 1 .. Len(L) : i <= d
      /\ \A k \in 1 .. Len(M) : Len(L) + k <= d <=> k <= c
  BY <1>1 DEF Joined
<1> HIDE DEF d
<1>4. ASSUME NEW i \in 1 .. Len(N) PROVE N[i].text[1] \in IF i <= d THEN U ELSE V
  <2>1. CASE i \in 1 .. Len(L)
    BY <1>1, <1>3, <2>1 DEF Has, Joined
  <2>2. ASSUME NEW k \in 1 .. Len(M), i = Len(L) + k PROVE N[i].text[1] \in IF i <= d THEN U ELSE V
    BY <1>1, <1>2, <1>3, <2>2 DEF Joined
  <2> QED
    BY <1>1, <2>1, <2>2 DEF Joined
<1> QED
  BY <1>1, <1>3, <1>4 DEF Split, N, Joined

\* First words and then others, in a block.
LEMMA SplitIn ==
  ASSUME NEW L, NEW U, NEW V, NEW W, NEW D \in SUBSET Nat, Has(L, W, D), Split(L, U, V) PROVE Split(In(L), U, V)
<1>1. IsList(In(L)) /\ Len(In(L)) = Len(L) /\ \A i \in 1 .. Len(L) : In(L)[i].text = L[i].text
  BY InAt
<1> QED
  BY <1>1 DEF Split

\* A word of the first kind only is before one of the second kind only.
LEMMA SplitOrders ==
  ASSUME NEW L, NEW U, NEW V, Split(L, U, V), NEW i \in 1 .. Len(L), NEW j \in 1 .. Len(L),
         L[i].text[1] \notin U, L[j].text[1] \notin V
  PROVE  j < i
<1>1. PICK c \in 0 .. Len(L) : \A k \in 1 .. Len(L) : L[k].text[1] \in IF k <= c THEN U ELSE V
  BY DEF Split
<1>2. ~ (i <= c) /\ j <= c
  BY <1>1
<1>3. Len(L) \in Nat
  BY ListHas DEF Split
<1> QED
  BY <1>2, <1>3

\* A line has its text once.
LEMMA OnceLine == ASSUME NEW text PROVE Once(Line(text), text)
<1> DEFINE l == [indent |-> 0, text |-> text]
<1>1. <<l>> \in Seq({l}) /\ Len(<<l>>) = 1 /\ <<l>>[1] = l /\ l.text = text
  OBVIOUS
<1> HIDE DEF l
<1>2. IsList(<<l>>)
  BY <1>1, SeqIsList
<1>3. 1 \in 1 .. 1 /\ 1 .. 1 \ {1} = {}
  OBVIOUS
<1>4. Once(<<l>>, text)
  BY <1>1, <1>2, <1>3 DEF Once
<1> QED
  BY <1>4 DEF Line, l

\* Lines with other words follow, or come first.
LEMMA OnceLeft ==
  ASSUME NEW L, NEW M, NEW text, NEW W, NEW D, Once(L, text), Has(M, W, D), text[1] \notin W
  PROVE  Once(L \o M, text)
<1> DEFINE N == L \o M
<1>1. Joined(L, M, N)
  <2>1. IsList(L) /\ IsList(M)
    BY DEF Once, Has
  <2> QED
    BY <2>1, ConcatAt
<1> HIDE DEF N
<1>2. PICK i \in 1 .. Len(L) : L[i].text = text /\ \A j \in 1 .. Len(L) \ {i} : L[j].text[1] # text[1]
  BY DEF Once
<1>3. ASSUME NEW j \in 1 .. Len(N) \ {i} PROVE N[j].text[1] # text[1]
  <2>1. CASE j \in 1 .. Len(L)
    BY <1>1, <1>2, <2>1 DEF Joined
  <2>2. ASSUME NEW k \in 1 .. Len(M), j = Len(L) + k PROVE N[j].text[1] # text[1]
    <3>1. N[j] = M[k]
      BY <1>1, <2>2 DEF Joined
    <3>2. M[k].text[1] \in W
      BY DEF Has
    <3> QED
      BY <3>1, <3>2
  <2> QED
    BY <1>1, <2>1, <2>2 DEF Joined
<1>4. Once(N, text)
  BY <1>1, <1>2, <1>3 DEF Once, Joined
<1> QED
  BY <1>4 DEF N

\* The same at the other end.
LEMMA OnceRight ==
  ASSUME NEW L, NEW M, NEW text, NEW W, NEW D, Once(M, text), Has(L, W, D), text[1] \notin W
  PROVE  Once(L \o M, text)
<1> DEFINE N == L \o M
<1>1. Joined(L, M, N)
  <2>1. IsList(L) /\ IsList(M)
    BY DEF Once, Has
  <2> QED
    BY <2>1, ConcatAt
<1> HIDE DEF N
<1>2. PICK i \in 1 .. Len(M) : M[i].text = text /\ \A j \in 1 .. Len(M) \ {i} : M[j].text[1] # text[1]
  BY DEF Once
<1> DEFINE b == Len(L) + i
<1>3. ASSUME NEW j \in 1 .. Len(N) \ {b} PROVE N[j].text[1] # text[1]
  <2>1. CASE j \in 1 .. Len(L)
    BY <1>1, <2>1 DEF Has, Joined
  <2>2. ASSUME NEW k \in 1 .. Len(M), j = Len(L) + k PROVE N[j].text[1] # text[1]
    <3>1. k # i
      BY <1>1, <2>2 DEF Joined
    <3> QED
      BY <1>1, <1>2, <2>2, <3>1 DEF Joined
  <2> QED
    BY <1>1, <2>1, <2>2 DEF Joined
<1>4. b \in 1 .. Len(N) /\ N[b] = M[i]
  BY <1>1 DEF Joined
<1> HIDE DEF b
<1>5. Once(N, text)
  BY <1>1, <1>2, <1>3, <1>4 DEF Once, Joined
<1> QED
  BY <1>5 DEF N

\* The same in a block.
LEMMA OnceIn ==
  ASSUME NEW L, NEW text, NEW W, NEW D \in SUBSET Nat, Has(L, W, D), Once(L, text) PROVE Once(In(L), text)
<1>1. IsList(In(L)) /\ Len(In(L)) = Len(L) /\ \A i \in 1 .. Len(L) : In(L)[i].text = L[i].text
  BY InAt
<1> QED
  BY <1>1 DEF Once

\* Other words, lines of a block, and one part after the other.
LEMMA TopFreeHas ==
  ASSUME NEW L, NEW W, NEW D, Has(L, W, D), "option" \notin W, "set" \notin W PROVE TopFree(L)
BY DEF Has, TopFree

\* Lines of a block.
LEMMA TopFreeIn == ASSUME NEW L, NEW W, NEW D \in SUBSET Nat, Has(L, W, D) PROVE TopFree(In(L))
<1>1. Has(In(L), W, Nat \ {0})
  BY HasIn
<1> QED
  BY <1>1 DEF Has, TopFree

\* One part after the other.
LEMMA TopFreeConcat == ASSUME NEW L, NEW M, TopFree(L), TopFree(M) PROVE TopFree(L \o M)
<1> DEFINE N == L \o M
<1>1. Joined(L, M, N)
  <2>1. IsList(L) /\ IsList(M)
    BY DEF TopFree
  <2> QED
    BY <2>1, ConcatAt
<1> HIDE DEF N
<1>2. ASSUME NEW i \in 1 .. Len(N), N[i].indent = 0 PROVE N[i].text[1] \notin {"option", "set"}
  <2>1. CASE i \in 1 .. Len(L)
    BY <1>1, <1>2, <2>1 DEF TopFree, Joined
  <2>2. ASSUME NEW k \in 1 .. Len(M), i = Len(L) + k PROVE N[i].text[1] \notin {"option", "set"}
    BY <1>1, <1>2, <2>2 DEF TopFree, Joined
  <2> QED
    BY <1>1, <2>1, <2>2 DEF Joined
<1>3. TopFree(N)
  BY <1>1, <1>2 DEF TopFree, Joined
<1> QED
  BY <1>3 DEF N

-----------------------------------------------------------------------------
\* What lines that are added change of the order of all lines.  These are
\* facts about any text o, and the text p that has the lines L after those of
\* o, indented by k.

Grown(o, L, k, p) ==
  /\ Len(o) \in Nat /\ IsList(L) /\ Len(L) \in Nat
  /\ DOMAIN o = 1 .. Len(o) /\ DOMAIN p = 1 .. Len(o) + Len(L)
  /\ \A i \in DOMAIN o : p[i] = o[i]
  /\ \A a \in 1 .. Len(L) : p[Len(o) + a].text = L[a].text /\ p[Len(o) + a].indent = L[a].indent + k

\* The places of the text that are old, and those that are new.
LEMMA GrownAt ==
  ASSUME NEW o, NEW L, NEW k, NEW p, Grown(o, L, k, p)
  PROVE  /\ \A i \in DOMAIN o : i \in DOMAIN p /\ i \in Nat
         /\ \A a \in 1 .. Len(L) : Len(o) + a \in DOMAIN p /\ Len(o) + a \notin DOMAIN o
                                   /\ \A i \in DOMAIN o : i < Len(o) + a
         /\ \A i \in DOMAIN p : i \in Nat
         /\ \A i \in DOMAIN p : \/ i \in DOMAIN o /\ p[i] = o[i]
                                \/ \E a \in 1 .. Len(L) : /\ i = Len(o) + a /\ p[i].text = L[a].text
                                                         /\ p[i].indent = L[a].indent + k
         /\ \A a, b \in 1 .. Len(L) : Len(o) + a < Len(o) + b <=> a < b
<1> DEFINE n == Len(o)
           m == Len(L)
<1>1. n \in Nat /\ m \in Nat /\ DOMAIN o = 1 .. n /\ DOMAIN p = 1 .. n + m
  BY DEF Grown
<1> HIDE DEF n, m
<1>2. \A i \in 1 .. n : i \in 1 .. n + m /\ i \in Nat
  BY <1>1
<1>3. \A a \in 1 .. m : n + a \in 1 .. n + m /\ n + a \notin 1 .. n /\ \A i \in 1 .. n : i < n + a
  BY <1>1
<1>4. ASSUME NEW i \in 1 .. n + m PROVE i \in Nat /\ (i \in 1 .. n \/ \E a \in 1 .. m : i = n + a)
  <2>1. i \notin 1 .. n => i - n \in 1 .. m /\ i = n + (i - n)
    BY <1>1
  <2> QED
    BY <2>1
<1>5. \A a, b \in 1 .. m : n + a < n + b <=> a < b
  BY <1>1
<1>6. /\ \A i \in DOMAIN o : p[i] = o[i]
      /\ \A a \in 1 .. m : p[n + a].text = L[a].text /\ p[n + a].indent = L[a].indent + k
  BY DEF Grown, n, m
<1>7. ASSUME NEW i \in DOMAIN p
      PROVE  \/ i \in DOMAIN o /\ p[i] = o[i]
             \/ \E a \in 1 .. m : i = n + a /\ p[i].text = L[a].text /\ p[i].indent = L[a].indent + k
  <2>1. CASE i \in 1 .. n
    BY <1>1, <1>6, <2>1
  <2>2. ASSUME NEW a \in 1 .. m, i = n + a
        PROVE  \E c \in 1 .. m : i = n + c /\ p[i].text = L[c].text /\ p[i].indent = L[c].indent + k
    BY <1>6, <2>2
  <2> QED
    BY <1>1, <1>4, <2>1, <2>2
<1> QED
  BY <1>1, <1>2, <1>3, <1>4, <1>5, <1>7 DEF n, m

Inner      == {"groups", "visibility", "values", "configurations"}
Adds       == {"add_library", "add_executable"}
Used       == {"find_package", "if", "function", "call"}
TopOf(o)   == {i \in DOMAIN o : o[i].indent = 0}
DefsOf(o)  == {i \in DOMAIN o : o[i].text[1] = "function"}
BodyOf(o, f) == {i \in DOMAIN o : f < i /\ \A j \in f .. i : o[j].text[1] # "endfunction"}
Sorts(o, these, those, inside) ==
  \A i, j \in inside : o[i].text[1] \in those /\ o[j].text[1] \in these => j < i

\* The options are before the settings, and both before what uses them.
TopSorted(o) ==
  Sorts(o, {"option"}, {"set"}, TopOf(o)) /\ Sorts(o, {"option", "set"}, Used, TopOf(o))

\* None of the words at the outermost level.
TopWithout(o, W) == \A i \in TopOf(o) : o[i].text[1] \notin W

\* The places at the outermost level.
LEMMA TopAt ==
  ASSUME NEW o, NEW L, NEW k, NEW p, Grown(o, L, k, p)
  PROVE  /\ \A i \in TopOf(p) : \/ i \in TopOf(o) /\ p[i] = o[i]
                                \/ \E a \in 1 .. Len(L) : /\ i = Len(o) + a /\ L[a].indent + k = 0
                                                         /\ p[i].text = L[a].text
         /\ \A i \in TopOf(o) : i \in DOMAIN o
<1>1. ASSUME NEW i \in TopOf(p)
      PROVE  \/ i \in TopOf(o) /\ p[i] = o[i]
             \/ \E a \in 1 .. Len(L) : i = Len(o) + a /\ L[a].indent + k = 0 /\ p[i].text = L[a].text
  <2>1. i \in DOMAIN p /\ p[i].indent = 0
    BY DEF TopOf
  <2>2. CASE i \in DOMAIN o /\ p[i] = o[i]
    BY <2>1, <2>2 DEF TopOf
  <2>3. ASSUME NEW a \in 1 .. Len(L), i = Len(o) + a, p[i].text = L[a].text, p[i].indent = L[a].indent + k
        PROVE  \E c \in 1 .. Len(L) : i = Len(o) + c /\ L[c].indent + k = 0 /\ p[i].text = L[c].text
    BY <2>1, <2>3
  <2>4. \/ i \in DOMAIN o /\ p[i] = o[i]
        \/ \E a \in 1 .. Len(L) : i = Len(o) + a /\ p[i].text = L[a].text /\ p[i].indent = L[a].indent + k
    BY <2>1, GrownAt
  <2> QED
    BY <2>2, <2>3, <2>4
<1> QED
  BY <1>1 DEF TopOf

\* Lines without options and settings keep the order.
LEMMA TopKeeps ==
  ASSUME NEW o, NEW L, NEW k, NEW p, Grown(o, L, k, p), TopSorted(o),
         \A a \in 1 .. Len(L) : L[a].indent + k = 0 => L[a].text[1] \notin {"option", "set"}
  PROVE  TopSorted(p)
<1>1. ASSUME NEW i \in TopOf(p), NEW j \in TopOf(p), NEW these, NEW those, these \subseteq {"option", "set"},
             Sorts(o, these, those, TopOf(o)), p[i].text[1] \in those, p[j].text[1] \in these
      PROVE  j < i
  <2>1. j \in TopOf(o) /\ p[j] = o[j]
    <3>1. \/ j \in TopOf(o) /\ p[j] = o[j]
          \/ \E a \in 1 .. Len(L) : j = Len(o) + a /\ L[a].indent + k = 0 /\ p[j].text = L[a].text
      BY TopAt
    <3>2. \A a \in 1 .. Len(L) : L[a].indent + k = 0 /\ p[j].text = L[a].text => FALSE
      BY <1>1
    <3> QED
      BY <3>1, <3>2
  <2>2. CASE i \in TopOf(o) /\ p[i] = o[i]
    BY <1>1, <2>1, <2>2 DEF Sorts
  <2>3. ASSUME NEW a \in 1 .. Len(L), i = Len(o) + a PROVE j < i
    BY <2>1, <2>3, GrownAt, TopAt
  <2> QED
    BY <2>2, <2>3, TopAt
<1>2. ASSUME NEW these, NEW those, these \subseteq {"option", "set"}, Sorts(o, these, those, TopOf(o))
      PROVE  Sorts(p, these, those, TopOf(p))
  BY <1>1, <1>2 DEF Sorts
<1>3. {"option"} \subseteq {"option", "set"}
  OBVIOUS
<1> QED
  BY <1>2, <1>3 DEF TopSorted

\* Without words that have to come later there is nothing to order.
LEMMA TopTrivial == ASSUME NEW o, TopWithout(o, {"set"} \cup Used) PROVE TopSorted(o)
BY DEF TopWithout, TopSorted, Sorts

\* Words that are in neither part are not in the text.
LEMMA TopWithoutGrows ==
  ASSUME NEW o, NEW L, NEW k, NEW p, Grown(o, L, k, p), NEW W, TopWithout(o, W),
         \A a \in 1 .. Len(L) : L[a].text[1] \notin W
  PROVE  TopWithout(p, W)
<1> SUFFICES ASSUME NEW i \in TopOf(p) PROVE p[i].text[1] \notin W
  BY DEF TopWithout
<1>1. \/ i \in TopOf(o) /\ p[i] = o[i]
      \/ \E a \in 1 .. Len(L) : i = Len(o) + a /\ L[a].indent + k = 0 /\ p[i].text = L[a].text
  BY TopAt
<1> QED
  BY <1>1 DEF TopWithout

\* Settings come after options.
LEMMA TopSettings ==
  ASSUME NEW o, NEW L, NEW k, NEW p, Grown(o, L, k, p), TopWithout(o, {"set"} \cup Used),
         \A a \in 1 .. Len(L) : L[a].text[1] = "set"
  PROVE  TopSorted(p) /\ TopWithout(p, Used)
<1>1. TopWithout(p, Used)
  <2>1. TopWithout(o, Used) /\ "set" \notin Used
    BY DEF TopWithout, Used
  <2> QED
    BY <2>1, TopWithoutGrows
<1>2. ASSUME NEW i \in TopOf(p), NEW j \in TopOf(p), p[i].text[1] = "set", p[j].text[1] = "option" PROVE j < i
  <2>1. j \in TopOf(o) /\ p[j] = o[j]
    <3>1. \/ j \in TopOf(o) /\ p[j] = o[j]
          \/ \E a \in 1 .. Len(L) : j = Len(o) + a /\ L[a].indent + k = 0 /\ p[j].text = L[a].text
      BY TopAt
    <3>2. \A a \in 1 .. Len(L) : p[j].text # L[a].text
      BY <1>2
    <3> QED
      BY <3>1, <3>2
  <2>2. PICK a \in 1 .. Len(L) : i = Len(o) + a
    BY <1>2, TopAt DEF TopWithout
  <2> QED
    BY <2>1, <2>2, GrownAt, TopAt
<1>3. Sorts(p, {"option", "set"}, Used, TopOf(p))
  BY <1>1 DEF Sorts, TopWithout
<1>4. Sorts(p, {"option"}, {"set"}, TopOf(p))
  BY <1>2 DEF Sorts
<1> QED
  BY <1>1, <1>3, <1>4 DEF TopSorted

-----------------------------------------------------------------------------
\* The bodies of functions.

BodySorted(o, f) ==
  /\ Sorts(o, {"set"}, {"add_subdirectory"} \cup Adds, BodyOf(o, f))
  /\ Sorts(o, Adds, {"add_alias"} \cup ToSet(Groups), BodyOf(o, f))
BodiesSorted(o) == \A f \in DefsOf(o) : BodySorted(o, f)
Closed(o) == \A f \in DefsOf(o) : \E j \in DOMAIN o : f < j /\ o[j].text[1] = "endfunction"

\* The words whose order matters in a body.
LEMMA WordsDiffer ==
  /\ "function" \notin ToSet(Groups) /\ "call" \notin ToSet(Groups) /\ "set" \notin ToSet(Groups)
  /\ Adds \cap ToSet(Groups) = {} /\ "endfunction" \notin ToSet(Groups) /\ "option" \notin ToSet(Groups)
BY OpeningAre DEF Adds

\* A place of a body that is old was in the body.
LEMMA BodyWas ==
  ASSUME NEW o, NEW L, NEW k, NEW p, Grown(o, L, k, p), NEW f \in DOMAIN o, NEW i \in BodyOf(p, f), i \in DOMAIN o
  PROVE  i \in BodyOf(o, f) /\ p[i] = o[i]
<1>1. f \in Nat /\ i \in Nat /\ Len(o) \in Nat /\ f < i /\ DOMAIN o = 1 .. Len(o)
  BY GrownAt DEF Grown, BodyOf
<1>2. f .. i \subseteq DOMAIN o
  BY <1>1
<1>3. \A j \in f .. i : o[j].text[1] # "endfunction"
  BY <1>2 DEF BodyOf, Grown
<1> QED
  BY <1>1, <1>3 DEF BodyOf, Grown

\* A body has only places of the text that come after its function.
LEMMA BodyAt ==
  ASSUME NEW o, NEW f, NEW i \in BodyOf(o, f) PROVE i \in DOMAIN o /\ f < i
BY DEF BodyOf

\* Lines without the words that come first keep the order in every body.
LEMMA BodiesKeep ==
  ASSUME NEW o, NEW L, NEW k, NEW p, Grown(o, L, k, p), BodiesSorted(o),
         \A a \in 1 .. Len(L) : L[a].text[1] \notin {"set", "function"} \cup Adds
  PROVE  BodiesSorted(p)
<1> SUFFICES ASSUME NEW f \in DefsOf(p) PROVE BodySorted(p, f)
  BY DEF BodiesSorted
<1>1. f \in DefsOf(o) /\ f \in DOMAIN o
  <2>0. f \in DOMAIN p /\ p[f].text[1] = "function"
    BY DEF DefsOf
  <2>1. \/ f \in DOMAIN o /\ p[f] = o[f]
        \/ \E a \in 1 .. Len(L) : f = Len(o) + a /\ p[f].text = L[a].text /\ p[f].indent = L[a].indent + k
    BY <2>0, GrownAt
  <2>2. \A a \in 1 .. Len(L) : p[f].text # L[a].text
    BY <2>0
  <2> QED
    BY <2>0, <2>1, <2>2 DEF DefsOf
<1>2. ASSUME NEW these, NEW those, these \subseteq {"set"} \cup Adds, Sorts(o, these, those, BodyOf(o, f)),
             NEW i \in BodyOf(p, f), NEW j \in BodyOf(p, f), p[i].text[1] \in those, p[j].text[1] \in these
      PROVE  j < i
  <2>1. i \in DOMAIN p /\ j \in DOMAIN p
    BY BodyAt
  <2>2. j \in DOMAIN o
    <3>1. \/ j \in DOMAIN o /\ p[j] = o[j]
          \/ \E a \in 1 .. Len(L) : j = Len(o) + a /\ p[j].text = L[a].text /\ p[j].indent = L[a].indent + k
      BY <2>1, GrownAt
    <3>2. \A a \in 1 .. Len(L) : p[j].text # L[a].text
      BY <1>2
    <3> QED
      BY <3>1, <3>2
  <2>3. CASE i \in DOMAIN o
    BY <1>1, <1>2, <2>2, <2>3, BodyWas DEF Sorts
  <2>4. CASE i \notin DOMAIN o
    BY <2>1, <2>2, <2>4, GrownAt
  <2> QED
    BY <2>3, <2>4
<1>3. ASSUME NEW these, NEW those, these \subseteq {"set"} \cup Adds, Sorts(o, these, those, BodyOf(o, f))
      PROVE  Sorts(p, these, those, BodyOf(p, f))
  BY <1>2, <1>3 DEF Sorts
<1>4. BodySorted(o, f)
  BY <1>1 DEF BodiesSorted
<1>5. {"set"} \subseteq {"set"} \cup Adds /\ Adds \subseteq {"set"} \cup Adds
  OBVIOUS
<1> QED
  BY <1>3, <1>4, <1>5 DEF BodySorted

\* When all functions have ended, only the order in the lines that are added matters.
LEMMA BodiesNew ==
  ASSUME NEW o, NEW L, NEW k, NEW p, Grown(o, L, k, p), BodiesSorted(o), Closed(o),
         Sorts(L, {"set"}, {"add_subdirectory"} \cup Adds, 1 .. Len(L)),
         Sorts(L, Adds, {"add_alias"} \cup ToSet(Groups), 1 .. Len(L))
  PROVE  BodiesSorted(p)
<1> SUFFICES ASSUME NEW f \in DefsOf(p) PROVE BodySorted(p, f)
  BY DEF BodiesSorted
<1>1. f \in DOMAIN p
  BY DEF DefsOf
<1>2. ASSUME f \in DOMAIN o, NEW i \in BodyOf(p, f) PROVE i \in DOMAIN o
  <2>1. f \in DefsOf(o)
    BY <1>2 DEF DefsOf, Grown
  <2>2. PICK j \in DOMAIN o : f < j /\ o[j].text[1] = "endfunction"
    BY <2>1 DEF Closed
  <2>3. p[j].text[1] = "endfunction" /\ j \in Nat /\ f \in Nat /\ i \in Nat /\ i \in DOMAIN p
    BY <1>1, <2>2, GrownAt, BodyAt DEF Grown
  <2>4. j \notin f .. i
    BY <2>3 DEF BodyOf
  <2>5. i < j
    BY <2>2, <2>3, <2>4
  <2> QED
    BY <2>3, <2>5, GrownAt
<1>3. ASSUME f \notin DOMAIN o, NEW i \in BodyOf(p, f) PROVE \E a \in 1 .. Len(L) : i = Len(o) + a
  <2>1. PICK b \in 1 .. Len(L) : f = Len(o) + b
    BY <1>1, <1>3, GrownAt
  <2>2. i \in DOMAIN p /\ f < i /\ f \in Nat /\ i \in Nat
    BY <1>1, <1>3, GrownAt, BodyAt
  <2>3. i \notin DOMAIN o
    <3>1. i \in DOMAIN o => i < f
      BY <2>1, GrownAt
    <3> QED
      BY <2>2, <3>1
  <2> QED
    BY <2>2, <2>3, GrownAt
<1>4. ASSUME NEW these, NEW those, Sorts(o, these, those, BodyOf(o, f)) \/ f \notin DOMAIN o,
             Sorts(L, these, those, 1 .. Len(L)),
             NEW i \in BodyOf(p, f), NEW j \in BodyOf(p, f), p[i].text[1] \in those, p[j].text[1] \in these
      PROVE  j < i
  <2>1. CASE f \in DOMAIN o
    BY <1>2, <1>4, <2>1, BodyWas DEF Sorts
  <2>2. CASE f \notin DOMAIN o
    <3>1. PICK a \in 1 .. Len(L), b \in 1 .. Len(L) : i = Len(o) + a /\ j = Len(o) + b
      BY <1>3, <2>2
    <3>2. L[a].text[1] \in those /\ L[b].text[1] \in these
      BY <1>4, <3>1 DEF Grown
    <3>3. b < a
      BY <1>4, <3>2 DEF Sorts
    <3> QED
      BY <3>1, <3>3, GrownAt
  <2> QED
    BY <2>1, <2>2
<1>5. ASSUME NEW these, NEW those, Sorts(o, these, those, BodyOf(o, f)) \/ f \notin DOMAIN o,
             Sorts(L, these, those, 1 .. Len(L))
      PROVE  Sorts(p, these, those, BodyOf(p, f))
  BY <1>4, <1>5 DEF Sorts
<1>6. f \in DOMAIN o => BodySorted(o, f)
  BY DEF BodiesSorted, DefsOf, Grown
<1> QED
  BY <1>5, <1>6 DEF BodySorted

\* Every function that is added ends, so all have ended.
LEMMA ClosedGrows ==
  ASSUME NEW o, NEW L, NEW k, NEW p, Grown(o, L, k, p), Closed(o),
         \A a \in 1 .. Len(L) : L[a].text[1] = "function" =>
           \E b \in 1 .. Len(L) : a < b /\ L[b].text[1] = "endfunction"
  PROVE  Closed(p)
<1> SUFFICES ASSUME NEW f \in DefsOf(p) PROVE \E j \in DOMAIN p : f < j /\ p[j].text[1] = "endfunction"
  BY DEF Closed
<1>1. CASE f \in DOMAIN o
  <2>1. f \in DefsOf(o)
    BY <1>1 DEF DefsOf, Grown
  <2>2. PICK j \in DOMAIN o : f < j /\ o[j].text[1] = "endfunction"
    BY <2>1 DEF Closed
  <2> QED
    BY <2>2, GrownAt DEF Grown
<1>2. CASE f \notin DOMAIN o
  <2>1. PICK a \in 1 .. Len(L) : f = Len(o) + a
    BY <1>2, GrownAt DEF DefsOf
  <2>2. L[a].text[1] = "function"
    BY <2>1 DEF DefsOf, Grown
  <2>3. PICK b \in 1 .. Len(L) : a < b /\ L[b].text[1] = "endfunction"
    BY <2>2
  <2>4. f < Len(o) + b /\ Len(o) + b \in DOMAIN p /\ p[Len(o) + b].text[1] = "endfunction"
    BY <2>1, <2>3, GrownAt DEF Grown
  <2> QED
    BY <2>4
<1> QED
  BY <1>1, <1>2

\* The end of a function that is added ends all of them.
LEMMA ClosedEnd ==
  ASSUME NEW o, NEW L, NEW k, NEW p, Grown(o, L, k, p),
         \A a \in 1 .. Len(L) : L[a].text[1] # "function",
         NEW b \in 1 .. Len(L), L[b].text[1] = "endfunction"
  PROVE  Closed(p)
<1> SUFFICES ASSUME NEW f \in DefsOf(p) PROVE \E j \in DOMAIN p : f < j /\ p[j].text[1] = "endfunction"
  BY DEF Closed
<1>1. f \in DOMAIN o
  <2>0. f \in DOMAIN p /\ p[f].text[1] = "function"
    BY DEF DefsOf
  <2>1. \/ f \in DOMAIN o /\ p[f] = o[f]
        \/ \E a \in 1 .. Len(L) : f = Len(o) + a /\ p[f].text = L[a].text /\ p[f].indent = L[a].indent + k
    BY <2>0, GrownAt
  <2>2. \A a \in 1 .. Len(L) : p[f].text # L[a].text
    BY <2>0
  <2> QED
    BY <2>0, <2>1, <2>2 DEF DefsOf
<1>2. Len(o) + b \in DOMAIN p /\ f < Len(o) + b /\ p[Len(o) + b].text[1] = "endfunction"
  BY <1>1, GrownAt DEF Grown
<1> QED
  BY <1>2

-----------------------------------------------------------------------------
\* The names of functions and their calls.

Called(o, f) ==
  \E i \in DOMAIN o : /\ o[i].text = <<"call", o[f].text[2]>> /\ f < i
                      /\ \A j \in DOMAIN o \ {i} : o[j].text # o[i].text
Distinct(o) == \A f \in DefsOf(o) : \A g \in DefsOf(o) \ {f} : o[g].text # o[f].text
Fresh(o, kind, from) ==
  \A i \in DOMAIN o, n \in Nat :
    o[i].text[1] \in {"function", "call"} /\ o[i].text[2] = <<kind, n>> => n < from
Without(o, text) == \A i \in DOMAIN o : o[i].text # text

\* A call stays the only one when no line is added that is the same.
LEMMA CallsKeep ==
  ASSUME NEW o, NEW L, NEW k, NEW p, Grown(o, L, k, p), NEW f \in DOMAIN o, Called(o, f),
         \A a \in 1 .. Len(L) : L[a].text[1] = "call" => Without(o, L[a].text)
  PROVE  Called(p, f)
<1>1. PICK i \in DOMAIN o : /\ o[i].text = <<"call", o[f].text[2]>> /\ f < i
                            /\ \A j \in DOMAIN o \ {i} : o[j].text # o[i].text
  BY DEF Called
<1>2. p[i] = o[i] /\ p[f] = o[f] /\ i \in DOMAIN p
  BY GrownAt DEF Grown
<1>3. o[i].text[1] = "call"
  BY <1>1
<1>4. ASSUME NEW j \in DOMAIN p \ {i} PROVE p[j].text # p[i].text
  <2>1. \/ j \in DOMAIN o /\ p[j] = o[j]
        \/ \E a \in 1 .. Len(L) : j = Len(o) + a /\ p[j].text = L[a].text /\ p[j].indent = L[a].indent + k
    BY GrownAt
  <2>2. CASE j \in DOMAIN o /\ p[j] = o[j]
    BY <1>1, <1>2, <2>2
  <2>3. ASSUME NEW a \in 1 .. Len(L), p[j].text = L[a].text PROVE p[j].text # p[i].text
    <3>1. L[a].text[1] = "call" => L[a].text # o[i].text
      BY DEF Without
    <3> QED
      BY <1>2, <1>3, <2>3, <3>1
  <2> QED
    BY <2>1, <2>2, <2>3
<1> QED
  BY <1>1, <1>2, <1>4 DEF Called

\* The call of a function that is added is the only one.
LEMMA CallsNew ==
  ASSUME NEW o, NEW L, NEW k, NEW p, Grown(o, L, k, p), NEW f \in DOMAIN p, NEW name, p[f].text[2] = name,
         NEW c \in 1 .. Len(L), L[c].text = <<"call", name>>, f < Len(o) + c,
         \A a \in 1 .. Len(L) \ {c} : L[a].text[1] # "call", Without(o, <<"call", name>>)
  PROVE  Called(p, f)
<1> DEFINE i == Len(o) + c
           call == <<"call", name>>
<1>0. call[1] = "call"
  OBVIOUS
<1>1. i \in DOMAIN p /\ p[i].text = call
  BY GrownAt DEF Grown
<1>2. ASSUME NEW j \in DOMAIN p \ {i} PROVE p[j].text # call
  <2>1. \/ j \in DOMAIN o /\ p[j] = o[j]
        \/ \E a \in 1 .. Len(L) : j = Len(o) + a /\ p[j].text = L[a].text /\ p[j].indent = L[a].indent + k
    BY GrownAt
  <2>2. CASE j \in DOMAIN o /\ p[j] = o[j]
    BY <2>2 DEF Without
  <2>3. ASSUME NEW a \in 1 .. Len(L), j = Len(o) + a, p[j].text = L[a].text PROVE p[j].text # call
    <3>1. a # c
      BY <2>3
    <3>2. L[a].text[1] # "call"
      BY <3>1
    <3> HIDE DEF call
    <3> QED
      BY <1>0, <2>3, <3>2
  <2> QED
    BY <2>1, <2>2, <2>3
<1> HIDE DEF i
<1> QED
  BY <1>1, <1>2 DEF Called, i

\* The numbers of names that are added.
LEMMA FreshGrows ==
  ASSUME NEW o, NEW L, NEW k, NEW p, Grown(o, L, k, p), NEW kind, NEW from \in Nat, NEW to \in Nat, from <= to,
         Fresh(o, kind, from),
         \A a \in 1 .. Len(L), n \in Nat :
           L[a].text[1] \in {"function", "call"} /\ L[a].text[2] = <<kind, n>> => n < to
  PROVE  Fresh(p, kind, to)
<1> SUFFICES ASSUME NEW i \in DOMAIN p, NEW n \in Nat,
                    p[i].text[1] \in {"function", "call"}, p[i].text[2] = <<kind, n>>
             PROVE  n < to
  BY DEF Fresh
<1>1. \/ i \in DOMAIN o /\ p[i] = o[i]
      \/ \E a \in 1 .. Len(L) : i = Len(o) + a /\ p[i].text = L[a].text /\ p[i].indent = L[a].indent + k
  BY GrownAt
<1>2. CASE i \in DOMAIN o /\ p[i] = o[i]
  <2>1. n < from
    BY <1>2 DEF Fresh
  <2> QED
    BY <2>1
<1>3. ASSUME NEW a \in 1 .. Len(L), p[i].text = L[a].text PROVE n < to
  BY <1>3
<1> QED
  BY <1>1, <1>2, <1>3

\* A name whose number is fresh is not there yet.
LEMMA FreshIsNew ==
  ASSUME NEW o, NEW kind, NEW n \in Nat, Fresh(o, kind, n), NEW text, text[1] \in {"function", "call"},
         text[2] = <<kind, n>>
  PROVE  Without(o, text)
<1>1. ~ (n < n)
  OBVIOUS
<1> QED
  BY <1>1 DEF Fresh, Without

\* A text that is in neither part is not in both.
LEMMA WithoutGrows ==
  ASSUME NEW o, NEW L, NEW k, NEW p, Grown(o, L, k, p), NEW text, Without(o, text),
         \A a \in 1 .. Len(L) : L[a].text[1] # text[1]
  PROVE  Without(p, text)
<1> SUFFICES ASSUME NEW i \in DOMAIN p PROVE p[i].text # text
  BY DEF Without
<1>1. \/ i \in DOMAIN o /\ p[i] = o[i]
      \/ \E a \in 1 .. Len(L) : i = Len(o) + a /\ p[i].text = L[a].text /\ p[i].indent = L[a].indent + k
  BY GrownAt
<1> QED
  BY <1>1 DEF Without

\* The functions of a text that grew.
LEMMA DefsAt ==
  ASSUME NEW o, NEW L, NEW k, NEW p, Grown(o, L, k, p), NEW f \in DefsOf(p)
  PROVE  \/ f \in DefsOf(o) /\ p[f] = o[f] /\ f \in DOMAIN o
         \/ \E a \in 1 .. Len(L) : f = Len(o) + a /\ p[f].text = L[a].text /\ L[a].text[1] = "function"
<1>1. f \in DOMAIN p /\ p[f].text[1] = "function"
  BY DEF DefsOf
<1>2. \/ f \in DOMAIN o /\ p[f] = o[f]
      \/ \E a \in 1 .. Len(L) : f = Len(o) + a /\ p[f].text = L[a].text /\ p[f].indent = L[a].indent + k
  BY <1>1, GrownAt
<1>3. CASE f \in DOMAIN o /\ p[f] = o[f]
  BY <1>1, <1>3 DEF DefsOf
<1>4. ASSUME NEW a \in 1 .. Len(L), f = Len(o) + a, p[f].text = L[a].text
      PROVE  \E c \in 1 .. Len(L) : f = Len(o) + c /\ p[f].text = L[c].text /\ L[c].text[1] = "function"
  BY <1>1, <1>4
<1> QED
  BY <1>2, <1>3, <1>4

\* The names of functions stay different when at most one is added, with a new name.
LEMMA DistinctGrows ==
  ASSUME NEW o, NEW L, NEW k, NEW p, Grown(o, L, k, p), Distinct(o),
         \A a \in 1 .. Len(L) : L[a].text[1] = "function" => Without(o, L[a].text),
         \A a, b \in 1 .. Len(L) : L[a].text[1] = "function" /\ L[b].text[1] = "function" => a = b
  PROVE  Distinct(p)
<1> SUFFICES ASSUME NEW f \in DefsOf(p), NEW g \in DefsOf(p), f # g PROVE p[g].text # p[f].text
  BY DEF Distinct
<1>1. CASE f \in DefsOf(o) /\ p[f] = o[f] /\ f \in DOMAIN o
  <2>1. CASE g \in DefsOf(o) /\ p[g] = o[g] /\ g \in DOMAIN o
    BY <1>1, <2>1 DEF Distinct
  <2>2. ASSUME NEW b \in 1 .. Len(L), p[g].text = L[b].text, L[b].text[1] = "function"
        PROVE  p[g].text # p[f].text
    BY <1>1, <2>2 DEF Without
  <2> QED
    BY <2>1, <2>2, DefsAt
<1>2. ASSUME NEW a \in 1 .. Len(L), f = Len(o) + a, p[f].text = L[a].text, L[a].text[1] = "function"
      PROVE  p[g].text # p[f].text
  <2>1. CASE g \in DefsOf(o) /\ p[g] = o[g] /\ g \in DOMAIN o
    BY <1>2, <2>1 DEF Without
  <2>2. ASSUME NEW b \in 1 .. Len(L), g = Len(o) + b, L[b].text[1] = "function" PROVE FALSE
    <3>1. a = b
      BY <1>2, <2>2
    <3> QED
      BY <1>2, <2>2, <3>1
  <2> QED
    BY <2>1, <2>2, DefsAt
<1> QED
  BY <1>1, <1>2, DefsAt

\* Lines that neither define nor call a function leave all names as they are.
LEMMA NamesKeep ==
  ASSUME NEW o, NEW L, NEW k, NEW p, Grown(o, L, k, p),
         \A a \in 1 .. Len(L) : L[a].text[1] \notin {"function", "call"}
  PROVE  /\ Distinct(o) => Distinct(p)
         /\ \A f \in DefsOf(p) : f \in DefsOf(o) /\ p[f] = o[f] /\ (Called(o, f) => Called(p, f))
         /\ \A kind : \A from \in Nat : Fresh(o, kind, from) => Fresh(p, kind, from)
         /\ \A name : Without(o, <<"call", name>>) => Without(p, <<"call", name>>)
<1>1. Distinct(o) => Distinct(p)
  <2>1. \A a \in 1 .. Len(L) : L[a].text[1] # "function"
    OBVIOUS
  <2> QED
    BY <2>1, DistinctGrows
<1>2. ASSUME NEW f \in DefsOf(p) PROVE f \in DefsOf(o) /\ p[f] = o[f] /\ (Called(o, f) => Called(p, f))
  <2>1. f \in DefsOf(o) /\ p[f] = o[f] /\ f \in DOMAIN o
    <3>1. \A a \in 1 .. Len(L) : L[a].text[1] # "function"
      OBVIOUS
    <3> QED
      BY <3>1, DefsAt
  <2>2. Called(o, f) => Called(p, f)
    <3>1. \A a \in 1 .. Len(L) : L[a].text[1] # "call"
      OBVIOUS
    <3> QED
      BY <2>1, <3>1, CallsKeep
  <2> QED
    BY <2>1, <2>2
<1>3. ASSUME NEW kind, NEW from \in Nat, Fresh(o, kind, from) PROVE Fresh(p, kind, from)
  <2>1. from <= from
    OBVIOUS
  <2> QED
    BY <1>3, <2>1, FreshGrows
<1>4. ASSUME NEW name, Without(o, <<"call", name>>) PROVE Without(p, <<"call", name>>)
  <2> DEFINE call == <<"call", name>>
  <2>1. call[1] = "call"
    OBVIOUS
  <2>2. Without(o, call)
    BY <1>4
  <2> HIDE DEF call
  <2>3. Without(p, call)
    BY <2>1, <2>2, WithoutGrows
  <2> QED
    BY <2>3 DEF call
<1> QED
  BY <1>1, <1>2, <1>3, <1>4

-----------------------------------------------------------------------------
\* The order of the words that are written together.

\* A line, in a block or not.
LEMMA LineHas == ASSUME NEW text, NEW W, text[1] \in W PROVE Has(Line(text), W, Nat)
<1>1. Has(Line(text), W, {0}) /\ {0} \subseteq Nat /\ W \subseteq W
  BY HasLine
<1> QED
  BY <1>1, HasMore

\* Lines in a block.
LEMMA InHas == ASSUME NEW L, NEW W, Has(L, W, Nat) PROVE Has(In(L), W, Nat)
<1>1. Has(In(L), W, Nat \ {0}) /\ Nat \ {0} \subseteq Nat /\ W \subseteq W
  BY HasIn
<1> QED
  BY <1>1, HasMore

\* A call, under a condition or not.
LEMMA IfCall ==
  ASSUME NEW cond, NEW text, text[1] = "call"
  PROVE  Has(If(cond, Line(text)), {"if", "call", "endif"}, Nat) /\ Once(If(cond, Line(text)), text)
<1> DEFINE W == {"if", "call", "endif"}
           begin == <<"if", cond>>
           end == <<"endif">>
<1>1. begin[1] = "if" /\ end[1] = "endif"
  OBVIOUS
<1>2. If(cond, Line(text)) = IF cond = "" THEN Line(text) ELSE Line(begin) \o In(Line(text)) \o Line(end)
  BY DEF If
<1> HIDE DEF begin, end
<1>3. Has(Line(text), W, Nat) /\ Once(Line(text), text)
  BY LineHas, OnceLine
<1>4. Has(In(Line(text)), W, Nat) /\ Once(In(Line(text)), text)
  BY <1>3, InHas, OnceIn
<1>5. Has(Line(begin), {"if"}, Nat) /\ Has(Line(end), {"endif"}, Nat)
  BY <1>1, LineHas
<1>6. Has(Line(begin), W, Nat) /\ Has(Line(end), W, Nat)
  BY <1>1, LineHas
<1>7. Once(Line(begin) \o In(Line(text)), text)
  BY <1>4, <1>5, OnceRight
<1>8. Once(Line(begin) \o In(Line(text)) \o Line(end), text)
  BY <1>5, <1>7, OnceLeft
<1>9. Has(Line(begin) \o In(Line(text)) \o Line(end), W, Nat)
  BY <1>4, <1>6, HasConcat
<1> QED
  BY <1>2, <1>3, <1>8, <1>9

\* What an external package writes.
PackageLines(pkg, func) ==
  Line(<<"function", func>>)
  \o In(Set(pkg.options, TRUE)
        \o Line(<<"if", "EXISTS">>) \o In(Line(<<"add_subdirectory", pkg.name>>))
        \o Line(<<"else">>) \o In(Line(<<"message", pkg.name>>)) \o Line(<<"endif">>))
  \o Line(<<"endfunction">>)
  \o If(pkg.if_, Line(<<"call", func>>))
PackageFirst == {"function", "set"}
PackageThen  == {"if", "add_subdirectory", "else", "message", "endif", "endfunction", "call"}

\* The settings of a package come first, in a function that ends before it is called.
LEMMA PackageSorted ==
  ASSUME NEW pkg, NEW func
  PROVE  LET L == PackageLines(pkg, func)
         IN /\ Has(L, PackageFirst \cup PackageThen, Nat) /\ TopFree(L) /\ Split(L, PackageFirst, PackageThen)
            /\ Once(L, <<"function", func>>) /\ Once(L, <<"call", func>>) /\ Once(L, <<"endfunction">>)
<1> DEFINE W == PackageFirst \cup PackageThen
           U == PackageFirst
           V == PackageThen
           function == <<"function", func>>
           set == Set(pkg.options, TRUE)
           if == <<"if", "EXISTS">>
           add == <<"add_subdirectory", pkg.name>>
           else == <<"else">>
           message == <<"message", pkg.name>>
           endif == <<"endif">>
           end == <<"endfunction">>
           call == <<"call", func>>
           cond == If(pkg.if_, Line(call))
<1>1. /\ function[1] = "function" /\ if[1] = "if" /\ add[1] = "add_subdirectory" /\ else[1] = "else"
      /\ message[1] = "message" /\ endif[1] = "endif" /\ end[1] = "endfunction" /\ call[1] = "call"
  OBVIOUS
<1> DEFINE i1 == set \o Line(if)
           i2 == i1 \o In(Line(add))
           i3 == i2 \o Line(else)
           i4 == i3 \o In(Line(message))
           inner == i4 \o Line(endif)
           l1 == Line(function) \o In(inner)
           l2 == l1 \o Line(end)
           L == l2 \o cond
<1>2. PackageLines(pkg, func) = L
  BY DEF PackageLines
<1> HIDE DEF function, if, add, else, message, endif, end, call
<1>3. /\ Has(Line(if), V, Nat) /\ Has(Line(else), V, Nat) /\ Has(Line(endif), V, Nat) /\ Has(Line(end), V, Nat)
      /\ Has(Line(add), V, Nat) /\ Has(Line(message), V, Nat) /\ Has(Line(function), U, Nat)
  BY <1>1, LineHas DEF PackageFirst, PackageThen
<1>4. Has(In(Line(add)), V, Nat) /\ Has(In(Line(message)), V, Nat)
  BY <1>3, InHas
<1>5. Has(set, U, Nat) /\ Has(set, {"set"}, Nat)
  <2>0. Has(set, {"set"}, {0})
    BY HasSet, Zenon
  <2> HIDE DEF set
  <2>1. Has(set, {"set"}, {0}) /\ {0} \subseteq Nat /\ {"set"} \subseteq U /\ {"set"} \subseteq {"set"}
    BY <2>0 DEF PackageFirst
  <2> HIDE DEF U
  <2> QED
    BY <2>1, HasMore
<1>6. Has(cond, {"if", "call", "endif"}, Nat) /\ Once(cond, call)
  BY <1>1, IfCall
<1> HIDE DEF set, cond
<1>7. Has(cond, V, Nat)
  <2>1. {"if", "call", "endif"} \subseteq V /\ Nat \subseteq Nat
    BY DEF PackageThen
  <2> QED
    BY <1>6, <2>1, HasMore
<1>8. U \subseteq W /\ V \subseteq W /\ Nat \subseteq Nat
  OBVIOUS
<1> HIDE DEF U, V, W
<1>9. /\ Has(Line(if), W, Nat) /\ Has(Line(else), W, Nat) /\ Has(Line(endif), W, Nat) /\ Has(Line(end), W, Nat)
      /\ Has(In(Line(add)), W, Nat) /\ Has(In(Line(message)), W, Nat) /\ Has(Line(function), W, Nat)
      /\ Has(set, W, Nat) /\ Has(cond, W, Nat)
  BY <1>3, <1>4, <1>5, <1>7, <1>8, HasMore
<1>10. Split(i1, U, V)
  BY <1>3, <1>5, SplitAll, SplitLeft
<1> HIDE DEF i1
<1>11. Split(i2, U, V)
  BY <1>4, <1>10, SplitLeft
<1> HIDE DEF i2
<1>12. Split(i3, U, V)
  BY <1>3, <1>11, SplitLeft
<1> HIDE DEF i3
<1>13. Split(i4, U, V)
  BY <1>4, <1>12, SplitLeft
<1> HIDE DEF i4
<1>14. Split(inner, U, V)
  BY <1>3, <1>13, SplitLeft
<1> DEFINE X == {"set", "if", "add_subdirectory", "else", "message", "endif"}
<1>15. Has(inner, X, Nat)
  <2>1. /\ Has(Line(if), X, Nat) /\ Has(Line(else), X, Nat) /\ Has(Line(endif), X, Nat)
        /\ Has(Line(add), X, Nat) /\ Has(Line(message), X, Nat)
    BY <1>1, LineHas
  <2>2. Has(set, X, Nat)
    <3>1. {"set"} \subseteq X
      OBVIOUS
    <3> HIDE DEF X
    <3> QED
      BY <1>5, <1>8, <3>1, HasMore
  <2> HIDE DEF X
  <2>3. Has(In(Line(add)), X, Nat) /\ Has(In(Line(message)), X, Nat)
    BY <2>1, InHas
  <2>4. Has(i1, X, Nat)
    BY <2>1, <2>2, HasConcat DEF i1
  <2>5. Has(i2, X, Nat)
    BY <2>3, <2>4, HasConcat DEF i2
  <2>6. Has(i3, X, Nat)
    BY <2>1, <2>5, HasConcat DEF i3
  <2>7. Has(i4, X, Nat)
    BY <2>3, <2>6, HasConcat DEF i4
  <2> QED
    BY <2>1, <2>7, HasConcat
<1> HIDE DEF inner
<1>16. "function" \notin X /\ "call" \notin X /\ "endfunction" \notin X /\ X \subseteq W
  BY DEF W, PackageFirst, PackageThen
<1> HIDE DEF X
<1>17. Has(In(inner), X, Nat) /\ Split(In(inner), U, V) /\ TopFree(In(inner))
  BY <1>14, <1>15, InHas, SplitIn, TopFreeIn
<1>18. Has(In(inner), W, Nat)
  BY <1>8, <1>16, <1>17, HasMore
<1>19. Has(Line(function), {"function"}, Nat) /\ Has(Line(end), {"endfunction"}, Nat)
  BY <1>1, LineHas
<1>20. Once(Line(function), function) /\ Once(Line(end), end)
  BY OnceLine
<1>21. Has(l1, W, Nat) /\ Split(l1, U, V) /\ TopFree(l1) /\ Once(l1, function)
  <2>1. Has(l1, W, Nat)
    BY <1>9, <1>18, HasConcat
  <2>2. Split(l1, U, V)
    BY <1>3, <1>17, SplitRight
  <2>3. TopFree(Line(function))
    BY <1>19, TopFreeHas
  <2>4. TopFree(l1)
    BY <1>17, <2>3, TopFreeConcat
  <2>5. Once(l1, function)
    BY <1>1, <1>16, <1>17, <1>20, OnceLeft
  <2> QED
    BY <2>1, <2>2, <2>4, <2>5
<1>22. Has(l1, X \cup {"function"}, Nat)
  <2>1. X \subseteq X \cup {"function"} /\ {"function"} \subseteq X \cup {"function"}
    OBVIOUS
  <2>2. Has(In(inner), X \cup {"function"}, Nat) /\ Has(Line(function), X \cup {"function"}, Nat)
    BY <1>8, <1>17, <1>19, <2>1, HasMore
  <2> QED
    BY <2>2, HasConcat
<1> HIDE DEF l1
<1>23. Has(l2, W, Nat) /\ Split(l2, U, V) /\ TopFree(l2) /\ Once(l2, function) /\ Once(l2, end)
  <2>1. Has(l2, W, Nat)
    BY <1>9, <1>21, HasConcat
  <2>2. Split(l2, U, V)
    BY <1>3, <1>21, SplitLeft
  <2>3. TopFree(Line(end))
    BY <1>19, TopFreeHas
  <2>4. TopFree(l2)
    BY <1>21, <2>3, TopFreeConcat
  <2>5. Once(l2, function)
    BY <1>1, <1>19, <1>21, OnceLeft
  <2>6. Once(l2, end)
    <3>1. end[1] \notin X \cup {"function"}
      BY <1>1, <1>16
    <3> QED
      BY <1>20, <1>22, <3>1, OnceRight
  <2> QED
    BY <2>1, <2>2, <2>4, <2>5, <2>6
<1>24. Has(l2, X \cup {"function", "endfunction"}, Nat)
  <2> DEFINE Y == X \cup {"function", "endfunction"}
  <2>1. X \cup {"function"} \subseteq Y /\ {"endfunction"} \subseteq Y
    OBVIOUS
  <2> HIDE DEF Y
  <2>2. Has(l1, Y, Nat) /\ Has(Line(end), Y, Nat)
    BY <1>8, <1>19, <1>22, <2>1, HasMore
  <2>3. Has(l2, Y, Nat)
    BY <2>2, HasConcat
  <2> QED
    BY <2>3 DEF Y
<1> HIDE DEF l2
<1>25. Has(L, W, Nat) /\ Split(L, U, V)
  BY <1>7, <1>9, <1>23, HasConcat, SplitLeft
<1>26. TopFree(L)
  <2>1. TopFree(cond)
    BY <1>6, TopFreeHas
  <2> QED
    BY <1>23, <2>1, TopFreeConcat
<1>27. Once(L, function) /\ Once(L, end)
  BY <1>1, <1>6, <1>23, OnceLeft
<1>28. Once(L, call)
  <2>1. call[1] \notin X \cup {"function", "endfunction"}
    BY <1>1, <1>16
  <2> QED
    BY <1>6, <1>24, <2>1, OnceRight
<1> HIDE DEF L
<1> QED
  BY <1>2, <1>25, <1>26, <1>27, <1>28 DEF U, V, W, function, end, call

\* What a target writes before its groups.
TargetLines(t, func) ==
  Line(<<"function", func>>)
  \o In(Set(t.settings, FALSE) \o Line(Add(t)) \o Aliases(t))

\* The settings of a target come before it is added, and its aliases after that.
LEMMA TargetSorted ==
  ASSUME NEW t, IsList(t.aliases), NEW func
  PROVE  LET L == TargetLines(t, func)
         IN /\ Has(L, {"function", "set", "add_alias"} \cup Adds, Nat) /\ TopFree(L)
            /\ Split(L, {"function", "set"}, Adds \cup {"add_alias"})
            /\ Split(L, {"function", "set"} \cup Adds, {"add_alias"})
            /\ Once(L, <<"function", func>>)
<1> DEFINE function == <<"function", func>>
           set == Set(t.settings, FALSE)
           add == Add(t)
           aliases == Aliases(t)
           inner == set \o Line(add) \o aliases
           L == Line(function) \o In(inner)
           W == {"function", "set", "add_alias"} \cup Adds
           U1 == {"function", "set"}
           V1 == Adds \cup {"add_alias"}
           U2 == {"function", "set"} \cup Adds
           V2 == {"add_alias"}
           X == {"set", "add_alias"} \cup Adds
<1>1. function[1] = "function" /\ add[1] \in Adds
  BY DEF Add, Adds
<1>2. TargetLines(t, func) = L
  BY DEF TargetLines
<1>a. Has(set, {"set"}, {0})
  BY HasSet, Zenon
<1>b. Has(aliases, {"add_alias"}, {0})
  BY HasAliases
<1> HIDE DEF set, aliases
<1>3. Has(set, {"set"}, {0}) /\ Has(aliases, {"add_alias"}, {0}) /\ {0} \subseteq Nat
  BY <1>a, <1>b
<1> HIDE DEF function, add
<1>4. /\ {"set"} \subseteq W /\ {"set"} \subseteq U1 /\ {"set"} \subseteq U2 /\ {"set"} \subseteq X
      /\ {"add_alias"} \subseteq W /\ {"add_alias"} \subseteq V1 /\ {"add_alias"} \subseteq V2
      /\ {"add_alias"} \subseteq X
      /\ add[1] \in W /\ add[1] \in V1 /\ add[1] \in U2 /\ add[1] \in X
      /\ function[1] \in W /\ function[1] \in U1 /\ function[1] \in U2
      /\ "function" \notin X /\ "option" \notin {"function"} /\ "set" \notin {"function"}
  BY <1>1 DEF Adds
<1> HIDE DEF W, U1, V1, U2, V2, X
<1>5. /\ Has(set, W, Nat) /\ Has(set, U1, Nat) /\ Has(set, U2, Nat) /\ Has(set, X, Nat)
      /\ Has(aliases, W, Nat) /\ Has(aliases, V1, Nat) /\ Has(aliases, V2, Nat) /\ Has(aliases, X, Nat)
  BY <1>3, <1>4, HasMore
<1>6. /\ Has(Line(add), W, Nat) /\ Has(Line(add), V1, Nat) /\ Has(Line(add), U2, Nat) /\ Has(Line(add), X, Nat)
      /\ Has(Line(function), W, Nat) /\ Has(Line(function), U1, Nat) /\ Has(Line(function), U2, Nat)
  BY <1>4, LineHas
<1>7. Has(Line(function), {"function"}, Nat)
  BY <1>1, LineHas
<1> DEFINE i1 == set \o Line(add)
<1>8. Split(i1, U1, V1)
  BY <1>5, <1>6, SplitAll, SplitLeft
<1>9. Has(i1, U2, Nat) /\ Has(i1, W, Nat) /\ Has(i1, X, Nat)
  BY <1>5, <1>6, HasConcat
<1> HIDE DEF i1
<1>10. Split(i1 \o aliases, U1, V1)
  BY <1>5, <1>8, SplitLeft
<1>11. Split(i1 \o aliases, U2, V2)
  <2>1. Split(i1, U2, V2)
    BY <1>9, SplitAll
  <2> QED
    BY <1>5, <2>1, SplitLeft
<1>12. Has(i1 \o aliases, W, Nat) /\ Has(i1 \o aliases, X, Nat)
  BY <1>5, <1>9, HasConcat
<1>13. /\ Split(inner, U1, V1) /\ Split(inner, U2, V2) /\ Has(inner, W, Nat) /\ Has(inner, X, Nat)
  BY <1>10, <1>11, <1>12 DEF i1
<1> HIDE DEF inner
<1>14. /\ Split(In(inner), U1, V1) /\ Split(In(inner), U2, V2) /\ Has(In(inner), W, Nat)
       /\ Has(In(inner), X, Nat) /\ TopFree(In(inner))
  BY <1>13, InHas, SplitIn, TopFreeIn
<1>15. Has(L, W, Nat) /\ Split(L, U1, V1) /\ Split(L, U2, V2)
  BY <1>6, <1>14, HasConcat, SplitRight
<1>16. TopFree(L)
  <2>1. TopFree(Line(function))
    BY <1>4, <1>7, TopFreeHas
  <2> QED
    BY <1>14, <2>1, TopFreeConcat
<1>17. Once(L, function)
  <2>1. Once(Line(function), function)
    BY OnceLine
  <2> QED
    BY <1>1, <1>4, <1>14, <2>1, OnceLeft
<1> HIDE DEF L
<1> QED
  BY <1>2, <1>15, <1>16, <1>17 DEF W, U1, V1, U2, V2, function

-----------------------------------------------------------------------------
\* The order of the text at every step of write().

Early == {"begin", "target_options", "settings"}

\* Up to the settings the outermost level has options only; all functions have
\* ended outside of a target; every function has its one call, but for that of
\* the target that is written; and the next name is a new one.
OrderInv ==
  /\ TopSorted(out)
  /\ pc \in Early => TopWithout(out, {"set"} \cup Used)
  /\ pc = "packages" => TopWithout(out, Used)
  /\ BodiesSorted(out)
  /\ pc \notin Inner => Closed(out)
  /\ Distinct(out)
  /\ pc \in Early \cup {"packages", "external"} =>
       Fresh(out, "cgen_package", count) /\ Fresh(out, "cgen_target", 0)
  /\ pc = "targets" => Fresh(out, "cgen_target", count)
  /\ pc \in Inner => Fresh(out, "cgen_target", count + 1) /\ Without(out, <<"call", func_name>>)
  /\ \A f \in DefsOf(out) : Called(out, f) \/ (pc \in Inner /\ out[f].text[2] = func_name)

\* The names of the places in write().
LEMMA PlacesDiffer ==
  /\ Early \cap Inner = {} /\ "packages" \notin Early \cup Inner /\ "external" \notin Early \cup Inner
  /\ "targets" \notin Early \cup Inner /\ "done" \notin Early \cup Inner
BY DEF Early, Inner

\* Lines that are written continue the text.
LEMMA WriteGrows ==
  ASSUME IsList(out), NEW L, NEW W, NEW D \in SUBSET Nat, Has(L, W, D), NEW k \in Nat, WriteAt(k, L)
  PROVE  Grown(out, L, k, out')
<1> DEFINE S == Shift(L, k)
           n == Len(out)
           m == Len(L)
           p == out'
<1>1. IsList(L) /\ m \in Nat /\ DOMAIN L = 1 .. m /\ n \in Nat /\ DOMAIN out = 1 .. n
  BY ListHas DEF Has
<1>2. S = [i \in 1 .. m |-> [L[i] EXCEPT !.indent = @ + k]]
  BY <1>1 DEF Shift
<1>3. p = out \o S
  BY DEF WriteAt, Shift
<1> HIDE DEF S, m, n
<1>4. S = [i \in 1 .. m |-> S[i]] /\ \A i \in 1 .. m : S[i] = [L[i] EXCEPT !.indent = @ + k]
  BY <1>2
<1>5. IsList(S) /\ Len(S) = m
  BY <1>1, <1>4, ListIs
<1>6. ASSUME NEW i \in 1 .. m PROVE S[i].text = L[i].text /\ S[i].indent = L[i].indent + k
  <2> DEFINE l == L[i]
             s == S[i]
  <2>1. l = [indent |-> l.indent, text |-> l.text]
    BY DEF Has, m
  <2>2. s = [l EXCEPT !.indent = @ + k]
    BY <1>4
  <2> HIDE DEF l, s
  <2>3. s = [indent |-> l.indent + k, text |-> l.text]
    BY <2>1, <2>2
  <2>4. s.text = l.text /\ s.indent = l.indent + k
    BY <2>3
  <2> QED
    BY <2>4 DEF l, s
<1>7. Joined(out, S, out \o S)
  BY <1>5, ConcatAt
<1>8. Joined(out, S, p)
  BY <1>3, <1>7
<1>9. DOMAIN p = 1 .. n + m
  BY <1>5, <1>8, ListHas DEF Joined, n
<1>10. \A i \in DOMAIN out : p[i] = out[i]
  BY <1>1, <1>8 DEF Joined, n
<1>11. \A a \in 1 .. m : p[n + a] = S[a]
  BY <1>5, <1>8 DEF Joined, n
<1>12. \A a \in 1 .. m : p[n + a].text = L[a].text /\ p[n + a].indent = L[a].indent + k
  BY <1>6, <1>11
<1> QED
  BY <1>1, <1>9, <1>10, <1>12 DEF Grown, n, m

\* No lines.
LEMMA NothingGrows == ASSUME IsList(out), out' = out PROVE Grown(out, <<>>, 0, out')
<1>1. <<>> \in Seq({}) /\ Len(<<>>) = 0
  OBVIOUS
<1>2. IsList(<<>>)
  BY <1>1, SeqIsList
<1>3. Len(out) \in Nat /\ DOMAIN out = 1 .. Len(out)
  BY ListHas
<1>4. Len(out) + 0 = Len(out) /\ 1 .. 0 = {}
  BY <1>3
<1> QED
  BY <1>1, <1>2, <1>3, <1>4 DEF Grown

\* The words whose places matter.
Words == {"option", "set", "function", "call"} \cup Adds

\* Lines with none of these words keep the order: those of system packages,
\* and those of groups, visibilities and values in a target.
LEMMA OthersKeep ==
  ASSUME OrderInv, TypeOK, NEW L, NEW k, Grown(out, L, k, out'),
         \A a \in 1 .. Len(L) : L[a].text[1] \notin Words,
         count' = count,
         (pc \in Inner /\ pc' \in Inner) \/ (pc = "packages" /\ pc' = "external")
  PROVE  OrderInv'
<1> DEFINE p == out'
<1>1. pc' \notin Early \cup {"packages", "targets"}
  BY PlacesDiffer
<1>2. TopSorted(p)
  <2>1. \A a \in 1 .. Len(L) : L[a].indent + k = 0 => L[a].text[1] \notin {"option", "set"}
    BY DEF Words
  <2> QED
    BY <2>1, TopKeeps DEF OrderInv
<1>3. BodiesSorted(p)
  <2>1. \A a \in 1 .. Len(L) : L[a].text[1] \notin {"set", "function"} \cup Adds
    BY DEF Words
  <2> QED
    BY <2>1, BodiesKeep DEF OrderInv
<1>4. pc' \notin Inner => Closed(p)
  <2> SUFFICES ASSUME pc' \notin Inner PROVE Closed(p)
    OBVIOUS
  <2>1. Closed(out)
    BY PlacesDiffer DEF OrderInv
  <2>2. \A a \in 1 .. Len(L) : L[a].text[1] # "function"
    BY DEF Words
  <2> QED
    BY <2>1, <2>2, ClosedGrows
<1>5. /\ Distinct(out) => Distinct(p)
      /\ \A f \in DefsOf(p) : f \in DefsOf(out) /\ p[f] = out[f] /\ (Called(out, f) => Called(p, f))
      /\ \A kind : \A from \in Nat : Fresh(out, kind, from) => Fresh(p, kind, from)
      /\ \A name : Without(out, <<"call", name>>) => Without(p, <<"call", name>>)
  <2>1. \A a \in 1 .. Len(L) : L[a].text[1] \notin {"function", "call"}
    BY DEF Words
  <2> HIDE DEF p
  <2> QED
    BY <2>1, NamesKeep DEF p
<1>6. count \in Nat /\ count + 1 \in Nat /\ 0 \in Nat
  BY DEF TypeOK
<1>7. func_name' = func_name
  BY DEF func_name
<1>8. pc' = "external" => Fresh(p, "cgen_package", count) /\ Fresh(p, "cgen_target", 0)
  <2> SUFFICES ASSUME pc' = "external" PROVE Fresh(p, "cgen_package", count) /\ Fresh(p, "cgen_target", 0)
    OBVIOUS
  <2>1. pc = "packages"
    BY PlacesDiffer
  <2> QED
    BY <1>5, <1>6, <2>1 DEF OrderInv
<1>9. pc' \in Inner => pc \in Inner
  BY PlacesDiffer
<1>10. pc' \in Inner => Fresh(p, "cgen_target", count + 1) /\ Without(p, <<"call", func_name>>)
  BY <1>5, <1>6, <1>9 DEF OrderInv
<1>11. \A f \in DefsOf(p) : Called(p, f) \/ (pc' \in Inner /\ p[f].text[2] = func_name)
  <2> SUFFICES ASSUME NEW f \in DefsOf(p) PROVE Called(p, f) \/ (pc' \in Inner /\ p[f].text[2] = func_name)
    OBVIOUS
  <2>1. f \in DefsOf(out) /\ p[f] = out[f] /\ (Called(out, f) => Called(p, f))
    BY <1>5
  <2>2. Called(out, f) \/ (pc \in Inner /\ out[f].text[2] = func_name)
    BY <2>1 DEF OrderInv
  <2>3. pc \in Inner => pc' \in Inner
    BY PlacesDiffer
  <2> QED
    BY <2>1, <2>2, <2>3
<1>12. Distinct(p)
  BY <1>5 DEF OrderInv
<1> HIDE DEF p
<1> QED
  BY <1>1, <1>2, <1>3, <1>4, <1>7, <1>8, <1>10, <1>11, <1>12 DEF OrderInv, p

\* The head of the file: options, and then settings.
LEMMA HeadKeeps ==
  ASSUME OrderInv, TypeOK, NEW L, NEW k, Grown(out, L, k, out'), count' = count, pc \in Early,
         \/ /\ pc' \in Early
            /\ \A a \in 1 .. Len(L) : L[a].text[1] \in {"cmake_minimum_required", "project", "option"}
         \/ pc' = "packages" /\ \A a \in 1 .. Len(L) : L[a].text[1] = "set"
  PROVE  OrderInv'
<1> DEFINE p == out'
<1>1. pc \notin Inner /\ pc' \notin Inner \cup {"targets"}
  BY PlacesDiffer
<1>2. \A a \in 1 .. Len(L) : L[a].text[1] \notin {"function", "call", "add_subdirectory", "add_alias"} \cup Adds
                             /\ L[a].text[1] \notin Used
  BY DEF Adds, Used
<1>3. TopWithout(out, {"set"} \cup Used)
  BY DEF OrderInv
<1>4. /\ TopSorted(p)
      /\ pc' \in Early => TopWithout(p, {"set"} \cup Used)
      /\ pc' = "packages" => TopWithout(p, Used)
  <2>1. CASE pc' \in Early
    <3>1. \A a \in 1 .. Len(L) : L[a].text[1] \notin {"set"} \cup Used
      BY <1>2, <2>1, PlacesDiffer
    <3>2. TopWithout(p, {"set"} \cup Used)
      BY <1>3, <3>1, TopWithoutGrows
    <3>3. TopSorted(p)
      BY <3>2, TopTrivial
    <3> QED
      BY <2>1, <3>2, <3>3, PlacesDiffer
  <2>2. CASE pc' = "packages" /\ \A a \in 1 .. Len(L) : L[a].text[1] = "set"
    <3>1. TopSorted(p) /\ TopWithout(p, Used)
      BY <1>3, <2>2, TopSettings
    <3> QED
      BY <2>2, <3>1, PlacesDiffer
  <2> QED
    BY <2>1, <2>2
<1>5. Closed(out)
  BY <1>1 DEF OrderInv
<1>6. BodiesSorted(p)
  <2>1. Sorts(L, {"set"}, {"add_subdirectory"} \cup Adds, 1 .. Len(L))
    BY <1>2 DEF Sorts
  <2>2. Sorts(L, Adds, {"add_alias"} \cup ToSet(Groups), 1 .. Len(L))
    BY <1>2 DEF Sorts
  <2> QED
    BY <1>5, <2>1, <2>2, BodiesNew DEF OrderInv
<1>7. Closed(p)
  BY <1>2, <1>5, ClosedGrows
<1>8. /\ Distinct(out) => Distinct(p)
      /\ \A f \in DefsOf(p) : f \in DefsOf(out) /\ p[f] = out[f] /\ (Called(out, f) => Called(p, f))
      /\ \A kind : \A from \in Nat : Fresh(out, kind, from) => Fresh(p, kind, from)
      /\ \A name : Without(out, <<"call", name>>) => Without(p, <<"call", name>>)
  <2>1. \A a \in 1 .. Len(L) : L[a].text[1] \notin {"function", "call"}
    BY <1>2
  <2> HIDE DEF p
  <2> QED
    BY <2>1, NamesKeep DEF p
<1>9. Fresh(p, "cgen_package", count) /\ Fresh(p, "cgen_target", 0)
  <2>1. count \in Nat /\ 0 \in Nat
    BY DEF TypeOK
  <2> QED
    BY <1>8, <2>1 DEF OrderInv
<1>10. \A f \in DefsOf(p) : Called(p, f)
  BY <1>1, <1>8 DEF OrderInv
<1>11. Distinct(p)
  BY <1>8 DEF OrderInv
<1> HIDE DEF p
<1> QED
  BY <1>1, <1>4, <1>6, <1>7, <1>9, <1>10, <1>11 DEF OrderInv, p

\* The place of a text that is there once.
LEMMA OnceAt ==
  ASSUME NEW L, NEW text, Once(L, text)
  PROVE  \E i \in 1 .. Len(L) : L[i].text = text /\ \A j \in 1 .. Len(L) : L[j].text[1] = text[1] => j = i
BY DEF Once

\* Lines that add names of one kind leave the numbers of another.
LEMMA FreshOther ==
  ASSUME NEW o, NEW L, NEW k, NEW p, Grown(o, L, k, p), NEW kind, NEW n \in Nat, NEW other, other # kind,
         NEW from \in Nat, Fresh(o, other, from),
         \A a \in 1 .. Len(L) : L[a].text[1] \in {"function", "call"} => L[a].text[2] = <<kind, n>>
  PROVE  Fresh(p, other, from)
<1>1. from <= from
  OBVIOUS
<1>2. ASSUME NEW a \in 1 .. Len(L), NEW m \in Nat, L[a].text[1] \in {"function", "call"},
             L[a].text[2] = <<other, m>>
      PROVE  m < from
  <2>1. <<other, m>> = <<kind, n>>
    BY <1>2
  <2> QED
    BY <2>1
<1> QED
  BY <1>1, <1>2, FreshGrows

\* Lines that add the next name of a kind.
LEMMA FreshNext ==
  ASSUME NEW o, NEW L, NEW k, NEW p, Grown(o, L, k, p), NEW kind, NEW n \in Nat, NEW to, to = n + 1, Fresh(o, kind, n),
         \A a \in 1 .. Len(L) : L[a].text[1] \in {"function", "call"} => L[a].text[2] = <<kind, n>>
  PROVE  Fresh(p, kind, to)
<1>1. n <= to /\ to \in Nat
  OBVIOUS
<1>2. ASSUME NEW a \in 1 .. Len(L), NEW m \in Nat, L[a].text[1] \in {"function", "call"},
             L[a].text[2] = <<kind, m>>
      PROVE  m < to
  <2>1. <<kind, m>> = <<kind, n>>
    BY <1>2
  <2>2. m = n
    BY <2>1
  <2> QED
    BY <2>2
<1> QED
  BY <1>1, <1>2, FreshGrows

\* Lines that define one function, with the next number in its name.
LEMMA NamesNew ==
  ASSUME NEW o, NEW L, NEW k, NEW p, Grown(o, L, k, p), NEW kind, NEW n \in Nat, NEW func, func = <<kind, n>>,
         Once(L, <<"function", func>>), Fresh(o, kind, n), Distinct(o),
         \A a \in 1 .. Len(L) : L[a].text[1] = "call" => L[a].text = <<"call", func>>
  PROVE  /\ Distinct(p) /\ Fresh(p, kind, n + 1) /\ Without(o, <<"call", func>>)
         /\ \A other : other # kind => \A from \in Nat : Fresh(o, other, from) => Fresh(p, other, from)
         /\ \A f \in DefsOf(p) :
              \/ f \in DefsOf(o) /\ p[f] = o[f] /\ (Called(o, f) => Called(p, f))
              \/ p[f].text[2] = func /\ \E a \in 1 .. Len(L) : f = Len(o) + a /\ L[a].text[1] = "function"
<1> DEFINE function == <<"function", func>>
           call == <<"call", func>>
<1>1. function[1] = "function" /\ function[2] = func /\ call[1] = "call" /\ call[2] = func
  OBVIOUS
<1>2. /\ Once(L, function)
      /\ \A a \in 1 .. Len(L) : L[a].text[1] = "call" => L[a].text = call
  OBVIOUS
<1> HIDE DEF function, call
<1>3. Without(o, function) /\ Without(o, call)
  <2>1. function[1] \in {"function", "call"} /\ call[1] \in {"function", "call"}
    BY <1>1
  <2>2. function[2] = <<kind, n>> /\ call[2] = <<kind, n>>
    BY <1>1
  <2> QED
    BY <2>1, <2>2, FreshIsNew
<1>4. PICK i \in 1 .. Len(L) : L[i].text = function /\ \A j \in 1 .. Len(L) : L[j].text[1] = "function" => j = i
  BY <1>1, <1>2, OnceAt
<1>5. \A a \in 1 .. Len(L) : L[a].text[1] = "function" => L[a].text = function
  BY <1>4
<1>6. Distinct(p)
  <2>1. \A a \in 1 .. Len(L) : L[a].text[1] = "function" => Without(o, L[a].text)
    BY <1>3, <1>5
  <2>2. \A a, b \in 1 .. Len(L) : L[a].text[1] = "function" /\ L[b].text[1] = "function" => a = b
    BY <1>4
  <2> QED
    BY <2>1, <2>2, DistinctGrows
<1>7. \A a \in 1 .. Len(L) : L[a].text[1] \in {"function", "call"} => L[a].text[2] = <<kind, n>>
  BY <1>1, <1>2, <1>5
<1>8. Fresh(p, kind, n + 1)
  <2>1. n + 1 = n + 1
    OBVIOUS
  <2> QED
    BY <1>7, <2>1, FreshNext
<1>9. ASSUME NEW other, other # kind, NEW from \in Nat, Fresh(o, other, from) PROVE Fresh(p, other, from)
  <2>1. Grown(o, L, k, p) /\ n \in Nat /\ from \in Nat /\ other # kind /\ Fresh(o, other, from)
    BY <1>9
  <2> QED
    BY ONLY <1>7, <2>1, FreshOther
<1>10. ASSUME NEW f \in DefsOf(p)
       PROVE  \/ f \in DefsOf(o) /\ p[f] = o[f] /\ (Called(o, f) => Called(p, f))
              \/ p[f].text[2] = func /\ \E a \in 1 .. Len(L) : f = Len(o) + a /\ L[a].text[1] = "function"
  <2>1. CASE f \in DefsOf(o) /\ p[f] = o[f] /\ f \in DOMAIN o
    <3>1. \A a \in 1 .. Len(L) : L[a].text[1] = "call" => Without(o, L[a].text)
      BY <1>2, <1>3
    <3>2. Called(o, f) => Called(p, f)
      BY <2>1, <3>1, CallsKeep
    <3> QED
      BY <2>1, <3>2
  <2>2. ASSUME NEW a \in 1 .. Len(L), f = Len(o) + a, p[f].text = L[a].text, L[a].text[1] = "function"
        PROVE  p[f].text[2] = func /\ \E c \in 1 .. Len(L) : f = Len(o) + c /\ L[c].text[1] = "function"
    BY <1>1, <1>5, <2>2
  <2> QED
    BY <2>1, <2>2, DefsAt
<1> QED
  BY <1>3, <1>6, <1>8, <1>9, <1>10 DEF call

\* An external package.
LEMMA PackageKeeps == ASSUME OrderInv, TypeOK, IsList(out), ExternalPackage PROVE OrderInv'
<1> DEFINE p == out'
           pkg == Head(left)
           func == <<"cgen_package", count>>
           L == PackageLines(pkg, func)
           function == <<"function", func>>
           call == <<"call", func>>
           end == <<"endfunction">>
           W == PackageFirst \cup PackageThen
<1>1. pc = "external" /\ pc' = "external" /\ count' = count + 1 /\ WriteAt(0, L)
  BY DEF ExternalPackage, PackageLines, Write, TypeOK, Level
<1>2. pc \notin Inner /\ pc' \notin Inner \cup Early \cup {"targets", "packages"}
  BY <1>1, PlacesDiffer
<1>3. /\ Has(L, W, Nat) /\ TopFree(L) /\ Split(L, PackageFirst, PackageThen)
      /\ Once(L, function) /\ Once(L, call) /\ Once(L, end)
  BY PackageSorted
<1>4. function[1] = "function" /\ call[1] = "call" /\ end[1] = "endfunction" /\ count \in Nat
  BY DEF TypeOK
<1> HIDE DEF L
<1>5. Grown(out, L, 0, p)
  BY <1>1, <1>3, WriteGrows
<1>6. \A a \in 1 .. Len(L) : L[a].text[1] \in W /\ L[a].indent \in Nat
  BY <1>3 DEF Has
<1>7. TopSorted(p)
  <2>1. \A a \in 1 .. Len(L) : L[a].indent + 0 = 0 => L[a].text[1] \notin {"option", "set"}
    BY <1>3, <1>6 DEF TopFree
  <2> QED
    BY <1>5, <2>1, TopKeeps DEF OrderInv
<1>8. Closed(out)
  BY <1>2 DEF OrderInv
<1>9. /\ \A word \in {"add_subdirectory"} \cup Adds : word \notin PackageFirst
      /\ "set" \notin PackageThen /\ "function" \notin PackageThen
      /\ "endfunction" \notin PackageFirst /\ "call" \notin PackageFirst
      /\ Adds \cap W = {}
  BY DEF PackageFirst, PackageThen, Adds
<1>10. BodiesSorted(p)
  <2>1. Sorts(L, {"set"}, {"add_subdirectory"} \cup Adds, 1 .. Len(L))
    BY <1>3, <1>9, SplitOrders DEF Sorts
  <2>2. Sorts(L, Adds, {"add_alias"} \cup ToSet(Groups), 1 .. Len(L))
    BY <1>6, <1>9 DEF Sorts
  <2> QED
    BY <1>5, <1>8, <2>1, <2>2, BodiesNew DEF OrderInv
<1>11. PICK e \in 1 .. Len(L) : L[e].text = end
  BY <1>3 DEF Once
<1>12. PICK c \in 1 .. Len(L) : L[c].text = call /\ \A j \in 1 .. Len(L) : L[j].text[1] = "call" => j = c
  BY <1>3, <1>4, OnceAt
<1> HIDE DEF function, call, end
<1>13. Closed(p)
  <2>1. ASSUME NEW a \in 1 .. Len(L), L[a].text[1] = "function" PROVE a < e /\ L[e].text[1] = "endfunction"
    BY <1>3, <1>4, <1>9, <1>11, <2>1, SplitOrders
  <2> QED
    BY <1>5, <1>8, <2>1, ClosedGrows
<1>14. ASSUME NEW a \in 1 .. Len(L), L[a].text[1] = "function" PROVE a < c
  BY <1>3, <1>4, <1>9, <1>12, <1>14, SplitOrders
<1>15. Fresh(out, "cgen_package", count) /\ Fresh(out, "cgen_target", 0) /\ Distinct(out)
       /\ \A f \in DefsOf(out) : Called(out, f)
  BY <1>1, <1>2 DEF OrderInv
<1>16. \A a \in 1 .. Len(L) : L[a].text[1] = "call" => L[a].text = call
  BY <1>12
<1>17. func = <<"cgen_package", count>>
  OBVIOUS
<1> HIDE DEF func, p
<1>18. /\ Distinct(p) /\ Fresh(p, "cgen_package", count + 1) /\ Without(out, <<"call", func>>)
       /\ \A other : other # "cgen_package" =>
            \A from \in Nat : Fresh(out, other, from) => Fresh(p, other, from)
       /\ \A f \in DefsOf(p) :
            \/ f \in DefsOf(out) /\ p[f] = out[f] /\ (Called(out, f) => Called(p, f))
            \/ p[f].text[2] = func /\ \E a \in 1 .. Len(L) : f = Len(out) + a /\ L[a].text[1] = "function"
  <2>1. Once(L, <<"function", func>>)
    BY <1>3 DEF function
  <2>2. \A a \in 1 .. Len(L) : L[a].text[1] = "call" => L[a].text = <<"call", func>>
    BY <1>16 DEF call
  <2> QED
    BY <1>4, <1>5, <1>15, <1>17, <2>1, <2>2, NamesNew
<1>19. Fresh(p, "cgen_target", 0)
  <2>1. "cgen_target" # "cgen_package" /\ 0 \in Nat
    OBVIOUS
  <2> QED
    BY <1>15, <1>18, <2>1
<1>20. ASSUME NEW f \in DefsOf(p) PROVE Called(p, f)
  <2>1. CASE f \in DefsOf(out) /\ p[f] = out[f] /\ (Called(out, f) => Called(p, f))
    BY <1>15, <2>1
  <2>2. ASSUME p[f].text[2] = func, NEW a \in 1 .. Len(L), f = Len(out) + a, L[a].text[1] = "function"
        PROVE  Called(p, f)
    <3>1. f \in DOMAIN p /\ f < Len(out) + c
      BY <1>5, <1>14, <2>2, GrownAt
    <3>2. L[c].text = <<"call", func>>
      BY <1>12 DEF call
    <3>3. \A b \in 1 .. Len(L) \ {c} : L[b].text[1] # "call"
      BY <1>12
    <3> QED
      BY <1>5, <1>18, <2>2, <3>1, <3>2, <3>3, CallsNew
  <2> QED
    BY <1>18, <2>1, <2>2
<1> QED
  BY <1>1, <1>2, <1>7, <1>10, <1>13, <1>18, <1>19, <1>20 DEF OrderInv, p

\* A target begins.
LEMMA TargetBeginKeeps ==
  ASSUME OrderInv, TypeOK, WorkTyped, IsList(out), TargetBegin PROVE OrderInv'
<1> DEFINE p == out'
           t == target
           func == <<"cgen_target", count>>
           L == TargetLines(t, func)
           function == <<"function", func>>
           W == {"function", "set", "add_alias"} \cup Adds
<1>1. pc = "targets" /\ pc' = "groups" /\ count' = count /\ WriteAt(0, L) /\ left # <<>>
  BY DEF TargetBegin, TargetLines, Write, TypeOK, Level, func_name
<1>2. pc \notin Inner /\ pc' \in Inner /\ pc' \notin Early \cup {"targets", "packages", "external"}
  BY <1>1, PlacesDiffer DEF Inner, Early
<1>3. /\ Has(L, W, Nat) /\ TopFree(L)
      /\ Split(L, {"function", "set"}, Adds \cup {"add_alias"})
      /\ Split(L, {"function", "set"} \cup Adds, {"add_alias"})
      /\ Once(L, function)
  <2>1. IsList(t.aliases)
    BY <1>1, TargetTyped
  <2> HIDE DEF t
  <2> QED
    BY <2>1, TargetSorted
<1>4. count \in Nat
  BY DEF TypeOK
<1> HIDE DEF L, t
<1>5. Grown(out, L, 0, p)
  BY <1>1, <1>3, WriteGrows
<1>6. \A a \in 1 .. Len(L) : L[a].text[1] \in W /\ L[a].indent \in Nat
  BY <1>3 DEF Has
<1>7. TopSorted(p)
  <2>1. \A a \in 1 .. Len(L) : L[a].indent + 0 = 0 => L[a].text[1] \notin {"option", "set"}
    BY <1>3, <1>6 DEF TopFree
  <2> QED
    BY <1>5, <2>1, TopKeeps DEF OrderInv
<1>8. Closed(out)
  BY <1>2 DEF OrderInv
<1>9. /\ \A word \in {"add_subdirectory"} \cup Adds : word \notin {"function", "set"}
      /\ "set" \notin Adds \cup {"add_alias"}
      /\ \A word \in {"add_alias"} \cup ToSet(Groups) : word \notin {"function", "set"} \cup Adds
      /\ Adds \cap {"add_alias"} = {} /\ "call" \notin W
  BY WordsDiffer DEF Adds
<1>10. BodiesSorted(p)
  <2>1. Sorts(L, {"set"}, {"add_subdirectory"} \cup Adds, 1 .. Len(L))
    BY <1>3, <1>9, SplitOrders DEF Sorts
  <2>2. Sorts(L, Adds, {"add_alias"} \cup ToSet(Groups), 1 .. Len(L))
    BY <1>3, <1>9, SplitOrders DEF Sorts
  <2> QED
    BY <1>5, <1>8, <2>1, <2>2, BodiesNew DEF OrderInv
<1>11. Fresh(out, "cgen_target", count) /\ Distinct(out) /\ \A f \in DefsOf(out) : Called(out, f)
  BY <1>1, <1>2 DEF OrderInv
<1>12. \A a \in 1 .. Len(L) : L[a].text[1] # "call"
  BY <1>6, <1>9
<1>13. func = <<"cgen_target", count>> /\ func_name = func /\ func_name' = func
  BY <1>1 DEF func_name
<1> HIDE DEF func, p
<1>14. /\ Distinct(p) /\ Fresh(p, "cgen_target", count + 1) /\ Without(out, <<"call", func>>)
       /\ \A f \in DefsOf(p) :
            \/ f \in DefsOf(out) /\ p[f] = out[f] /\ (Called(out, f) => Called(p, f))
            \/ p[f].text[2] = func /\ \E a \in 1 .. Len(L) : f = Len(out) + a /\ L[a].text[1] = "function"
  BY <1>3, <1>4, <1>5, <1>11, <1>12, <1>13, NamesNew
<1>15. Without(p, <<"call", func>>)
  <2> DEFINE call == <<"call", func>>
  <2>1. call[1] = "call" /\ Without(out, call)
    BY <1>14
  <2> HIDE DEF call
  <2>2. Without(p, call)
    BY <1>5, <1>12, <2>1, WithoutGrows
  <2> QED
    BY <2>2 DEF call
<1>16. \A f \in DefsOf(p) : Called(p, f) \/ p[f].text[2] = func
  BY <1>11, <1>14
<1> QED
  BY <1>1, <1>2, <1>7, <1>10, <1>13, <1>14, <1>15, <1>16 DEF OrderInv, p

\* A target ends.
LEMMA TargetEndKeeps == ASSUME OrderInv, TypeOK, IsList(out), TargetEnd PROVE OrderInv'
<1> DEFINE p == out'
           func == <<"cgen_target", count>>
           end == <<"endfunction">>
           call == <<"call", func>>
           cond == If(target.if_, Line(call))
           L == Line(end) \o cond
           X == {"if", "call", "endif"}
           W == {"endfunction", "if", "call", "endif"}
<1>1. pc = "groups" /\ pc' = "targets" /\ count' = count + 1 /\ WriteAt(0, L) /\ func_name = func
  BY DEF TargetEnd, TypeOK, Level, func_name
<1>2. pc \in Inner /\ pc' \notin Inner \cup Early \cup {"packages", "external"}
  BY <1>1, PlacesDiffer DEF Inner, Early
<1>3. end[1] = "endfunction" /\ call[1] = "call" /\ call[2] = func /\ count \in Nat
  BY DEF TypeOK
<1> HIDE DEF end, call
<1>4. Has(cond, X, Nat) /\ Once(cond, call)
  BY <1>3, IfCall
<1> HIDE DEF cond
<1>5. Has(Line(end), {"endfunction"}, Nat) /\ Once(Line(end), end)
  BY <1>3, LineHas, OnceLine
<1>6. Has(L, W, Nat)
  <2>1. X \subseteq W /\ {"endfunction"} \subseteq W /\ Nat \subseteq Nat
    OBVIOUS
  <2> HIDE DEF X, W
  <2>2. Has(cond, W, Nat) /\ Has(Line(end), W, Nat)
    BY <1>4, <1>5, <2>1, HasMore
  <2> QED
    BY <2>2, HasConcat
<1>7. Once(L, call) /\ Once(L, end)
  <2>1. call[1] \notin {"endfunction"} /\ end[1] \notin X
    BY <1>3
  <2> HIDE DEF X
  <2> QED
    BY <1>4, <1>5, <2>1, OnceLeft, OnceRight
<1> HIDE DEF L
<1>8. Grown(out, L, 0, p)
  BY <1>1, <1>6, WriteGrows
<1>9. \A a \in 1 .. Len(L) : L[a].text[1] \in W
  BY <1>6 DEF Has
<1>10. W \cap ({"option", "set", "function"} \cup Adds) = {}
  BY DEF Adds
<1> HIDE DEF W
<1>11. TopSorted(p)
  <2>1. \A a \in 1 .. Len(L) : L[a].indent + 0 = 0 => L[a].text[1] \notin {"option", "set"}
    BY <1>9, <1>10
  <2> QED
    BY <1>8, <2>1, TopKeeps DEF OrderInv
<1>12. BodiesSorted(p)
  <2>1. \A a \in 1 .. Len(L) : L[a].text[1] \notin {"set", "function"} \cup Adds
    BY <1>9, <1>10
  <2> QED
    BY <1>8, <2>1, BodiesKeep DEF OrderInv
<1>13. \A a \in 1 .. Len(L) : L[a].text[1] # "function"
  BY <1>9, <1>10
<1>14. Closed(p)
  <2>1. PICK b \in 1 .. Len(L) : L[b].text = end
    BY <1>7 DEF Once
  <2>2. L[b].text[1] = "endfunction"
    BY <1>3, <2>1
  <2> QED
    BY <1>8, <1>13, <2>2, ClosedEnd
<1>15. Distinct(p)
  <2>1. Distinct(out)
    BY DEF OrderInv
  <2> QED
    BY <1>8, <1>13, <2>1, DistinctGrows
<1>16. PICK c \in 1 .. Len(L) : L[c].text = call /\ \A j \in 1 .. Len(L) : L[j].text[1] = "call" => j = c
  BY <1>3, <1>7, OnceAt
<1>17. Fresh(out, "cgen_target", count + 1) /\ Without(out, <<"call", func>>)
  BY <1>1, <1>2 DEF OrderInv
<1>18. Fresh(p, "cgen_target", count + 1)
  <2>1. count + 1 \in Nat /\ count + 1 <= count + 1
    BY <1>3
  <2>2. ASSUME NEW a \in 1 .. Len(L), NEW m \in Nat, L[a].text[1] \in {"function", "call"},
               L[a].text[2] = <<"cgen_target", m>>
        PROVE  m < count + 1
    <3>1. L[a].text = call
      BY <1>13, <1>16, <2>2
    <3>2. <<"cgen_target", m>> = <<"cgen_target", count>>
      BY <1>3, <2>2, <3>1
    <3>3. m = count
      BY <3>2
    <3> QED
      BY <1>3, <3>3
  <2> QED
    BY <1>8, <1>17, <2>1, <2>2, FreshGrows
<1>19. Without(out, call)
  BY <1>17 DEF call
<1>20. ASSUME NEW f \in DefsOf(p) PROVE Called(p, f)
  <2>1. f \in DefsOf(out) /\ p[f] = out[f] /\ f \in DOMAIN out
    BY <1>8, <1>13, DefsAt
  <2>2. CASE Called(out, f)
    <3>1. \A a \in 1 .. Len(L) : L[a].text[1] = "call" => Without(out, L[a].text)
      BY <1>16, <1>19
    <3> QED
      BY <1>8, <2>1, <2>2, <3>1, CallsKeep
  <2>3. CASE out[f].text[2] = func
    <3>1. f \in DOMAIN p /\ f < Len(out) + c /\ p[f].text[2] = func
      BY <1>8, <2>1, <2>3, GrownAt
    <3>2. L[c].text = <<"call", func>>
      BY <1>16 DEF call
    <3>3. \A b \in 1 .. Len(L) \ {c} : L[b].text[1] # "call"
      BY <1>16
    <3> HIDE DEF func
    <3> QED
      BY <1>8, <1>17, <3>1, <3>2, <3>3, CallsNew
  <2>4. Called(out, f) \/ out[f].text[2] = func
    BY <1>1, <1>2, <2>1 DEF OrderInv
  <2> QED
    BY <2>2, <2>3, <2>4
<1> HIDE DEF p, func
<1> QED
  BY <1>1, <1>2, <1>11, <1>12, <1>14, <1>15, <1>18, <1>20 DEF OrderInv, p

-----------------------------------------------------------------------------
\* Every step keeps the order.

\* A condition around lines.
LEMMA IfHas ==
  ASSUME NEW cond, NEW L, NEW W, Has(L, W, Nat), "if" \in W, "endif" \in W PROVE Has(If(cond, L), W, Nat)
<1> DEFINE begin == <<"if", cond>>
           end == <<"endif">>
<1>1. begin[1] \in W /\ end[1] \in W
  OBVIOUS
<1>2. If(cond, L) = IF cond = "" THEN L ELSE Line(begin) \o In(L) \o Line(end)
  BY DEF If
<1> HIDE DEF begin, end
<1>3. Has(Line(begin), W, Nat) /\ Has(Line(end), W, Nat) /\ Has(In(L), W, Nat)
  BY <1>1, LineHas, InHas
<1>4. Has(Line(begin) \o In(L) \o Line(end), W, Nat)
  BY <1>3, HasConcat
<1> QED
  BY <1>2, <1>4

\* Lines whose places do not matter are written.
LEMMA OthersWritten ==
  ASSUME OrderInv, TypeOK, IsList(out), NEW L, NEW W, Has(L, W, Nat), \A word \in Words : word \notin W,
         NEW k \in Nat, WriteAt(k, L), count' = count,
         (pc \in Inner /\ pc' \in Inner) \/ (pc = "packages" /\ pc' = "external")
  PROVE  OrderInv'
<1>1. Nat \in SUBSET Nat
  OBVIOUS
<1>2. Grown(out, L, k, out')
  BY <1>1, WriteGrows
<1>3. \A a \in 1 .. Len(L) : L[a].text[1] \notin Words
  BY DEF Has
<1> QED
  BY <1>2, <1>3, OthersKeep

\* Nothing is written.
LEMMA NothingWritten ==
  ASSUME OrderInv, TypeOK, IsList(out), out' = out, count' = count, pc \in Inner, pc' \in Inner
  PROVE  OrderInv'
<1>1. \A a \in 1 .. Len(<<>>) : <<>>[a].text[1] \notin Words
  OBVIOUS
<1> QED
  BY <1>1, NothingGrows, OthersKeep

\* The lines before the packages are written.
LEMMA HeadWritten ==
  ASSUME OrderInv, TypeOK, IsList(out), NEW L, NEW W, Has(L, W, Nat),
         NEW k \in Nat, WriteAt(k, L), count' = count, pc \in Early,
         \/ pc' \in Early /\ W \subseteq {"cmake_minimum_required", "project", "option"}
         \/ pc' = "packages" /\ W \subseteq {"set"}
  PROVE  OrderInv'
<1>1. Nat \in SUBSET Nat
  OBVIOUS
<1>2. Grown(out, L, k, out')
  BY <1>1, WriteGrows
<1>3. \A a \in 1 .. Len(L) : L[a].text[1] \in W
  BY DEF Has
<1>4. CASE pc' \in Early /\ W \subseteq {"cmake_minimum_required", "project", "option"}
  <2>1. \A a \in 1 .. Len(L) : L[a].text[1] \in {"cmake_minimum_required", "project", "option"}
    BY <1>3, <1>4
  <2> QED
    BY <1>2, <1>4, <2>1, HeadKeeps
<1>5. CASE pc' = "packages" /\ W \subseteq {"set"}
  <2>1. \A a \in 1 .. Len(L) : L[a].text[1] = "set"
    BY <1>3, <1>5
  <2> QED
    BY <1>2, <1>5, <2>1, HeadKeeps
<1> QED
  BY <1>4, <1>5

\* The text has no lines at first.
LEMMA NothingOrdered == ASSUME Init PROVE OrderInv
<1>1. out = <<>> /\ DOMAIN out = {} /\ pc = "begin"
  BY DEF Init
<1>2. TopOf(out) = {} /\ DefsOf(out) = {} /\ pc \notin Inner /\ pc \in Early
  BY <1>1 DEF TopOf, DefsOf, Inner, Early
<1>3. TopSorted(out) /\ TopWithout(out, {"set"} \cup Used) /\ TopWithout(out, Used)
  BY <1>2 DEF TopSorted, Sorts, TopWithout
<1>4. BodiesSorted(out) /\ Closed(out) /\ Distinct(out)
  BY <1>2 DEF BodiesSorted, Closed, Distinct
<1>5. Fresh(out, "cgen_package", count) /\ Fresh(out, "cgen_target", 0)
  BY <1>1 DEF Fresh
<1> QED
  BY <1>1, <1>2, <1>3, <1>4, <1>5 DEF OrderInv, Early

\* The head of the file and the packages.
LEMMA OutsideOrders == ASSUME OrderInv, TypeOK, WorkTyped, IsList(out), Outside PROVE OrderInv'
<1>1. indent \in Nat
  BY DEF TypeOK
<1>2. CASE Begin
  <2> DEFINE first == <<"cmake_minimum_required">>
             second == <<"project", config.project>>
             options == Option(config.options)
             W == {"cmake_minimum_required", "project", "option"}
             L == Line(first) \o Line(second) \o options
  <2>1. first[1] \in W /\ second[1] \in W
    OBVIOUS
  <2>2. pc \in Early /\ pc' \in Early /\ count' = count /\ WriteAt(indent, L)
    BY <1>2 DEF Begin, Early, Write, loopVars
  <2>3. Has(options, {"option"}, {0}) /\ {"option"} \subseteq W /\ {0} \subseteq Nat
    BY HasOption
  <2> HIDE DEF first, second, options, W
  <2>4. Has(options, W, Nat) /\ Has(Line(first), W, Nat) /\ Has(Line(second), W, Nat)
    BY <2>1, <2>3, HasMore, LineHas
  <2>5. Has(L, W, Nat)
    BY <2>4, HasConcat
  <2>6. W \subseteq {"cmake_minimum_required", "project", "option"}
    BY DEF W
  <2> HIDE DEF L
  <2> QED
    BY <1>1, <2>2, <2>5, <2>6, HeadWritten
<1>3. CASE TargetOptions
  <2> DEFINE names == Sorted(config_target_options)
             g == [i \in DOMAIN names |-> Option(config_target_options[names[i]])]
             n == Len(names)
             L == FlattenSeq(g)
  <2>1. n \in Nat /\ DOMAIN names = 1 .. n
    BY SortedIs
  <2>2. g = [i \in 1 .. n |-> g[i]] /\ \A i \in 1 .. n : g[i] = Option(config_target_options[names[i]])
    BY <2>1
  <2>3. WriteAt(indent, L) /\ pc \in Early /\ pc' \in Early /\ count' = count
    BY <1>3 DEF TargetOptions, Early, Write, loopVars
  <2> HIDE DEF n, g, names
  <2>4. \A i \in 1 .. n : Has(g[i], {"option"}, {0})
    BY <2>2, HasOption
  <2>5. Has(L, {"option"}, {0})
    BY <2>1, <2>2, <2>4, HasFlatten
  <2>6. {"option"} \subseteq {"option"} /\ {0} \subseteq Nat
    OBVIOUS
  <2> HIDE DEF L
  <2>7. Has(L, {"option"}, Nat)
    BY <2>5, <2>6, HasMore
  <2>8. {"option"} \subseteq {"cmake_minimum_required", "project", "option"}
    OBVIOUS
  <2> QED
    BY <1>1, <2>3, <2>7, <2>8, HeadWritten
<1>4. CASE SetSettings
  <2> DEFINE L == Set(config.settings, FALSE)
  <2>1. Has(L, {"set"}, {0})
    BY HasSet, Zenon
  <2>2. WriteAt(indent, L) /\ pc \in Early /\ pc' = "packages" /\ count' = count
    BY <1>4 DEF SetSettings, Early, Write, loopVars
  <2> HIDE DEF L
  <2>3. {"set"} \subseteq {"set"} /\ {0} \subseteq Nat
    OBVIOUS
  <2>4. Has(L, {"set"}, Nat)
    BY <2>1, <2>3, HasMore
  <2> QED
    BY <1>1, <2>2, <2>3, <2>4, HeadWritten
<1>5. CASE SystemPackages
  <2> DEFINE g == [i \in DOMAIN Of("system") |->
                     LET pkg == Of("system")[i] IN If(pkg.if_, Line(<<"find_package", pkg.name, pkg.is_required>>))]
             n == Len(Of("system"))
             L == FlattenSeq(g)
             W == {"if", "find_package", "endif"}
  <2>0. IsList(Of("system"))
    BY ConfigurationsAreDecoded, OnlyIs, SeqIsList DEF Of, WorkTyped
  <2>1. n \in Nat /\ DOMAIN Of("system") = 1 .. n
    BY <2>0, ListHas
  <2>2. g = [i \in 1 .. n |-> g[i]]
        /\ \A i \in 1 .. n : g[i] = LET pkg == Of("system")[i]
                                    IN If(pkg.if_, Line(<<"find_package", pkg.name, pkg.is_required>>))
    BY <2>1
  <2>3. WriteAt(indent, L) /\ pc = "packages" /\ pc' = "external" /\ count' = count
    BY <1>5 DEF SystemPackages, Write
  <2> HIDE DEF n, g
  <2>4. ASSUME NEW i \in 1 .. n PROVE Has(g[i], W, Nat)
    <3> DEFINE pkg == Of("system")[i]
               text == <<"find_package", pkg.name, pkg.is_required>>
    <3>1. text[1] \in W /\ "if" \in W /\ "endif" \in W
      OBVIOUS
    <3>2. g[i] = If(pkg.if_, Line(text))
      BY <2>2
    <3> HIDE DEF text, pkg, W
    <3> QED
      BY <3>1, <3>2, LineHas, IfHas
  <2>5. \A word \in Words : word \notin W
    BY DEF Words, Adds
  <2> HIDE DEF W
  <2>6. Has(L, W, Nat)
    BY <2>1, <2>2, <2>4, HasFlatten
  <2> HIDE DEF L
  <2> QED
    BY <1>1, <2>3, <2>5, <2>6, OthersWritten
<1>6. CASE ExternalPackage
  BY <1>6, PackageKeeps
<1>7. CASE ExternalDone
  <2>1. pc = "external" /\ pc' = "targets" /\ count' = 0 /\ out' = out
    BY <1>7 DEF ExternalDone
  <2>2. pc \notin Inner /\ pc' \notin Inner \cup Early \cup {"packages", "external"}
    BY <2>1, PlacesDiffer
  <2> QED
    BY <2>1, <2>2 DEF OrderInv
<1>8. CASE Done
  <2>1. pc = "targets" /\ pc' = "done" /\ out' = out
    BY <1>8 DEF Done
  <2>2. pc \notin Inner /\ pc' \notin Inner \cup Early \cup {"packages", "external", "targets"}
    BY <2>1, PlacesDiffer
  <2> QED
    BY <2>1, <2>2 DEF OrderInv
<1> QED
  BY <1>2, <1>3, <1>4, <1>5, <1>6, <1>7, <1>8 DEF Outside

\* A target, its groups and their values.
LEMMA InsideOrders == ASSUME OrderInv, TypeOK, WorkTyped, IsList(out), Inside PROVE OrderInv'
<1>1. indent \in Nat
  BY DEF TypeOK
<1>2. /\ groups # <<>> => group \in ToSet(Groups)
      /\ vis # <<>> => Head(vis) \in ToSet(Visibilities)
  BY HeadIs DEF WorkTyped, group
<1>3. \A word \in Words : word \notin ToSet(Groups) /\ word \notin ToSet(Visibilities)
  BY OpeningAre DEF Words, Adds
<1>4. CASE TargetBegin
  BY <1>4, TargetBeginKeeps
<1>5. CASE TargetEnd
  BY <1>5, TargetEndKeeps
<1>6. CASE GroupSkip \/ VisibilitySkip \/ VisibilityEnd
  <2>1. pc \in Inner /\ pc' \in Inner /\ out' = out /\ count' = count
    BY <1>6 DEF GroupSkip, VisibilitySkip, VisibilityEnd, Inner
  <2> QED
    BY <2>1, NothingWritten
<1>7. CASE GroupBegin \/ VisibilityBegin
  <2>1. PICK text : text[1] \in ToSet(Groups) \cup ToSet(Visibilities) /\ Write(Line(text))
    <3>1. CASE GroupBegin
      <4>1. <<group, target.name>>[1] = group /\ groups # <<>> /\ Write(Line(<<group, target.name>>))
        BY <3>1 DEF GroupBegin
      <4> QED
        BY <1>2, <4>1
    <3>2. CASE VisibilityBegin
      <4>1. <<Head(vis)>>[1] = Head(vis) /\ vis # <<>> /\ Write(Line(<<Head(vis)>>))
        BY <3>2 DEF VisibilityBegin
      <4> QED
        BY <1>2, <4>1
    <3> QED
      BY <1>7, <3>1, <3>2
  <2> DEFINE W == ToSet(Groups) \cup ToSet(Visibilities)
             L == Line(text)
  <2>2. pc \in Inner /\ pc' \in Inner /\ count' = count /\ WriteAt(indent, L)
    BY <1>7, <2>1 DEF GroupBegin, VisibilityBegin, Inner, Write, loopVars
  <2>3. \A word \in Words : word \notin W
    BY <1>3
  <2>4. text[1] \in W
    BY <2>1
  <2> HIDE DEF W
  <2>5. Has(L, W, Nat)
    BY <2>4, LineHas
  <2> HIDE DEF L
  <2> QED
    BY <1>1, <2>2, <2>3, <2>5, OthersWritten
<1>8. CASE GlobalValues \/ Configuration
  <2> DEFINE W == {"value", "key", "config", "endconfig"}
  <2>1. pc \in {"values", "configurations"} /\ pc \in Inner /\ pc' \in Inner /\ count' = count
    BY <1>8 DEF GlobalValues, Configuration, Inner
  <2>2. group # "properties" =>
          /\ IsList(configs.global)
          /\ \A n \in DOMAIN configs.configurations : IsList(configs.configurations[n])
    BY <2>1, ConfigsTyped
  <2>3. \A word \in Words : word \notin W
    BY DEF Words, Adds
  <2>4. {"value", "key"} \subseteq W /\ {0} \subseteq Nat /\ "config" \in W /\ "endconfig" \in W
    OBVIOUS
  <2> HIDE DEF W
  <2>5. ASSUME NEW L, Has(L, W, Nat), Write(L) PROVE OrderInv'
    <3>1. WriteAt(indent, L)
      BY <2>5 DEF Write
    <3> QED
      BY <1>1, <2>1, <2>3, <2>5, <3>1, OthersWritten
  <2>6. ASSUME NEW values, group # "properties" => IsList(values) PROVE Has(Values(group, target.path, values), W, Nat)
    <3>1. Has(Values(group, target.path, values), {"value", "key"}, {0})
      BY <2>6, HasValues
    <3> QED
      BY <2>4, <3>1, HasMore
  <2>7. CASE GlobalValues
    <3>1. Has(Values(group, target.path, configs.global), W, Nat)
      BY <2>2, <2>6
    <3>2. Write(Values(group, target.path, configs.global))
      BY <2>7 DEF GlobalValues
    <3> QED
      BY <2>5, <3>1, <3>2
  <2>8. CASE Configuration
    <3> DEFINE c == Head(confs)
               values == configs.configurations[c]
               begin == <<"config", c>>
               end == <<"endconfig">>
               M == Values(group, target.path, values)
               L == Line(begin) \o In(M) \o Line(end)
    <3>1. c \in DOMAIN configs.configurations
      BY <2>8, HeadIs DEF Configuration, WorkTyped
    <3>2. Has(M, W, Nat)
      BY <2>2, <2>6, <3>1
    <3>3. begin[1] \in W /\ end[1] \in W
      BY <2>4
    <3>4. out' = out \/ Write(L)
      BY <2>8 DEF Configuration
    <3> HIDE DEF begin, end, M
    <3>5. Has(Line(begin), W, Nat) /\ Has(Line(end), W, Nat) /\ Has(In(M), W, Nat)
      BY <3>2, <3>3, LineHas, InHas
    <3>6. Has(L, W, Nat)
      BY <3>5, HasConcat
    <3> HIDE DEF L
    <3>7. CASE out' = out
      BY <2>1, <3>7, NothingWritten
    <3>8. CASE Write(L)
      BY <2>5, <3>6, <3>8
    <3> QED
      BY <3>4, <3>7, <3>8
  <2> QED
    BY <1>8, <2>7, <2>8
<1>9. CASE GroupEnd
  <2> DEFINE text == <<"endgroup">>
             W == {"endgroup"}
             L == Line(text)
  <2>1. text[1] \in W
    OBVIOUS
  <2>2. pc \in Inner /\ pc' \in Inner /\ count' = count /\ WriteAt(indent - 1, L) /\ indent - 1 \in Nat
    BY <1>9 DEF GroupEnd, Inner, TypeOK, Level
  <2>3. \A word \in Words : word \notin W
    BY DEF Words, Adds
  <2> HIDE DEF text, W
  <2>4. Has(L, W, Nat)
    BY <2>1, LineHas
  <2>5. PICK k \in Nat : WriteAt(k, L)
    BY <2>2
  <2> HIDE DEF L
  <2> QED
    BY <2>2, <2>3, <2>4, <2>5, OthersWritten
<1> QED
  BY <1>4, <1>5, <1>6, <1>7, <1>8, <1>9 DEF Inside

\* The order of the complete text is the one that CMake needs.
LEMMA OrderIsOrder == ASSUME OrderInv, pc = "done" PROVE DefinedBeforeUsed
<1>1. pc \notin Inner
  BY PlacesDiffer
<1> DEFINE top  == {i \in DOMAIN out : out[i].indent = 0}
           defs == {i \in DOMAIN out : Word(i) = "function"}
           body(f) == {i \in DOMAIN out : f < i /\ \A j \in f .. i : Word(j) # "endfunction"}
           add  == {"add_library", "add_executable"}
<1>2. top = TopOf(out) /\ defs = DefsOf(out) /\ add = Adds /\ \A f : body(f) = BodyOf(out, f)
  BY DEF TopOf, DefsOf, Adds, BodyOf, Word
<1>3. \A these, those, inside : Sorts(out, these, those, inside) => Before(these, those, inside)
  BY DEF Sorts, Before, Word
<1> HIDE DEF top, defs, body, add
<1>4. Before({"option"}, {"set"}, top) /\ Before({"option", "set"}, {"find_package", "if", "function", "call"}, top)
  <2>1. Sorts(out, {"option"}, {"set"}, top) /\ Sorts(out, {"option", "set"}, Used, top)
    BY <1>2 DEF OrderInv, TopSorted
  <2>2. Before({"option"}, {"set"}, top) /\ Before({"option", "set"}, Used, top)
    BY <1>3, <2>1
  <2> QED
    BY <2>2 DEF Used
<1>5. ASSUME NEW f \in defs
      PROVE  Before({"set"}, {"add_subdirectory"} \cup add, body(f)) /\ Before(add, {"add_alias"} \cup ToSet(Groups), body(f))
  <2>1. BodySorted(out, f)
    BY <1>2 DEF OrderInv, BodiesSorted
  <2>2. /\ Sorts(out, {"set"}, {"add_subdirectory"} \cup add, body(f))
        /\ Sorts(out, add, {"add_alias"} \cup ToSet(Groups), body(f))
    BY <1>2, <2>1 DEF BodySorted
  <2> QED
    BY <1>3, <2>2
<1>6. ASSUME NEW f \in defs
      PROVE  \E i \in DOMAIN out : /\ out[i].text = <<"call", out[f].text[2]>> /\ f < i
                                   /\ \A j \in DOMAIN out \ {i} : out[j].text # out[i].text
  <2>1. Called(out, f)
    BY <1>1, <1>2 DEF OrderInv
  <2> QED
    BY <2>1 DEF Called
<1>7. \A f \in defs : \A g \in defs \ {f} : out[g].text # out[f].text
  BY <1>2 DEF OrderInv, Distinct
<1> QED
  BY <1>4, <1>5, <1>6, <1>7 DEF DefinedBeforeUsed, top, defs, body, add

\* Run from the top, the text defines everything before it is used: options
\* before settings, both before packages and targets, the variables of a
\* target before the target, the target before its aliases and values, and
\* each function, under a name of its own, before its one call; for every
\* configuration (the order of the parts in CMakeGenerator::write(), and the
\* numbers in the names of its functions).
THEOREM EverythingIsDefinedFirst == Spec => []DefinedBeforeUsed
<1> DEFINE IInv == TypeOK /\ WorkTyped /\ NestInv /\ OrderInv
<1>1. Init => IInv
  <2> SUFFICES ASSUME Init PROVE WorkTyped /\ NestInv /\ TypeOK /\ OrderInv
    OBVIOUS
  <2>1. TypeOK
    BY DEF Init, TypeOK, Level
  <2>2. WorkTyped
    BY DEF Init, WorkTyped
  <2>3. Nested(<<>>, out, 0, <<>>) /\ Here(<<>>)
    BY NestedNothing, StacksAre DEF Init, Here
  <2>4. OrderInv
    BY NothingOrdered
  <2> QED
    BY <2>1, <2>2, <2>3, <2>4 DEF NestInv
<1>2. IInv /\ [Next]_vars => IInv'
  <2> SUFFICES ASSUME TypeOK, WorkTyped, NestInv, OrderInv, [Next]_vars PROVE IInv'
    OBVIOUS
  <2>1. CASE Next
    <3>0. IsList(out)
      BY DEF NestInv, Nested
    <3>1. TypeOK'
      BY <2>1, OutsideKeeps, InsideKeeps DEF Next, Outside, Inside
    <3>2. WorkTyped'
      BY <2>1, WorkKeeps
    <3>3. NestInv'
      BY <2>1, OutsideNests, InsideNests DEF Next, Outside, Inside
    <3>4. OrderInv'
      BY <2>1, <3>0, OutsideOrders, InsideOrders DEF Next, Outside, Inside
    <3> QED
      BY <3>1, <3>2, <3>3, <3>4
  <2>2. CASE UNCHANGED vars
    <3>1. UNCHANGED <<config, pc, out, indent, left, count, groups, vis, confs>>
      BY <2>2 DEF vars, loopVars
    <3>2. TypeOK'
      BY <3>1 DEF TypeOK, Level, group
    <3>3. WorkTyped'
      BY <3>1 DEF WorkTyped, configs, setting, group, target
    <3>4. NestInv'
      BY <3>1 DEF NestInv, Here, group, InGroup, InFunction
    <3>5. OrderInv'
      BY <3>1 DEF OrderInv, func_name
    <3> QED
      BY <3>2, <3>3, <3>4, <3>5
  <2> QED
    BY <2>1, <2>2
<1>3. IInv => DefinedBeforeUsed
  <2> SUFFICES ASSUME IInv, pc = "done" PROVE DefinedBeforeUsed
    BY DEF DefinedBeforeUsed
  <2> QED
    BY OrderIsOrder
<1> QED
  BY <1>1, <1>2, <1>3, PTL DEF Spec
=============================================================================

--------------------------- MODULE ConfigReadProofs ---------------------------
(***************************************************************************)
(* Proofs about ConfigRead, for any files that include each other, with    *)
(* lists and maps of any size.                                             *)
(***************************************************************************)
EXTENDS ConfigRead, NumberInduction

CONSTANT clone(_)  \* node_clone of Preproc

\* What the functions on trees do with a node, as in Preproc.
TreesAsWritten ==
  /\ \A node : clone(node) = ClonedNode(node, clone)
  /\ \A from, to : merge(from, to) = MergedNode(from, to, clone, merge)
  /\ \A node, params :
       replace_parameters(node, params) = ReplacedNode(node, params, replace_parameters)
  /\ \A node : trim_attributes(node) = TrimmedNode(node, trim_attributes)

-----------------------------------------------------------------------------
\* Sequences.

\* A sequence is one over some set.
LEMMA SeqSome == \A s : IsSeq(s) <=> \E S : s \in Seq(S)
<1>1. ASSUME NEW s, NEW S, s \in Seq(S) PROVE s \in Seq(ToSet(s))
  <2>1. Len(s) \in Nat /\ DOMAIN s = 1 .. Len(s) /\ s \in [1 .. Len(s) -> S]
    BY <1>1, LenProperties
  <2>2. s \in [1 .. Len(s) -> ToSet(s)]
    BY <2>1 DEF ToSet
  <2> QED
    BY <2>1, <2>2, IsASeq
<1> QED
  BY <1>1 DEF IsSeq

\* A sequence has a length and its numbers as indices.
LEMMA SeqParts ==
  ASSUME NEW s, IsSeq(s)
  PROVE  Len(s) \in Nat /\ DOMAIN s = 1 .. Len(s) /\ (s # <<>> <=> Len(s) > 0)
<1>1. PICK S : s \in Seq(S)
  BY SeqSome
<1>2. Len(s) = 0 => s = <<>>
  BY <1>1, EmptySeq
<1> QED
  BY <1>1, <1>2, LenProperties

\* A function of the first numbers is a sequence.
LEMMA ListedIsSeq ==
  ASSUME NEW n \in Nat, NEW f, f = [i \in 1 .. n |-> f[i]]
  PROVE  IsSeq(f) /\ Len(f) = n
<1> DEFINE S == {f[i] : i \in 1 .. n}
<1>1. f \in [1 .. n -> S]
  OBVIOUS
<1>2. f \in Seq(S)
  BY <1>1, IsASeq
<1> HIDE DEF S
<1>3. Len(f) \in Nat /\ DOMAIN f = 1 .. Len(f)
  BY <1>2, LenProperties
<1>4. IsSeq(f)
  BY <1>2, SeqSome
<1> QED
  BY <1>1, <1>3, <1>4

\* None at all are a sequence.
LEMMA NoneIs == IsSeq(<<>>) /\ DOMAIN <<>> = {}
<1>1. <<>> \in Seq({}) /\ DOMAIN <<>> = {}
  OBVIOUS
<1> QED
  BY <1>1, SeqSome

\* One alone is a sequence.
LEMMA OneIs ==
  ASSUME NEW x
  PROVE  /\ IsSeq(<<x>>) /\ DOMAIN <<x>> = {1} /\ Len(<<x>>) = 1
         /\ <<x>>[1] = x /\ <<x>> # <<>>
<1>1. <<x>> \in Seq({x})
  OBVIOUS
<1>2. Len(<<x>>) = 1 /\ <<x>>[1] = x /\ <<x>> # <<>>
  OBVIOUS
<1>3. DOMAIN <<x>> = 1 .. 1
  BY <1>1, <1>2, LenProperties
<1>4. IsSeq(<<x>>)
  BY <1>1, SeqSome
<1> QED
  BY <1>2, <1>3, <1>4

\* What is appended is the last.
LEMMA AppendIs ==
  ASSUME NEW s, IsSeq(s), NEW x
  PROVE  /\ IsSeq(Append(s, x)) /\ Len(Append(s, x)) = Len(s) + 1
         /\ \A i \in 1 .. Len(s) : Append(s, x)[i] = s[i]
         /\ Append(s, x)[Len(s) + 1] = x
<1>1. PICK S : s \in Seq(S)
  BY SeqSome
<1>2. s \in Seq(S \cup {x}) /\ x \in S \cup {x}
  BY <1>1, SeqMonotonic
<1> DEFINE T == S \cup {x}
<1> HIDE DEF T
<1>3. s \in Seq(T) /\ x \in T
  BY <1>2 DEF T
<1>4. Append(s, x) \in Seq(T) /\ Len(Append(s, x)) = Len(s) + 1
      /\ (\A i \in 1 .. Len(s) : Append(s, x)[i] = s[i]) /\ Append(s, x)[Len(s) + 1] = x
  BY <1>3, AppendProperties
<1> QED
  BY <1>4, SeqSome

\* The front and the last of a sequence.
LEMMA FrontIs ==
  ASSUME NEW s, IsSeq(s), s # <<>>
  PROVE  /\ IsSeq(Front(s)) /\ Len(Front(s)) = Len(s) - 1
         /\ \A i \in 1 .. Len(s) - 1 : Front(s)[i] = s[i]
         /\ Last(s) = s[Len(s)]
<1>1. PICK S : s \in Seq(S)
  BY SeqSome
<1>2. Len(s) \in Nat /\ Len(s) > 0
  BY SeqParts
<1>3. Front(s) = SubSeq(s, 1, Len(s) - 1)
  BY DEF Front
<1>4. Front(s) \in Seq(S) /\ Len(Front(s)) = Len(s) - 1
      /\ \A i \in 1 .. Len(s) - 1 : Front(s)[i] = s[i]
  <2>1. PICK n \in Nat : n = Len(s) - 1 /\ n + 1 = Len(s)
    BY <1>2
  <2>2. \A i \in 1 .. n : s[i] \in S
    BY <1>1, <2>1
  <2>3. /\ SubSeq(s, 1, n) \in Seq(S)
        /\ Len(SubSeq(s, 1, n)) = IF 1 <= n THEN n - 1 + 1 ELSE 0
        /\ \A i \in 1 .. n - 1 + 1 : SubSeq(s, 1, n)[i] = s[1 + i - 1]
    BY <2>2, SubSeqProperties
  <2>4. Len(SubSeq(s, 1, n)) = n
    BY <2>3
  <2>5. \A i \in 1 .. n : 1 + i - 1 = i /\ i \in 1 .. n - 1 + 1
    OBVIOUS
  <2>6. \A i \in 1 .. n : SubSeq(s, 1, n)[i] = s[i]
    BY <2>3, <2>5
  <2>7. Front(s) = SubSeq(s, 1, n)
    BY <1>3, <2>1
  <2> QED
    BY <2>1, <2>3, <2>4, <2>6, <2>7
<1> QED
  BY <1>4, SeqSome DEF Last

\* The head and the tail of a sequence.
LEMMA TailIs ==
  ASSUME NEW s, IsSeq(s), s # <<>>
  PROVE  /\ IsSeq(Tail(s)) /\ Len(Tail(s)) = Len(s) - 1 /\ Head(s) = s[1]
         /\ \A i \in 1 .. Len(s) - 1 : Tail(s)[i] = s[i + 1]
<1>1. PICK S : s \in Seq(S)
  BY SeqSome
<1>2. Len(s) \in Nat /\ Len(s) > 0
  BY SeqParts
<1>3. Tail(s) \in Seq(S) /\ Len(Tail(s)) = Len(s) - 1 /\ Head(s) = s[1]
      /\ \A i \in 1 .. Len(s) - 1 : Tail(s)[i] = s[i + 1]
  BY <1>1, <1>2
<1> QED
  BY <1>3, SeqSome

\* An element is replaced.
LEMMA ExceptIs ==
  ASSUME NEW s, IsSeq(s), NEW i, NEW x
  PROVE  /\ IsSeq([s EXCEPT ![i] = x]) /\ Len([s EXCEPT ![i] = x]) = Len(s)
         /\ DOMAIN [s EXCEPT ![i] = x] = DOMAIN s
<1>1. Len(s) \in Nat /\ DOMAIN s = 1 .. Len(s)
  BY SeqParts
<1> DEFINE t == [s EXCEPT ![i] = x]
<1>2. t = [j \in 1 .. Len(s) |-> t[j]]
  BY <1>1
<1>3. DOMAIN t = DOMAIN s
  OBVIOUS
<1> HIDE DEF t
<1>4. IsSeq(t) /\ Len(t) = Len(s)
  BY <1>1, <1>2, ListedIsSeq
<1> QED
  BY <1>3, <1>4 DEF t

\* One after the other.
LEMMA ConcatIs ==
  ASSUME NEW s, IsSeq(s), NEW t, IsSeq(t) PROVE IsSeq(s \o t)
<1>1. PICK S : s \in Seq(S)
  BY SeqSome
<1>2. PICK T : t \in Seq(T)
  BY SeqSome
<1>3. s \in Seq(S \cup T) /\ t \in Seq(S \cup T)
  BY <1>1, <1>2, SeqMonotonic
<1> QED
  BY <1>3, ConcatProperties, SeqSome

-----------------------------------------------------------------------------
\* Trees.

\* A map is known by its keys.
LEMMA MapIs ==
  ASSUME NEW D, NEW f, f = [key \in D |-> f[key]], AreKeys(D)
  PROVE  IsMap(Map(f)) /\ Map(f).kind = "map" /\ Map(f).of = f /\ DOMAIN f = D
<1>1. Map(f).kind = "map" /\ Map(f).of = f /\ DOMAIN f = D
  BY DEF Map
<1> QED
  BY <1>1 DEF IsMap

\* A node is found by its name, and looked up by its name without attribute.
LEMMA FindIs ==
  ASSUME NEW node, IsMap(node), NEW key \in DOMAIN node.of
  PROVE  /\ key[1] \in Names(node)
         /\ node_find(node, key[1]) = [node |-> node.of[key], attr |-> key[2]]
<1>1. key[1] \in Names(node)
  BY DEF Names
<1>2. (CHOOSE k \in DOMAIN node.of : k[1] = key[1]) = key
  BY DEF IsMap, AreKeys
<1> QED
  BY <1>1, <1>2 DEF node_find

\* Or it is not.
LEMMA NotFoundIs ==
  ASSUME NEW node, NEW name, name \notin Names(node)
  PROVE  node_find(node, name).node = Undefined /\ node_find(node, name).attr = ""
<1>1. node_find(node, name) = [node |-> Undefined, attr |-> ""]
  BY DEF node_find
<1>2. ASSUME NEW r, NEW u, NEW a, r = [node |-> u, attr |-> a] PROVE r.node = u /\ r.attr = a
  BY <1>2
<1> QED
  BY <1>1, <1>2, Zenon

\* The parts of what is found.
LEMMA FoundIs ==
  ASSUME NEW node, IsMap(node), NEW key \in DOMAIN node.of
  PROVE  /\ key[1] \in Names(node)
         /\ node_find(node, key[1]).node = node.of[key]
         /\ node_find(node, key[1]).attr = key[2]
<1>1. ASSUME NEW r, NEW u, NEW a, r = [node |-> u, attr |-> a] PROVE r.node = u /\ r.attr = a
  BY <1>1
<1>2. key[1] \in Names(node)
      /\ node_find(node, key[1]) = [node |-> node.of[key], attr |-> key[2]]
  BY FindIs
<1> QED
  BY <1>1, <1>2, Zenon

\* What a look-up returns.
LEMMA AtIs ==
  ASSUME NEW node, IsMap(node), NEW name
  PROVE  /\ node.kind = "map"
         /\ At(node, name) = IF <<name, "">> \in DOMAIN node.of THEN node.of[<<name, "">>]
                             ELSE Undefined
<1>1. node.kind = "map"
  BY DEF IsMap, Map
<1> QED
  BY <1>1 DEF At

\* A list is neither undefined nor null, nor a map.
LEMMA ListKind ==
  ASSUME NEW node, IsListNode(node)
  PROVE  node.kind = "list" /\ node # Undefined
  BY DEF IsListNode, List, Undefined

\* The entries of a list are listed.
LEMMA ItemsIs ==
  ASSUME NEW node, IsConfig(node), NEW name \in {"includes", "packages", "targets"}
  PROVE  /\ IsSeq(Items(node, name))
         /\ <<name, "">> \in DOMAIN node.of => Items(node, name) = node.of[<<name, "">>].items
         /\ <<name, "">> \notin DOMAIN node.of => Items(node, name) = <<>>
<1>0. IsMap(node)
  BY DEF IsConfig
<1>1. CASE <<name, "">> \in DOMAIN node.of
  <2>1. IsListNode(node.of[<<name, "">>])
    <3>1. \A key \in DOMAIN node.of : key = <<name, "">> => IsListNode(node.of[key])
      <4> SUFFICES ASSUME NEW key \in DOMAIN node.of, key = <<name, "">>
                   PROVE  IsListNode(node.of[key])
        OBVIOUS
      <4>1. key[1] = name
        OBVIOUS
      <4> QED
        BY <4>1 DEF IsConfig
    <3> QED
      BY <1>1, <3>1
  <2>2. At(node, name) = node.of[<<name, "">>]
    BY <1>0, <1>1, AtIs
  <2>3. Items(node, name) = node.of[<<name, "">>].items
    BY <2>1, <2>2, ListKind DEF Items
  <2> QED
    BY <1>1, <2>1, <2>3 DEF IsListNode
<1>2. CASE <<name, "">> \notin DOMAIN node.of
  <2>1. Items(node, name) = <<>>
    BY <1>0, <1>2, AtIs DEF Items
  <2>2. <<>> \in Seq({})
    OBVIOUS
  <2> QED
    BY <1>2, <2>1, <2>2, SeqSome
<1> QED
  BY <1>1, <1>2

\* What is merged into a map, key by key.
MergedByKey(m, from, to) ==
  /\ IsMap(m)
  /\ DOMAIN m.of = DOMAIN to.of \cup {<<name, "">> : name \in Names(from) \ Names(to)}
  /\ \A key \in DOMAIN to.of : key[1] \notin Names(from) => m.of[key] = to.of[key]
  /\ \A key \in DOMAIN to.of, f \in DOMAIN from.of :
       f[1] = key[1] =>
         m.of[key] = IF key[2] = "REPLACE" THEN to.of[key]
                     ELSE IF f[2] = "REPLACE" THEN clone(from.of[f])
                     ELSE merge(from.of[f], IF to.of[key] = Undefined THEN Null
                                            ELSE to.of[key])
  /\ \A f \in DOMAIN from.of :
       f[1] \notin Names(to) =>
         m.of[<<f[1], "">>] = IF f[2] = "REPLACE" THEN clone(from.of[f])
                              ELSE merge(from.of[f], Null)

\* That is what merging does.
LEMMA MergedIs ==
  ASSUME TreesAsWritten, NEW from, IsMap(from), NEW to, IsMap(to)
  PROVE  MergedByKey(merge(from, to), from, to)
<1> DEFINE entry(name) ==
             LET f == node_find(from, name)
                 t == node_find(to, name)
             IN CASE t.attr = "REPLACE" -> t.node
                  [] t.attr # "REPLACE" /\ f.attr = "REPLACE" -> clone(f.node)
                  [] OTHER -> merge(f.node, IF t.node = Undefined THEN Null ELSE t.node)
           D == DOMAIN to.of \cup {<<name, "">> : name \in Names(from) \ Names(to)}
           g == [key \in D |-> IF key[1] \in Names(from) THEN entry(key[1]) ELSE to.of[key]]
           m == merge(from, to)
<1>0. from.kind = "map" /\ to.kind = "map"
  BY DEF IsMap, Map
<1>1. m = Map(g)
  <2>1. m = MergedNode(from, to, clone, merge)
    BY DEF TreesAsWritten
  <2> QED
    BY <1>0, <2>1 DEF MergedNode
<1>2. AreKeys(D)
  <2>1. \A x \in DOMAIN to.of : x[1] \in Names(to)
    BY DEF Names
  <2>2. AreKeys(DOMAIN to.of)
    BY DEF IsMap
  <2> DEFINE New == {<<name, "">> : name \in Names(from) \ Names(to)}
  <2>3. ASSUME NEW x \in New PROVE x = <<x[1], "">> /\ x[2] = "" /\ x[1] \notin Names(to)
    <3>1. PICK name \in Names(from) \ Names(to) : x = <<name, "">>
      OBVIOUS
    <3>2. x[1] = name /\ x[2] = ""
      BY <3>1
    <3> QED
      BY <3>1, <3>2
  <2> HIDE DEF New
  <2> QED
    BY <2>1, <2>2, <2>3 DEF AreKeys, New
<1>4. IsMap(m) /\ m.of = g /\ DOMAIN m.of = D
  <2>1. g = [key \in D |-> g[key]]
    OBVIOUS
  <2> HIDE DEF g, D, m
  <2> QED
    BY <1>1, <1>2, <2>1, MapIs
<1>5. ASSUME NEW key \in DOMAIN to.of, key[1] \notin Names(from) PROVE m.of[key] = to.of[key]
  BY <1>4, <1>5
<1>6. ASSUME NEW key \in DOMAIN to.of, NEW f \in DOMAIN from.of, f[1] = key[1]
      PROVE  m.of[key] = IF key[2] = "REPLACE" THEN to.of[key]
                         ELSE IF f[2] = "REPLACE" THEN clone(from.of[f])
                         ELSE merge(from.of[f], IF to.of[key] = Undefined THEN Null
                                                ELSE to.of[key])
  <2>1. key[1] \in Names(from)
        /\ node_find(from, key[1]) = [node |-> from.of[f], attr |-> f[2]]
    BY <1>6, FindIs
  <2>2. node_find(to, key[1]) = [node |-> to.of[key], attr |-> key[2]]
    BY FindIs
  <2>3. m.of[key] = entry(key[1])
    BY <1>4, <2>1
  <2> QED
    BY <2>1, <2>2, <2>3
<1>7. ASSUME NEW f \in DOMAIN from.of, f[1] \notin Names(to)
      PROVE  m.of[<<f[1], "">>] = IF f[2] = "REPLACE" THEN clone(from.of[f])
                                  ELSE merge(from.of[f], Null)
  <2>1. f[1] \in Names(from) /\ node_find(from, f[1]) = [node |-> from.of[f], attr |-> f[2]]
    BY FindIs
  <2>2. node_find(to, f[1]).node = Undefined /\ node_find(to, f[1]).attr = ""
    BY <1>7, NotFoundIs
  <2>3. m.of[<<f[1], "">>] = entry(f[1])
    <3>1. <<f[1], "">> \in D
      BY <1>7, <2>1
    <3>2. g[<<f[1], "">>] = entry(f[1])
      BY <2>1, <3>1
    <3> QED
      BY <1>4, <3>2
  <2>4. /\ node_find(from, f[1]).node = from.of[f] /\ node_find(from, f[1]).attr = f[2]
        /\ node_find(to, f[1]).node = Undefined /\ node_find(to, f[1]).attr # "REPLACE"
    <3>1. node_find(from, f[1]).node = from.of[f] /\ node_find(from, f[1]).attr = f[2]
      BY <2>1
    <3> QED
      BY <2>2, <3>1
  <2>5. entry(f[1]) = IF f[2] = "REPLACE" THEN clone(from.of[f]) ELSE merge(from.of[f], Null)
    BY <2>4
  <2> HIDE DEF entry, m
  <2> QED
    BY <2>3, <2>5
<1> HIDE DEF m, D, g, entry
<1>8. DOMAIN m.of = DOMAIN to.of \cup {<<name, "">> : name \in Names(from) \ Names(to)}
  BY <1>4 DEF D
<1> QED
  BY <1>4, <1>5, <1>6, <1>7, <1>8 DEF m, MergedByKey

\* A list is cloned as it is, into nothing too, and appended to another with
\* clones of its items.
LEMMA ListsMerged ==
  ASSUME TreesAsWritten, NEW from, IsListNode(from)
  PROVE  /\ clone(from) = from /\ merge(from, Null) = from
         /\ \A to : IsListNode(to) =>
              /\ IsListNode(merge(from, to))
              /\ merge(from, to).items
                   = to.items \o [i \in DOMAIN from.items |-> clone(from.items[i])]
<1>1. from.kind = "list"
  BY ListKind
<1>2. clone(from) = from
  <2>1. clone(from) = ClonedNode(from, clone)
    BY DEF TreesAsWritten
  <2> QED
    BY <1>1, <2>1 DEF ClonedNode
<1>3. merge(from, Null) = from
  <2>1. merge(from, Null) = MergedNode(from, Null, clone, merge)
    BY DEF TreesAsWritten
  <2>2. Null.kind = "null"
    BY DEF Null
  <2> QED
    BY <1>1, <1>2, <2>1, <2>2 DEF MergedNode
<1>4. ASSUME NEW to, IsListNode(to)
      PROVE  /\ IsListNode(merge(from, to))
             /\ merge(from, to).items
                  = to.items \o [i \in DOMAIN from.items |-> clone(from.items[i])]
  <2> DEFINE c == [i \in DOMAIN from.items |-> clone(from.items[i])]
  <2>1. to.kind = "list" /\ IsSeq(to.items) /\ IsSeq(from.items)
    BY <1>4, ListKind DEF IsListNode
  <2>2. merge(from, to) = MergedNode(from, to, clone, merge)
    BY DEF TreesAsWritten
  <2>3. merge(from, to) = List(to.items \o c)
    BY <1>1, <2>1, <2>2 DEF MergedNode
  <2>4. IsSeq(c)
    <3>1. Len(from.items) \in Nat /\ DOMAIN from.items = 1 .. Len(from.items)
      BY <2>1, SeqParts
    <3>2. c = [i \in 1 .. Len(from.items) |-> c[i]]
      BY <3>1
    <3> HIDE DEF c
    <3> QED
      BY <3>1, <3>2, ListedIsSeq
  <2> HIDE DEF c
  <2>5. IsSeq(to.items \o c)
    BY <2>1, <2>4, ConcatIs
  <2>6. merge(from, to).items = to.items \o c
    BY <2>3 DEF List
  <2> QED
    BY <2>3, <2>5, <2>6 DEF IsListNode, c
<1> QED
  BY <1>2, <1>3, <1>4

\* Merging leaves a configuration one.
LEMMA ConfigMerged ==
  ASSUME TreesAsWritten, NEW from, IsConfig(from), NEW to, IsConfig(to)
  PROVE  IsConfig(merge(from, to))
<1> DEFINE m == merge(from, to)
           L == {"includes", "packages", "targets"}
<1>0. IsMap(from) /\ IsMap(to)
  BY DEF IsConfig
<1>1. MergedByKey(m, from, to)
  BY <1>0, MergedIs
<1>2. ASSUME NEW key \in DOMAIN m.of, key[1] \in L PROVE IsListNode(m.of[key])
  <2>1. CASE key \in DOMAIN to.of /\ key[1] \notin Names(from)
    <3>1. m.of[key] = to.of[key]
      BY <1>1, <2>1 DEF MergedByKey
    <3> QED
      BY <1>2, <2>1, <3>1 DEF IsConfig
  <2>2. CASE key \in DOMAIN to.of /\ key[1] \in Names(from)
    <3>1. PICK f \in DOMAIN from.of : f[1] = key[1]
      BY <2>2 DEF Names
    <3>2. IsListNode(from.of[f]) /\ IsListNode(to.of[key])
      BY <1>2, <2>2, <3>1 DEF IsConfig
    <3>3. to.of[key] # Undefined
      BY <3>2, ListKind
    <3>4. m.of[key] = IF key[2] = "REPLACE" THEN to.of[key]
                      ELSE IF f[2] = "REPLACE" THEN clone(from.of[f])
                      ELSE merge(from.of[f], to.of[key])
      BY <1>1, <2>2, <3>1, <3>3 DEF MergedByKey
    <3>5. clone(from.of[f]) = from.of[f] /\ IsListNode(merge(from.of[f], to.of[key]))
      BY <3>2, ListsMerged
    <3> QED
      BY <3>2, <3>4, <3>5
  <2>3. CASE key \notin DOMAIN to.of
    <3>1. PICK name \in Names(from) \ Names(to) : key = <<name, "">>
      BY <1>1, <1>2, <2>3 DEF MergedByKey
    <3>2. PICK f \in DOMAIN from.of : f[1] = name
      BY <3>1 DEF Names
    <3>3. IsListNode(from.of[f])
      BY <1>2, <3>1, <3>2 DEF IsConfig
    <3>4. m.of[key] = IF f[2] = "REPLACE" THEN clone(from.of[f]) ELSE merge(from.of[f], Null)
      BY <1>1, <3>1, <3>2 DEF MergedByKey
    <3>5. clone(from.of[f]) = from.of[f] /\ merge(from.of[f], Null) = from.of[f]
      BY <3>3, ListsMerged
    <3> QED
      BY <3>3, <3>4, <3>5
  <2> QED
    BY <2>1, <2>2, <2>3
<1> HIDE DEF m
<1>3. IsConfig(m)
  BY <1>1, <1>2 DEF IsConfig, MergedByKey
<1> QED
  BY <1>3 DEF m

-----------------------------------------------------------------------------
\* What else is done to a configuration.

\* Some of its entries, changed, are a configuration if its lists are lists.
LEMMA ConfigOf ==
  ASSUME NEW node, IsConfig(node), NEW D, D \subseteq DOMAIN node.of,
         NEW g, g = [key \in D |-> g[key]],
         \A key \in D : key[1] \in {"includes", "packages", "targets"} => IsListNode(g[key])
  PROVE  IsConfig(Map(g)) /\ Map(g).of = g /\ DOMAIN g = D
<1>1. AreKeys(D)
  <2>1. AreKeys(DOMAIN node.of)
    BY DEF IsConfig, IsMap
  <2> QED
    BY <2>1 DEF AreKeys
<1>2. IsMap(Map(g)) /\ Map(g).of = g /\ DOMAIN g = D
  BY <1>1, MapIs
<1> QED
  BY <1>2 DEF IsConfig

\* A list that is listed anew has as many items.
LEMMA ListOf ==
  ASSUME NEW node, IsListNode(node), NEW f, f = [i \in DOMAIN node.items |-> f[i]]
  PROVE  IsListNode(List(f)) /\ List(f).items = f /\ Len(f) = Len(node.items)
<1>1. IsSeq(node.items)
  BY DEF IsListNode
<1>2. Len(node.items) \in Nat /\ DOMAIN node.items = 1 .. Len(node.items)
  BY <1>1, SeqParts
<1>3. f = [i \in 1 .. Len(node.items) |-> f[i]]
  BY <1>2
<1>4. IsSeq(f) /\ Len(f) = Len(node.items)
  BY <1>2, <1>3, ListedIsSeq
<1>5. List(f).items = f
  BY DEF List
<1> QED
  BY <1>4, <1>5 DEF IsListNode

\* Wrapping changes templates and targets, and not how many there are.
LEMMA WrapIs ==
  ASSUME NEW node, IsConfig(node)
  PROVE  /\ IsConfig(Wrap(node)) /\ DOMAIN Wrap(node).of = DOMAIN node.of
         /\ \A key \in DOMAIN node.of :
              key \notin {<<"templates", "">>, <<"targets", "">>} =>
                Wrap(node).of[key] = node.of[key]
         /\ Len(Items(Wrap(node), "targets")) = Len(Items(node, "targets"))
<1> DEFINE D == DOMAIN node.of
           T == <<"targets", "">>
           wrapped(list) == [i \in DOMAIN list.items |-> WrapSettings(list.items[i])]
           entry(key) ==
             CASE key = <<"templates", "">> ->
                    Map([name \in DOMAIN node.of[key].of |-> WrapSettings(node.of[key].of[name])])
               [] key = <<"targets", "">> -> List(wrapped(node.of[key]))
               [] OTHER -> node.of[key]
           g == [key \in D |-> entry(key)]
<1>1. Wrap(node) = Map(g)
  BY DEF Wrap
<1>2. \A key \in D : key \notin {<<"templates", "">>, T} => g[key] = node.of[key]
  OBVIOUS
<1>3. T \in D => g[T] = List(wrapped(node.of[T]))
  <2>1. T # <<"templates", "">>
    OBVIOUS
  <2> QED
    BY <2>1
<1>4. T \in D => IsListNode(node.of[T]) /\ IsListNode(g[T]) /\ Len(g[T].items) = Len(node.of[T].items)
  <2> SUFFICES ASSUME T \in D
               PROVE  IsListNode(node.of[T]) /\ IsListNode(g[T])
                      /\ Len(g[T].items) = Len(node.of[T].items)
    OBVIOUS
  <2> DEFINE f == wrapped(node.of[T])
  <2>1. PICK key \in D : key = T /\ key[1] = "targets"
    OBVIOUS
  <2>2. IsListNode(node.of[T])
    BY <2>1 DEF IsConfig
  <2>3. f = [i \in DOMAIN node.of[T].items |-> f[i]] /\ g[T] = List(f)
    BY <1>3
  <2> HIDE DEF g, f
  <2>4. IsListNode(List(f)) /\ List(f).items = f /\ Len(f) = Len(node.of[T].items)
    BY <2>2, <2>3, ListOf
  <2> QED
    BY <2>2, <2>3, <2>4
<1>5. ASSUME NEW key \in D, key[1] \in {"includes", "packages", "targets"} PROVE IsListNode(g[key])
  <2>1. CASE key = T
    BY <1>4, <2>1
  <2>2. CASE key # T
    <3>1. ASSUME key = <<"templates", "">> PROVE FALSE
      <4>1. key[1] = "templates"
        BY <3>1
      <4> QED
        BY <1>5, <4>1
    <3>2. g[key] = node.of[key]
      BY <1>2, <2>2, <3>1
    <3> QED
      BY <1>5, <3>2 DEF IsConfig
  <2> QED
    BY <2>1, <2>2
<1>6. IsConfig(Map(g)) /\ Map(g).of = g /\ DOMAIN g = D
  <2> HIDE DEF entry
  <2>1. g = [key \in D |-> g[key]]
    OBVIOUS
  <2> HIDE DEF g
  <2> QED
    BY <1>5, <2>1, ConfigOf
<1> HIDE DEF g
<1>7. Len(Items(Wrap(node), "targets")) = Len(Items(node, "targets"))
  <2>1. CASE T \in D
    <3>1. Items(node, "targets") = node.of[T].items /\ Items(Map(g), "targets") = g[T].items
      BY <1>6, <2>1, ItemsIs
    <3> QED
      BY <1>1, <1>4, <2>1, <3>1
  <2>2. CASE T \notin D
    <3>1. Items(node, "targets") = <<>> /\ Items(Map(g), "targets") = <<>>
      BY <1>6, <2>2, ItemsIs
    <3> QED
      BY <1>1, <3>1
  <2> QED
    BY <2>1, <2>2
<1> QED
  BY <1>1, <1>2, <1>6, <1>7

\* Of an included file some entries are ignored.
LEMMA IgnoredIs ==
  ASSUME NEW node, IsConfig(node)
  PROVE  /\ IsConfig(Ignored(node))
         /\ \A key : key \in DOMAIN Ignored(node).of <=>
              key \in DOMAIN node.of /\ key \notin {<<name, "">> : name \in {"version", "project", "includes"}}
         /\ \A key \in DOMAIN Ignored(node).of : Ignored(node).of[key] = node.of[key]
<1> DEFINE D == DOMAIN node.of \ {<<name, "">> : name \in {"version", "project", "includes"}}
           g == [key \in D |-> node.of[key]]
<1>1. Ignored(node) = Map(g)
  BY DEF Ignored
<1>2. \A key \in D : key[1] \in {"includes", "packages", "targets"} => IsListNode(g[key])
  BY DEF IsConfig
<1>3. D \subseteq DOMAIN node.of /\ g = [key \in D |-> g[key]]
  OBVIOUS
<1>4. \A key \in D : g[key] = node.of[key]
  OBVIOUS
<1>5. \A key : key \in D <=>
        key \in DOMAIN node.of /\ key \notin {<<name, "">> : name \in {"version", "project", "includes"}}
  OBVIOUS
<1> HIDE DEF D, g
<1>6. IsConfig(Map(g)) /\ Map(g).of = g /\ DOMAIN g = D
  BY <1>2, <1>3, ConfigOf
<1> QED
  BY <1>1, <1>4, <1>5, <1>6

\* Trimming leaves the names, and what is no map.
LEMMA TrimIs ==
  ASSUME TreesAsWritten, NEW node, IsConfig(node)
  PROVE  /\ IsConfig(trim_attributes(node))
         /\ DOMAIN trim_attributes(node).of = {<<name, "">> : name \in Names(node)}
         /\ \A key \in DOMAIN node.of :
              trim_attributes(node).of[<<key[1], "">>] = trim_attributes(node.of[key])
         /\ \A item : item.kind # "map" => trim_attributes(item) = item
<1> DEFINE t == trim_attributes(node)
           D == {<<name, "">> : name \in Names(node)}
           g == [key \in D |-> trim_attributes(node_find(node, key[1]).node)]
<1>0. IsMap(node) /\ node.kind = "map"
  BY AtIs DEF IsConfig
<1>1. t = Map(g)
  <2>1. t = TrimmedNode(node, trim_attributes)
    BY DEF TreesAsWritten
  <2> QED
    BY <1>0, <2>1 DEF TrimmedNode
<1>2. ASSUME NEW item, item.kind # "map" PROVE trim_attributes(item) = item
  <2>1. trim_attributes(item) = TrimmedNode(item, trim_attributes)
    BY DEF TreesAsWritten
  <2> QED
    BY <1>2, <2>1 DEF TrimmedNode
<1>3. \A key \in D : key = <<key[1], "">> /\ key[2] = "" /\ key[1] \in Names(node)
  <2> SUFFICES ASSUME NEW key \in D
               PROVE  key = <<key[1], "">> /\ key[2] = "" /\ key[1] \in Names(node)
    OBVIOUS
  <2>1. PICK name \in Names(node) : key = <<name, "">>
    OBVIOUS
  <2> QED
    BY <2>1
<1>4. \A name \in Names(node) : <<name, "">> \in D
  OBVIOUS
<1>5. IsMap(t) /\ t.of = g /\ DOMAIN g = D
  <2>1. g = [key \in D |-> g[key]]
    OBVIOUS
  <2> HIDE DEF g, D
  <2>2. AreKeys(D)
    BY <1>3 DEF AreKeys
  <2> HIDE DEF t
  <2> QED
    BY <1>1, <2>1, <2>2, MapIs
<1>6. ASSUME NEW key \in DOMAIN node.of
      PROVE  g[<<key[1], "">>] = trim_attributes(node.of[key]) /\ <<key[1], "">> \in D
  <2>1. key[1] \in Names(node) /\ node_find(node, key[1]) = [node |-> node.of[key], attr |-> key[2]]
    BY <1>0, FindIs
  <2>2. <<key[1], "">> \in D
    BY <1>4, <2>1
  <2>3. g[<<key[1], "">>] = trim_attributes(node_find(node, key[1]).node)
    BY <2>2
  <2> HIDE DEF g, D
  <2>4. node_find(node, key[1]).node = node.of[key]
    BY <2>1
  <2> QED
    BY <2>2, <2>3, <2>4
<1> HIDE DEF g, D, t
<1>7. ASSUME NEW key \in D, key[1] \in {"includes", "packages", "targets"} PROVE IsListNode(g[key])
  <2>1. PICK f \in DOMAIN node.of : f[1] = key[1]
    BY <1>3 DEF Names
  <2>2. g[key] = trim_attributes(node.of[f])
    BY <1>3, <1>6, <2>1
  <2>3. IsListNode(node.of[f])
    BY <1>7, <2>1 DEF IsConfig
  <2>4. node.of[f].kind # "map"
    BY <2>3, ListKind
  <2> QED
    BY <1>2, <2>2, <2>3, <2>4
<1>8. IsConfig(t)
  BY <1>5, <1>7 DEF IsConfig
<1>9. DOMAIN t.of = {<<name, "">> : name \in Names(node)}
  BY <1>5 DEF D
<1> QED
  BY <1>2, <1>5, <1>6, <1>8, <1>9 DEF t

\* Replacing parameters leaves the keys, and the number of items.
LEMMA ReplacedIs ==
  ASSUME TreesAsWritten, NEW node, IsConfig(node), NEW params
  PROVE  /\ IsConfig(replace_parameters(node, params))
         /\ DOMAIN replace_parameters(node, params).of = DOMAIN node.of
         /\ \A key \in DOMAIN node.of :
              replace_parameters(node, params).of[key] = replace_parameters(node.of[key], params)
<1> DEFINE r == replace_parameters(node, params)
           D == DOMAIN node.of
           g == [key \in D |-> replace_parameters(node.of[key], params)]
<1>0. node.kind = "map"
  BY AtIs DEF IsConfig
<1>1. r = Map(g)
  <2>1. r = ReplacedNode(node, params, replace_parameters)
    BY DEF TreesAsWritten
  <2> QED
    BY <1>0, <2>1 DEF ReplacedNode
<1>2. ASSUME NEW item, IsListNode(item) PROVE IsListNode(replace_parameters(item, params))
  <2> DEFINE f == [i \in DOMAIN item.items |-> replace_parameters(item.items[i], params)]
  <2>1. replace_parameters(item, params) = ReplacedNode(item, params, replace_parameters)
    BY DEF TreesAsWritten
  <2>2. item.kind = "list"
    BY <1>2, ListKind
  <2>3. replace_parameters(item, params) = List(f)
    BY <2>1, <2>2 DEF ReplacedNode
  <2>4. f = [i \in DOMAIN item.items |-> f[i]]
    OBVIOUS
  <2> HIDE DEF f
  <2> QED
    BY <1>2, <2>3, <2>4, ListOf
<1>3. \A key \in D : key[1] \in {"includes", "packages", "targets"} => IsListNode(g[key])
  <2> SUFFICES ASSUME NEW key \in D, key[1] \in {"includes", "packages", "targets"}
               PROVE  IsListNode(g[key])
    OBVIOUS
  <2>1. IsListNode(node.of[key])
    BY DEF IsConfig
  <2> QED
    BY <1>2, <2>1
<1>4. g = [key \in D |-> g[key]] /\ \A key \in D : g[key] = replace_parameters(node.of[key], params)
  OBVIOUS
<1> HIDE DEF g
<1>5. IsConfig(Map(g)) /\ Map(g).of = g /\ DOMAIN g = D
  BY <1>3, <1>4, ConfigOf
<1> QED
  BY <1>1, <1>4, <1>5

\* A list with other items is another list.
LEMMA ListExcept == ASSUME NEW l, NEW h PROVE [List(l) EXCEPT !.items = h] = List(h)
BY DEF List

\* A map with other entries is another map.
LEMMA MapExcept == ASSUME NEW f, NEW h PROVE [Map(f) EXCEPT !.of = h] = Map(h)
BY DEF Map

\* A call whose node, or what is left, changes is another call.
LEMMA FrameExcept ==
  ASSUME NEW frame, NEW a, NEW b, NEW c, NEW d,
         frame = [path |-> a, node |-> b, todo |-> c, undefined |-> d], NEW h
  PROVE  /\ [frame EXCEPT !.todo = h] = [path |-> a, node |-> b, todo |-> h, undefined |-> d]
         /\ [frame EXCEPT !.node = h] = [path |-> a, node |-> h, todo |-> c, undefined |-> d]
OBVIOUS

\* A target is set in its place.
LEMMA SetTargetIs ==
  ASSUME IsConfig(config), NEW node
  PROVE  /\ IsConfig(SetTarget(node))
         /\ \A key : key \in DOMAIN SetTarget(node).of <=> key \in DOMAIN config.of
         /\ \A key \in DOMAIN config.of :
              key # <<"targets", "">> => SetTarget(node).of[key] = config.of[key]
         /\ Len(Items(SetTarget(node), "targets")) = Len(Targets)
<1> DEFINE D == DOMAIN config.of
           T == <<"targets", "">>
           list == [config.of[T] EXCEPT !.items = [config.of[T].items EXCEPT ![target] = node]]
           g == [config.of EXCEPT ![T] = list]
<1>1. config = Map(config.of) /\ config.of = [key \in D |-> config.of[key]]
  BY DEF IsConfig, IsMap
<1>2. SetTarget(node) = Map(g)
  <2>1. SetTarget(node) = [config EXCEPT !.of = g]
    BY DEF SetTarget
  <2> HIDE DEF g
  <2> QED
    BY <1>1, <2>1, MapExcept
<1>3. DOMAIN g = D /\ g = [key \in D |-> g[key]]
      /\ \A key \in D : key # T => g[key] = config.of[key]
  BY <1>1
<1>4. T \in D => g[T] = list
  BY <1>1
<1>5. T \in D => IsListNode(config.of[T]) /\ IsListNode(list) /\ Len(list.items) = Len(config.of[T].items)
  <2> SUFFICES ASSUME T \in D
               PROVE  IsListNode(config.of[T]) /\ IsListNode(list)
                      /\ Len(list.items) = Len(config.of[T].items)
    OBVIOUS
  <2>1. PICK key \in D : key = T /\ key[1] = "targets"
    OBVIOUS
  <2>2. IsListNode(config.of[T])
    BY <2>1 DEF IsConfig
  <2> DEFINE f == [config.of[T].items EXCEPT ![target] = node]
  <2>3. f = [i \in DOMAIN config.of[T].items |-> f[i]]
    OBVIOUS
  <2>4. config.of[T] = List(config.of[T].items)
    BY <2>2 DEF IsListNode
  <2>5. list = [config.of[T] EXCEPT !.items = f]
    OBVIOUS
  <2> HIDE DEF f, list
  <2>7. list = List(f)
    BY <2>4, <2>5, ListExcept
  <2>8. IsListNode(List(f)) /\ List(f).items = f /\ Len(f) = Len(config.of[T].items)
    BY <2>2, <2>3, ListOf
  <2> QED
    BY <2>2, <2>7, <2>8
<1> HIDE DEF g, list
<1>6. ASSUME NEW key \in D, key[1] \in {"includes", "packages", "targets"} PROVE IsListNode(g[key])
  <2>1. CASE key = T
    BY <1>4, <1>5, <2>1
  <2>2. CASE key # T
    BY <1>3, <1>6, <2>2 DEF IsConfig
  <2> QED
    BY <2>1, <2>2
<1>7. IsConfig(Map(g)) /\ Map(g).of = g
  BY <1>3, <1>6, ConfigOf
<1>8. Len(Items(SetTarget(node), "targets")) = Len(Targets)
  <2>1. CASE T \in D
    <3>1. Targets = config.of[T].items /\ Items(Map(g), "targets") = g[T].items
      BY <1>3, <1>7, <2>1, ItemsIs DEF Targets
    <3> QED
      BY <1>2, <1>4, <1>5, <2>1, <3>1
  <2>2. CASE T \notin D
    <3>1. Targets = <<>> /\ Items(Map(g), "targets") = <<>>
      BY <1>3, <1>7, <2>2, ItemsIs DEF Targets
    <3> QED
      BY <1>2, <3>1
  <2> QED
    BY <2>1, <2>2
<1> QED
  BY <1>2, <1>3, <1>7, <1>8

-----------------------------------------------------------------------------
\* Types.

\* A call of node_merge_includes has a configuration, and includes that are left.
IsFrame(frame) ==
  /\ frame = [path |-> frame.path, node |-> frame.node, todo |-> frame.todo,
              undefined |-> frame.undefined]
  /\ IsConfig(frame.node) /\ IsSeq(frame.todo)

Calls ==
  /\ IsSeq(stack) /\ (pc = "includes" <=> stack # <<>>)
  /\ \A i \in DOMAIN stack : IsFrame(stack[i])

\* The paths of the calls.
Paths ==
  /\ root \in Roots /\ files \in FileSets /\ included \subseteq DOMAIN files
  /\ \A i \in DOMAIN stack : IF i = 1 THEN stack[i].path = "" ELSE stack[i].path \in included
  /\ \A i, j \in DOMAIN stack : stack[i].path = stack[j].path => i = j

\* The configuration after its includes, and the target that is next.
Merging ==
  /\ IF pc \in {"version", "validate", "includes"} THEN config = Null
     ELSE (pc = "rejected" /\ config = Null) \/ IsConfig(config)
  /\ target \in 0 .. Len(Targets) + 1
  /\ pc \in {"version", "validate", "includes", "validate_included"} => target = 0
  /\ pc = "templates" => target # 0

\* The invariant on which the others rest.
TypeInv ==
  /\ pc \in {"version", "validate", "includes", "validate_included", "templates",
             "validate_result", "accepted", "rejected"}
  /\ Calls /\ Paths /\ Merging /\ (Accepted => errors = {})

\* There are no items in nothing.
LEMMA NullHasNoItems == ASSUME NEW name PROVE Items(Null, name) = <<>>
<1>1. Null.kind # "map"
  BY DEF Null
<1> QED
  BY <1>1 DEF Items, At

\* A call begins with all its includes.
LEMMA FrameIs ==
  ASSUME NEW node, IsConfig(node), NEW path, NEW undefined
  PROVE  /\ IsFrame(Frame(path, node, undefined))
         /\ Frame(path, node, undefined).path = path
         /\ Frame(path, node, undefined).node = Wrap(node)
         /\ Frame(path, node, undefined).todo = Uses(node, "includes")
         /\ Frame(path, node, undefined).undefined = undefined
<1>1. IsConfig(Wrap(node)) /\ IsSeq(Uses(node, "includes"))
  BY WrapIs, ItemsIs DEF Uses
<1> QED
  BY <1>1 DEF Frame, IsFrame

\* The next include is no longer left.
LEMMA PopIs ==
  ASSUME Calls, pc = "includes", top.todo # <<>>
  PROVE  /\ IsSeq(Pop) /\ Len(Pop) = Len(stack) /\ DOMAIN Pop = DOMAIN stack /\ Pop # <<>>
         /\ Len(stack) \in DOMAIN stack /\ top = stack[Len(stack)]
         /\ \A i \in DOMAIN stack :
              /\ IsFrame(Pop[i]) /\ Pop[i].path = stack[i].path /\ Pop[i].node = stack[i].node
              /\ Pop[i].undefined = stack[i].undefined
              /\ Pop[i].todo = IF i = Len(stack) THEN Tail(top.todo) ELSE stack[i].todo
<1> DEFINE n == Len(stack)
<1>1. n \in Nat /\ DOMAIN stack = 1 .. n /\ n > 0 /\ top = stack[n] /\ stack # <<>>
  BY SeqParts, FrontIs DEF Calls, top
<1>2. IsFrame(top)
  BY <1>1 DEF Calls
<1> DEFINE f == [top EXCEPT !.todo = Tail(@)]
<1>3. f = [path |-> top.path, node |-> top.node, todo |-> Tail(top.todo),
           undefined |-> top.undefined]
  <2>1. f = [top EXCEPT !.todo = Tail(top.todo)]
    OBVIOUS
  <2>2. top = [path |-> top.path, node |-> top.node, todo |-> top.todo,
               undefined |-> top.undefined]
    BY <1>2 DEF IsFrame
  <2> HIDE DEF f
  <2> QED
    BY <2>1, <2>2, FrameExcept
<1>4. IsFrame(f) /\ f.path = top.path /\ f.node = top.node /\ f.todo = Tail(top.todo)
      /\ f.undefined = top.undefined
  <2>1. IsConfig(top.node) /\ IsSeq(Tail(top.todo))
    BY <1>2, TailIs DEF IsFrame
  <2> HIDE DEF f
  <2>2. f.path = top.path /\ f.node = top.node /\ f.todo = Tail(top.todo)
        /\ f.undefined = top.undefined
    BY <1>3
  <2> QED
    BY <1>3, <2>1, <2>2 DEF IsFrame
<1>5. Pop = [stack EXCEPT ![n] = f]
  BY <1>1 DEF Pop
<1>6. IsSeq(Pop) /\ Len(Pop) = n /\ DOMAIN Pop = DOMAIN stack
  BY <1>5, ExceptIs DEF Calls
<1>7. \A i \in DOMAIN stack : Pop[i] = IF i = n THEN f ELSE stack[i]
  BY <1>5
<1> HIDE DEF f
<1> QED
  BY <1>1, <1>4, <1>6, <1>7, SeqParts DEF Calls

\* At first nothing is read.
LEMMA TypeInit == Init => TypeInv
<1> SUFFICES ASSUME Init PROVE TypeInv
  OBVIOUS
<1>1. IsSeq(stack) /\ stack = <<>>
  BY NoneIs DEF Init
<1>2. DOMAIN stack = {}
  BY <1>1
<1>3. Calls /\ Paths
  BY <1>1, <1>2 DEF Init, Calls, Paths
<1>4. Len(Targets) = 0
  BY NullHasNoItems DEF Init, Targets
<1>5. Merging
  BY <1>4 DEF Init, Merging
<1> QED
  BY <1>3, <1>5 DEF Init, TypeInv, Accepted

\* An include that is passed over leaves the calls and their paths.
LEMMA Popped ==
  ASSUME Calls, Paths, pc = "includes", top.todo # <<>>, stack' = Pop,
         UNCHANGED <<root, files, pc, included>>
  PROVE  Calls' /\ Paths'
<1>1. /\ IsSeq(stack') /\ DOMAIN stack' = DOMAIN stack /\ stack' # <<>>
      /\ \A i \in DOMAIN stack : IsFrame(stack'[i]) /\ stack'[i].path = stack[i].path
  BY PopIs
<1>2. Calls'
  BY <1>1 DEF Calls
<1>3. Paths'
  BY <1>1 DEF Paths
<1> QED
  BY <1>2, <1>3

\* Pushing a call.
LEMMA CallsPushed ==
  ASSUME Calls, Paths, pc = "includes", top.todo # <<>>,
         NEW frame, IsFrame(frame), frame.path \in DOMAIN files \ included
  PROVE  LET s == Append(Pop, frame) IN
         /\ IsSeq(s) /\ s # <<>> /\ Len(s) = Len(stack) + 1
         /\ \A i \in DOMAIN stack : i \in DOMAIN s /\ s[i] = Pop[i]
         /\ DOMAIN s = DOMAIN stack \cup {Len(stack) + 1} /\ s[Len(stack) + 1] = frame
<1> DEFINE s == Append(Pop, frame)
<1>1. IsSeq(Pop) /\ Len(Pop) = Len(stack) /\ Len(stack) \in Nat
  BY PopIs, SeqParts
<1>2. IsSeq(s) /\ Len(s) = Len(Pop) + 1 /\ (\A i \in 1 .. Len(Pop) : s[i] = Pop[i])
      /\ s[Len(Pop) + 1] = frame
  BY <1>1, AppendIs
<1> HIDE DEF s
<1>3. DOMAIN s = 1 .. Len(s) /\ s # <<>> /\ DOMAIN stack = 1 .. Len(stack)
  BY <1>1, <1>2, SeqParts DEF Calls
<1> QED
  BY <1>1, <1>2, <1>3 DEF s

\* The calls when the last one has returned to the one below it.
below == Len(stack) - 1
Back  == [Front(stack) EXCEPT ![Len(stack) - 1].node = merge(Ignored(top.node), @)]

\* A call that returns leaves the others, and merges its configuration.
LEMMA Returned ==
  ASSUME TreesAsWritten, Calls, Len(stack) > 1
  PROVE  /\ IsSeq(Back) /\ Len(Back) = below /\ DOMAIN Back = 1 .. below /\ Back # <<>>
         /\ below \in Nat /\ below >= 1 /\ below + 1 = Len(stack)
         /\ DOMAIN stack = 1 .. below + 1 /\ top = stack[below + 1]
         /\ IsConfig(top.node) /\ IsConfig(stack[below].node)
         /\ \A i \in 1 .. below :
              /\ IsFrame(Back[i]) /\ Back[i].path = stack[i].path /\ Back[i].todo = stack[i].todo
              /\ Back[i].undefined = stack[i].undefined
              /\ Back[i].node = IF i = below THEN merge(Ignored(top.node), stack[below].node)
                                ELSE stack[i].node
<1>1. /\ below \in Nat /\ below >= 1 /\ below + 1 = Len(stack) /\ DOMAIN stack = 1 .. below + 1
      /\ stack # <<>> /\ IsSeq(stack)
  <2>1. IsSeq(stack)
    BY DEF Calls
  <2> QED
    BY <2>1, SeqParts DEF below
<1>2. /\ IsSeq(Front(stack)) /\ Len(Front(stack)) = below /\ DOMAIN Front(stack) = 1 .. below
      /\ (\A i \in 1 .. below : Front(stack)[i] = stack[i]) /\ top = stack[below + 1]
  <2>1. IsSeq(Front(stack)) /\ Len(Front(stack)) = Len(stack) - 1
        /\ (\A i \in 1 .. Len(stack) - 1 : Front(stack)[i] = stack[i])
        /\ Last(stack) = stack[Len(stack)]
    BY <1>1, FrontIs
  <2>2. DOMAIN Front(stack) = 1 .. Len(Front(stack))
    BY <2>1, SeqParts
  <2> QED
    BY <1>1, <2>1, <2>2 DEF top, below
<1> DEFINE merged == merge(Ignored(top.node), stack[below].node)
           frame  == [stack[below] EXCEPT !.node = merged]
<1>3. \A i \in 1 .. below + 1 : IsFrame(stack[i])
  BY <1>1 DEF Calls
<1>4. IsConfig(merged) /\ IsConfig(top.node) /\ IsConfig(stack[below].node)
  <2>1. IsConfig(top.node) /\ IsConfig(stack[below].node)
    BY <1>1, <1>2, <1>3 DEF IsFrame
  <2> QED
    BY <2>1, IgnoredIs, ConfigMerged
<1> HIDE DEF merged
<1>5. IsFrame(frame) /\ frame.path = stack[below].path /\ frame.todo = stack[below].todo
      /\ frame.undefined = stack[below].undefined /\ frame.node = merged
  <2>1. IsFrame(stack[below])
    BY <1>1, <1>3
  <2>2. stack[below] = [path |-> stack[below].path, node |-> stack[below].node,
                        todo |-> stack[below].todo, undefined |-> stack[below].undefined]
    BY <2>1 DEF IsFrame
  <2>3. frame = [path |-> stack[below].path, node |-> merged, todo |-> stack[below].todo,
                 undefined |-> stack[below].undefined]
    BY <2>2, FrameExcept
  <2> HIDE DEF frame
  <2>4. frame.path = stack[below].path /\ frame.todo = stack[below].todo
        /\ frame.undefined = stack[below].undefined /\ frame.node = merged
    BY <2>3
  <2> QED
    BY <1>4, <2>1, <2>3, <2>4 DEF IsFrame
<1>6. Back = [Front(stack) EXCEPT ![below] = frame]
  <2>1. Back = [Front(stack) EXCEPT ![below] =
                  [Front(stack)[below] EXCEPT
                     !.node = merge(Ignored(top.node), Front(stack)[below].node)]]
    BY DEF Back, below
  <2>2. Front(stack)[below] = stack[below]
    BY <1>1, <1>2
  <2> QED
    BY <2>1, <2>2 DEF merged
<1> HIDE DEF frame
<1>7. \A i \in 1 .. below : Back[i] = IF i = below THEN frame ELSE stack[i]
  BY <1>2, <1>6
<1>8. IsSeq(Back) /\ Len(Back) = below /\ DOMAIN Back = 1 .. below /\ Back # <<>>
  <2>1. IsSeq(Back) /\ Len(Back) = below
    BY <1>2, <1>6, ExceptIs
  <2> QED
    BY <1>1, <2>1, SeqParts
<1>9. \A i \in 1 .. below :
        /\ IsFrame(Back[i]) /\ Back[i].path = stack[i].path /\ Back[i].todo = stack[i].todo
        /\ Back[i].undefined = stack[i].undefined
        /\ Back[i].node = IF i = below THEN merged ELSE stack[i].node
  <2> SUFFICES ASSUME NEW i \in 1 .. below
               PROVE  /\ IsFrame(Back[i]) /\ Back[i].path = stack[i].path
                      /\ Back[i].todo = stack[i].todo
                      /\ Back[i].undefined = stack[i].undefined
                      /\ Back[i].node = IF i = below THEN merged ELSE stack[i].node
    OBVIOUS
  <2>1. IsFrame(stack[i])
    BY <1>1, <1>3
  <2> QED
    BY <1>5, <1>7, <2>1
<1> QED
  BY <1>1, <1>2, <1>4, <1>8, <1>9 DEF merged

\* Trimming loses no target.
LEMMA TargetsTrimmed ==
  ASSUME TreesAsWritten, NEW node, IsConfig(node)
  PROVE  /\ IsConfig(trim_attributes(node))
         /\ Len(Items(trim_attributes(node), "targets")) \in Nat
         /\ Len(Items(node, "targets")) <= Len(Items(trim_attributes(node), "targets"))
<1> DEFINE t == trim_attributes(node)
           T == <<"targets", "">>
<1>1. IsConfig(t)
  BY TrimIs
<1>2. Len(Items(t, "targets")) \in Nat
  BY <1>1, ItemsIs, SeqParts
<1>3. CASE T \in DOMAIN node.of
  <2>1. PICK key \in DOMAIN node.of : key = T /\ key[1] = "targets"
    BY <1>3
  <2>2. IsListNode(node.of[key])
    BY <2>1 DEF IsConfig
  <2>3. t.of[<<key[1], "">>] = node.of[key]
    BY <2>2, ListKind, TrimIs
  <2>4. key[1] \in Names(node)
    BY DEF Names
  <2>5. <<key[1], "">> \in DOMAIN t.of
    BY <2>4, TrimIs
  <2> HIDE DEF t
  <2>6. Items(t, "targets") = t.of[T].items /\ Items(node, "targets") = node.of[T].items
    BY <1>1, <1>3, <2>1, <2>5, ItemsIs
  <2>7. Items(t, "targets") = Items(node, "targets")
    BY <2>1, <2>3, <2>6
  <2> QED
    BY <1>1, <1>2, <2>7 DEF t
<1>4. CASE T \notin DOMAIN node.of
  <2>1. Items(node, "targets") = <<>>
    BY <1>4, ItemsIs
  <2>2. Len(Items(node, "targets")) = 0
    BY <2>1
  <2> QED
    BY <1>1, <1>2, <2>2
<1> QED
  BY <1>3, <1>4

\* A step keeps the types.
LEMMA TypeStep ==
  ASSUME TreesAsWritten PROVE TypeInv /\ [Next]_vars => TypeInv'
<1> SUFFICES ASSUME TypeInv, [Next]_vars PROVE TypeInv'
  OBVIOUS
<1> USE DEF TypeInv
<1>0. /\ IsSeq(stack) /\ Len(stack) \in Nat /\ DOMAIN stack = 1 .. Len(stack)
      /\ (stack # <<>> <=> Len(stack) > 0)
      /\ Len(Targets) \in Nat
  <2>1. IsSeq(stack)
    BY DEF Calls
  <2>2. config = Null \/ IsConfig(config)
    BY DEF Merging
  <2>3. Len(Targets) \in Nat
    <3>1. CASE config = Null
      BY <3>1, NullHasNoItems DEF Targets
    <3>2. CASE IsConfig(config)
      BY <3>2, ItemsIs, SeqParts DEF Targets
    <3> QED
      BY <2>2, <3>1, <3>2
  <2> QED
    BY <2>1, <2>3, SeqParts
<1>1. CASE CheckVersion
  <2>1. Calls' /\ Paths' /\ Merging'
    BY <1>0, <1>1 DEF CheckVersion, input, templVars, Calls, Paths, Merging, Targets
  <2> QED
    BY <1>1, <2>1 DEF CheckVersion, Accepted
<1>2. CASE Invalid
  <2>1. Calls' /\ Paths' /\ Merging'
    BY <1>0, <1>2 DEF Invalid, input, templVars, Calls, Paths, Merging, Targets
  <2> QED
    BY <1>2, <2>1 DEF Invalid, Accepted
<1>3. CASE Valid
  <2>1. pc = "validate" /\ pc' = "includes" /\ stack' = <<Frame("", root, {})>>
        /\ UNCHANGED <<root, files, included, errors, config, target, todo, visits>>
    BY <1>3 DEF Valid, input, templVars
  <2>2. IsConfig(root)
    BY FilesAssumption DEF Paths
  <2>3. IsFrame(Frame("", root, {})) /\ Frame("", root, {}).path = ""
    <3>1. PICK none : none = {}
      OBVIOUS
    <3>2. PICK path : path = ""
      OBVIOUS
    <3>3. IsFrame(Frame(path, root, none)) /\ Frame(path, root, none).path = path
      BY <2>2, FrameIs
    <3> QED
      BY <3>1, <3>2, <3>3
  <2> DEFINE frame == Frame("", root, {})
  <2> HIDE DEF frame
  <2>4. IsSeq(<<frame>>) /\ DOMAIN <<frame>> = {1} /\ <<frame>>[1] = frame /\ <<frame>> # <<>>
    BY OneIs
  <2>5. Calls'
    BY <2>1, <2>3, <2>4 DEF Calls, frame
  <2>6. Paths' /\ Merging'
    BY <2>1, <2>3, <2>4 DEF Paths, Merging, Targets, frame
  <2> QED
    BY <2>1, <2>5, <2>6 DEF Accepted
<1>4. CASE IncludeNotFound
  <2>1. pc = "includes" /\ top.todo # <<>> /\ stack' = Pop
        /\ UNCHANGED <<root, files, pc, included, config, target, todo, visits>>
    BY <1>4 DEF IncludeNotFound, input, templVars
  <2>2. Calls' /\ Paths'
    BY <2>1, Popped
  <2>3. Merging'
    BY <2>1 DEF Merging, Targets
  <2> QED
    BY <2>1, <2>2, <2>3 DEF Accepted
<1>5. CASE IncludeAgain
  <2>1. pc = "includes" /\ top.todo # <<>> /\ stack' = Pop
        /\ UNCHANGED <<root, files, pc, included, config, target, todo, visits>>
    BY <1>5 DEF IncludeAgain, input, templVars
  <2>2. Calls' /\ Paths'
    BY <2>1, Popped
  <2>3. Merging'
    BY <2>1 DEF Merging, Targets
  <2> QED
    BY <2>1, <2>2, <2>3 DEF Accepted
<1>6. CASE IncludeFile
  <2> DEFINE use   == Head(top.todo)
             frame == Entered(use)
  <2>1. /\ pc = "includes" /\ top.todo # <<>> /\ use.name.of \in DOMAIN files \ included
        /\ included' = included \cup {use.name.of} /\ stack' = Append(Pop, frame)
        /\ UNCHANGED <<root, files, pc, errors, config, target, todo>>
    BY <1>6 DEF IncludeFile, input, templVars
  <2>2. IsFrame(frame) /\ frame.path = use.name.of
    <3>1. IsConfig(files[use.name.of])
      BY <2>1, FilesAssumption DEF Paths
    <3>2. IsConfig(replace_parameters(files[use.name.of], use.params))
      BY <3>1, ReplacedIs
    <3> QED
      BY <3>2, FrameIs DEF Entered
  <2> HIDE DEF use, frame
  <2>3. /\ IsSeq(stack') /\ stack' # <<>>
        /\ \A i \in DOMAIN stack : i \in DOMAIN stack' /\ stack'[i] = Pop[i]
        /\ DOMAIN stack' = DOMAIN stack \cup {Len(stack) + 1} /\ stack'[Len(stack) + 1] = frame
    BY <2>1, <2>2, CallsPushed
  <2>4. \A i \in DOMAIN stack : IsFrame(stack'[i]) /\ stack'[i].path = stack[i].path
    BY <2>1, <2>3, PopIs
  <2>5. Calls'
    BY <2>1, <2>2, <2>3, <2>4 DEF Calls
  <2>6. Paths'
    <3>1. "" \notin DOMAIN files
      BY FilesAssumption DEF Paths
    <3>2. \A i \in DOMAIN stack : stack[i].path # use.name.of
      BY <2>1, <3>1 DEF Paths
    <3>3. Len(stack) + 1 # 1
      BY <1>0, <2>1 DEF Calls
    <3>4. \A i \in DOMAIN stack' :
            \/ (i \in DOMAIN stack /\ stack'[i].path = stack[i].path)
            \/ (i = Len(stack) + 1 /\ stack'[i].path = use.name.of)
      BY <2>2, <2>3, <2>4
    <3>5. \A i \in DOMAIN stack' :
            IF i = 1 THEN stack'[i].path = "" ELSE stack'[i].path \in included'
      BY <2>1, <3>3, <3>4 DEF Paths
    <3>6. \A i, j \in DOMAIN stack' : stack'[i].path = stack'[j].path => i = j
      BY <3>2, <3>4 DEF Paths
    <3> QED
      BY <2>1, <3>5, <3>6 DEF Paths
  <2>7. Merging'
    BY <2>1 DEF Merging, Targets
  <2> QED
    BY <2>1, <2>5, <2>6, <2>7 DEF Accepted
<1>7. CASE IncludeReturn
  <2>1. /\ pc = "includes" /\ Len(stack) > 1 /\ stack' = Back
        /\ UNCHANGED <<root, files, pc, included, config, target, todo, visits>>
    BY <1>7 DEF IncludeReturn, Back, input, templVars
  <2>2. /\ IsSeq(stack') /\ DOMAIN stack' = 1 .. below /\ stack' # <<>> /\ below \in Nat
        /\ DOMAIN stack = 1 .. below + 1
        /\ \A i \in 1 .. below : IsFrame(stack'[i]) /\ stack'[i].path = stack[i].path
    BY <2>1, Returned
  <2>3. Calls'
    BY <2>1, <2>2 DEF Calls
  <2>4. Paths'
    <3>1. \A i \in DOMAIN stack' : i \in DOMAIN stack /\ stack'[i].path = stack[i].path
      BY <2>2
    <3>2. \A i \in DOMAIN stack' :
            IF i = 1 THEN stack'[i].path = "" ELSE stack'[i].path \in included
      BY <3>1 DEF Paths
    <3>3. \A i, j \in DOMAIN stack' : stack'[i].path = stack'[j].path => i = j
      BY <3>1 DEF Paths
    <3> QED
      BY <2>1, <3>2, <3>3 DEF Paths
  <2>5. Merging'
    BY <2>1 DEF Merging, Targets
  <2> QED
    BY <2>1, <2>3, <2>4, <2>5 DEF Accepted
<1>8. CASE IncludesDone
  <2>1. /\ pc = "includes" /\ Len(stack) = 1 /\ pc' = "validate_included" /\ config' = top.node
        /\ stack' = <<>>
        /\ UNCHANGED <<root, files, included, errors, target, todo, visits>>
    BY <1>8 DEF IncludesDone, input, templVars
  <2>2. IsConfig(config')
    BY <1>0, <2>1, FrontIs DEF Calls, IsFrame, top
  <2>3. IsSeq(stack') /\ DOMAIN stack' = {}
    BY <2>1, NoneIs
  <2>4. Calls' /\ Paths'
    BY <2>1, <2>3 DEF Calls, Paths
  <2>5. Len(Targets') \in Nat
    BY <2>2, ItemsIs, SeqParts DEF Targets
  <2>6. Merging'
    BY <2>1, <2>2, <2>5 DEF Merging
  <2> QED
    BY <2>1, <2>4, <2>6 DEF Accepted
<1>9. CASE ValidIncluded
  <2>1. /\ pc = "validate_included" /\ pc' = "templates" /\ config' = Wrap(config) /\ target' = 1
        /\ UNCHANGED <<root, files, stack, included, errors, visits>>
    BY <1>9 DEF ValidIncluded, ToTarget, input
  <2>2. IsConfig(config)
    BY <2>1 DEF Merging
  <2>3. IsConfig(config') /\ Len(Targets') = Len(Targets)
    BY <2>1, <2>2, WrapIs DEF Targets
  <2>4. Calls' /\ Paths'
    BY <2>1 DEF Calls, Paths
  <2>5. Merging'
    BY <1>0, <2>1, <2>3 DEF Merging
  <2> QED
    BY <2>1, <2>4, <2>5 DEF Accepted
<1>10. CASE TemplateNotFound
  <2>1. pc = "templates" /\ UNCHANGED <<root, files, pc, stack, included, config, target, visits>>
    BY <1>10 DEF TemplateNotFound, input
  <2>2. Calls' /\ Paths' /\ Merging'
    BY <2>1 DEF Calls, Paths, Merging, Targets
  <2> QED
    BY <2>1, <2>2 DEF Accepted
<1>11. CASE MergeTemplate
  <2>1. /\ pc = "templates" /\ \E node : config' = SetTarget(node)
        /\ UNCHANGED <<root, files, pc, stack, included, target, visits>>
    BY <1>11 DEF MergeTemplate, input
  <2>2. IsConfig(config)
    BY <2>1 DEF Merging
  <2>3. IsConfig(config') /\ Len(Targets') = Len(Targets)
    BY <2>1, <2>2, SetTargetIs DEF Targets
  <2>4. Calls' /\ Paths'
    BY <2>1 DEF Calls, Paths
  <2>5. Merging'
    BY <1>0, <2>1, <2>3 DEF Merging
  <2> QED
    BY <2>1, <2>4, <2>5 DEF Accepted
<1>12. CASE TargetDone
  <2>1. /\ pc = "templates" /\ target <= Len(Targets) /\ target' = target + 1
        /\ config' = SetTarget(trim_attributes(Targets[target]))
        /\ UNCHANGED <<root, files, pc, stack, included, errors, visits>>
    BY <1>12 DEF TargetDone, ToTarget, input
  <2>2. IsConfig(config)
    BY <2>1 DEF Merging
  <2>3. IsConfig(config') /\ Len(Targets') = Len(Targets)
    BY <2>1, <2>2, SetTargetIs DEF Targets
  <2>4. Calls' /\ Paths'
    BY <2>1 DEF Calls, Paths
  <2>5. Merging'
    BY <1>0, <2>1, <2>3 DEF Merging
  <2> QED
    BY <2>1, <2>4, <2>5 DEF Accepted
<1>13. CASE TemplatesDone
  <2>1. /\ pc = "templates" /\ pc' = "validate_result" /\ config' = trim_attributes(config)
        /\ UNCHANGED <<root, files, stack, included, errors, target, todo, visits>>
    BY <1>13 DEF TemplatesDone, input, templVars
  <2>2. IsConfig(config)
    BY <2>1 DEF Merging
  <2>3. IsConfig(config') /\ Len(Targets') \in Nat /\ Len(Targets) <= Len(Targets')
    BY <2>1, <2>2, TargetsTrimmed DEF Targets
  <2>4. Calls' /\ Paths'
    BY <2>1 DEF Calls, Paths
  <2>5. Merging'
    BY <1>0, <2>1, <2>3 DEF Merging
  <2> QED
    BY <2>1, <2>4, <2>5 DEF Accepted
<1>14. CASE ValidResult
  <2>1. /\ pc = "validate_result"
        /\ \/ pc' = "accepted" /\ errors = {} /\ config' = Wrap(config)
           \/ pc' = "rejected" /\ config' = config
        /\ UNCHANGED <<root, files, stack, included, errors, target, todo, visits>>
    BY <1>14 DEF ValidResult, input, templVars
  <2>2. IsConfig(config)
    BY <2>1 DEF Merging
  <2>3. IsConfig(config') /\ Len(Targets') = Len(Targets)
    BY <2>1, <2>2, WrapIs DEF Targets
  <2>4. Calls' /\ Paths'
    BY <2>1 DEF Calls, Paths
  <2>5. Merging'
    BY <1>0, <2>1, <2>3 DEF Merging
  <2> QED
    BY <2>1, <2>4, <2>5 DEF Accepted
<1>15. CASE UNCHANGED vars
  BY <1>15 DEF vars, input, templVars, Calls, Paths, Merging, Targets, Accepted
<1> QED
  BY <1>1, <1>2, <1>3, <1>4, <1>5, <1>6, <1>7, <1>8, <1>9, <1>10, <1>11, <1>12, <1>13,
     <1>14, <1>15 DEF Next

\* The types hold in every state, of every configuration with its files.
THEOREM ConfigTypeCorrect ==
  ASSUME TreesAsWritten PROVE Spec => []TypeOK
<1>1. Init => TypeInv
  BY TypeInit
<1>2. TypeInv /\ [Next]_vars => TypeInv'
  BY TypeStep
<1>3. TypeInv => TypeOK
  BY DEF TypeInv, Paths, Merging, TypeOK, Targets
<1> QED
  BY <1>1, <1>2, <1>3, PTL DEF Spec

-----------------------------------------------------------------------------
\* What is accepted is complete.

\* A file with its parameters replaced, as it is read.
Reading(use) == replace_parameters(files[use.name.of], use.params)

\* The files that were read are those that are included, each once.
Visiting ==
  /\ IsSeq(visits) /\ included = {visits[i].name.of : i \in DOMAIN visits}
  /\ \A i, j \in DOMAIN visits : visits[i].name.of = visits[j].name.of => i = j
  /\ pc \in {"version", "validate"} => visits = <<>>

\* A use of a file that is included, or that waits in some call.
ReadOrWaits(use) ==
  \/ use.name.of \in included
  \/ \E i \in DOMAIN stack : \E t \in DOMAIN stack[i].todo : stack[i].todo[t] = use

\* Every file named by one that was read is read or waits.
NamedIsRead ==
  errors = {} /\ pc \notin {"version", "validate"} =>
    \A r \in DOMAIN Read : \A k \in DOMAIN Uses(Read[r], "includes") :
      ReadOrWaits(Uses(Read[r], "includes")[k])

\* Parameters that were not given are known to a call that has not returned.
Missed(use) == missing_parameters(files[use.name.of], use.params)
MissedIsKept ==
  errors = {} =>
    \A v \in DOMAIN visits :
      Missed(visits[v]) = {}
      \/ \E i \in DOMAIN stack : i > 1 /\ stack[i].undefined = Missed(visits[v])

CompleteInv == TypeInv /\ Visiting /\ NamedIsRead /\ MissedIsKept

\* Sequences with the same elements are the same.
LEMMA SameSeq ==
  ASSUME NEW s, IsSeq(s), NEW t, IsSeq(t), Len(s) = Len(t),
         \A i \in 1 .. Len(s) : s[i] = t[i]
  PROVE  s = t
<1>1. PICK S : s \in Seq(S)
  BY SeqSome
<1>2. PICK T : t \in Seq(T)
  BY SeqSome
<1>3. s \in Seq(S \cup T) /\ t \in Seq(S \cup T)
  BY <1>1, <1>2, SeqMonotonic
<1> DEFINE U == S \cup T
<1> HIDE DEF U
<1> QED
  BY <1>3, SeqEqual DEF U

\* The first file that is read is cgen.yml.
LEMMA ReadIs ==
  ASSUME IsSeq(visits)
  PROVE  /\ IsSeq(Read) /\ Len(Read) = Len(visits) + 1 /\ DOMAIN Read = 1 .. Len(visits) + 1
         /\ Read[1] = root
         /\ \A i \in 1 .. Len(visits) : Read[i + 1] = Reading(visits[i])
<1> DEFINE n == Len(visits)
           g == [i \in DOMAIN visits |-> Reading(visits[i])]
<1>1. n \in Nat /\ DOMAIN visits = 1 .. n
  BY SeqParts
<1>2. IsSeq(g) /\ Len(g) = n /\ \A i \in 1 .. n : g[i] = Reading(visits[i])
  <2>1. g = [i \in 1 .. n |-> g[i]]
    BY <1>1
  <2>2. \A i \in 1 .. n : g[i] = Reading(visits[i])
    BY <1>1
  <2> HIDE DEF g
  <2> QED
    BY <1>1, <2>1, <2>2, ListedIsSeq
<1>3. Read = <<root>> \o g
  BY DEF Read, Reading
<1> HIDE DEF g
<1>4. PICK S : g \in Seq(S)
  BY <1>2, SeqSome
<1>5. PICK U : U = S \cup {root}
  OBVIOUS
<1>6. g \in Seq(U) /\ <<root>> \in Seq(U) /\ Len(<<root>>) = 1 /\ <<root>>[1] = root
  <2>1. g \in Seq(U)
    BY <1>4, <1>5, SeqMonotonic
  <2>2. root \in U
    BY <1>5
  <2> QED
    BY <2>1, <2>2
<1>7. Read \in Seq(U) /\ Len(Read) = 1 + n
      /\ \A i \in 1 .. 1 + n : Read[i] = IF i <= 1 THEN <<root>>[i] ELSE g[i - 1]
  BY <1>2, <1>3, <1>6, ConcatProperties
<1>8. Read[1] = root
  BY <1>1, <1>6, <1>7
<1>9. \A i \in 1 .. n : Read[i + 1] = g[i]
  <2> SUFFICES ASSUME NEW i \in 1 .. n PROVE Read[i + 1] = g[i]
    OBVIOUS
  <2>1. PICK k \in 1 .. 1 + n : k = i + 1 /\ ~(k <= 1) /\ k - 1 = i
    BY <1>1
  <2>2. Read[k] = g[k - 1]
    BY <1>7, <2>1
  <2> QED
    BY <2>1, <2>2
<1>10. IsSeq(Read) /\ DOMAIN Read = 1 .. Len(Read)
  BY <1>7, SeqSome, SeqParts
<1> QED
  BY <1>1, <1>2, <1>7, <1>8, <1>9, <1>10

\* The file that is read next comes last.
LEMMA ReadMore ==
  ASSUME IsSeq(visits), NEW use, visits' = Append(visits, use), UNCHANGED <<root, files>>
  PROVE  IsSeq(visits') /\ Read' = Append(Read, Reading(use))
<1> DEFINE n == Len(visits)
<1>1. n \in Nat
  BY SeqParts
<1>2. IsSeq(visits') /\ Len(visits') = n + 1 /\ visits'[n + 1] = use
      /\ \A i \in 1 .. n : visits'[i] = visits[i]
  BY AppendIs
<1>3. /\ IsSeq(Read) /\ Len(Read) = n + 1 /\ Read[1] = root
      /\ \A i \in 1 .. n : Read[i + 1] = Reading(visits[i])
  BY ReadIs
<1>4. /\ IsSeq(Read') /\ Len(Read') = n + 2 /\ Read'[1] = root
      /\ \A i \in 1 .. n + 1 : Read'[i + 1] = Reading(visits'[i])
  <2>1. (IsSeq(visits))' => (/\ IsSeq(Read) /\ Len(Read) = Len(visits) + 1 /\ Read[1] = root
                             /\ \A i \in 1 .. Len(visits) : Read[i + 1] = Reading(visits[i]))'
    BY ReadIs, PTL
  <2>2. \A i \in 1 .. n + 1 : Reading(visits[i])' = Reading(visits'[i])
    BY DEF Reading
  <2> QED
    BY <1>1, <1>2, <2>1, <2>2
<1> DEFINE t == Append(Read, Reading(use))
<1>5. IsSeq(t) /\ Len(t) = n + 2 /\ t[n + 2] = Reading(use)
      /\ \A i \in 1 .. n + 1 : t[i] = Read[i]
  <2>1. IsSeq(t) /\ Len(t) = Len(Read) + 1 /\ (\A i \in 1 .. Len(Read) : t[i] = Read[i])
        /\ t[Len(Read) + 1] = Reading(use)
    BY <1>3, AppendIs
  <2>2. (n + 1) + 1 = n + 2
    BY <1>1
  <2> HIDE DEF t
  <2> QED
    BY <1>3, <2>1, <2>2
<1> HIDE DEF t
<1>6. ASSUME NEW i \in 1 .. n + 2 PROVE Read'[i] = t[i]
  <2>1. CASE i = 1
    BY <1>1, <1>3, <1>4, <1>5, <2>1
  <2>2. CASE i = n + 2
    <3>1. PICK k \in 1 .. n + 1 : k = n + 1 /\ k + 1 = i
      BY <1>1, <2>2
    <3>2. Read'[k + 1] = Reading(visits'[k])
      BY <1>4, <3>1
    <3> QED
      BY <1>2, <1>5, <2>2, <3>1, <3>2
  <2>3. CASE i # 1 /\ i # n + 2
    <3>1. PICK k \in 1 .. n : k + 1 = i /\ k \in 1 .. n + 1 /\ i \in 1 .. n + 1
      <4>1. i - 1 \in 1 .. n /\ (i - 1) + 1 = i
        BY <1>1, <2>3
      <4> QED
        BY <1>1, <4>1
    <3>2. Read'[k + 1] = Reading(visits'[k]) /\ Read[k + 1] = Reading(visits[k])
      BY <1>3, <1>4, <3>1
    <3> QED
      BY <1>2, <1>5, <3>1, <3>2
  <2> QED
    BY <2>1, <2>2, <2>3
<1> QED
  BY <1>2, <1>4, <1>5, <1>6, SameSeq DEF t

\* At first no file is read but cgen.yml.
LEMMA CompleteInit == Init => CompleteInv
<1> SUFFICES ASSUME Init PROVE CompleteInv
  OBVIOUS
<1>1. TypeInv
  BY TypeInit
<1>2. IsSeq(visits) /\ DOMAIN visits = {}
  BY NoneIs DEF Init
<1>3. Visiting
  BY <1>2 DEF Init, Visiting
<1> QED
  BY <1>1, <1>2, <1>3 DEF Init, CompleteInv, NamedIsRead, MissedIsKept

\* A step after which the same files are read, and what waits does so or is
\* read, leaves what is known of the files that are named.
LEMMA StillNamed ==
  ASSUME NamedIsRead, UNCHANGED <<root, files, visits>>,
         errors' = {} /\ pc' \notin {"version", "validate"} =>
           errors = {} /\ pc \notin {"version", "validate"},
         \A use : ReadOrWaits(use) => ReadOrWaits(use)'
  PROVE  NamedIsRead'
<1>1. Read' = Read
  BY DEF Read
<1> SUFFICES ASSUME errors' = {}, pc' \notin {"version", "validate"},
                    NEW r \in DOMAIN Read, NEW k \in DOMAIN Uses(Read[r], "includes"),
                    NEW use, use = Uses(Read[r], "includes")[k]
             PROVE  ReadOrWaits(use)'
  <2>1. ASSUME errors' = {}, pc' \notin {"version", "validate"},
               NEW r \in DOMAIN Read', NEW k \in DOMAIN Uses(Read'[r], "includes")
        PROVE  ReadOrWaits(Uses(Read[r], "includes")[k])'
    <3>1. PICK use : use = Uses(Read[r], "includes")[k]
      OBVIOUS
    <3>2. ReadOrWaits(use)'
      BY <1>1, <2>1, <3>1
    <3>3. Uses(Read'[r], "includes")[k] = use
      BY <1>1, <3>1
    <3> QED
      BY <3>2, <3>3 DEF ReadOrWaits
  <2> QED
    BY <2>1 DEF NamedIsRead
<1>2. ReadOrWaits(Uses(Read[r], "includes")[k])
  BY DEF NamedIsRead
<1>3. ReadOrWaits(use)
  BY <1>2
<1> QED
  BY <1>3

\* A step that leaves files and calls alone leaves what is known of them.
LEMMA StillComplete ==
  ASSUME Visiting, NamedIsRead, MissedIsKept,
         UNCHANGED <<root, files, included, visits, stack>>,
         errors' = {} => errors = {},
         errors' = {} /\ pc' \notin {"version", "validate"} => pc \notin {"version", "validate"},
         pc' \in {"version", "validate"} => pc \in {"version", "validate"}
  PROVE  Visiting' /\ NamedIsRead' /\ MissedIsKept'
<1>1. Visiting'
  BY DEF Visiting
<1>2. NamedIsRead'
  <2>1. \A use : ReadOrWaits(use) => ReadOrWaits(use)'
    BY DEF ReadOrWaits
  <2> QED
    BY <2>1, StillNamed
<1>3. MissedIsKept'
  BY DEF MissedIsKept, Missed
<1> QED
  BY <1>1, <1>2, <1>3

\* What waits is the next include, or waits when that is no longer left.
LEMMA WaitsOrNext ==
  ASSUME Calls, pc = "includes", top.todo # <<>>,
         NEW i \in DOMAIN stack, NEW t \in DOMAIN stack[i].todo
  PROVE  \/ stack[i].todo[t] = Head(top.todo)
         \/ \E u \in DOMAIN Pop[i].todo : Pop[i].todo[u] = stack[i].todo[t]
<1>1. /\ Len(stack) \in DOMAIN stack /\ top = stack[Len(stack)]
      /\ Pop[i].todo = IF i = Len(stack) THEN Tail(top.todo) ELSE stack[i].todo
  BY PopIs
<1>2. CASE i # Len(stack)
  BY <1>1, <1>2
<1>3. CASE i = Len(stack)
  <2> DEFINE s == top.todo
  <2>1. IsSeq(s) /\ s = stack[i].todo /\ Pop[i].todo = Tail(s)
    BY <1>1, <1>3 DEF Calls, IsFrame
  <2> HIDE DEF s
  <2>2. s # <<>>
    BY DEF s
  <2>3. Len(s) \in Nat /\ DOMAIN s = 1 .. Len(s) /\ t \in 1 .. Len(s)
    BY <2>1, SeqParts
  <2>4. IsSeq(Tail(s)) /\ Len(Tail(s)) = Len(s) - 1 /\ Head(s) = s[1]
        /\ \A k \in 1 .. Len(s) - 1 : Tail(s)[k] = s[k + 1]
    BY <2>1, <2>2, TailIs
  <2>5. CASE t = 1
    BY <2>1, <2>4, <2>5 DEF s
  <2>6. CASE t # 1
    <3>1. PICK k \in 1 .. Len(s) - 1 : k + 1 = t
      <4>1. t - 1 \in 1 .. Len(s) - 1 /\ (t - 1) + 1 = t
        BY <2>3, <2>6
      <4> QED
        BY <4>1
    <3>2. DOMAIN Tail(s) = 1 .. Len(s) - 1
      BY <2>4, SeqParts
    <3> QED
      BY <2>1, <2>4, <3>1, <3>2
  <2> QED
    BY <2>5, <2>6
<1> QED
  BY <1>2, <1>3

\* A file that is read waits for its own includes, and what it misses is kept.
LEMMA CompleteRead ==
  ASSUME TreesAsWritten, TypeInv, Visiting, NamedIsRead, MissedIsKept, IncludeFile
  PROVE  Visiting' /\ NamedIsRead' /\ MissedIsKept'
<1> DEFINE frame == Entered(Head(top.todo))
           n     == Len(visits)
<1>1. PICK use : use = Head(top.todo)
  OBVIOUS
<1>2. /\ pc = "includes" /\ top.todo # <<>> /\ use.name.of \in DOMAIN files \ included
      /\ included' = included \cup {use.name.of} /\ stack' = Append(Pop, frame)
      /\ visits' = Append(visits, use)
      /\ UNCHANGED <<root, files, pc, errors>>
  BY <1>1 DEF IncludeFile, input
<1>3. Calls /\ Paths /\ IsSeq(stack) /\ Len(stack) \in Nat /\ Len(stack) > 0
      /\ DOMAIN stack = 1 .. Len(stack)
  BY <1>2, SeqParts DEF TypeInv, Calls
<1>4. /\ IsFrame(frame) /\ frame.path = use.name.of
      /\ frame.todo = Uses(Reading(use), "includes") /\ frame.undefined = Missed(use)
  <2>1. IsConfig(files[use.name.of])
    BY <1>2, <1>3, FilesAssumption DEF Paths
  <2>2. IsConfig(Reading(use))
    BY <2>1, ReplacedIs DEF Reading
  <2>3. frame = Frame(use.name.of, Reading(use), Missed(use))
    BY <1>1 DEF Entered, Reading, Missed
  <2> HIDE DEF frame
  <2> QED
    BY <2>2, <2>3, FrameIs
<1> HIDE DEF frame
<1>5. /\ \A i \in DOMAIN stack : i \in DOMAIN stack' /\ stack'[i] = Pop[i]
      /\ Len(stack) + 1 \in DOMAIN stack' /\ stack'[Len(stack) + 1] = frame
  BY <1>2, <1>3, <1>4, CallsPushed
<1>6. IsSeq(visits) /\ n \in Nat /\ DOMAIN visits = 1 .. n
  BY SeqParts DEF Visiting
<1>7. /\ IsSeq(visits') /\ Len(visits') = n + 1 /\ DOMAIN visits' = 1 .. n + 1
      /\ \A i \in 1 .. n : visits'[i] = visits[i]
      /\ visits'[n + 1] = use
  <2>1. /\ IsSeq(visits') /\ Len(visits') = n + 1 /\ visits'[n + 1] = use
        /\ \A i \in 1 .. n : visits'[i] = visits[i]
    BY <1>2, <1>6, AppendIs
  <2>2. DOMAIN visits' = 1 .. Len(visits')
    BY <2>1, SeqParts
  <2> QED
    BY <2>1, <2>2
<1>8. Read' = Append(Read, Reading(use))
  BY <1>2, <1>6, ReadMore
<1>9. Visiting'
  <2>1. \A i \in DOMAIN visits' :
          (i \in DOMAIN visits /\ visits'[i] = visits[i]) \/ (i = n + 1 /\ visits'[i] = use)
    BY <1>6, <1>7
  <2>2. \A i \in DOMAIN visits : i \in DOMAIN visits' /\ visits'[i] = visits[i]
    BY <1>6, <1>7
  <2>3. n + 1 \in DOMAIN visits' /\ visits'[n + 1] = use
    BY <1>6, <1>7
  <2>4. included' = {visits'[i].name.of : i \in DOMAIN visits'}
    <3>1. included = {visits[i].name.of : i \in DOMAIN visits}
      BY DEF Visiting
    <3> QED
      BY <1>2, <2>1, <2>2, <2>3, <3>1
  <2>5. \A i \in DOMAIN visits : visits[i].name.of # use.name.of
    BY <1>2 DEF Visiting
  <2>6. \A i, j \in DOMAIN visits' : visits'[i].name.of = visits'[j].name.of => i = j
    BY <2>1, <2>5 DEF Visiting
  <2> QED
    BY <1>2, <1>7, <2>4, <2>6 DEF Visiting
<1>10. ASSUME NEW u, ReadOrWaits(u) PROVE ReadOrWaits(u)'
  <2>1. CASE u.name.of \in included
    BY <1>2, <2>1 DEF ReadOrWaits
  <2>2. ASSUME NEW i \in DOMAIN stack, NEW t \in DOMAIN stack[i].todo, stack[i].todo[t] = u
        PROVE  ReadOrWaits(u)'
    <3>1. \/ u = use
          \/ \E k \in DOMAIN Pop[i].todo : Pop[i].todo[k] = u
      BY <1>1, <1>2, <1>3, <2>2, WaitsOrNext
    <3> QED
      BY <1>2, <1>5, <3>1 DEF ReadOrWaits
  <2> QED
    BY <1>10, <2>1, <2>2 DEF ReadOrWaits
<1>11. NamedIsRead'
  <2>1. IsSeq(Read) /\ DOMAIN Read = 1 .. n + 1 /\ Len(Read) = n + 1
    BY <1>6, ReadIs
  <2>2. /\ DOMAIN Read' = 1 .. n + 2 /\ Read'[n + 2] = Reading(use)
        /\ \A r \in 1 .. n + 1 : Read'[r] = Read[r]
    <3>1. /\ IsSeq(Append(Read, Reading(use))) /\ Len(Append(Read, Reading(use))) = n + 1 + 1
          /\ Append(Read, Reading(use))[n + 1 + 1] = Reading(use)
          /\ \A r \in 1 .. n + 1 : Append(Read, Reading(use))[r] = Read[r]
      BY <2>1, AppendIs
    <3>2. n + 1 + 1 = n + 2
      BY <1>6
    <3> QED
      BY <1>8, <3>1, <3>2, SeqParts
  <2>3. ASSUME errors' = {}, NEW r \in DOMAIN Read', NEW k \in DOMAIN Uses(Read'[r], "includes"),
               NEW u, u = Uses(Read'[r], "includes")[k]
        PROVE  ReadOrWaits(u)'
    <3>1. CASE r \in 1 .. n + 1
      <4>1. Read'[r] = Read[r] /\ errors = {}
        BY <1>2, <2>2, <2>3, <3>1
      <4>2. ReadOrWaits(Uses(Read[r], "includes")[k])
        BY <1>2, <2>1, <2>3, <3>1, <4>1 DEF NamedIsRead
      <4>3. ReadOrWaits(u)
        BY <2>3, <4>1, <4>2
      <4> QED
        BY <1>10, <4>3
    <3>2. CASE r = n + 2
      <4>1. k \in DOMAIN frame.todo /\ u = frame.todo[k]
        BY <1>4, <2>2, <2>3, <3>2
      <4> QED
        BY <1>5, <4>1 DEF ReadOrWaits
    <3> QED
      BY <1>6, <2>2, <3>1, <3>2
  <2>4. ASSUME errors' = {}, NEW r \in DOMAIN Read', NEW k \in DOMAIN Uses(Read'[r], "includes")
        PROVE  ReadOrWaits(Uses(Read[r], "includes")[k])'
    <3>1. PICK u : u = Uses(Read'[r], "includes")[k]
      OBVIOUS
    <3>2. ReadOrWaits(u)'
      BY <2>3, <2>4, <3>1
    <3> QED
      BY <3>1, <3>2 DEF ReadOrWaits
  <2> QED
    BY <2>4 DEF NamedIsRead
<1>12. MissedIsKept'
  <2> SUFFICES ASSUME errors' = {}, NEW v \in DOMAIN visits'
               PROVE  \/ Missed(visits'[v]) = {}
                      \/ \E i \in DOMAIN stack' : i > 1 /\ stack'[i].undefined = Missed(visits'[v])
    BY <1>2 DEF MissedIsKept, Missed
  <2>1. CASE v = n + 1
    <3>1. stack'[Len(stack) + 1].undefined = Missed(visits'[v]) /\ Len(stack) + 1 > 1
      BY <1>3, <1>4, <1>5, <1>7, <2>1
    <3> QED
      BY <1>5, <3>1
  <2>2. CASE v \in 1 .. n
    <3>1. visits'[v] = visits[v] /\ errors = {}
      BY <1>2, <1>7, <2>2
    <3>2. ASSUME NEW i \in DOMAIN stack, i > 1, stack[i].undefined = Missed(visits[v])
          PROVE  i \in DOMAIN stack' /\ stack'[i].undefined = Missed(visits'[v])
      <4>1. Pop[i].undefined = stack[i].undefined
        BY <1>2, <1>3, <3>2, PopIs
      <4> QED
        BY <1>5, <3>1, <3>2, <4>1
    <3> QED
      BY <1>6, <2>2, <3>1, <3>2 DEF MissedIsKept
  <2> QED
    BY <1>6, <1>7, <2>1, <2>2
<1> QED
  BY <1>9, <1>11, <1>12

\* A step keeps what is known of the files.
LEMMA CompleteStep ==
  ASSUME TreesAsWritten PROVE CompleteInv /\ [Next]_vars => CompleteInv'
<1> SUFFICES ASSUME TypeInv, Visiting, NamedIsRead, MissedIsKept, [Next]_vars
             PROVE  Visiting' /\ NamedIsRead' /\ MissedIsKept'
  BY TypeStep DEF CompleteInv
<1>0. /\ IsSeq(stack) /\ Len(stack) \in Nat /\ DOMAIN stack = 1 .. Len(stack)
      /\ (stack # <<>> <=> Len(stack) > 0) /\ Calls /\ Paths
  BY SeqParts DEF TypeInv, Calls
<1>1. CASE CheckVersion
  <2>1. /\ UNCHANGED <<root, files, included, visits, stack>>
        /\ \/ pc' = "validate" /\ errors' = errors
           \/ pc' = "rejected" /\ errors' # {}
        /\ pc = "version"
    BY <1>1 DEF CheckVersion, input
  <2> QED
    BY <2>1, StillComplete
<1>2. CASE Invalid
  <2>1. UNCHANGED <<root, files, included, visits, stack>> /\ pc' = "rejected" /\ errors' # {}
    BY <1>2 DEF Invalid, input
  <2> QED
    BY <2>1, StillComplete
<1>3. CASE Valid
  <2>1. pc = "validate" /\ pc' = "includes" /\ stack' = <<Frame("", root, {})>>
        /\ UNCHANGED <<root, files, included, errors, visits>>
    BY <1>3 DEF Valid, input
  <2>2. visits = <<>> /\ DOMAIN visits = {} /\ IsSeq(visits) /\ Len(visits) = 0
    BY <2>1, NoneIs DEF Visiting
  <2>3. Read' = Read /\ DOMAIN Read = 1 .. 1 /\ Read[1] = root
    <3>1. Read' = Read
      BY <2>1 DEF Read
    <3>2. DOMAIN Read = 1 .. Len(visits) + 1 /\ Read[1] = root
      BY <2>2, ReadIs
    <3>3. 1 .. Len(visits) + 1 = 1 .. 1
      BY <2>2
    <3> QED
      BY <3>1, <3>2, <3>3
  <2>4. DOMAIN stack' = {1} /\ stack'[1].todo = Uses(root, "includes")
    BY <2>1, OneIs DEF Frame
  <2>5. Visiting' /\ MissedIsKept'
    BY <2>1, <2>2 DEF Visiting, MissedIsKept
  <2>6. ASSUME NEW k \in DOMAIN Uses(root, "includes"), NEW use, use = Uses(root, "includes")[k]
        PROVE  ReadOrWaits(use)'
    BY <2>4, <2>6 DEF ReadOrWaits
  <2>7. NamedIsRead'
    <3>1. \A r \in DOMAIN Read' : r = 1
      BY <2>3
    <3>2. ASSUME NEW r \in DOMAIN Read', NEW k \in DOMAIN Uses(Read'[r], "includes")
          PROVE  ReadOrWaits(Uses(Read[r], "includes")[k])'
      <4>1. PICK use : use = Uses(root, "includes")[k]
        OBVIOUS
      <4>2. Read'[r] = root
        BY <2>3, <3>1
      <4>3. ReadOrWaits(use)'
        BY <2>6, <4>1, <4>2
      <4> QED
        BY <4>1, <4>2, <4>3 DEF ReadOrWaits
    <3> QED
      BY <3>2 DEF NamedIsRead
  <2> QED
    BY <2>5, <2>7
<1>4. CASE IncludeNotFound
  <2>1. UNCHANGED <<root, files, included, visits, pc>> /\ errors' # {} /\ pc = "includes"
    BY <1>4 DEF IncludeNotFound, input
  <2> QED
    BY <2>1 DEF Visiting, NamedIsRead, MissedIsKept
<1>5. CASE IncludeAgain
  <2>1. /\ pc = "includes" /\ top.todo # <<>> /\ stack' = Pop
        /\ Head(top.todo).name.of \in included
        /\ UNCHANGED <<root, files, pc, included, errors, visits>>
    BY <1>5 DEF IncludeAgain, input
  <2>2. /\ DOMAIN Pop = DOMAIN stack
        /\ \A i \in DOMAIN stack : Pop[i].undefined = stack[i].undefined
    BY <1>0, <2>1, PopIs
  <2>3. ASSUME NEW use, ReadOrWaits(use) PROVE ReadOrWaits(use)'
    <3>1. CASE use.name.of \in included
      BY <2>1, <3>1 DEF ReadOrWaits
    <3>2. ASSUME NEW i \in DOMAIN stack, NEW t \in DOMAIN stack[i].todo, stack[i].todo[t] = use
          PROVE  ReadOrWaits(use)'
      <4>1. \/ use = Head(top.todo)
            \/ \E u \in DOMAIN Pop[i].todo : Pop[i].todo[u] = use
        BY <1>0, <2>1, <3>2, WaitsOrNext
      <4> QED
        BY <2>1, <2>2, <4>1 DEF ReadOrWaits
    <3> QED
      BY <2>3, <3>1, <3>2 DEF ReadOrWaits
  <2>4. NamedIsRead'
    BY <2>1, <2>3, StillNamed
  <2>5. Visiting' /\ MissedIsKept'
    BY <2>1, <2>2 DEF Visiting, MissedIsKept, Missed
  <2> QED
    BY <2>4, <2>5
<1>7. CASE IncludeReturn
  <2>1. /\ pc = "includes" /\ Len(stack) > 1 /\ stack' = Back /\ top.todo = <<>>
        /\ errors' = errors \cup Missing("ConfigUndefinedIncludeParameter", top.path, top.undefined)
        /\ UNCHANGED <<root, files, pc, included, visits>>
    BY <1>7 DEF IncludeReturn, Back, input
  <2>2. /\ DOMAIN stack' = 1 .. below /\ below \in Nat /\ below >= 1
        /\ DOMAIN stack = 1 .. below + 1 /\ top = stack[below + 1]
        /\ \A i \in 1 .. below : stack'[i].todo = stack[i].todo
                                 /\ stack'[i].undefined = stack[i].undefined
    BY <1>0, <2>1, Returned
  <2>3. errors' = {} => errors = {} /\ top.undefined = {}
    BY <2>1 DEF Missing
  <2>4. ASSUME NEW use, ReadOrWaits(use) PROVE ReadOrWaits(use)'
    <3>1. CASE use.name.of \in included
      BY <2>1, <3>1 DEF ReadOrWaits
    <3>2. ASSUME NEW i \in DOMAIN stack, NEW t \in DOMAIN stack[i].todo, stack[i].todo[t] = use
          PROVE  ReadOrWaits(use)'
      <4>1. i \in 1 .. below
        <5>1. i # below + 1
          BY <2>1, <2>2, <3>2, NoneIs
        <5> QED
          BY <2>2, <5>1
      <4> QED
        BY <2>2, <3>2, <4>1 DEF ReadOrWaits
    <3> QED
      BY <2>4, <3>1, <3>2 DEF ReadOrWaits
  <2>5. NamedIsRead'
    BY <2>1, <2>3, <2>4, StillNamed
  <2>6. MissedIsKept'
    <3> SUFFICES ASSUME errors' = {}, NEW v \in DOMAIN visits
                 PROVE  \/ Missed(visits[v]) = {}
                        \/ \E i \in DOMAIN stack' : i > 1 /\ stack'[i].undefined = Missed(visits[v])
      BY <2>1 DEF MissedIsKept, Missed
    <3>1. ASSUME NEW i \in DOMAIN stack, i > 1, stack[i].undefined = Missed(visits[v])
          PROVE  \/ Missed(visits[v]) = {}
                 \/ \E j \in DOMAIN stack' : j > 1 /\ stack'[j].undefined = Missed(visits[v])
      <4>1. CASE i = below + 1
        BY <2>2, <2>3, <3>1, <4>1
      <4>2. CASE i \in 1 .. below
        BY <2>2, <3>1, <4>2
      <4> QED
        BY <2>2, <4>1, <4>2
    <3> QED
      BY <2>3, <3>1 DEF MissedIsKept
  <2>7. Visiting'
    BY <2>1 DEF Visiting
  <2> QED
    BY <2>5, <2>6, <2>7
<1>8. CASE IncludesDone
  <2>1. /\ pc = "includes" /\ Len(stack) = 1 /\ stack' = <<>> /\ top.todo = <<>>
        /\ pc' = "validate_included"
        /\ UNCHANGED <<root, files, included, errors, visits>>
    BY <1>8 DEF IncludesDone, input
  <2>2. DOMAIN stack = 1 .. 1 /\ top = stack[1] /\ DOMAIN stack[1].todo = {}
    <3>1. top = stack[1]
      BY <1>0, <2>1, FrontIs DEF top
    <3> QED
      BY <1>0, <2>1, <3>1, NoneIs
  <2>3. \A use : ReadOrWaits(use) => ReadOrWaits(use)'
    BY <2>1, <2>2 DEF ReadOrWaits
  <2>4. NamedIsRead'
    BY <2>1, <2>3, StillNamed
  <2>5. Visiting'
    BY <2>1 DEF Visiting
  <2>6. MissedIsKept'
    <3>1. ASSUME NEW i \in DOMAIN stack PROVE ~ (i > 1)
      BY <2>2
    <3> QED
      BY <2>1, <3>1 DEF MissedIsKept, Missed
  <2> QED
    BY <2>4, <2>5, <2>6
<1>9. CASE ValidIncluded
  <2>1. UNCHANGED <<root, files, stack, included, errors, visits>> /\ pc' = "templates"
        /\ pc = "validate_included"
    BY <1>9 DEF ValidIncluded, input
  <2> QED
    BY <2>1, StillComplete
<1>10. CASE TemplateNotFound
  <2>1. UNCHANGED <<root, files, pc, stack, included, visits>> /\ errors' # {}
    BY <1>10 DEF TemplateNotFound, input
  <2> QED
    BY <2>1, StillComplete
<1>11. CASE MergeTemplate
  <2>1. UNCHANGED <<root, files, pc, stack, included, visits>> /\ errors \subseteq errors'
    BY <1>11 DEF MergeTemplate, input
  <2> QED
    BY <2>1, StillComplete
<1>12. CASE TargetDone
  <2>1. UNCHANGED <<root, files, pc, stack, included, errors, visits>>
    BY <1>12 DEF TargetDone, input
  <2> QED
    BY <2>1, StillComplete
<1>13. CASE TemplatesDone
  <2>1. UNCHANGED <<root, files, stack, included, errors, visits>> /\ pc = "templates"
        /\ pc' = "validate_result"
    BY <1>13 DEF TemplatesDone, input
  <2> QED
    BY <2>1, StillComplete
<1>14. CASE ValidResult
  <2>1. UNCHANGED <<root, files, stack, included, errors, visits>> /\ pc = "validate_result"
        /\ pc' \in {"accepted", "rejected"}
    BY <1>14 DEF ValidResult, input
  <2> QED
    BY <2>1, StillComplete
<1>15. CASE UNCHANGED vars
  <2>1. UNCHANGED <<root, files, stack, included, errors, visits, pc>>
    BY <1>15 DEF vars, input
  <2> QED
    BY <2>1, StillComplete
<1>6. CASE IncludeFile
  BY <1>6, CompleteRead
<1> QED
  BY <1>1, <1>2, <1>3, <1>4, <1>5, <1>6, <1>7, <1>8, <1>9, <1>10, <1>11, <1>12, <1>13,
     <1>14, <1>15 DEF Next

\* A configuration is accepted only if it is complete, whatever includes what:
\* with no call left and no error nothing waits and nothing is missed.
THEOREM AcceptedComplete ==
  ASSUME TreesAsWritten PROVE Spec => []AcceptedIsComplete
<1>1. Init => CompleteInv
  BY CompleteInit
<1>2. CompleteInv /\ [Next]_vars => CompleteInv'
  BY CompleteStep
<1>3. CompleteInv => AcceptedIsComplete
  <2> SUFFICES ASSUME CompleteInv, Accepted PROVE AcceptedIsComplete
    BY DEF AcceptedIsComplete
  <2>1. errors = {} /\ stack = <<>> /\ DOMAIN stack = {} /\ pc = "accepted" /\ Visiting
    <3>1. TypeInv /\ Calls
      BY DEF CompleteInv, TypeInv
    <3> QED
      BY <3>1, NoneIs DEF Accepted, CompleteInv, TypeInv, Calls
  <2>2. ASSUME NEW r \in DOMAIN Read, NEW use \in ToSet(Uses(Read[r], "includes"))
        PROVE  \E j \in DOMAIN visits : visits[j].name.of = use.name.of
    <3>1. PICK k \in DOMAIN Uses(Read[r], "includes") : use = Uses(Read[r], "includes")[k]
      BY DEF ToSet
    <3>2. ReadOrWaits(Uses(Read[r], "includes")[k])
      BY <2>1 DEF CompleteInv, NamedIsRead
    <3>3. use.name.of \in included
      BY <2>1, <3>1, <3>2 DEF ReadOrWaits
    <3> QED
      BY <2>1, <3>3 DEF Visiting
  <2>3. \A v \in DOMAIN visits : missing_parameters(files[visits[v].name.of], visits[v].params) = {}
    BY <2>1 DEF CompleteInv, MissedIsKept, Missed
  <2>4. IsInjective([i \in DOMAIN visits |-> visits[i].name.of])
    BY <2>1 DEF Visiting, IsInjective
  <2> QED
    BY <2>2, <2>3, <2>4 DEF AcceptedIsComplete
<1> QED
  BY <1>1, <1>2, <1>3, PTL DEF Spec

-----------------------------------------------------------------------------
\* Lists of packages, one after the other.

\* A list of lists.
AreLists(g) == IsSeq(g) /\ \A i \in DOMAIN g : IsSeq(g[i])

\* The lists have their items from some set, and can be concatenated.
LEMMA ListsOver ==
  ASSUME NEW g, AreLists(g)
  PROVE  /\ Len(g) \in Nat /\ DOMAIN g = 1 .. Len(g)
         /\ \E S : g \in [1 .. Len(g) -> Seq(S)]
<1>1. Len(g) \in Nat /\ DOMAIN g = 1 .. Len(g)
  BY SeqParts DEF AreLists
<1> DEFINE S == UNION {ToSet(g[i]) : i \in DOMAIN g}
<1>2. \A i \in 1 .. Len(g) : g[i] \in Seq(S)
  <2> SUFFICES ASSUME NEW i \in 1 .. Len(g) PROVE g[i] \in Seq(S)
    OBVIOUS
  <2>1. ToSet(g[i]) \subseteq S
    BY <1>1
  <2>2. g[i] \in Seq(ToSet(g[i]))
    BY <1>1 DEF AreLists, IsSeq
  <2> HIDE DEF S
  <2> QED
    BY <2>1, <2>2, SeqMonotonic
<1>3. PICK G : g \in Seq(G)
  BY SeqSome DEF AreLists
<1>4. g = [i \in 1 .. Len(g) |-> g[i]]
  BY <1>1, <1>3
<1> HIDE DEF S
<1>5. g \in [1 .. Len(g) -> Seq(S)]
  BY <1>2, <1>4
<1> QED
  BY <1>1, <1>5

\* None, and one more.
LEMMA Flattened ==
  /\ FlattenSeq(<<>>) = <<>>
  /\ \A g, x : AreLists(g) /\ IsSeq(x) =>
       /\ IsSeq(FlattenSeq(g)) /\ AreLists(Append(g, x))
       /\ FlattenSeq(Append(g, x)) = FlattenSeq(g) \o x
<1>1. FlattenSeq(<<>>) = <<>>
  BY DEF FlattenSeq
<1>2. ASSUME NEW g, NEW x, AreLists(g), IsSeq(x)
      PROVE  /\ IsSeq(FlattenSeq(g)) /\ AreLists(Append(g, x))
             /\ FlattenSeq(Append(g, x)) = FlattenSeq(g) \o x
  <2> DEFINE h == Append(g, x)
  <2>1. PICK n \in Nat : n = Len(g) /\ DOMAIN g = 1 .. n
    BY <1>2, ListsOver
  <2>2. IsSeq(h) /\ Len(h) = n + 1 /\ (\A i \in 1 .. n : h[i] = g[i]) /\ h[n + 1] = x
    BY <1>2, <2>1, AppendIs DEF AreLists
  <2> HIDE DEF h
  <2>3. AreLists(h) /\ DOMAIN h = 1 .. n + 1
    <3>1. DOMAIN h = 1 .. n + 1
      BY <2>2, SeqParts
    <3>2. ASSUME NEW i \in DOMAIN h PROVE IsSeq(h[i])
      BY <1>2, <2>1, <2>2, <3>1 DEF AreLists
    <3> QED
      BY <2>2, <3>1, <3>2 DEF AreLists
  <2>4. PICK S : h \in [1 .. n + 1 -> Seq(S)]
    BY <2>2, <2>3, ListsOver
  <2>5. g \in [1 .. n -> Seq(S)] /\ Len(g) = n
    <3>1. g = [i \in 1 .. n |-> g[i]]
      <4>1. PICK G : g \in Seq(G)
        BY <1>2, SeqSome DEF AreLists
      <4> QED
        BY <2>1, <4>1
    <3>2. ASSUME NEW i \in 1 .. n PROVE g[i] \in Seq(S)
      <4>1. i \in 1 .. n + 1
        OBVIOUS
      <4> QED
        BY <2>2, <2>4, <4>1
    <3> QED
      BY <2>1, <3>1, <3>2
  <2>6. PICK f : Concats(n, S, g, f)
    BY <2>5, PrefixesExist
  <2>7. PICK e : Concats(n + 1, S, h, e)
    BY <2>4, PrefixesExist
  <2>8. FlattenSeq(g) = f[n] /\ FlattenSeq(h) = e[n + 1]
    <3>1. FlattenSeq(g) = f[n]
      BY <2>5, <2>6, FlattenIs
    <3>2. PICK m \in Nat : m = n + 1
      OBVIOUS
    <3>3. h \in [1 .. m -> Seq(S)] /\ Len(h) = m /\ Concats(m, S, h, e)
      BY <2>2, <2>4, <2>7, <3>2
    <3>4. FlattenSeq(h) = e[m]
      BY <3>3, FlattenIs
    <3> QED
      BY <3>1, <3>2, <3>4
  <2>9. \A i \in 0 .. n : e[i + 1] = e[i] \o h[i + 1]
    <3>1. 0 .. n = 0 .. (n + 1) - 1
      OBVIOUS
    <3> QED
      BY <2>7, <3>1 DEF Concats
  <2>10. ASSUME NEW i \in 0 .. n PROVE f[i] = e[i]
    <3> DEFINE T == {j \in 0 .. n : f[j] = e[j]}
    <3>1. 0 \in T
      BY <2>6, <2>7 DEF Concats
    <3>2. ASSUME NEW j \in 0 .. n - 1, j \in T PROVE j + 1 \in T
      <4>1. j \in 0 .. n /\ j + 1 \in 1 .. n /\ j + 1 \in 0 .. n
        OBVIOUS
      <4>2. f[j + 1] = f[j] \o g[j + 1]
        BY <2>6 DEF Concats
      <4>3. e[j + 1] = e[j] \o h[j + 1]
        BY <2>9, <4>1
      <4> QED
        BY <2>2, <3>2, <4>1, <4>2, <4>3
    <3> HIDE DEF T
    <3>3. \A j \in 0 .. n : j \in T
      BY <3>1, <3>2, UpTo
    <3> QED
      BY <3>3 DEF T
  <2>11. e[n + 1] = e[n] \o h[n + 1]
    <3>1. n \in 0 .. n
      OBVIOUS
    <3> QED
      BY <2>9, <3>1
  <2>12. FlattenSeq(h) = FlattenSeq(g) \o x
    <3>1. n \in 0 .. n
      OBVIOUS
    <3> QED
      BY <2>2, <2>8, <2>10, <2>11, <3>1
  <2>13. IsSeq(FlattenSeq(g))
    <3>1. f[n] \in Seq(S)
      BY <2>6 DEF Concats
    <3> QED
      BY <2>8, <3>1, SeqSome
  <2> QED
    BY <2>3, <2>12, <2>13 DEF h
<1> QED
  BY <1>1, <1>2

\* One list is what it is, and the last two may be one.
LEMMA FlattenedOne == ASSUME NEW x, IsSeq(x) PROVE FlattenSeq(<<x>>) = x
<1>1. AreLists(<<>>)
  BY NoneIs DEF AreLists
<1>2. Append(<<>>, x) = <<x>>
  OBVIOUS
<1>3. FlattenSeq(<<x>>) = <<>> \o x
  BY <1>1, <1>2, Flattened
<1>4. PICK S : x \in Seq(S)
  BY SeqSome
<1> QED
  BY <1>3, <1>4, ConcatEmptySeq

\* The last two lists may as well be one.
LEMMA FlattenedTwo ==
  ASSUME NEW g, AreLists(g), NEW x, IsSeq(x), NEW y, IsSeq(y)
  PROVE  FlattenSeq(Append(g, x \o y)) = FlattenSeq(Append(Append(g, x), y))
<1>1. FlattenSeq(Append(g, x \o y)) = FlattenSeq(g) \o (x \o y)
  BY ConcatIs, Flattened
<1>2. FlattenSeq(Append(Append(g, x), y)) = (FlattenSeq(g) \o x) \o y
  BY Flattened
<1>3. IsSeq(FlattenSeq(g))
  BY Flattened
<1>4. PICK F, X, Y : FlattenSeq(g) \in Seq(F) /\ x \in Seq(X) /\ y \in Seq(Y)
  BY <1>3, SeqSome
<1>5. PICK U : U = F \cup X \cup Y
  OBVIOUS
<1>6. FlattenSeq(g) \in Seq(U) /\ x \in Seq(U) /\ y \in Seq(U)
  BY <1>4, <1>5, SeqMonotonic
<1>7. (FlattenSeq(g) \o x) \o y = FlattenSeq(g) \o (x \o y)
  BY <1>6, ConcatAssociative
<1> QED
  BY <1>1, <1>2, <1>7

-----------------------------------------------------------------------------
\* What is plain stays as it is.

\* A scalar is cloned, merged and trimmed as it is, and stays one.
LEMMA ScalarIs ==
  ASSUME TreesAsWritten, NEW node, IsScalar(node)
  PROVE  /\ node.kind = "scalar" /\ clone(node) = node
         /\ merge(node, Null) = node /\ \A to : merge(node, to) = node
         /\ trim_attributes(node) = node
         /\ \A params : IsScalar(replace_parameters(node, params))
<1>1. node.kind = "scalar"
  BY DEF IsScalar, Scalar, Quoted
<1>2. clone(node) = node
  <2>1. clone(node) = ClonedNode(node, clone)
    BY DEF TreesAsWritten
  <2> QED
    BY <1>1, <2>1 DEF ClonedNode
<1>3. ASSUME NEW to PROVE merge(node, to) = node
  <2>1. merge(node, to) = MergedNode(node, to, clone, merge)
    BY DEF TreesAsWritten
  <2> QED
    BY <1>1, <1>2, <2>1 DEF MergedNode
<1>4. trim_attributes(node) = node
  <2>1. trim_attributes(node) = TrimmedNode(node, trim_attributes)
    BY DEF TreesAsWritten
  <2> QED
    BY <1>1, <2>1 DEF TrimmedNode
<1>5. ASSUME NEW params PROVE IsScalar(replace_parameters(node, params))
  <2> DEFINE new == string_replace_parameters(node.text, params)
  <2>1. replace_parameters(node, params) = ReplacedNode(node, params, replace_parameters)
    BY DEF TreesAsWritten
  <2>2. replace_parameters(node, params) = [node EXCEPT !.text = new]
    BY <1>1, <2>1 DEF ReplacedNode
  <2> HIDE DEF new
  <2>3. PICK text : node = Scalar(text) \/ node = Quoted(text)
    BY DEF IsScalar
  <2>4. [node EXCEPT !.text = new] = Scalar(new) \/ [node EXCEPT !.text = new] = Quoted(new)
    BY <2>3 DEF Scalar, Quoted
  <2> QED
    BY <2>2, <2>4 DEF IsScalar
<1> QED
  BY <1>1, <1>2, <1>3, <1>4, <1>5

\* A map without attributes has the entries it is put together from.
LEMMA SameMap ==
  ASSUME NEW map, IsMap(map), \A key \in DOMAIN map.of : key[2] = "",
         NEW f, f = [key \in {<<name, "">> : name \in Names(map)} |-> f[key]],
         \A key \in DOMAIN map.of : f[key] = map.of[key]
  PROVE  Map(f) = map
<1> DEFINE D == {<<name, "">> : name \in Names(map)}
<1>1. \A key \in DOMAIN map.of : key = <<key[1], "">> /\ key[1] \in Names(map)
  BY FindIs DEF IsMap, AreKeys
<1>2. D = DOMAIN map.of
  <2>1. ASSUME NEW name \in Names(map) PROVE <<name, "">> \in DOMAIN map.of
    <3>1. PICK key \in DOMAIN map.of : key[1] = name
      BY DEF Names
    <3> QED
      BY <1>1, <3>1
  <2> QED
    BY <1>1, <2>1
<1>3. f = map.of
  <2>1. map.of = [key \in DOMAIN map.of |-> map.of[key]]
    BY DEF IsMap
  <2> QED
    BY <1>2, <2>1
<1> QED
  BY <1>3 DEF IsMap

\* A map without attributes is cloned and trimmed as it is if its values are, and
\* parameters replace its values.
LEMMA MapIsKept ==
  ASSUME TreesAsWritten, NEW map, IsMap(map), \A key \in DOMAIN map.of : key[2] = ""
  PROVE  /\ (\A key \in DOMAIN map.of : clone(map.of[key]) = map.of[key])
              => clone(map) = map /\ merge(map, Null) = map
         /\ (\A key \in DOMAIN map.of : trim_attributes(map.of[key]) = map.of[key])
              => trim_attributes(map) = map
         /\ \A params :
              /\ IsMap(replace_parameters(map, params))
              /\ DOMAIN replace_parameters(map, params).of = DOMAIN map.of
              /\ \A key \in DOMAIN map.of : replace_parameters(map, params).of[key]
                                              = replace_parameters(map.of[key], params)
<1> DEFINE D == {<<name, "">> : name \in Names(map)}
           c == [key \in D |-> clone(node_find(map, key[1]).node)]
           t == [key \in D |-> trim_attributes(node_find(map, key[1]).node)]
<1>0. map.kind = "map"
  BY AtIs
<1>1. clone(map) = Map(c) /\ trim_attributes(map) = Map(t)
  <2>1. clone(map) = ClonedNode(map, clone) /\ trim_attributes(map) = TrimmedNode(map, trim_attributes)
    BY DEF TreesAsWritten
  <2> QED
    BY <1>0, <2>1 DEF ClonedNode, TrimmedNode
<1>2. ASSUME NEW key \in DOMAIN map.of
      PROVE  c[key] = clone(map.of[key]) /\ t[key] = trim_attributes(map.of[key])
  <2>1. key = <<key[1], "">> /\ key[1] \in Names(map) /\ node_find(map, key[1]).node = map.of[key]
    <3>1. key = <<key[1], key[2]>> /\ key[2] = ""
      BY DEF IsMap, AreKeys
    <3> QED
      BY <3>1, FoundIs
  <2>2. key \in D
    BY <2>1
  <2> QED
    BY <2>1, <2>2
<1>3. c = [key \in D |-> c[key]] /\ t = [key \in D |-> t[key]]
  OBVIOUS
<1>4. merge(map, Null) = clone(map)
  <2>1. merge(map, Null) = MergedNode(map, Null, clone, merge)
    BY DEF TreesAsWritten
  <2>2. Null.kind = "null"
    BY DEF Null
  <2> QED
    BY <1>0, <2>1, <2>2 DEF MergedNode
<1> HIDE DEF c, t
<1>5. (\A key \in DOMAIN map.of : clone(map.of[key]) = map.of[key]) => clone(map) = map
  <2> SUFFICES ASSUME \A key \in DOMAIN map.of : clone(map.of[key]) = map.of[key]
               PROVE  clone(map) = map
    OBVIOUS
  <2>1. \A key \in DOMAIN map.of : c[key] = map.of[key]
    BY <1>2
  <2>2. Map(c) = map
    BY <1>3, <2>1, SameMap
  <2> QED
    BY <1>1, <2>2
<1>6. (\A key \in DOMAIN map.of : trim_attributes(map.of[key]) = map.of[key])
        => trim_attributes(map) = map
  <2> SUFFICES ASSUME \A key \in DOMAIN map.of : trim_attributes(map.of[key]) = map.of[key]
               PROVE  trim_attributes(map) = map
    OBVIOUS
  <2>1. \A key \in DOMAIN map.of : t[key] = map.of[key]
    BY <1>2
  <2>2. Map(t) = map
    BY <1>3, <2>1, SameMap
  <2> QED
    BY <1>1, <2>2
<1>7. ASSUME NEW params
      PROVE  /\ IsMap(replace_parameters(map, params))
             /\ DOMAIN replace_parameters(map, params).of = DOMAIN map.of
             /\ \A key \in DOMAIN map.of : replace_parameters(map, params).of[key]
                                             = replace_parameters(map.of[key], params)
  <2> DEFINE r == [key \in DOMAIN map.of |-> replace_parameters(map.of[key], params)]
  <2>1. replace_parameters(map, params) = ReplacedNode(map, params, replace_parameters)
    BY DEF TreesAsWritten
  <2>2. replace_parameters(map, params) = Map(r)
    BY <1>0, <2>1 DEF ReplacedNode
  <2>3. AreKeys(DOMAIN map.of) /\ r = [key \in DOMAIN map.of |-> r[key]]
        /\ \A key \in DOMAIN map.of : r[key] = replace_parameters(map.of[key], params)
    BY DEF IsMap
  <2> HIDE DEF r
  <2>4. IsMap(Map(r)) /\ Map(r).of = r /\ DOMAIN r = DOMAIN map.of
    BY <2>3, MapIs
  <2> QED
    BY <2>2, <2>3, <2>4
<1> QED
  BY <1>4, <1>5, <1>6, <1>7

\* A map of scalars without attributes is cloned as it is.
LEMMA PlainMapCloned ==
  ASSUME TreesAsWritten, NEW map, PlainMap(map, {""})
  PROVE  clone(map) = map /\ merge(map, Null) = map
<1>1. IsMap(map) /\ \A key \in DOMAIN map.of : key[2] = "" /\ IsScalar(map.of[key])
  BY DEF PlainMap
<1>2. \A key \in DOMAIN map.of : clone(map.of[key]) = map.of[key]
  BY <1>1, ScalarIs
<1> QED
  BY <1>1, <1>2, MapIsKept

\* What is plain is cloned and trimmed as it is, and stays plain.
LEMMA PlainIs ==
  ASSUME TreesAsWritten, NEW node, IsPlain(node)
  PROVE  /\ clone(node) = node /\ trim_attributes(node) = node
         /\ \A params : IsPlain(replace_parameters(node, params))
<1>1. CASE IsScalar(node)
  BY <1>1, ScalarIs DEF IsPlain
<1>2. CASE PlainMap(node, {""})
  <2>1. IsMap(node) /\ \A key \in DOMAIN node.of : key[2] = "" /\ IsScalar(node.of[key])
    BY <1>2 DEF PlainMap
  <2>2. \A key \in DOMAIN node.of :
          /\ clone(node.of[key]) = node.of[key] /\ trim_attributes(node.of[key]) = node.of[key]
          /\ \A params : IsScalar(replace_parameters(node.of[key], params))
    BY <2>1, ScalarIs
  <2>3. ASSUME NEW params PROVE IsPlain(replace_parameters(node, params))
    <3> DEFINE r == replace_parameters(node, params)
    <3>0. /\ IsMap(r) /\ DOMAIN r.of = DOMAIN node.of
          /\ \A key \in DOMAIN node.of : r.of[key] = replace_parameters(node.of[key], params)
      BY <2>1, MapIsKept
    <3>1. PlainMap(r, {""})
      <4>1. \A key \in DOMAIN node.of : IsScalar(replace_parameters(node.of[key], params))
        BY <2>2
      <4> HIDE DEF r
      <4> QED
        BY <2>1, <3>0, <4>1 DEF PlainMap
    <3> QED
      BY <3>1 DEF IsPlain
  <2> QED
    BY <2>1, <2>2, <2>3, MapIsKept
<1> QED
  BY <1>1, <1>2 DEF IsPlain

\* So is a package.
LEMMA PackageIs ==
  ASSUME TreesAsWritten, NEW item, IsPackage(item)
  PROVE  clone(item) = item /\ \A params : IsPackage(replace_parameters(item, params))
<1>1. IsMap(item) /\ \A key \in DOMAIN item.of : key[2] = "" /\ IsPlain(item.of[key])
  BY DEF IsPackage
<1>2. \A key \in DOMAIN item.of :
        /\ clone(item.of[key]) = item.of[key]
        /\ \A params : IsPlain(replace_parameters(item.of[key], params))
  BY <1>1, PlainIs
<1>3. ASSUME NEW params PROVE IsPackage(replace_parameters(item, params))
  <2> DEFINE r == replace_parameters(item, params)
  <2>1. /\ IsMap(r) /\ DOMAIN r.of = DOMAIN item.of
        /\ \A key \in DOMAIN item.of : r.of[key] = replace_parameters(item.of[key], params)
    BY <1>1, MapIsKept
  <2>2. \A key \in DOMAIN item.of : IsPlain(replace_parameters(item.of[key], params))
    BY <1>2
  <2>3. IsPackage(r)
    <3> HIDE DEF r
    <3> QED
      BY <1>1, <2>1, <2>2 DEF IsPackage
  <2> QED
    BY <2>3
<1> QED
  BY <1>1, <1>2, <1>3, MapIsKept

-----------------------------------------------------------------------------
\* Packages.

P == <<"packages", "">>

\* Without attribute, packages are found and looked up alike.
LEMMA PackagesKey ==
  ASSUME NEW node, IsConfig(node), HasPlainPackages(node)
  PROVE  /\ "packages" \in Names(node) <=> P \in DOMAIN node.of
         /\ \A key \in DOMAIN node.of : key[1] = "packages" => key = P /\ key[2] # "REPLACE"
         /\ P \in DOMAIN node.of =>
              IsListNode(node.of[P]) /\ Items(node, "packages") = node.of[P].items
         /\ P \notin DOMAIN node.of => Items(node, "packages") = <<>>
         /\ P[1] = "packages" /\ P[2] = ""
<1>1. P[1] = "packages" /\ P[2] = ""
  BY DEF P
<1>2. ASSUME NEW key \in DOMAIN node.of, key[1] = "packages" PROVE key = P /\ key[2] # "REPLACE"
  <2>1. key[2] = ""
    BY <1>2 DEF HasPlainPackages
  <2>2. key = <<key[1], key[2]>>
    BY DEF IsConfig, IsMap, AreKeys
  <2> QED
    BY <1>2, <2>1, <2>2 DEF P
<1>3. "packages" \in Names(node) <=> P \in DOMAIN node.of
  BY <1>1, <1>2 DEF Names
<1>4. ASSUME P \in DOMAIN node.of PROVE IsListNode(node.of[P])
  <2>1. PICK key \in DOMAIN node.of : key = P
    BY <1>4
  <2>2. IsListNode(node.of[key])
    BY <1>1, <2>1 DEF IsConfig
  <2> QED
    BY <2>1, <2>2
<1>5. /\ P \in DOMAIN node.of => Items(node, "packages") = node.of[P].items
      /\ P \notin DOMAIN node.of => Items(node, "packages") = <<>>
  BY ItemsIs DEF P
<1> QED
  BY <1>1, <1>2, <1>3, <1>4, <1>5

\* What leaves the list of packages leaves the packages.
LEMMA SamePackages ==
  ASSUME NEW a, IsConfig(a), HasPlainPackages(a), NEW b, IsConfig(b),
         \A key \in DOMAIN b.of : key[1] = "packages" => key[2] = "",
         P \in DOMAIN a.of <=> P \in DOMAIN b.of, P \in DOMAIN a.of => b.of[P] = a.of[P]
  PROVE  HasPlainPackages(b) /\ Items(b, "packages") = Items(a, "packages")
<1>1. Items(b, "packages") = Items(a, "packages")
  <2>1. /\ P \in DOMAIN a.of => Items(a, "packages") = a.of[P].items
        /\ P \notin DOMAIN a.of => Items(a, "packages") = <<>>
    BY ItemsIs DEF P
  <2>2. /\ P \in DOMAIN b.of => Items(b, "packages") = b.of[P].items
        /\ P \notin DOMAIN b.of => Items(b, "packages") = <<>>
    BY ItemsIs DEF P
  <2> QED
    BY <2>1, <2>2
<1> QED
  BY <1>1 DEF HasPlainPackages

\* Merging appends the packages.
LEMMA PackagesOfMerged ==
  ASSUME TreesAsWritten,
         NEW from, IsConfig(from), HasPlainPackages(from),
         NEW to, IsConfig(to), HasPlainPackages(to)
  PROVE  /\ IsConfig(merge(from, to)) /\ HasPlainPackages(merge(from, to))
         /\ Items(merge(from, to), "packages") = Items(to, "packages") \o Items(from, "packages")
<1> DEFINE m == merge(from, to)
           f == Items(from, "packages")
           t == Items(to, "packages")
<1>1. IsConfig(m) /\ MergedByKey(m, from, to)
  BY ConfigMerged, MergedIs DEF IsConfig
<1>2. PlainList(f) /\ PlainList(t) /\ IsSeq(f) /\ IsSeq(t)
  BY DEF HasPlainPackages, PlainList
<1> HIDE DEF m, f, t
<1>3. /\ DOMAIN m.of = DOMAIN to.of \cup {<<name, "">> : name \in Names(from) \ Names(to)}
      /\ P \in DOMAIN m.of => Items(m, "packages") = m.of[P].items
      /\ P \notin DOMAIN m.of => Items(m, "packages") = <<>>
  BY <1>1, ItemsIs DEF MergedByKey, P
<1>4. /\ P \in DOMAIN m.of <=> P \in DOMAIN to.of \/ P \in DOMAIN from.of
      /\ \A key \in DOMAIN m.of : key[1] = "packages" => key[2] = ""
  <2>1. \A key \in DOMAIN m.of :
          \/ key \in DOMAIN to.of
          \/ key[2] = "" /\ key[1] \in Names(from) \ Names(to)
    <3> SUFFICES ASSUME NEW key \in DOMAIN m.of, key \notin DOMAIN to.of
                 PROVE  key[2] = "" /\ key[1] \in Names(from) \ Names(to)
      OBVIOUS
    <3>1. PICK name \in Names(from) \ Names(to) : key = <<name, "">>
      BY <1>3
    <3> QED
      BY <3>1
  <2>2. P \in DOMAIN from.of /\ P \notin DOMAIN to.of => P \in DOMAIN m.of
    <3>1. P \in DOMAIN from.of /\ P \notin DOMAIN to.of => "packages" \in Names(from) \ Names(to)
      BY PackagesKey
    <3> QED
      BY <1>3, <3>1 DEF P
  <2>3. P \in DOMAIN m.of => P \in DOMAIN to.of \/ P \in DOMAIN from.of
    BY <2>1, PackagesKey
  <2>4. \A key \in DOMAIN m.of : key[1] = "packages" => key[2] = ""
    BY <2>1 DEF HasPlainPackages
  <2> QED
    BY <1>3, <2>2, <2>3, <2>4
<1>5. PICK F : f \in Seq(F)
  BY <1>2, SeqSome
<1>6. PICK T : t \in Seq(T)
  BY <1>2, SeqSome
<1>7. Items(m, "packages") = t \o f
  <2>1. CASE P \in DOMAIN to.of /\ P \in DOMAIN from.of
    <3>1. /\ IsListNode(from.of[P]) /\ f = from.of[P].items /\ P[2] # "REPLACE"
          /\ IsListNode(to.of[P]) /\ t = to.of[P].items
      BY <2>1, PackagesKey DEF f, t
    <3>2. m.of[P] = merge(from.of[P], to.of[P])
      <4>1. to.of[P] # Undefined
        BY <3>1, ListKind
      <4> QED
        BY <1>1, <2>1, <3>1, <4>1 DEF MergedByKey
    <3>3. m.of[P].items = t \o [i \in DOMAIN f |-> clone(f[i])]
      BY <3>1, <3>2, ListsMerged
    <3>4. [i \in DOMAIN f |-> clone(f[i])] = f
      <4>1. \A i \in DOMAIN f : clone(f[i]) = f[i]
        BY <1>2, PackageIs DEF PlainList
      <4>2. f = [i \in DOMAIN f |-> f[i]]
        BY <1>5
      <4> QED
        BY <4>1, <4>2
    <3> QED
      BY <1>3, <1>4, <2>1, <3>3, <3>4
  <2>2. CASE P \in DOMAIN to.of /\ P \notin DOMAIN from.of
    <3>1. f = <<>> /\ t = to.of[P].items /\ "packages" \notin Names(from) /\ P[1] = "packages"
      BY <2>2, PackagesKey DEF f, t
    <3>2. m.of[P] = to.of[P]
      BY <1>1, <2>2, <3>1 DEF MergedByKey
    <3> QED
      BY <1>3, <1>4, <1>6, <2>2, <3>1, <3>2, ConcatEmptySeq
  <2>3. CASE P \notin DOMAIN to.of /\ P \in DOMAIN from.of
    <3>1. /\ t = <<>> /\ f = from.of[P].items /\ "packages" \notin Names(to)
          /\ P[1] = "packages" /\ P[2] # "REPLACE" /\ IsListNode(from.of[P])
      BY <2>3, PackagesKey DEF f, t
    <3>2. m.of[<<P[1], "">>] = merge(from.of[P], Null)
      BY <1>1, <2>3, <3>1 DEF MergedByKey
    <3>3. <<P[1], "">> = P
      BY DEF P
    <3>4. m.of[P] = from.of[P]
      BY <3>1, <3>2, <3>3, ListsMerged
    <3> QED
      BY <1>3, <1>4, <1>5, <2>3, <3>1, <3>4, ConcatEmptySeq
  <2>4. CASE P \notin DOMAIN to.of /\ P \notin DOMAIN from.of
    <3>1. t = <<>> /\ f = <<>>
      BY <2>4, PackagesKey DEF f, t
    <3> QED
      BY <1>3, <1>4, <1>5, <2>4, <3>1, ConcatEmptySeq
  <2> QED
    BY <2>1, <2>2, <2>3, <2>4
<1>8. PlainList(t \o f)
  <2>1. IsSeq(t \o f) /\ Len(t) \in Nat /\ DOMAIN t = 1 .. Len(t) /\ Len(f) \in Nat
        /\ DOMAIN f = 1 .. Len(f)
    BY <1>2, ConcatIs, SeqParts
  <2>2. PICK U : U = F \cup T
    OBVIOUS
  <2>3. t \in Seq(U) /\ f \in Seq(U)
    BY <1>5, <1>6, <2>2, SeqMonotonic
  <2>4. /\ t \o f \in Seq(U) /\ Len(t \o f) = Len(t) + Len(f)
        /\ \A i \in 1 .. Len(t) + Len(f) :
             (t \o f)[i] = IF i <= Len(t) THEN t[i] ELSE f[i - Len(t)]
    BY <2>3, ConcatProperties
  <2>5. DOMAIN (t \o f) = 1 .. Len(t) + Len(f)
    BY <2>1, <2>4, SeqParts
  <2>6. ASSUME NEW i \in 1 .. Len(t) + Len(f) PROVE IsPackage((t \o f)[i])
    <3>1. CASE i <= Len(t)
      BY <1>2, <2>1, <2>4, <3>1 DEF PlainList
    <3>2. CASE ~ (i <= Len(t))
      <4>1. i - Len(t) \in DOMAIN f /\ (t \o f)[i] = f[i - Len(t)]
        BY <2>1, <2>4, <3>2
      <4>2. PICK j \in DOMAIN f : (t \o f)[i] = f[j]
        BY <4>1
      <4> QED
        BY <1>2, <4>2 DEF PlainList
    <3> QED
      BY <3>1, <3>2
  <2> QED
    BY <2>1, <2>5, <2>6 DEF PlainList
<1> QED
  BY <1>1, <1>4, <1>7, <1>8 DEF HasPlainPackages, m, f, t

\* Wrapping, ignoring the rest and setting a target leave the packages, and so
\* does trimming.
LEMMA PackagesKept ==
  ASSUME TreesAsWritten, NEW node, IsConfig(node), HasPlainPackages(node)
  PROVE  /\ HasPlainPackages(Wrap(node)) /\ Items(Wrap(node), "packages") = Items(node, "packages")
         /\ HasPlainPackages(Ignored(node))
         /\ Items(Ignored(node), "packages") = Items(node, "packages")
         /\ HasPlainPackages(trim_attributes(node))
         /\ Items(trim_attributes(node), "packages") = Items(node, "packages")
         /\ config = node =>
              \A t : /\ HasPlainPackages(SetTarget(t))
                     /\ Items(SetTarget(t), "packages") = Items(node, "packages")
<1>0. P # <<"templates", "">> /\ P # <<"targets", "">>
      /\ P \notin {<<name, "">> : name \in {"version", "project", "includes"}}
  BY DEF P
<1>1. HasPlainPackages(Wrap(node)) /\ Items(Wrap(node), "packages") = Items(node, "packages")
  <2>1. IsConfig(Wrap(node)) /\ DOMAIN Wrap(node).of = DOMAIN node.of
        /\ (P \in DOMAIN node.of => Wrap(node).of[P] = node.of[P])
    BY <1>0, WrapIs
  <2>2. \A key \in DOMAIN Wrap(node).of : key[1] = "packages" => key[2] = ""
    BY <2>1 DEF HasPlainPackages
  <2> QED
    BY <2>1, <2>2, SamePackages
<1>2. HasPlainPackages(Ignored(node)) /\ Items(Ignored(node), "packages") = Items(node, "packages")
  <2>1. IsConfig(Ignored(node)) /\ (P \in DOMAIN node.of <=> P \in DOMAIN Ignored(node).of)
        /\ (P \in DOMAIN node.of => Ignored(node).of[P] = node.of[P])
    BY <1>0, IgnoredIs
  <2>2. \A key \in DOMAIN Ignored(node).of : key[1] = "packages" => key[2] = ""
    BY IgnoredIs DEF HasPlainPackages
  <2> QED
    BY <2>1, <2>2, SamePackages
<1>3. HasPlainPackages(trim_attributes(node))
      /\ Items(trim_attributes(node), "packages") = Items(node, "packages")
  <2> DEFINE t == trim_attributes(node)
  <2>1. /\ IsConfig(t) /\ DOMAIN t.of = {<<name, "">> : name \in Names(node)}
        /\ \A key \in DOMAIN node.of : t.of[<<key[1], "">>] = trim_attributes(node.of[key])
        /\ \A item : item.kind # "map" => trim_attributes(item) = item
    BY TrimIs
  <2> HIDE DEF t
  <2>2. \A key \in DOMAIN t.of : key[2] = ""
    <3> SUFFICES ASSUME NEW key \in DOMAIN t.of PROVE key[2] = ""
      OBVIOUS
    <3>1. PICK name \in Names(node) : key = <<name, "">>
      BY <2>1
    <3> QED
      BY <3>1
  <2>3. P \in DOMAIN t.of <=> "packages" \in Names(node)
    <3>1. ASSUME NEW name \in Names(node), P = <<name, "">> PROVE "packages" \in Names(node)
      <4>1. P[1] = name /\ P[1] = "packages"
        BY <3>1 DEF P
      <4> QED
        BY <4>1
    <3> QED
      BY <2>1, <3>1 DEF P
  <2>4. P \in DOMAIN node.of => t.of[P] = node.of[P]
    <3> SUFFICES ASSUME P \in DOMAIN node.of PROVE t.of[P] = node.of[P]
      OBVIOUS
    <3>1. IsListNode(node.of[P]) /\ P = <<P[1], "">>
      BY PackagesKey DEF P
    <3>2. node.of[P].kind # "map"
      BY <3>1, ListKind
    <3> QED
      BY <2>1, <3>1, <3>2
  <2>5. P \in DOMAIN node.of <=> P \in DOMAIN t.of
    BY <2>3, PackagesKey
  <2>6. HasPlainPackages(t) /\ Items(t, "packages") = Items(node, "packages")
    BY <2>1, <2>2, <2>4, <2>5, SamePackages
  <2> QED
    BY <2>6 DEF t
<1>4. ASSUME NEW t, config = node
      PROVE  /\ HasPlainPackages(SetTarget(t))
             /\ Items(SetTarget(t), "packages") = Items(node, "packages")
  <2>1. IsConfig(SetTarget(t)) /\ (P \in DOMAIN node.of <=> P \in DOMAIN SetTarget(t).of)
        /\ (P \in DOMAIN node.of => SetTarget(t).of[P] = node.of[P])
    BY <1>0, <1>4, SetTargetIs
  <2>2. \A key \in DOMAIN SetTarget(t).of : key[1] = "packages" => key[2] = ""
    BY <1>4, SetTargetIs DEF HasPlainPackages
  <2> QED
    BY <2>1, <2>2, SamePackages
<1> QED
  BY <1>1, <1>2, <1>3, <1>4

\* Replacing parameters leaves packages.
LEMMA PackagesReplaced ==
  ASSUME TreesAsWritten, NEW node, IsConfig(node), HasPlainPackages(node), NEW params
  PROVE  HasPlainPackages(replace_parameters(node, params))
<1> DEFINE r == replace_parameters(node, params)
<1>1. /\ IsConfig(r) /\ DOMAIN r.of = DOMAIN node.of
      /\ \A key \in DOMAIN node.of : r.of[key] = replace_parameters(node.of[key], params)
  BY ReplacedIs
<1> HIDE DEF r
<1>2. CASE P \in DOMAIN node.of
  <2> DEFINE l == node.of[P].items
             f == [i \in DOMAIN l |-> replace_parameters(l[i], params)]
  <2>1. IsListNode(node.of[P]) /\ PlainList(l)
    BY <1>2, PackagesKey DEF HasPlainPackages
  <2>2. replace_parameters(node.of[P], params) = List(f)
    <3>1. replace_parameters(node.of[P], params)
            = ReplacedNode(node.of[P], params, replace_parameters)
      BY DEF TreesAsWritten
    <3> QED
      BY <2>1, <3>1, ListKind DEF ReplacedNode
  <2>3. \A i \in DOMAIN f : IsPackage(f[i])
    BY <2>1, PackageIs DEF PlainList
  <2>4. f = [i \in DOMAIN l |-> f[i]]
    OBVIOUS
  <2> HIDE DEF f
  <2>5. IsListNode(List(f)) /\ List(f).items = f
    BY <2>1, <2>4, ListOf
  <2>6. IsSeq(f)
    BY <2>5 DEF IsListNode
  <2>7. Items(r, "packages") = f
    <3>1. r.of[P] = List(f) /\ P \in DOMAIN r.of
      BY <1>1, <1>2, <2>2
    <3>2. Items(r, "packages") = r.of[P].items
      BY <1>1, <3>1, ItemsIs DEF P
    <3> QED
      BY <2>5, <3>1, <3>2
  <2>8. PlainList(f)
    BY <2>3, <2>6 DEF PlainList
  <2>9. HasPlainPackages(r)
    BY <1>1, <2>7, <2>8 DEF HasPlainPackages
  <2> QED
    BY <2>9 DEF r
<1>3. CASE P \notin DOMAIN node.of
  <2>1. Items(r, "packages") = <<>> /\ Items(node, "packages") = <<>>
    BY <1>1, <1>3, ItemsIs DEF P
  <2>2. HasPlainPackages(r)
    BY <1>1, <2>1 DEF HasPlainPackages
  <2> QED
    BY <2>2 DEF r
<1> QED
  BY <1>2, <1>3

\* Configurations in a sequence, and their lists of packages.
AreConfigs(cs) == IsSeq(cs) /\ \A i \in DOMAIN cs : IsConfig(cs[i]) /\ HasPlainPackages(cs[i])
PackagesOf(cs) == [i \in DOMAIN cs |-> Items(cs[i], "packages")]

\* The lists can be concatenated.
LEMMA PackagesAre ==
  ASSUME NEW cs, AreConfigs(cs)
  PROVE  /\ AreLists(PackagesOf(cs)) /\ Len(PackagesOf(cs)) = Len(cs) /\ Len(cs) \in Nat
         /\ DOMAIN cs = 1 .. Len(cs)
         /\ \A i \in 1 .. Len(cs) : PackagesOf(cs)[i] = Items(cs[i], "packages")
<1> DEFINE n == Len(cs)
           g == PackagesOf(cs)
<1>1. n \in Nat /\ DOMAIN cs = 1 .. n
  BY SeqParts DEF AreConfigs
<1>2. g = [i \in 1 .. n |-> g[i]] /\ \A i \in 1 .. n : g[i] = Items(cs[i], "packages")
  BY <1>1 DEF PackagesOf
<1> HIDE DEF g
<1>3. IsSeq(g) /\ Len(g) = n
  BY <1>1, <1>2, ListedIsSeq
<1>4. DOMAIN g = 1 .. n
  BY <1>3, SeqParts
<1>5. AreLists(g)
  BY <1>1, <1>2, <1>3, <1>4, ItemsIs DEF AreLists, AreConfigs
<1> QED
  BY <1>1, <1>2, <1>3, <1>5 DEF g

\* One more has its list last.
LEMMA PackagesMore ==
  ASSUME NEW cs, AreConfigs(cs), NEW c, IsConfig(c), HasPlainPackages(c)
  PROVE  /\ AreConfigs(Append(cs, c))
         /\ PackagesOf(Append(cs, c)) = Append(PackagesOf(cs), Items(c, "packages"))
         /\ FlattenSeq(PackagesOf(Append(cs, c)))
              = FlattenSeq(PackagesOf(cs)) \o Items(c, "packages")
<1> DEFINE s == Append(cs, c)
           n == Len(cs)
           x == Items(c, "packages")
           g == Append(PackagesOf(cs), x)
<1>0. IsSeq(x)
  BY ItemsIs
<1>1. n \in Nat /\ DOMAIN cs = 1 .. n /\ AreLists(PackagesOf(cs)) /\ Len(PackagesOf(cs)) = n
      /\ \A i \in 1 .. n : PackagesOf(cs)[i] = Items(cs[i], "packages")
  BY PackagesAre
<1>2. /\ IsSeq(s) /\ Len(s) = n + 1 /\ DOMAIN s = 1 .. n + 1
      /\ (\A i \in 1 .. n : s[i] = cs[i]) /\ s[n + 1] = c
  <2>1. IsSeq(s) /\ Len(s) = n + 1 /\ (\A i \in 1 .. n : s[i] = cs[i]) /\ s[n + 1] = c
    BY AppendIs DEF AreConfigs
  <2> HIDE DEF s
  <2> QED
    BY <2>1, SeqParts
<1> HIDE DEF s
<1>3. AreConfigs(s)
  BY <1>1, <1>2 DEF AreConfigs
<1>4. /\ IsSeq(g) /\ Len(g) = n + 1 /\ g[n + 1] = x
      /\ \A i \in 1 .. n : g[i] = Items(cs[i], "packages")
  <2>1. IsSeq(PackagesOf(cs))
    BY <1>1 DEF AreLists
  <2>2. IsSeq(g) /\ Len(g) = n + 1 /\ g[n + 1] = x
        /\ \A i \in 1 .. n : g[i] = PackagesOf(cs)[i]
    BY <1>1, <2>1, AppendIs
  <2> HIDE DEF g
  <2> QED
    BY <1>1, <2>2
<1> HIDE DEF g
<1>5. PackagesOf(s) = g
  <2>1. /\ IsSeq(PackagesOf(s)) /\ Len(PackagesOf(s)) = n + 1
        /\ \A i \in 1 .. n + 1 : PackagesOf(s)[i] = Items(s[i], "packages")
    BY <1>2, <1>3, PackagesAre DEF AreLists
  <2>2. \A i \in 1 .. n + 1 : PackagesOf(s)[i] = g[i]
    BY <1>1, <1>2, <1>4, <2>1
  <2> QED
    BY <1>4, <2>1, <2>2, SameSeq
<1>6. FlattenSeq(g) = FlattenSeq(PackagesOf(cs)) \o x
  BY <1>0, <1>1, Flattened DEF g
<1> QED
  BY <1>3, <1>5, <1>6 DEF s, g

\* The configurations of the calls.
Nodes(calls) == [i \in DOMAIN calls |-> calls[i].node]

\* The packages of the calls, from the first to the last, are those of the files
\* that were read, in the order in which they were.
PackagesMerged ==
  /\ pc = "includes" =>
       /\ \A i \in DOMAIN stack : HasPlainPackages(stack[i].node)
       /\ FlattenSeq(PackagesOf(Nodes(stack))) = FlattenSeq(PackagesOf(Read))
  /\ pc \in {"validate_included", "templates", "validate_result", "accepted"} =>
       /\ HasPlainPackages(config)
       /\ Items(config, "packages") = FlattenSeq(PackagesOf(Read))

InOrderInv == CompleteInv /\ PackagesMerged

\* The configurations of the calls are some.
LEMMA NodesAre ==
  ASSUME NEW calls, IsSeq(calls), \A i \in DOMAIN calls : IsFrame(calls[i]),
         \A i \in DOMAIN calls : HasPlainPackages(calls[i].node)
  PROVE  /\ AreConfigs(Nodes(calls)) /\ Len(Nodes(calls)) = Len(calls)
         /\ Len(calls) \in Nat /\ DOMAIN calls = 1 .. Len(calls)
         /\ \A i \in 1 .. Len(calls) : Nodes(calls)[i] = calls[i].node
<1> DEFINE n == Len(calls)
           g == Nodes(calls)
<1>1. n \in Nat /\ DOMAIN calls = 1 .. n
  BY SeqParts
<1>2. g = [i \in 1 .. n |-> g[i]] /\ \A i \in 1 .. n : g[i] = calls[i].node
  BY <1>1 DEF Nodes
<1> HIDE DEF g
<1>3. IsSeq(g) /\ Len(g) = n
  BY <1>1, <1>2, ListedIsSeq
<1>4. DOMAIN g = 1 .. n
  BY <1>3, SeqParts
<1>5. AreConfigs(g)
  BY <1>1, <1>2, <1>3, <1>4 DEF AreConfigs, IsFrame
<1> QED
  BY <1>1, <1>2, <1>3, <1>5 DEF g

\* The files that were read are configurations.
LEMMA ReadAre ==
  ASSUME TreesAsWritten, PackagesArePlain, Paths, Visiting
  PROVE  /\ AreConfigs(Read)
         /\ \A use : use.name.of \in DOMAIN files =>
              IsConfig(Reading(use)) /\ HasPlainPackages(Reading(use))
<1>1. IsConfig(root) /\ HasPlainPackages(root)
  BY FilesAssumption DEF Paths, PackagesArePlain
<1>2. ASSUME NEW use, use.name.of \in DOMAIN files
      PROVE  IsConfig(Reading(use)) /\ HasPlainPackages(Reading(use))
  <2>1. IsConfig(files[use.name.of]) /\ HasPlainPackages(files[use.name.of])
    BY <1>2, FilesAssumption DEF Paths, PackagesArePlain
  <2> QED
    BY <2>1, ReplacedIs, PackagesReplaced DEF Reading
<1>3. IsSeq(visits) /\ Len(visits) \in Nat /\ DOMAIN visits = 1 .. Len(visits)
  BY SeqParts DEF Visiting
<1>4. /\ IsSeq(Read) /\ DOMAIN Read = 1 .. Len(visits) + 1 /\ Read[1] = root
      /\ \A i \in 1 .. Len(visits) : Read[i + 1] = Reading(visits[i])
  BY <1>3, ReadIs
<1>5. ASSUME NEW r \in DOMAIN Read PROVE IsConfig(Read[r]) /\ HasPlainPackages(Read[r])
  <2>1. CASE r = 1
    BY <1>1, <1>4, <2>1
  <2>2. CASE r # 1
    <3>1. PICK i \in 1 .. Len(visits) : i + 1 = r
      <4>1. r - 1 \in 1 .. Len(visits) /\ (r - 1) + 1 = r
        BY <1>3, <1>4, <2>2
      <4> QED
        BY <4>1
    <3>2. visits[i].name.of \in DOMAIN files
      BY <1>3, <3>1 DEF Visiting, Paths
    <3>3. Read[i + 1] = Reading(visits[i])
      BY <1>4, <3>1
    <3> QED
      BY <1>2, <3>1, <3>2, <3>3
  <2> QED
    BY <2>1, <2>2
<1> QED
  BY <1>2, <1>4, <1>5 DEF AreConfigs

\* The packages of one configuration.
LEMMA PackagesOfOne ==
  ASSUME NEW c, IsConfig(c), HasPlainPackages(c)
  PROVE  FlattenSeq(PackagesOf(<<c>>)) = Items(c, "packages")
<1>0. PICK none : none = <<>>
  OBVIOUS
<1>1. AreConfigs(none) /\ PackagesOf(none) = <<>>
  BY <1>0, NoneIs DEF AreConfigs, PackagesOf
<1>2. Append(none, c) = <<c>>
  BY <1>0
<1>3. FlattenSeq(PackagesOf(<<c>>)) = <<>> \o Items(c, "packages")
  <2>1. FlattenSeq(PackagesOf(Append(none, c)))
          = FlattenSeq(PackagesOf(none)) \o Items(c, "packages")
    BY <1>1, PackagesMore
  <2> QED
    BY <1>1, <1>2, <2>1, Flattened
<1>4. PICK S : Items(c, "packages") \in Seq(S)
  BY ItemsIs, SeqSome
<1> QED
  BY <1>3, <1>4, ConcatEmptySeq

\* A file that is read comes last, in the calls and among those read.
LEMMA PackagesOfRead ==
  ASSUME TreesAsWritten, PackagesArePlain, TypeInv, Visiting, PackagesMerged, IncludeFile
  PROVE  PackagesMerged'
<1> DEFINE frame == Entered(Head(top.todo))
<1>1. PICK use : use = Head(top.todo)
  OBVIOUS
<1>2. /\ pc = "includes" /\ top.todo # <<>> /\ use.name.of \in DOMAIN files \ included
      /\ stack' = Append(Pop, frame) /\ visits' = Append(visits, use)
      /\ UNCHANGED <<root, files, pc>>
  BY <1>1 DEF IncludeFile, input
<1>3. Calls /\ Paths /\ IsSeq(visits) /\ IsSeq(stack)
  BY DEF TypeInv, Visiting, Calls
<1>4. AreConfigs(Read) /\ IsConfig(Reading(use)) /\ HasPlainPackages(Reading(use))
  BY <1>2, <1>3, ReadAre
<1>5. /\ IsFrame(frame) /\ frame.path = use.name.of /\ frame.node = Wrap(Reading(use))
  <2>1. frame = Frame(use.name.of, Reading(use), Missed(use))
    BY <1>1 DEF Entered, Reading, Missed
  <2> HIDE DEF frame
  <2> QED
    BY <1>4, <2>1, FrameIs
<1>6. /\ IsConfig(frame.node) /\ HasPlainPackages(frame.node)
      /\ Items(frame.node, "packages") = Items(Reading(use), "packages")
  BY <1>4, <1>5, PackagesKept, WrapIs
<1> HIDE DEF frame
<1>7. /\ AreConfigs(Nodes(stack)) /\ Len(Nodes(stack)) = Len(stack) /\ Len(stack) \in Nat
      /\ DOMAIN stack = 1 .. Len(stack)
      /\ \A i \in 1 .. Len(stack) : Nodes(stack)[i] = stack[i].node
  BY <1>2, <1>3, NodesAre DEF PackagesMerged, Calls
<1>8. /\ IsSeq(stack') /\ Len(stack') = Len(stack) + 1
      /\ \A i \in DOMAIN stack : stack'[i] = Pop[i]
      /\ DOMAIN stack' = DOMAIN stack \cup {Len(stack) + 1}
      /\ stack'[Len(stack) + 1] = frame
  BY <1>2, <1>3, <1>5, CallsPushed
<1>9. \A i \in DOMAIN stack : IsFrame(stack'[i]) /\ stack'[i].node = stack[i].node
  BY <1>2, <1>3, <1>8, PopIs
<1>10. \A i \in DOMAIN stack' : IsFrame(stack'[i]) /\ HasPlainPackages(stack'[i].node)
  BY <1>2, <1>5, <1>6, <1>8, <1>9 DEF PackagesMerged
<1>11. Nodes(stack') = Append(Nodes(stack), frame.node)
  <2> DEFINE s == Append(Nodes(stack), frame.node)
  <2>1. /\ IsSeq(Nodes(stack')) /\ Len(Nodes(stack')) = Len(stack) + 1
        /\ \A i \in 1 .. Len(stack) + 1 : Nodes(stack')[i] = stack'[i].node
    BY <1>8, <1>10, NodesAre DEF AreConfigs
  <2>2. /\ IsSeq(s) /\ Len(s) = Len(stack) + 1 /\ s[Len(stack) + 1] = frame.node
        /\ \A i \in 1 .. Len(stack) : s[i] = Nodes(stack)[i]
    BY <1>7, AppendIs DEF AreConfigs
  <2> HIDE DEF s
  <2>3. \A i \in 1 .. Len(stack) + 1 : Nodes(stack')[i] = s[i]
    BY <1>7, <1>8, <1>9, <2>1, <2>2
  <2> QED
    BY <2>1, <2>2, <2>3, SameSeq DEF s
<1>12. FlattenSeq(PackagesOf(Nodes(stack')))
         = FlattenSeq(PackagesOf(Nodes(stack))) \o Items(Reading(use), "packages")
  BY <1>6, <1>7, <1>11, PackagesMore
<1>13. FlattenSeq(PackagesOf(Read'))
         = FlattenSeq(PackagesOf(Read)) \o Items(Reading(use), "packages")
  <2>1. Read' = Append(Read, Reading(use))
    BY <1>2, <1>3, ReadMore
  <2> QED
    BY <1>4, <2>1, PackagesMore
<1>14. FlattenSeq(PackagesOf(Nodes(stack'))) = FlattenSeq(PackagesOf(Read'))
  BY <1>2, <1>12, <1>13 DEF PackagesMerged
<1> QED
  BY <1>2, <1>10, <1>14 DEF PackagesMerged, Nodes, PackagesOf

\* A call that returns leaves its packages after those of the one below it.
LEMMA PackagesOfReturn ==
  ASSUME TreesAsWritten, PackagesArePlain, TypeInv, PackagesMerged, IncludeReturn
  PROVE  PackagesMerged'
<1>1. /\ pc = "includes" /\ Len(stack) > 1 /\ stack' = Back
      /\ UNCHANGED <<root, files, pc, visits>>
  BY DEF IncludeReturn, Back, input
<1>2. Calls
  BY DEF TypeInv
<1> DEFINE a == stack[below].node
           b == top.node
           c == merge(Ignored(top.node), stack[below].node)
           h == Nodes(SubSeq(stack, 1, below - 1))
<1>3. /\ IsSeq(stack') /\ Len(stack') = below /\ DOMAIN stack' = 1 .. below
      /\ below \in Nat /\ below >= 1 /\ below + 1 = Len(stack)
      /\ DOMAIN stack = 1 .. below + 1 /\ top = stack[below + 1]
      /\ IsConfig(b) /\ IsConfig(a)
      /\ \A i \in 1 .. below :
           IsFrame(stack'[i]) /\ stack'[i].node = IF i = below THEN c ELSE stack[i].node
  BY <1>1, <1>2, Returned
<1>4. HasPlainPackages(a) /\ HasPlainPackages(b)
  BY <1>1, <1>3 DEF PackagesMerged
<1>5. /\ IsConfig(c) /\ HasPlainPackages(c)
      /\ Items(c, "packages") = Items(a, "packages") \o Items(b, "packages")
  <2>1. IsConfig(Ignored(b)) /\ HasPlainPackages(Ignored(b))
        /\ Items(Ignored(b), "packages") = Items(b, "packages")
    BY <1>3, <1>4, IgnoredIs, PackagesKept
  <2> QED
    BY <1>3, <1>4, <2>1, PackagesOfMerged
<1> HIDE DEF a, b, c
<1>6. \A i \in DOMAIN stack' : IsFrame(stack'[i]) /\ HasPlainPackages(stack'[i].node)
  BY <1>1, <1>3, <1>5 DEF PackagesMerged
<1>7. /\ AreConfigs(h) /\ Len(h) = below - 1
      /\ \A i \in 1 .. below - 1 : h[i] = stack[i].node
  <2> DEFINE s == SubSeq(stack, 1, below - 1)
  <2>1. PICK n \in Nat : n = below - 1 /\ n + 1 = below
    BY <1>3
  <2>2. PICK S : stack \in Seq(S)
    BY <1>2, SeqSome DEF Calls
  <2>3. s \in Seq(S) /\ Len(s) = n /\ \A i \in 1 .. n : s[i] = stack[i]
    <3>1. \A i \in 1 .. n : stack[i] \in S
      BY <1>3, <2>1, <2>2
    <3>2. /\ SubSeq(stack, 1, n) \in Seq(S)
          /\ Len(SubSeq(stack, 1, n)) = IF 1 <= n THEN n - 1 + 1 ELSE 0
          /\ \A i \in 1 .. n - 1 + 1 : SubSeq(stack, 1, n)[i] = stack[1 + i - 1]
      BY <3>1, SubSeqProperties
    <3>3. Len(SubSeq(stack, 1, n)) = n
      BY <3>2
    <3>4. \A i \in 1 .. n : 1 + i - 1 = i /\ i \in 1 .. n - 1 + 1
      OBVIOUS
    <3>5. \A i \in 1 .. n : SubSeq(stack, 1, n)[i] = stack[i]
      BY <3>2, <3>4
    <3> QED
      BY <2>1, <3>2, <3>3, <3>5
  <2> HIDE DEF s
  <2>4. IsSeq(s) /\ DOMAIN s = 1 .. n
    BY <2>3, SeqSome, SeqParts
  <2>5. \A i \in DOMAIN s : IsFrame(s[i]) /\ HasPlainPackages(s[i].node)
    BY <1>1, <1>2, <1>3, <2>1, <2>3, <2>4 DEF PackagesMerged, Calls
  <2>6. AreConfigs(Nodes(s)) /\ Len(Nodes(s)) = n
        /\ \A i \in 1 .. n : Nodes(s)[i] = s[i].node
    BY <2>3, <2>4, <2>5, NodesAre
  <2> QED
    BY <2>1, <2>3, <2>6 DEF s
<1> HIDE DEF h
<1>8. /\ AreConfigs(Append(h, a))
      /\ IsSeq(Append(h, a)) /\ Len(Append(h, a)) = below
      /\ Append(h, a)[below] = a /\ \A i \in 1 .. below - 1 : Append(h, a)[i] = stack[i].node
  <2>1. AreConfigs(Append(h, a))
    BY <1>3, <1>4, <1>7, PackagesMore DEF a
  <2>2. IsSeq(Append(h, a)) /\ Len(Append(h, a)) = Len(h) + 1 /\ Append(h, a)[Len(h) + 1] = a
        /\ \A i \in 1 .. Len(h) : Append(h, a)[i] = h[i]
    BY <1>7, AppendIs DEF AreConfigs
  <2>3. Len(h) + 1 = below
    BY <1>3, <1>7
  <2> QED
    BY <1>7, <2>1, <2>2, <2>3
<1>9. Nodes(stack) = Append(Append(h, a), b)
  <2> DEFINE s == Append(Append(h, a), b)
  <2>1. /\ IsSeq(Nodes(stack)) /\ Len(Nodes(stack)) = below + 1
        /\ \A i \in 1 .. below + 1 : Nodes(stack)[i] = stack[i].node
    BY <1>1, <1>2, <1>3, NodesAre DEF AreConfigs, PackagesMerged, Calls
  <2>2. /\ IsSeq(s) /\ Len(s) = below + 1 /\ s[below + 1] = b
        /\ \A i \in 1 .. below : s[i] = Append(h, a)[i]
    BY <1>8, AppendIs
  <2> HIDE DEF s
  <2>3. ASSUME NEW i \in 1 .. below + 1 PROVE Nodes(stack)[i] = s[i]
    <3>1. CASE i = below + 1
      BY <1>3, <2>1, <2>2, <3>1 DEF b
    <3>2. CASE i = below
      BY <1>3, <1>8, <2>1, <2>2, <3>2 DEF a
    <3>3. CASE i \in 1 .. below - 1
      <4>1. i \in 1 .. below
        BY <1>3, <3>3
      <4> QED
        BY <1>8, <2>1, <2>2, <3>3, <4>1
    <3> QED
      BY <1>3, <3>1, <3>2, <3>3
  <2> QED
    BY <1>3, <2>1, <2>2, <2>3, SameSeq DEF s
<1>10. Nodes(stack') = Append(h, c)
  <2> DEFINE s == Append(h, c)
  <2>1. /\ IsSeq(Nodes(stack')) /\ Len(Nodes(stack')) = below
        /\ \A i \in 1 .. below : Nodes(stack')[i] = stack'[i].node
    BY <1>3, <1>6, NodesAre DEF AreConfigs
  <2>2. /\ IsSeq(s) /\ Len(s) = below /\ s[below] = c
        /\ \A i \in 1 .. below - 1 : s[i] = stack[i].node
    <3>1. IsSeq(s) /\ Len(s) = Len(h) + 1 /\ s[Len(h) + 1] = c
          /\ \A i \in 1 .. Len(h) : s[i] = h[i]
      BY <1>7, AppendIs DEF AreConfigs
    <3>2. Len(h) + 1 = below
      BY <1>3, <1>7
    <3> HIDE DEF s
    <3> QED
      BY <1>7, <3>1, <3>2
  <2> HIDE DEF s
  <2>3. ASSUME NEW i \in 1 .. below PROVE Nodes(stack')[i] = s[i]
    <3>1. CASE i = below
      BY <1>3, <2>1, <2>2, <3>1
    <3>2. CASE i # below
      <4>1. i \in 1 .. below - 1
        BY <1>3, <3>2
      <4> QED
        BY <1>3, <2>1, <2>2, <3>2, <4>1
    <3> QED
      BY <3>1, <3>2
  <2> QED
    BY <1>3, <2>1, <2>2, <2>3, SameSeq DEF s
<1>11. FlattenSeq(PackagesOf(Nodes(stack'))) = FlattenSeq(PackagesOf(Nodes(stack)))
  <2> DEFINE x == Items(a, "packages")
             y == Items(b, "packages")
             g == PackagesOf(h)
  <2>1. IsSeq(x) /\ IsSeq(y) /\ AreLists(g)
    BY <1>3, <1>7, ItemsIs, PackagesAre DEF a, b
  <2>2. PackagesOf(Append(h, c)) = Append(g, x \o y)
    BY <1>5, <1>7, PackagesMore
  <2>3. PackagesOf(Append(h, a)) = Append(g, x)
    BY <1>3, <1>4, <1>7, PackagesMore
  <2>4. PackagesOf(Append(Append(h, a), b)) = Append(Append(g, x), y)
    BY <1>3, <1>4, <1>8, <2>3, PackagesMore
  <2> HIDE DEF x, y, g
  <2> QED
    BY <1>9, <1>10, <2>1, <2>2, <2>4, FlattenedTwo
<1>12. Read' = Read
  BY <1>1 DEF Read
<1>13. FlattenSeq(PackagesOf(Nodes(stack'))) = FlattenSeq(PackagesOf(Read'))
  BY <1>1, <1>11, <1>12 DEF PackagesMerged
<1> QED
  BY <1>1, <1>6, <1>13 DEF PackagesMerged, Nodes, PackagesOf

\* A step that leaves the calls and what was read, and the packages of the
\* configuration, leaves what is known of them.
LEMMA PackagesStay ==
  ASSUME PackagesMerged, UNCHANGED <<root, files, visits>>,
         pc' = "includes" => pc = "includes" /\ UNCHANGED stack,
         pc' \in {"validate_included", "templates", "validate_result", "accepted"} =>
           /\ pc \in {"validate_included", "templates", "validate_result", "accepted"}
           /\ HasPlainPackages(config')
           /\ Items(config', "packages") = Items(config, "packages")
  PROVE  PackagesMerged'
<1>1. Read' = Read
  BY DEF Read
<1>2. ASSUME pc' = "includes"
      PROVE  /\ \A i \in DOMAIN stack' : HasPlainPackages(stack'[i].node)
             /\ FlattenSeq(PackagesOf(Nodes(stack'))) = FlattenSeq(PackagesOf(Read'))
  BY <1>1, <1>2 DEF PackagesMerged
<1>3. ASSUME pc' \in {"validate_included", "templates", "validate_result", "accepted"}
      PROVE  Items(config', "packages") = FlattenSeq(PackagesOf(Read'))
  BY <1>1, <1>3 DEF PackagesMerged
<1> QED
  BY <1>2, <1>3 DEF PackagesMerged, Nodes, PackagesOf

\* An include that is passed over leaves the packages of the calls.
LEMMA PackagesOfPop ==
  ASSUME TypeInv, PackagesMerged, pc = "includes", top.todo # <<>>, stack' = Pop,
         UNCHANGED <<root, files, pc, visits>>
  PROVE  PackagesMerged'
<1>1. /\ DOMAIN Pop = DOMAIN stack /\ \A i \in DOMAIN stack : Pop[i].node = stack[i].node
  BY PopIs DEF TypeInv
<1>2. Nodes(stack') = Nodes(stack) /\ Read' = Read
  <2>1. Nodes(stack') = Nodes(stack)
    BY <1>1 DEF Nodes
  <2> QED
    BY <2>1 DEF Read
<1>3. \A i \in DOMAIN stack' : HasPlainPackages(stack'[i].node)
  BY <1>1 DEF PackagesMerged
<1>4. FlattenSeq(PackagesOf(Nodes(stack'))) = FlattenSeq(PackagesOf(Read'))
  BY <1>2 DEF PackagesMerged
<1> QED
  BY <1>3, <1>4 DEF PackagesMerged, Nodes, PackagesOf

\* A step leaves the packages in the order of the files.
LEMMA PackagesStep ==
  ASSUME TreesAsWritten, PackagesArePlain
  PROVE  InOrderInv /\ [Next]_vars => PackagesMerged'
<1> SUFFICES ASSUME TypeInv, Visiting, PackagesMerged, [Next]_vars PROVE PackagesMerged'
  BY DEF InOrderInv, CompleteInv
<1>0. Calls /\ Paths /\ Merging /\ IsSeq(stack)
  BY DEF TypeInv, Calls
<1>1. CASE CheckVersion
  <2>1. UNCHANGED <<root, files, visits>> /\ pc' \in {"validate", "rejected"}
    BY <1>1 DEF CheckVersion, input
  <2> QED
    BY <2>1, PackagesStay
<1>2. CASE Invalid
  <2>1. UNCHANGED <<root, files, visits>> /\ pc' = "rejected"
    BY <1>2 DEF Invalid, input
  <2> QED
    BY <2>1, PackagesStay
<1>3. CASE Valid
  <2>1. pc = "validate" /\ pc' = "includes" /\ stack' = <<Frame("", root, {})>>
        /\ UNCHANGED <<root, files, visits>>
    BY <1>3 DEF Valid, input
  <2>2. IsConfig(root) /\ HasPlainPackages(root)
    BY <1>0, FilesAssumption DEF Paths, PackagesArePlain
  <2>3. PICK c : c = Wrap(root)
    OBVIOUS
  <2>4. IsConfig(c) /\ HasPlainPackages(c) /\ Items(c, "packages") = Items(root, "packages")
    BY <2>2, <2>3, PackagesKept, WrapIs
  <2>5. DOMAIN stack' = {1} /\ stack'[1].node = c
    BY <2>1, <2>3, OneIs DEF Frame
  <2>6. Nodes(stack') = <<c>>
    BY <2>5 DEF Nodes
  <2>7. Read' = <<root>>
    <3>1. IsSeq(Read) /\ Len(Read) = Len(visits) + 1 /\ Read[1] = root /\ Len(visits) = 0
      BY <2>1, ReadIs DEF Visiting
    <3>2. IsSeq(<<root>>) /\ Len(<<root>>) = 1 /\ <<root>>[1] = root
      BY OneIs
    <3>3. \A i \in 1 .. Len(Read) : Read[i] = <<root>>[i]
      BY <3>1, <3>2
    <3>4. Read = <<root>>
      BY <3>1, <3>2, <3>3, SameSeq
    <3> QED
      BY <2>1, <3>4 DEF Read
  <2>8. FlattenSeq(PackagesOf(Nodes(stack'))) = FlattenSeq(PackagesOf(Read'))
    BY <2>2, <2>4, <2>6, <2>7, PackagesOfOne
  <2> QED
    BY <2>1, <2>4, <2>5, <2>8 DEF PackagesMerged, Nodes, PackagesOf
<1>4. CASE IncludeNotFound
  <2>1. pc = "includes" /\ top.todo # <<>> /\ stack' = Pop /\ UNCHANGED <<root, files, pc, visits>>
    BY <1>4 DEF IncludeNotFound, input
  <2> QED
    BY <2>1, PackagesOfPop
<1>5. CASE IncludeAgain
  <2>1. pc = "includes" /\ top.todo # <<>> /\ stack' = Pop /\ UNCHANGED <<root, files, pc, visits>>
    BY <1>5 DEF IncludeAgain, input
  <2> QED
    BY <2>1, PackagesOfPop
<1>6. CASE IncludeFile
  BY <1>6, PackagesOfRead
<1>7. CASE IncludeReturn
  BY <1>7, PackagesOfReturn
<1>8. CASE IncludesDone
  <2>1. /\ pc = "includes" /\ Len(stack) = 1 /\ pc' = "validate_included" /\ config' = top.node
        /\ UNCHANGED <<root, files, visits>>
    BY <1>8 DEF IncludesDone, input
  <2>2. PICK c : c = top.node
    OBVIOUS
  <2>3. DOMAIN stack = 1 .. 1 /\ stack[1].node = c /\ IsConfig(c) /\ HasPlainPackages(c)
    <3>1. DOMAIN stack = 1 .. 1 /\ stack # <<>>
      BY <1>0, <2>1, SeqParts
    <3>2. top = stack[1]
      BY <1>0, <2>1, <3>1, FrontIs DEF top
    <3> QED
      BY <1>0, <2>1, <2>2, <3>1, <3>2 DEF PackagesMerged, Calls, IsFrame
  <2>4. Nodes(stack) = <<c>>
    BY <2>3 DEF Nodes
  <2>5. Items(c, "packages") = FlattenSeq(PackagesOf(Read))
    BY <2>1, <2>3, <2>4, PackagesOfOne DEF PackagesMerged
  <2>6. Items(config', "packages") = FlattenSeq(PackagesOf(Read'))
    <3>1. Read' = Read
      BY <2>1 DEF Read
    <3> QED
      BY <2>1, <2>2, <2>5, <3>1
  <2> QED
    BY <2>1, <2>2, <2>3, <2>6 DEF PackagesMerged, PackagesOf
<1>9. CASE ValidIncluded
  <2>1. pc = "validate_included" /\ pc' = "templates" /\ config' = Wrap(config)
        /\ UNCHANGED <<root, files, visits>>
    BY <1>9 DEF ValidIncluded, input
  <2>2. IsConfig(config) /\ HasPlainPackages(config)
    BY <1>0, <2>1 DEF Merging, PackagesMerged
  <2> QED
    BY <2>1, <2>2, PackagesKept, PackagesStay
<1>10. CASE TemplateNotFound
  <2>1. pc = "templates" /\ UNCHANGED <<root, files, pc, config, visits>>
    BY <1>10 DEF TemplateNotFound, input
  <2>2. HasPlainPackages(config)
    BY <2>1 DEF PackagesMerged
  <2> QED
    BY <2>1, <2>2, PackagesStay
<1>11. CASE MergeTemplate
  <2>1. pc = "templates" /\ (\E t : config' = SetTarget(t)) /\ UNCHANGED <<root, files, pc, visits>>
    BY <1>11 DEF MergeTemplate, input
  <2>2. IsConfig(config) /\ HasPlainPackages(config)
    BY <1>0, <2>1 DEF Merging, PackagesMerged
  <2>3. HasPlainPackages(config') /\ Items(config', "packages") = Items(config, "packages")
    BY <2>1, <2>2, PackagesKept
  <2> QED
    BY <2>1, <2>3, PackagesStay
<1>12. CASE TargetDone
  <2>1. pc = "templates" /\ (\E t : config' = SetTarget(t)) /\ UNCHANGED <<root, files, pc, visits>>
    BY <1>12 DEF TargetDone, input
  <2>2. IsConfig(config) /\ HasPlainPackages(config)
    BY <1>0, <2>1 DEF Merging, PackagesMerged
  <2>3. HasPlainPackages(config') /\ Items(config', "packages") = Items(config, "packages")
    BY <2>1, <2>2, PackagesKept
  <2> QED
    BY <2>1, <2>3, PackagesStay
<1>13. CASE TemplatesDone
  <2>1. pc = "templates" /\ pc' = "validate_result" /\ config' = trim_attributes(config)
        /\ UNCHANGED <<root, files, visits>>
    BY <1>13 DEF TemplatesDone, input
  <2>2. IsConfig(config) /\ HasPlainPackages(config)
    BY <1>0, <2>1 DEF Merging, PackagesMerged
  <2> QED
    BY <2>1, <2>2, PackagesKept, PackagesStay
<1>14. CASE ValidResult
  <2>1. /\ pc = "validate_result"
        /\ \/ pc' = "accepted" /\ config' = Wrap(config)
           \/ pc' = "rejected"
        /\ UNCHANGED <<root, files, visits>>
    BY <1>14 DEF ValidResult, input
  <2>2. IsConfig(config) /\ HasPlainPackages(config)
    BY <1>0, <2>1 DEF Merging, PackagesMerged
  <2> QED
    BY <2>1, <2>2, PackagesKept, PackagesStay
<1>15. CASE UNCHANGED vars
  <2>1. UNCHANGED <<root, files, pc, stack, config, visits>>
    BY <1>15 DEF vars, input
  <2>2. pc \in {"validate_included", "templates", "validate_result", "accepted"} =>
          HasPlainPackages(config)
    BY DEF PackagesMerged
  <2> QED
    BY <2>1, <2>2, PackagesStay
<1> QED
  BY <1>1, <1>2, <1>3, <1>4, <1>5, <1>6, <1>7, <1>8, <1>9, <1>10, <1>11, <1>12, <1>13,
     <1>14, <1>15 DEF Next

\* Lists of included files follow those of the file that includes them, for all
\* files whose packages are lists without attribute.
THEOREM IncludedPackagesInOrder ==
  ASSUME TreesAsWritten, PackagesArePlain PROVE Spec => []PackagesInOrder
<1>1. Init => InOrderInv
  BY CompleteInit DEF Init, InOrderInv, PackagesMerged
<1>2. InOrderInv /\ [Next]_vars => InOrderInv'
  BY CompleteStep, PackagesStep DEF InOrderInv
<1>3. InOrderInv => PackagesInOrder
  BY DEF InOrderInv, PackagesMerged, PackagesInOrder, PackagesOf, Accepted
<1> QED
  BY <1>1, <1>2, <1>3, PTL DEF Spec

-----------------------------------------------------------------------------
\* Settings.

\* Whether a configuration gives a setting, its value and its attribute.
Gives(node, s) == Has(At(node, "settings"), s)
Value(node, s) == node_find(At(node, "settings"), s).node
Attr(node, s)  == node_find(At(node, "settings"), s).attr

\* What merging makes of a setting, in a map of them.
MapMerged(m, from, to) ==
  \A s :
    /\ s \in Names(m) <=> s \in Names(from) \/ s \in Names(to)
    /\ s \in Names(to) /\ node_find(to, s).attr = "REPLACE" =>
         node_find(m, s).node = node_find(to, s).node /\ node_find(m, s).attr = "REPLACE"
    /\ s \in Names(m) /\ ~ (s \in Names(to) /\ node_find(to, s).attr = "REPLACE") =>
         node_find(m, s).attr # "REPLACE"
    /\ s \in Names(from) /\ ~ (s \in Names(to) /\ node_find(to, s).attr = "REPLACE") =>
         node_find(m, s).node = node_find(from, s).node
    /\ s \in Names(to) /\ s \notin Names(from) => node_find(m, s).node = node_find(to, s).node

\* Settings that are merged override those that have no REPLACE.
LEMMA PlainMapsMerged ==
  ASSUME TreesAsWritten, NEW from, PlainMap(from, {""}), NEW attrs, "" \in attrs,
         NEW to, PlainMap(to, attrs)
  PROVE  PlainMap(merge(from, to), attrs) /\ MapMerged(merge(from, to), from, to)
<1> DEFINE m == merge(from, to)
<1>1. IsMap(from) /\ IsMap(to) /\ MergedByKey(m, from, to)
  BY MergedIs DEF PlainMap
<1> HIDE DEF m
<1>2. DOMAIN m.of = DOMAIN to.of \cup {<<name, "">> : name \in Names(from) \ Names(to)} /\ IsMap(m)
  BY <1>1 DEF MergedByKey
<1>3. ASSUME NEW key \in DOMAIN to.of
      PROVE  /\ key[1] \notin Names(from) \/ key[2] = "REPLACE" => m.of[key] = to.of[key]
             /\ \A f \in DOMAIN from.of :
                  f[1] = key[1] /\ key[2] # "REPLACE" => m.of[key] = from.of[f]
  <2>1. key[1] \notin Names(from) => m.of[key] = to.of[key]
    BY <1>1 DEF MergedByKey
  <2>2. key[1] \in Names(from) => \E f \in DOMAIN from.of : f[1] = key[1]
    BY DEF Names
  <2>3. ASSUME NEW f \in DOMAIN from.of, f[1] = key[1]
        PROVE  m.of[key] = IF key[2] = "REPLACE" THEN to.of[key] ELSE from.of[f]
    <3>1. IsScalar(from.of[f])
      BY DEF PlainMap
    <3>2. clone(from.of[f]) = from.of[f] /\ \A v : merge(from.of[f], v) = from.of[f]
      BY <3>1, ScalarIs
    <3>3. PICK v : v = IF to.of[key] = Undefined THEN Null ELSE to.of[key]
      OBVIOUS
    <3>4. m.of[key] = IF key[2] = "REPLACE" THEN to.of[key]
                      ELSE IF f[2] = "REPLACE" THEN clone(from.of[f]) ELSE merge(from.of[f], v)
      BY <1>1, <2>3, <3>3 DEF MergedByKey
    <3> QED
      BY <3>2, <3>4
  <2> QED
    BY <2>1, <2>2, <2>3
<1>4. ASSUME NEW f \in DOMAIN from.of, f[1] \notin Names(to)
      PROVE  <<f[1], "">> \in DOMAIN m.of /\ m.of[<<f[1], "">>] = from.of[f]
  <2>1. IsScalar(from.of[f]) /\ f[1] \in Names(from)
    BY <1>1, FindIs DEF PlainMap
  <2>2. clone(from.of[f]) = from.of[f] /\ merge(from.of[f], Null) = from.of[f]
    BY <2>1, ScalarIs
  <2> QED
    BY <1>1, <1>2, <1>4, <2>1, <2>2 DEF MergedByKey
<1>5. ASSUME NEW key \in DOMAIN m.of, key \notin DOMAIN to.of
      PROVE  /\ key[2] = "" /\ key[1] \notin Names(to)
             /\ \E f \in DOMAIN from.of : f[1] = key[1] /\ m.of[key] = from.of[f]
  <2>1. PICK name \in Names(from) \ Names(to) : key = <<name, "">>
    BY <1>2, <1>5
  <2>2. PICK f \in DOMAIN from.of : f[1] = name
    BY <2>1 DEF Names
  <2> QED
    BY <1>4, <2>1, <2>2
<1>6. PlainMap(m, attrs)
  <2> SUFFICES ASSUME NEW key \in DOMAIN m.of PROVE key[2] \in attrs /\ IsScalar(m.of[key])
    BY <1>2 DEF PlainMap
  <2>1. CASE key \in DOMAIN to.of
    <3>1. m.of[key] = to.of[key] \/ \E f \in DOMAIN from.of : m.of[key] = from.of[f]
      BY <1>3, <2>1 DEF Names
    <3> QED
      BY <2>1, <3>1 DEF PlainMap
  <2>2. CASE key \notin DOMAIN to.of
    BY <1>5, <2>2 DEF PlainMap
  <2> QED
    BY <2>1, <2>2
<1>7. ASSUME NEW s, NEW key \in DOMAIN to.of, key[1] = s
      PROVE  /\ s \in Names(m) /\ s \in Names(to)
             /\ node_find(to, s).attr = key[2] /\ node_find(to, s).node = to.of[key]
             /\ node_find(m, s).attr = key[2] /\ node_find(m, s).node = m.of[key]
  <2>1. key \in DOMAIN m.of
    BY <1>2
  <2>2. s \in Names(m) /\ node_find(m, s).node = m.of[key] /\ node_find(m, s).attr = key[2]
    BY <1>2, <1>7, <2>1, FoundIs
  <2>3. s \in Names(to) /\ node_find(to, s).node = to.of[key] /\ node_find(to, s).attr = key[2]
    BY <1>1, <1>7, FoundIs
  <2> QED
    BY <2>2, <2>3
<1>8. ASSUME NEW s, NEW f \in DOMAIN from.of, f[1] = s
      PROVE  s \in Names(from) /\ node_find(from, s).node = from.of[f]
  BY <1>1, <1>8, FoundIs
<1>9. ASSUME NEW s, s \in Names(from), s \notin Names(to)
      PROVE  /\ s \in Names(m) /\ node_find(m, s).attr = ""
             /\ node_find(m, s).node = node_find(from, s).node
  <2>1. PICK f \in DOMAIN from.of : f[1] = s
    BY <1>9 DEF Names
  <2>2. <<s, "">> \in DOMAIN m.of /\ m.of[<<s, "">>] = from.of[f]
    BY <1>4, <1>9, <2>1
  <2>3. PICK key \in DOMAIN m.of : key = <<s, "">>
    BY <2>2
  <2>4. key[1] = s /\ key[2] = ""
    BY <2>3
  <2>5. key[1] \in Names(m)
    BY <1>2, FoundIs
  <2>6. node_find(m, key[1]).node = m.of[key] /\ node_find(m, key[1]).attr = key[2]
    BY <1>2, FoundIs
  <2> QED
    BY <1>8, <2>1, <2>2, <2>3, <2>4, <2>5, <2>6
<1>10. ASSUME NEW s, s \in Names(m), s \notin Names(to) PROVE s \in Names(from)
  <2>1. PICK key \in DOMAIN m.of : key[1] = s
    BY <1>10 DEF Names
  <2>2. key \notin DOMAIN to.of
    BY <1>7, <1>10, <2>1
  <2> QED
    BY <1>5, <1>8, <2>1, <2>2
<1>11. ASSUME NEW s, s \in Names(to)
       PROVE  /\ s \in Names(m) /\ node_find(m, s).attr = node_find(to, s).attr
              /\ node_find(to, s).attr = "REPLACE" \/ s \notin Names(from) =>
                   node_find(m, s).node = node_find(to, s).node
              /\ node_find(to, s).attr # "REPLACE" /\ s \in Names(from) =>
                   node_find(m, s).node = node_find(from, s).node
  <2>1. PICK key \in DOMAIN to.of : key[1] = s
    BY <1>11 DEF Names
  <2>2. /\ s \in Names(m) /\ s \in Names(to)
        /\ node_find(to, s).attr = key[2] /\ node_find(to, s).node = to.of[key]
        /\ node_find(m, s).attr = key[2] /\ node_find(m, s).node = m.of[key]
    BY <1>7, <2>1
  <2>3. s \notin Names(from) \/ key[2] = "REPLACE" => m.of[key] = to.of[key]
    BY <1>3, <2>1
  <2>4. ASSUME s \in Names(from), key[2] # "REPLACE"
        PROVE  m.of[key] = node_find(from, s).node
    <3>1. PICK f \in DOMAIN from.of : f[1] = s
      BY <2>4 DEF Names
    <3>2. m.of[key] = from.of[f]
      BY <1>3, <2>1, <2>4, <3>1
    <3>3. node_find(from, s).node = from.of[f]
      BY <1>8, <3>1
    <3> QED
      BY <3>2, <3>3
  <2> QED
    BY <2>2, <2>3, <2>4
<1>12. MapMerged(m, from, to)
  <2>1. "" # "REPLACE"
    OBVIOUS
  <2> QED
    BY <1>9, <1>10, <1>11, <2>1 DEF MapMerged
<1> QED
  BY <1>6, <1>12 DEF m

\* Settings are looked up, and found, by their names.
LEMMA SettingsKey ==
  ASSUME NEW node, IsConfig(node), NEW attrs, HasPlainSettings(node, attrs)
  PROVE  /\ \A key \in DOMAIN node.of : key[1] = "settings" => key = SKey
         /\ "settings" \in Names(node) <=> SKey \in DOMAIN node.of
         /\ SKey[1] = "settings" /\ SKey[2] = ""
         /\ SKey \in DOMAIN node.of =>
              /\ At(node, "settings") = node.of[SKey] /\ PlainMap(node.of[SKey], attrs)
              /\ node.of[SKey].kind = "map" /\ \A s : Gives(node, s) <=> s \in Names(node.of[SKey])
         /\ SKey \notin DOMAIN node.of => At(node, "settings") = Undefined /\ \A s : ~ Gives(node, s)
<1>1. IsMap(node) /\ SKey[1] = "settings" /\ SKey[2] = ""
  BY DEF IsConfig, SKey
<1>2. ASSUME NEW key \in DOMAIN node.of, key[1] = "settings" PROVE key = SKey
  <2>1. key = <<key[1], key[2]>> /\ key[2] = ""
    BY <1>1, <1>2 DEF IsMap, AreKeys, HasPlainSettings
  <2> QED
    BY <1>2, <2>1 DEF SKey
<1>3. "settings" \in Names(node) <=> SKey \in DOMAIN node.of
  BY <1>1, <1>2 DEF Names
<1>4. At(node, "settings") = IF SKey \in DOMAIN node.of THEN node.of[SKey] ELSE Undefined
  BY <1>1, AtIs DEF SKey
<1>5. ASSUME SKey \in DOMAIN node.of
      PROVE  /\ PlainMap(node.of[SKey], attrs) /\ node.of[SKey].kind = "map"
             /\ \A s : Gives(node, s) <=> s \in Names(node.of[SKey])
  <2>1. PlainMap(node.of[SKey], attrs) /\ node.of[SKey].kind = "map"
    BY <1>5, AtIs DEF HasPlainSettings, PlainMap
  <2> QED
    BY <1>4, <1>5, <2>1 DEF Gives, Has
<1>6. ASSUME SKey \notin DOMAIN node.of PROVE \A s : ~ Gives(node, s)
  <2>1. Undefined.kind # "map"
    BY DEF Undefined
  <2> QED
    BY <1>4, <1>6, <2>1 DEF Gives, Has
<1> QED
  BY <1>1, <1>2, <1>3, <1>4, <1>5, <1>6

\* What merging makes of a setting.
SettingsMerge(m, from, to) ==
  \A s :
    /\ Gives(m, s) <=> Gives(from, s) \/ Gives(to, s)
    /\ Gives(to, s) /\ Attr(to, s) = "REPLACE" =>
         Value(m, s) = Value(to, s) /\ Attr(m, s) = "REPLACE"
    /\ Gives(m, s) /\ ~ (Gives(to, s) /\ Attr(to, s) = "REPLACE") => Attr(m, s) # "REPLACE"
    /\ Gives(from, s) /\ ~ (Gives(to, s) /\ Attr(to, s) = "REPLACE") =>
         Value(m, s) = Value(from, s)
    /\ Gives(to, s) /\ ~ Gives(from, s) => Value(m, s) = Value(to, s)

\* The settings of what is merged override the others, unless these have REPLACE.
LEMMA SettingsMerged ==
  ASSUME TreesAsWritten, NEW from, IsConfig(from), HasPlainSettings(from, {""}),
         NEW attrs, "" \in attrs, NEW to, IsConfig(to), HasPlainSettings(to, attrs)
  PROVE  HasPlainSettings(merge(from, to), attrs) /\ SettingsMerge(merge(from, to), from, to)
<1> DEFINE m == merge(from, to)
<1>1. IsConfig(m) /\ MergedByKey(m, from, to)
  BY ConfigMerged, MergedIs DEF IsConfig
<1> HIDE DEF m
<1>2. /\ DOMAIN m.of = DOMAIN to.of \cup {<<name, "">> : name \in Names(from) \ Names(to)}
      /\ \A key \in DOMAIN m.of : key[1] \in {"settings", "project"} => key[2] = ""
      /\ SKey \in DOMAIN m.of <=> SKey \in DOMAIN from.of \/ SKey \in DOMAIN to.of
  <2>1. DOMAIN m.of = DOMAIN to.of \cup {<<name, "">> : name \in Names(from) \ Names(to)}
    BY <1>1 DEF MergedByKey
  <2>2. ASSUME NEW key \in DOMAIN m.of, key \notin DOMAIN to.of
        PROVE  key[2] = "" /\ key[1] \in Names(from) \ Names(to)
    <3>1. PICK name \in Names(from) \ Names(to) : key = <<name, "">>
      BY <2>1, <2>2
    <3> QED
      BY <3>1
  <2>3. \A key \in DOMAIN m.of : key[1] \in {"settings", "project"} => key[2] = ""
    BY <2>2 DEF HasPlainSettings
  <2>4. SKey \in DOMAIN m.of => SKey \in DOMAIN from.of \/ SKey \in DOMAIN to.of
    BY <2>2, SettingsKey
  <2>5. ASSUME SKey \in DOMAIN from.of, SKey \notin DOMAIN to.of PROVE SKey \in DOMAIN m.of
    <3>1. "settings" \in Names(from) \ Names(to)
      BY <2>5, SettingsKey
    <3> QED
      BY <2>1, <3>1 DEF SKey
  <2> QED
    BY <2>1, <2>3, <2>4, <2>5
<1>3. CASE SKey \in DOMAIN from.of /\ SKey \in DOMAIN to.of
  <2> DEFINE f == from.of[SKey]
             t == to.of[SKey]
  <2>1. /\ PlainMap(f, {""}) /\ PlainMap(t, attrs) /\ t.kind = "map" /\ SKey[1] = "settings"
        /\ SKey[2] # "REPLACE" /\ At(from, "settings") = f /\ At(to, "settings") = t
    BY <1>3, SettingsKey
  <2>2. m.of[SKey] = merge(f, t)
    <3>1. t # Undefined
      <4>1. Undefined.kind # "map"
        BY DEF Undefined
      <4> HIDE DEF t
      <4> QED
        BY <2>1, <4>1
    <3> QED
      BY <1>1, <1>3, <2>1, <3>1 DEF MergedByKey
  <2> HIDE DEF f, t
  <2>3. PlainMap(m.of[SKey], attrs) /\ MapMerged(m.of[SKey], f, t)
    BY <2>1, <2>2, PlainMapsMerged
  <2>4. HasPlainSettings(m, attrs)
    BY <1>2, <2>3 DEF HasPlainSettings
  <2>5. At(m, "settings") = m.of[SKey] /\ \A s : Gives(m, s) <=> s \in Names(m.of[SKey])
    BY <1>1, <1>2, <1>3, <2>4, SettingsKey
  <2>6. \A s : (Gives(from, s) <=> s \in Names(f)) /\ (Gives(to, s) <=> s \in Names(t))
    BY <1>3, SettingsKey DEF f, t
  <2>7. SettingsMerge(m, from, to)
    BY <2>1, <2>3, <2>5, <2>6 DEF MapMerged, SettingsMerge, Value, Attr
  <2> QED
    BY <2>4, <2>7 DEF m
<1>4. CASE SKey \notin DOMAIN from.of
  <2>1. "settings" \notin Names(from) /\ SKey[1] = "settings" /\ \A s : ~ Gives(from, s)
    BY <1>4, SettingsKey
  <2>2. SKey \in DOMAIN to.of => m.of[SKey] = to.of[SKey]
    BY <1>1, <2>1 DEF MergedByKey
  <2>3. HasPlainSettings(m, attrs)
    BY <1>2, <1>4, <2>2 DEF HasPlainSettings
  <2>4. At(m, "settings") = At(to, "settings")
    BY <1>1, <1>2, <1>4, <2>2, <2>3, SettingsKey
  <2>5. SettingsMerge(m, from, to)
    BY <2>1, <2>4 DEF SettingsMerge, Gives, Value, Attr
  <2> QED
    BY <2>3, <2>5 DEF m
<1>5. CASE SKey \in DOMAIN from.of /\ SKey \notin DOMAIN to.of
  <2>1. /\ "settings" \notin Names(to) /\ SKey[1] = "settings" /\ SKey[2] # "REPLACE"
        /\ (\A s : ~ Gives(to, s)) /\ PlainMap(from.of[SKey], {""})
    BY <1>5, SettingsKey
  <2>2. m.of[SKey] = from.of[SKey]
    <3>1. m.of[<<SKey[1], "">>] = merge(from.of[SKey], Null)
      BY <1>1, <1>5, <2>1 DEF MergedByKey
    <3>2. <<SKey[1], "">> = SKey
      BY DEF SKey
    <3> QED
      BY <2>1, <3>1, <3>2, PlainMapCloned
  <2>3. HasPlainSettings(m, attrs)
    BY <1>2, <2>1, <2>2 DEF HasPlainSettings, PlainMap
  <2>4. At(m, "settings") = At(from, "settings")
    <3>1. At(m, "settings") = m.of[SKey]
      BY <1>1, <1>2, <1>5, <2>3, SettingsKey
    <3>2. At(from, "settings") = from.of[SKey]
      BY <1>5, SettingsKey
    <3> QED
      BY <2>2, <3>1, <3>2
  <2>5. \A s : Gives(from, s) => Attr(from, s) = ""
    <3> SUFFICES ASSUME NEW s, Gives(from, s) PROVE Attr(from, s) = ""
      OBVIOUS
    <3>1. s \in Names(from.of[SKey]) /\ At(from, "settings") = from.of[SKey]
      BY <1>5, SettingsKey
    <3>2. PICK key \in DOMAIN from.of[SKey].of : key[1] = s
      BY <3>1 DEF Names
    <3>3. node_find(from.of[SKey], s).attr = key[2] /\ key[2] = ""
      BY <2>1, <3>2, FoundIs DEF PlainMap
    <3> QED
      BY <3>1, <3>3 DEF Attr
  <2>6. SettingsMerge(m, from, to)
    <3>1. \A s : Gives(m, s) <=> Gives(from, s)
      BY <2>4 DEF Gives
    <3>2. \A s : Value(m, s) = Value(from, s) /\ Attr(m, s) = Attr(from, s)
      BY <2>4 DEF Value, Attr
    <3>3. "" # "REPLACE"
      OBVIOUS
    <3> QED
      BY <2>1, <2>5, <3>1, <3>2, <3>3 DEF SettingsMerge
  <2> QED
    BY <2>3, <2>6 DEF m
<1> QED
  BY <1>3, <1>4, <1>5

\* Replacing parameters leaves a map of scalars.
LEMMA SettingsReplaced ==
  ASSUME TreesAsWritten, NEW node, IsConfig(node), NEW attrs, HasPlainSettings(node, attrs),
         NEW params
  PROVE  HasPlainSettings(replace_parameters(node, params), attrs)
<1> DEFINE r == replace_parameters(node, params)
<1>1. /\ IsConfig(r) /\ DOMAIN r.of = DOMAIN node.of
      /\ \A key \in DOMAIN node.of : r.of[key] = replace_parameters(node.of[key], params)
  BY ReplacedIs
<1> HIDE DEF r
<1>2. ASSUME SKey \in DOMAIN node.of PROVE PlainMap(r.of[SKey], attrs)
  <2> DEFINE map == node.of[SKey]
             g == [key \in DOMAIN map.of |-> replace_parameters(map.of[key], params)]
  <2>1. PlainMap(map, attrs) /\ map.kind = "map"
    BY <1>2, SettingsKey
  <2>2. r.of[SKey] = Map(g)
    <3>1. r.of[SKey] = ReplacedNode(map, params, replace_parameters)
      BY <1>1, <1>2 DEF TreesAsWritten
    <3> QED
      BY <2>1, <3>1 DEF ReplacedNode
  <2> HIDE DEF map
  <2>3. \A key \in DOMAIN map.of : key[2] \in attrs /\ IsScalar(g[key])
    BY <2>1, ScalarIs DEF PlainMap
  <2>4. g = [key \in DOMAIN map.of |-> g[key]] /\ AreKeys(DOMAIN map.of)
    BY <2>1 DEF PlainMap, IsMap
  <2> HIDE DEF g
  <2>5. IsMap(Map(g)) /\ Map(g).of = g /\ DOMAIN g = DOMAIN map.of
    BY <2>4, MapIs
  <2> QED
    BY <2>2, <2>3, <2>5 DEF PlainMap
<1>3. HasPlainSettings(r, attrs)
  BY <1>1, <1>2 DEF HasPlainSettings
<1> QED
  BY <1>3 DEF r

\* What leaves the map of settings leaves the settings.
LEMMA SameSettings ==
  ASSUME NEW attrs, NEW a, IsConfig(a), HasPlainSettings(a, attrs), NEW b, IsConfig(b),
         \A key \in DOMAIN b.of : key \in DOMAIN a.of,
         SKey \in DOMAIN a.of => SKey \in DOMAIN b.of /\ b.of[SKey] = a.of[SKey]
  PROVE  HasPlainSettings(b, attrs) /\ At(b, "settings") = At(a, "settings")
<1>1. HasPlainSettings(b, attrs)
  BY DEF HasPlainSettings
<1>2. At(b, "settings") = At(a, "settings")
  BY <1>1, SettingsKey
<1> QED
  BY <1>1, <1>2

\* The project of cgen.yml, and no other.
Project == <<"project", "">>

\* Wrapping, ignoring the rest and setting a target leave the settings; the
\* rest has no project.
LEMMA SettingsKept ==
  ASSUME NEW attrs, NEW node, IsConfig(node), HasPlainSettings(node, attrs)
  PROVE  /\ HasPlainSettings(Wrap(node), attrs) /\ At(Wrap(node), "settings") = At(node, "settings")
         /\ HasPlainSettings(Ignored(node), attrs)
         /\ At(Ignored(node), "settings") = At(node, "settings")
         /\ config = node =>
              \A t : /\ HasPlainSettings(SetTarget(t), attrs)
                     /\ At(SetTarget(t), "settings") = At(node, "settings")
                     /\ At(SetTarget(t), "project") = At(node, "project")
         /\ At(Wrap(node), "project") = At(node, "project")
         /\ "project" \notin Names(Ignored(node))
<1>0. /\ SKey # <<"templates", "">> /\ SKey # <<"targets", "">>
      /\ SKey \notin {<<name, "">> : name \in {"version", "project", "includes"}}
      /\ Project # <<"templates", "">> /\ Project # <<"targets", "">>
      /\ Project \in {<<name, "">> : name \in {"version", "project", "includes"}}
  BY DEF SKey, Project
<1>1. IsConfig(Wrap(node)) /\ DOMAIN Wrap(node).of = DOMAIN node.of
      /\ (SKey \in DOMAIN node.of => Wrap(node).of[SKey] = node.of[SKey])
      /\ (Project \in DOMAIN node.of => Wrap(node).of[Project] = node.of[Project])
  BY <1>0, WrapIs
<1>2. HasPlainSettings(Wrap(node), attrs) /\ At(Wrap(node), "settings") = At(node, "settings")
  BY <1>1, SameSettings
<1>3. At(Wrap(node), "project") = At(node, "project")
  <2>1. IsMap(Wrap(node)) /\ IsMap(node)
    BY <1>1 DEF IsConfig
  <2> QED
    BY <1>1, <2>1, AtIs DEF Project
<1>4. HasPlainSettings(Ignored(node), attrs) /\ At(Ignored(node), "settings") = At(node, "settings")
  <2>1. IsConfig(Ignored(node)) /\ (\A key \in DOMAIN Ignored(node).of : key \in DOMAIN node.of)
        /\ (SKey \in DOMAIN node.of => SKey \in DOMAIN Ignored(node).of
                                    /\ Ignored(node).of[SKey] = node.of[SKey])
    BY <1>0, IgnoredIs
  <2> QED
    BY <2>1, SameSettings
<1>5. "project" \notin Names(Ignored(node))
  <2> SUFFICES ASSUME NEW key \in DOMAIN Ignored(node).of, key[1] = "project" PROVE FALSE
    BY DEF Names
  <2>1. key \in DOMAIN node.of /\ key # Project
    BY <1>0, IgnoredIs
  <2>2. key = <<key[1], key[2]>> /\ key[2] = ""
    BY <2>1 DEF IsConfig, IsMap, AreKeys, HasPlainSettings
  <2> QED
    BY <2>1, <2>2 DEF Project
<1>6. ASSUME NEW t, config = node
      PROVE  /\ HasPlainSettings(SetTarget(t), attrs)
             /\ At(SetTarget(t), "settings") = At(node, "settings")
             /\ At(SetTarget(t), "project") = At(node, "project")
  <2>1. IsConfig(SetTarget(t)) /\ (\A key : key \in DOMAIN SetTarget(t).of <=> key \in DOMAIN node.of)
        /\ (SKey \in DOMAIN node.of => SetTarget(t).of[SKey] = node.of[SKey])
        /\ (Project \in DOMAIN node.of => SetTarget(t).of[Project] = node.of[Project])
    BY <1>0, <1>6, SetTargetIs
  <2>2. HasPlainSettings(SetTarget(t), attrs) /\ At(SetTarget(t), "settings") = At(node, "settings")
    BY <2>1, SameSettings
  <2>3. IsMap(SetTarget(t)) /\ IsMap(node)
    BY <2>1 DEF IsConfig
  <2>4. At(SetTarget(t), "project") = At(node, "project")
    BY <2>1, <2>3, AtIs DEF Project
  <2> QED
    BY <2>2, <2>4
<1> QED
  BY <1>2, <1>3, <1>4, <1>5, <1>6

\* Trimming leaves what is given, without attributes.
LEMMA SettingsTrimmed ==
  ASSUME TreesAsWritten, NEW attrs, NEW node, IsConfig(node), HasPlainSettings(node, attrs),
         At(node, "project") = Undefined \/ IsPlain(At(node, "project"))
  PROVE  /\ HasPlainSettings(trim_attributes(node), {""})
         /\ At(trim_attributes(node), "project") = At(node, "project")
         /\ \A s : /\ Gives(trim_attributes(node), s) <=> Gives(node, s)
                   /\ Gives(node, s) => Value(trim_attributes(node), s) = Value(node, s)
<1> DEFINE t == trim_attributes(node)
<1>1. /\ IsConfig(t) /\ DOMAIN t.of = {<<name, "">> : name \in Names(node)}
      /\ \A key \in DOMAIN node.of : t.of[<<key[1], "">>] = trim_attributes(node.of[key])
  BY TrimIs
<1> HIDE DEF t
<1>2. \A key \in DOMAIN t.of : key[2] = ""
  <2> SUFFICES ASSUME NEW key \in DOMAIN t.of PROVE key[2] = ""
    OBVIOUS
  <2>1. PICK name \in Names(node) : key = <<name, "">>
    BY <1>1
  <2> QED
    BY <2>1
<1>3. ASSUME NEW name, name \in {"settings", "project"}, NEW key, key = <<name, "">>
      PROVE  /\ key \in DOMAIN t.of <=> key \in DOMAIN node.of
             /\ key \in DOMAIN node.of => t.of[key] = trim_attributes(node.of[key])
  <2>1. key[1] = name /\ key = <<key[1], "">>
    BY <1>3
  <2>2. ASSUME NEW k \in DOMAIN node.of, k[1] = name PROVE k = key
    <3>1. k = <<k[1], k[2]>> /\ k[2] = ""
      BY <1>3, <2>2 DEF IsConfig, IsMap, AreKeys, HasPlainSettings
    <3> QED
      BY <1>3, <2>2, <3>1
  <2>3. name \in Names(node) <=> key \in DOMAIN node.of
    BY <2>1, <2>2 DEF Names
  <2>4. key \in DOMAIN t.of <=> name \in Names(node)
    <3>1. ASSUME NEW n \in Names(node), key = <<n, "">> PROVE name \in Names(node)
      BY <2>1, <3>1
    <3> QED
      BY <1>1, <1>3, <3>1
  <2>5. key \in DOMAIN node.of => t.of[key] = trim_attributes(node.of[key])
    BY <1>1, <2>1
  <2> QED
    BY <2>3, <2>4, <2>5
<1>4. At(t, "project") = At(node, "project")
  <2>1. /\ Project \in DOMAIN t.of <=> Project \in DOMAIN node.of
        /\ Project \in DOMAIN node.of => t.of[Project] = node.of[Project]
    <3>1. PICK name : name = "project"
      OBVIOUS
    <3>2. Project = <<name, "">>
      BY <3>1 DEF Project
    <3>3. trim_attributes(At(node, "project")) = At(node, "project")
      <4>1. Undefined.kind # "map"
        BY DEF Undefined
      <4> QED
        BY <4>1, PlainIs, TrimIs
    <3>4. Project \in DOMAIN node.of => At(node, "project") = node.of[Project]
      BY AtIs DEF Project, IsConfig
    <3> QED
      BY <1>3, <3>1, <3>2, <3>3, <3>4
  <2>2. IsMap(t) /\ IsMap(node)
    BY <1>1 DEF IsConfig
  <2> QED
    BY <2>1, <2>2, AtIs DEF Project
<1>5. /\ SKey \in DOMAIN t.of <=> SKey \in DOMAIN node.of
      /\ SKey \in DOMAIN node.of => t.of[SKey] = trim_attributes(node.of[SKey])
  <2>1. PICK name : name = "settings"
    OBVIOUS
  <2>2. SKey = <<name, "">>
    BY <2>1 DEF SKey
  <2> QED
    BY <1>3, <2>1, <2>2
<1>6. ASSUME SKey \in DOMAIN node.of
      PROVE  /\ PlainMap(t.of[SKey], {""}) /\ Names(t.of[SKey]) = Names(node.of[SKey])
             /\ \A s \in Names(node.of[SKey]) :
                  node_find(t.of[SKey], s).node = node_find(node.of[SKey], s).node
  <2> DEFINE map == node.of[SKey]
             D == {<<name, "">> : name \in Names(map)}
             g == [key \in D |-> trim_attributes(node_find(map, key[1]).node)]
  <2>1. PlainMap(map, attrs) /\ IsMap(map) /\ map.kind = "map"
    BY <1>6, SettingsKey DEF PlainMap
  <2>2. t.of[SKey] = Map(g)
    <3>1. trim_attributes(map) = TrimmedNode(map, trim_attributes)
      BY DEF TreesAsWritten
    <3> QED
      BY <1>5, <1>6, <2>1, <3>1 DEF TrimmedNode
  <2> HIDE DEF map
  <2>3. ASSUME NEW s \in Names(map)
        PROVE  IsScalar(node_find(map, s).node)
               /\ trim_attributes(node_find(map, s).node) = node_find(map, s).node
    <3>1. PICK key \in DOMAIN map.of : key[1] = s
      BY DEF Names
    <3>2. node_find(map, s).node = map.of[key] /\ IsScalar(map.of[key])
      BY <2>1, <3>1, FoundIs DEF PlainMap
    <3> QED
      BY <3>2, ScalarIs
  <2>4. ASSUME NEW key \in D
        PROVE  /\ key = <<key[1], "">> /\ key[2] = "" /\ key[1] \in Names(map)
               /\ g[key] = node_find(map, key[1]).node
    <3>1. PICK name \in Names(map) : key = <<name, "">>
      OBVIOUS
    <3>2. key[1] = name /\ key[2] = ""
      BY <3>1
    <3>3. g[key] = trim_attributes(node_find(map, key[1]).node)
      OBVIOUS
    <3> QED
      BY <2>3, <3>1, <3>2, <3>3
  <2>5. \A name \in Names(map) : <<name, "">> \in D
    OBVIOUS
  <2>6. IsMap(Map(g)) /\ Map(g).of = g /\ DOMAIN g = D
    <3>1. g = [key \in D |-> g[key]]
      OBVIOUS
    <3>2. AreKeys(D)
      BY <2>4 DEF AreKeys
    <3> HIDE DEF D, g
    <3> QED
      BY <3>1, <3>2, MapIs
  <2> HIDE DEF D, g
  <2>7. PlainMap(Map(g), {""})
    BY <2>3, <2>4, <2>6 DEF PlainMap
  <2>8. Names(Map(g)) = Names(map)
    <3>1. ASSUME NEW name \in Names(map) PROVE name \in Names(Map(g))
      <4>1. PICK key \in D : key = <<name, "">>
        BY <2>5
      <4>2. key[1] = name
        BY <4>1
      <4> QED
        BY <2>6, <4>2 DEF Names
    <3>2. \A name \in Names(Map(g)) : name \in Names(map)
      BY <2>4, <2>6 DEF Names
    <3> QED
      BY <3>1, <3>2
  <2>9. ASSUME NEW s \in Names(map) PROVE node_find(Map(g), s).node = node_find(map, s).node
    <3>1. PICK key \in D : key = <<s, "">>
      BY <2>5
    <3>2. key[1] = s /\ key \in DOMAIN Map(g).of
      BY <2>6, <3>1
    <3>3. node_find(Map(g), s).node = g[key]
      BY <2>6, <3>2, FoundIs
    <3> QED
      BY <2>4, <3>2, <3>3
  <2> QED
    BY <2>2, <2>7, <2>8, <2>9 DEF map
<1>7. HasPlainSettings(t, {""})
  BY <1>2, <1>5, <1>6 DEF HasPlainSettings
<1>8. ASSUME NEW s
      PROVE  /\ Gives(t, s) <=> Gives(node, s)
             /\ Gives(node, s) => Value(t, s) = Value(node, s)
  <2>1. CASE SKey \in DOMAIN node.of
    <3>1. At(t, "settings") = t.of[SKey] /\ (Gives(t, s) <=> s \in Names(t.of[SKey]))
      BY <1>1, <1>5, <1>7, <2>1, SettingsKey
    <3>2. At(node, "settings") = node.of[SKey] /\ (Gives(node, s) <=> s \in Names(node.of[SKey]))
      BY <2>1, SettingsKey
    <3> QED
      BY <1>6, <2>1, <3>1, <3>2 DEF Value
  <2>2. CASE SKey \notin DOMAIN node.of
    <3>1. ~ Gives(t, s)
      BY <1>1, <1>5, <1>7, <2>2, SettingsKey
    <3>2. ~ Gives(node, s)
      BY <2>2, SettingsKey
    <3> QED
      BY <3>1, <3>2
  <2> QED
    BY <2>1, <2>2
<1> QED
  BY <1>4, <1>7, <1>8 DEF t

\* What is merged has no project to change that of the other.
LEMMA ProjectMerged ==
  ASSUME TreesAsWritten, NEW from, IsConfig(from), "project" \notin Names(from),
         NEW to, IsConfig(to)
  PROVE  At(merge(from, to), "project") = At(to, "project")
<1> DEFINE m == merge(from, to)
<1>1. IsMap(m) /\ IsMap(to) /\ MergedByKey(m, from, to)
  BY ConfigMerged, MergedIs DEF IsConfig
<1> HIDE DEF m
<1>2. DOMAIN m.of = DOMAIN to.of \cup {<<name, "">> : name \in Names(from) \ Names(to)}
  BY <1>1 DEF MergedByKey
<1>3. Project[1] = "project"
  BY DEF Project
<1>4. Project \in DOMAIN m.of => Project \in DOMAIN to.of
  <2>1. ASSUME NEW name \in Names(from), Project = <<name, "">> PROVE FALSE
    <3>1. Project[1] = name
      BY <2>1
    <3> QED
      BY <1>3, <3>1
  <2> QED
    BY <1>2, <2>1
<1>5. Project \in DOMAIN to.of => Project \in DOMAIN m.of /\ m.of[Project] = to.of[Project]
  BY <1>1, <1>2, <1>3 DEF MergedByKey
<1>6. At(m, "project") = At(to, "project")
  BY <1>1, <1>4, <1>5, AtIs DEF Project
<1> QED
  BY <1>6 DEF m

\* The last of the configurations that gives a setting.
LastGives(cs, s, i) ==
  i \in DOMAIN cs /\ Gives(cs[i], s) /\ \A j \in DOMAIN cs : j > i => ~ Gives(cs[j], s)

\* Whether cgen.yml has a setting with REPLACE.
Replaces(own, s) == Gives(own, s) /\ Attr(own, s) = "REPLACE"

\* The last that gives a setting, of the calls or of the files, gives the same.
Agree(own, cs, ds) ==
  \A s :
    /\ (\E i \in DOMAIN cs : Gives(cs[i], s)) <=> (\E r \in DOMAIN ds : Gives(ds[r], s))
    /\ \A i \in DOMAIN cs, r \in DOMAIN ds :
         LastGives(cs, s, i) /\ LastGives(ds, s, r) =>
           Value(cs[i], s) = Value(ds[r], s) \/ (i = 1 /\ Replaces(own, s))

\* One more on both sides.
LEMMA AgreeMore ==
  ASSUME NEW own, NEW cs, NEW n \in Nat, DOMAIN cs = 1 .. n,
         NEW ds, NEW m \in Nat, DOMAIN ds = 1 .. m, Agree(own, cs, ds),
         NEW c, DOMAIN c = 1 .. n + 1,
         \A i \in 1 .. n : At(c[i], "settings") = At(cs[i], "settings"),
         NEW d, DOMAIN d = 1 .. m + 1,
         \A i \in 1 .. m : At(d[i], "settings") = At(ds[i], "settings"),
         At(c[n + 1], "settings") = At(d[m + 1], "settings")
  PROVE  Agree(own, c, d)
<1> SUFFICES ASSUME NEW s
             PROVE  /\ (\E i \in DOMAIN c : Gives(c[i], s)) <=> (\E r \in DOMAIN d : Gives(d[r], s))
                    /\ \A i \in DOMAIN c, r \in DOMAIN d :
                         LastGives(c, s, i) /\ LastGives(d, s, r) =>
                           Value(c[i], s) = Value(d[r], s) \/ (i = 1 /\ Replaces(own, s))
  BY DEF Agree
<1>1. /\ \A i \in 1 .. n : Gives(c[i], s) = Gives(cs[i], s) /\ Value(c[i], s) = Value(cs[i], s)
      /\ \A i \in 1 .. m : Gives(d[i], s) = Gives(ds[i], s) /\ Value(d[i], s) = Value(ds[i], s)
      /\ Gives(c[n + 1], s) = Gives(d[m + 1], s) /\ Value(c[n + 1], s) = Value(d[m + 1], s)
  BY DEF Gives, Value
<1>2. n + 1 \in DOMAIN c /\ m + 1 \in DOMAIN d /\ DOMAIN cs \subseteq DOMAIN c
      /\ DOMAIN ds \subseteq DOMAIN d
  OBVIOUS
<1>3. (\E i \in DOMAIN c : Gives(c[i], s)) <=> (\E r \in DOMAIN d : Gives(d[r], s))
  <2>1. (\E i \in 1 .. n : Gives(cs[i], s)) <=> (\E r \in 1 .. m : Gives(ds[r], s))
    BY DEF Agree
  <2>2. \A i \in DOMAIN c : i \in 1 .. n \/ i = n + 1
    OBVIOUS
  <2>3. \A i \in DOMAIN d : i \in 1 .. m \/ i = m + 1
    OBVIOUS
  <2> QED
    BY <1>1, <1>2, <2>1, <2>2, <2>3
<1>4. ASSUME NEW i \in DOMAIN c, NEW r \in DOMAIN d, LastGives(c, s, i), LastGives(d, s, r)
      PROVE  Value(c[i], s) = Value(d[r], s) \/ (i = 1 /\ Replaces(own, s))
  <2>1. CASE Gives(c[n + 1], s)
    <3>1. i = n + 1
      BY <1>2, <1>4, <2>1 DEF LastGives
    <3>2. r = m + 1
      <4>1. Gives(d[m + 1], s)
        BY <1>1, <2>1
      <4> QED
        BY <1>2, <1>4, <4>1 DEF LastGives
    <3> QED
      BY <1>1, <3>1, <3>2
  <2>2. CASE ~ Gives(c[n + 1], s)
    <3>1. ~ Gives(d[m + 1], s)
      BY <1>1, <2>2
    <3>2. i \in 1 .. n /\ r \in 1 .. m
      BY <1>4, <2>2, <3>1 DEF LastGives
    <3>3. LastGives(cs, s, i)
      BY <1>1, <1>2, <1>4, <3>2 DEF LastGives
    <3>4. LastGives(ds, s, r)
      BY <1>1, <1>2, <1>4, <3>2 DEF LastGives
    <3>5. Value(cs[i], s) = Value(ds[r], s) \/ (i = 1 /\ Replaces(own, s))
      BY <3>2, <3>3, <3>4 DEF Agree
    <3> QED
      BY <1>1, <3>2, <3>5
  <2> QED
    BY <2>1, <2>2
<1> QED
  BY <1>3, <1>4

\* The last two merged.
LEMMA AgreeBack ==
  ASSUME NEW own, NEW cs, NEW n \in Nat, n >= 1, DOMAIN cs = 1 .. n + 1, NEW ds, Agree(own, cs, ds),
         NEW c, DOMAIN c = 1 .. n, \A i \in 1 .. n : i # n => c[i] = cs[i],
         NEW from, At(from, "settings") = At(cs[n + 1], "settings"),
         SettingsMerge(c[n], from, cs[n]),
         \A s : Gives(cs[n], s) /\ Attr(cs[n], s) = "REPLACE" => n = 1 /\ Replaces(own, s)
  PROVE  Agree(own, c, ds)
<1> SUFFICES ASSUME NEW s
             PROVE  /\ (\E i \in DOMAIN c : Gives(c[i], s)) <=> (\E r \in DOMAIN ds : Gives(ds[r], s))
                    /\ \A i \in DOMAIN c, r \in DOMAIN ds :
                         LastGives(c, s, i) /\ LastGives(ds, s, r) =>
                           Value(c[i], s) = Value(ds[r], s) \/ (i = 1 /\ Replaces(own, s))
  BY DEF Agree
<1>1. Gives(from, s) = Gives(cs[n + 1], s) /\ Value(from, s) = Value(cs[n + 1], s)
  BY DEF Gives, Value
<1>2. n \in DOMAIN c /\ n \in DOMAIN cs /\ n + 1 \in DOMAIN cs /\ DOMAIN c \subseteq DOMAIN cs
  OBVIOUS
<1>3. Gives(c[n], s) <=> Gives(cs[n + 1], s) \/ Gives(cs[n], s)
  BY <1>1 DEF SettingsMerge
<1>4. (\E i \in DOMAIN c : Gives(c[i], s)) <=> (\E i \in DOMAIN cs : Gives(cs[i], s))
  <2>1. \A i \in DOMAIN cs : i = n + 1 \/ i = n \/ (i \in 1 .. n /\ i # n)
    OBVIOUS
  <2>2. \A i \in DOMAIN c : i = n \/ (i \in 1 .. n /\ i # n)
    OBVIOUS
  <2> QED
    BY <1>2, <1>3, <2>1, <2>2
<1>5. ASSUME NEW i \in DOMAIN c, NEW r \in DOMAIN ds, LastGives(c, s, i), LastGives(ds, s, r)
      PROVE  Value(c[i], s) = Value(ds[r], s) \/ (i = 1 /\ Replaces(own, s))
  <2>1. CASE Gives(cs[n + 1], s)
    <3>1. i = n
      BY <1>2, <1>3, <1>5, <2>1 DEF LastGives
    <3>2. LastGives(cs, s, n + 1)
      BY <1>2, <2>1 DEF LastGives
    <3>3. Value(cs[n + 1], s) = Value(ds[r], s)
      <4>1. n + 1 # 1
        OBVIOUS
      <4>2. Value(cs[n + 1], s) = Value(ds[r], s) \/ (n + 1 = 1 /\ Replaces(own, s))
        BY <1>2, <1>5, <3>2 DEF Agree
      <4> QED
        BY <4>1, <4>2
    <3>4. CASE Gives(cs[n], s) /\ Attr(cs[n], s) = "REPLACE"
      BY <3>1, <3>4
    <3>5. CASE ~ (Gives(cs[n], s) /\ Attr(cs[n], s) = "REPLACE")
      BY <1>1, <2>1, <3>1, <3>3, <3>5 DEF SettingsMerge
    <3> QED
      BY <3>4, <3>5
  <2>2. CASE ~ Gives(cs[n + 1], s)
    <3>1. LastGives(cs, s, i) /\ Value(c[i], s) = Value(cs[i], s)
      <4>1. CASE i = n
        <5>1. Gives(cs[n], s) /\ Value(c[n], s) = Value(cs[n], s)
          BY <1>1, <1>3, <1>5, <2>2, <4>1 DEF SettingsMerge, LastGives
        <5> QED
          BY <1>2, <2>2, <4>1, <5>1 DEF LastGives
      <4>2. CASE i # n
        <5>1. Gives(cs[i], s) /\ c[i] = cs[i] /\ i \in DOMAIN cs
          BY <1>2, <1>5, <4>2 DEF LastGives
        <5>2. ASSUME NEW j \in DOMAIN cs, j > i PROVE ~ Gives(cs[j], s)
          <6>1. CASE j = n + 1
            BY <2>2, <6>1
          <6>2. CASE j # n + 1
            <7>1. j \in DOMAIN c
              BY <6>2
            <7>2. ~ Gives(c[j], s)
              BY <1>5, <5>2, <7>1 DEF LastGives
            <7> QED
              BY <1>3, <7>1, <7>2
          <6> QED
            BY <6>1, <6>2
        <5> QED
          BY <5>1, <5>2 DEF LastGives
      <4> QED
        BY <4>1, <4>2
    <3> QED
      BY <1>2, <1>5, <3>1 DEF Agree
  <2> QED
    BY <2>1, <2>2
<1> QED
  BY <1>4, <1>5 DEF Agree

\* The settings of a configuration alone.
LEMMA AgreeOne ==
  ASSUME NEW own, NEW c, NEW d, At(c, "settings") = At(d, "settings")
  PROVE  Agree(own, <<c>>, <<d>>)
<1>1. \A s : Gives(c, s) = Gives(d, s) /\ Value(c, s) = Value(d, s)
  BY DEF Gives, Value
<1>2. DOMAIN <<c>> = {1} /\ DOMAIN <<d>> = {1} /\ <<c>>[1] = c /\ <<d>>[1] = d
  BY OneIs
<1> QED
  BY <1>1, <1>2 DEF Agree, LastGives

\* They stay when what is given and its values do.
LEMMA AgreeSame ==
  ASSUME NEW own, NEW c, NEW ds, Agree(own, <<c>>, ds), NEW d,
         \A s : (Gives(d, s) <=> Gives(c, s)) /\ (Gives(c, s) => Value(d, s) = Value(c, s))
  PROVE  Agree(own, <<d>>, ds)
<1>1. DOMAIN <<c>> = {1} /\ DOMAIN <<d>> = {1} /\ <<c>>[1] = c /\ <<d>>[1] = d
  BY OneIs
<1>2. ASSUME NEW s
      PROVE  /\ (\E i \in DOMAIN <<d>> : Gives(<<d>>[i], s)) <=> (\E r \in DOMAIN ds : Gives(ds[r], s))
             /\ \A i \in DOMAIN <<d>>, r \in DOMAIN ds :
                  LastGives(<<d>>, s, i) /\ LastGives(ds, s, r) =>
                    Value(<<d>>[i], s) = Value(ds[r], s) \/ (i = 1 /\ Replaces(own, s))
  <2>1. (\E i \in DOMAIN <<d>> : Gives(<<d>>[i], s)) <=> (\E i \in DOMAIN <<c>> : Gives(<<c>>[i], s))
    BY <1>1
  <2>2. ASSUME NEW r \in DOMAIN ds, LastGives(<<d>>, s, 1), LastGives(ds, s, r)
        PROVE  Value(d, s) = Value(ds[r], s) \/ Replaces(own, s)
    <3>1. Gives(d, s) /\ Gives(c, s) /\ LastGives(<<c>>, s, 1)
      BY <1>1, <2>2 DEF LastGives
    <3> QED
      BY <1>1, <2>2, <3>1 DEF Agree
  <2> QED
    BY <1>1, <2>1, <2>2 DEF Agree
<1> QED
  BY <1>2 DEF Agree

\* A setting has an attribute that it may have.
LEMMA AttrIn ==
  ASSUME NEW node, IsConfig(node), NEW attrs, HasPlainSettings(node, attrs), NEW s, Gives(node, s)
  PROVE  /\ Attr(node, s) \in attrs
         /\ Attr(node, s) = "" => At(At(node, "settings"), s) = Value(node, s)
<1>1. SKey \in DOMAIN node.of
  BY SettingsKey
<1> DEFINE map == At(node, "settings")
<1>2. PlainMap(map, attrs) /\ s \in Names(map)
  BY <1>1, SettingsKey
<1> HIDE DEF map
<1>3. PICK key \in DOMAIN map.of : key[1] = s
  BY <1>2 DEF Names
<1>4. node_find(map, s).node = map.of[key] /\ node_find(map, s).attr = key[2] /\ key[2] \in attrs
  BY <1>2, <1>3, FoundIs DEF PlainMap
<1>5. key[2] = "" => At(map, s) = map.of[key]
  <2>1. key = <<key[1], key[2]>> /\ IsMap(map)
    BY <1>2 DEF PlainMap, IsMap, AreKeys
  <2> QED
    BY <1>3, <2>1, AtIs
<1> QED
  BY <1>4, <1>5 DEF Attr, Value, map

\* What a configuration has from cgen.yml: its project, and what it has with
\* REPLACE, and no other.
FromRoot(own, node) ==
  /\ At(node, "project") = At(own, "project")
  /\ \A s : Replaces(own, s) => Gives(node, s) /\ Value(node, s) = Value(own, s)
ReplacesAs(own, node) ==
  \A s : Gives(node, s) /\ Attr(node, s) = "REPLACE" <=> Replaces(own, s)

\* The first call is that for cgen.yml, the last call that gives a setting gives
\* it as the last file, and so does the configuration afterwards.
LastMerged ==
  /\ pc = "includes" =>
       /\ \A i \in DOMAIN stack : HasPlainSettings(stack[i].node, IF i = 1 THEN Both ELSE {""})
       /\ FromRoot(root, stack[1].node) /\ ReplacesAs(root, stack[1].node)
       /\ Agree(root, Nodes(stack), Read)
  /\ pc \in {"validate_included", "templates", "validate_result", "accepted"} =>
       /\ HasPlainSettings(config, Both) /\ FromRoot(root, config)
       /\ Agree(root, <<config>>, Read)
  /\ pc \in {"validate_result", "accepted"} => HasPlainSettings(config, {""})

LastInv == CompleteInv /\ LastMerged

\* A file that is read gives its settings last, in the calls and among those read.
LEMMA SettingsOfRead ==
  ASSUME TreesAsWritten, SettingsArePlain, TypeInv, Visiting, LastMerged, IncludeFile
  PROVE  LastMerged'
<1> DEFINE frame == Entered(Head(top.todo))
           n == Len(stack)
           m == Len(visits) + 1
<1>1. PICK use : use = Head(top.todo)
  OBVIOUS
<1>2. /\ pc = "includes" /\ top.todo # <<>> /\ use.name.of \in DOMAIN files \ included
      /\ stack' = Append(Pop, frame) /\ visits' = Append(visits, use)
      /\ UNCHANGED <<root, files, pc>>
  BY <1>1 DEF IncludeFile, input
<1>3. Calls /\ Paths /\ IsSeq(visits) /\ IsSeq(stack) /\ stack # <<>>
  BY <1>2 DEF TypeInv, Visiting, Calls
<1>4. n \in Nat /\ n >= 1 /\ DOMAIN stack = 1 .. n /\ Len(visits) \in Nat /\ m \in Nat
  BY <1>3, SeqParts
<1>5. IsConfig(Reading(use)) /\ HasPlainSettings(Reading(use), {""})
  <2>1. PICK none : none = {""}
    OBVIOUS
  <2>2. IsConfig(files[use.name.of]) /\ HasPlainSettings(files[use.name.of], none)
    BY <1>2, <1>3, <2>1, FilesAssumption DEF Paths, SettingsArePlain
  <2>3. HasPlainSettings(Reading(use), none)
    BY <2>2, SettingsReplaced DEF Reading
  <2> QED
    BY <2>1, <2>2, <2>3, ReplacedIs DEF Reading
<1>6. IsFrame(frame) /\ frame.path = use.name.of /\ frame.node = Wrap(Reading(use))
  <2>1. frame = Frame(use.name.of, Reading(use), Missed(use))
    BY <1>1 DEF Entered, Reading, Missed
  <2>2. IsConfig(Reading(use))
    BY <1>5
  <2> HIDE DEF frame, n, m
  <2> QED
    BY <2>1, <2>2, FrameIs
<1>7. /\ HasPlainSettings(frame.node, {""})
      /\ At(frame.node, "settings") = At(Reading(use), "settings")
  <2>1. PICK none : none = {""}
    OBVIOUS
  <2>2. HasPlainSettings(Wrap(Reading(use)), none)
        /\ At(Wrap(Reading(use)), "settings") = At(Reading(use), "settings")
    BY <1>5, <2>1, SettingsKept
  <2> QED
    BY <1>6, <2>1, <2>2
<1> HIDE DEF frame, n, m
<1>8. /\ DOMAIN stack' = 1 .. n + 1 /\ stack'[n + 1] = frame
      /\ \A i \in 1 .. n : stack'[i].node = stack[i].node
  <2>1. /\ IsSeq(stack') /\ Len(stack') = n + 1 /\ stack'[n + 1] = frame
        /\ \A i \in DOMAIN stack : stack'[i] = Pop[i]
    BY <1>2, <1>3, <1>6, CallsPushed DEF n
  <2>2. \A i \in DOMAIN stack : Pop[i].node = stack[i].node
    BY <1>2, <1>3, PopIs
  <2> QED
    BY <1>4, <2>1, <2>2, SeqParts
<1>9. /\ DOMAIN Read = 1 .. m /\ DOMAIN Read' = 1 .. m + 1 /\ Read'[m + 1] = Reading(use)
      /\ \A r \in 1 .. m : Read'[r] = Read[r]
  <2>1. IsSeq(Read) /\ Len(Read) = m
    BY <1>3, ReadIs DEF m
  <2>2. /\ IsSeq(Append(Read, Reading(use))) /\ Len(Append(Read, Reading(use))) = m + 1
        /\ Append(Read, Reading(use))[m + 1] = Reading(use)
        /\ \A r \in 1 .. m : Append(Read, Reading(use))[r] = Read[r]
    BY <2>1, AppendIs
  <2>3. Read' = Append(Read, Reading(use))
    BY <1>2, <1>3, ReadMore
  <2> QED
    BY <2>1, <2>2, <2>3, SeqParts
<1>10. Agree(root, Nodes(stack'), Read')
  <2>1. DOMAIN Nodes(stack) = 1 .. n /\ \A i \in 1 .. n : Nodes(stack)[i] = stack[i].node
    BY <1>4 DEF Nodes
  <2>2. DOMAIN Nodes(stack') = 1 .. n + 1 /\ \A i \in 1 .. n + 1 : Nodes(stack')[i] = stack'[i].node
    BY <1>8 DEF Nodes
  <2>3. /\ \A i \in 1 .. n : At(Nodes(stack')[i], "settings") = At(Nodes(stack)[i], "settings")
        /\ At(Nodes(stack')[n + 1], "settings") = At(Read'[m + 1], "settings")
    <3>1. \A i \in 1 .. n : i \in 1 .. n + 1
      BY <1>4
    <3>2. n + 1 \in 1 .. n + 1
      BY <1>4
    <3> QED
      BY <1>7, <1>8, <1>9, <2>1, <2>2, <3>1, <3>2
  <2>4. Agree(root, Nodes(stack), Read)
    BY <1>2 DEF LastMerged
  <2> QED
    BY <1>4, <1>9, <2>1, <2>2, <2>3, <2>4, AgreeMore
<1>11. \A i \in DOMAIN stack' : HasPlainSettings(stack'[i].node, IF i = 1 THEN Both ELSE {""})
  <2> SUFFICES ASSUME NEW i \in 1 .. n + 1
               PROVE  HasPlainSettings(stack'[i].node, IF i = 1 THEN Both ELSE {""})
    BY <1>8
  <2>1. CASE i = n + 1
    <3>1. i # 1
      BY <1>4, <2>1
    <3> QED
      BY <1>7, <1>8, <2>1, <3>1
  <2>2. CASE i \in 1 .. n
    BY <1>2, <1>4, <1>8, <2>2 DEF LastMerged
  <2>3. i \in 1 .. n \/ i = n + 1
    BY <1>4
  <2> QED
    BY <2>1, <2>2, <2>3
<1>12. stack'[1].node = stack[1].node
  BY <1>4, <1>8
<1> QED
  BY <1>2, <1>10, <1>11, <1>12 DEF LastMerged, Nodes

\* A call that returns gives its settings to the one below it.
LEMMA SettingsOfReturn ==
  ASSUME TreesAsWritten, SettingsArePlain, TypeInv, LastMerged, IncludeReturn
  PROVE  LastMerged'
<1>1. /\ pc = "includes" /\ Len(stack) > 1 /\ stack' = Back
      /\ UNCHANGED <<root, files, pc, visits>>
  BY DEF IncludeReturn, Back, input
<1>2. Calls
  BY DEF TypeInv
<1> DEFINE a == stack[below].node
           b == top.node
           c == merge(Ignored(top.node), stack[below].node)
<1>3. /\ DOMAIN stack' = 1 .. below /\ below \in Nat /\ below >= 1 /\ below + 1 = Len(stack)
      /\ DOMAIN stack = 1 .. below + 1 /\ top = stack[below + 1]
      /\ IsConfig(b) /\ IsConfig(a)
      /\ \A i \in 1 .. below : stack'[i].node = IF i = below THEN c ELSE stack[i].node
  BY <1>1, <1>2, Returned
<1>4. PICK attrs : attrs = IF below = 1 THEN Both ELSE {""}
  OBVIOUS
<1>5. PICK none : none = {""}
  OBVIOUS
<1>6. HasPlainSettings(a, attrs) /\ HasPlainSettings(b, {""}) /\ "" \in attrs
  <2>1. below + 1 # 1 /\ below \in DOMAIN stack /\ below + 1 \in DOMAIN stack
    BY <1>3
  <2>2. HasPlainSettings(stack[below + 1].node, {""})
    BY <1>1, <2>1 DEF LastMerged
  <2>3. HasPlainSettings(stack[below].node, attrs)
    BY <1>1, <1>4, <2>1 DEF LastMerged
  <2> QED
    BY <1>3, <1>4, <2>2, <2>3 DEF Both
<1>7. PICK from : from = Ignored(b)
  OBVIOUS
<1>8. /\ IsConfig(from) /\ HasPlainSettings(from, {""}) /\ "project" \notin Names(from)
      /\ At(from, "settings") = At(b, "settings")
  <2>1. HasPlainSettings(Ignored(b), none) /\ "project" \notin Names(Ignored(b))
        /\ At(Ignored(b), "settings") = At(b, "settings")
    BY <1>3, <1>5, <1>6, SettingsKept
  <2> QED
    BY <1>3, <1>5, <1>7, <2>1, IgnoredIs
<1>9. /\ c = merge(from, a) /\ HasPlainSettings(c, attrs) /\ SettingsMerge(c, from, a)
      /\ At(c, "project") = At(a, "project")
  BY <1>3, <1>6, <1>7, <1>8, SettingsMerged, ProjectMerged
<1> HIDE DEF a, b, c
<1>10. \A i \in DOMAIN stack' : HasPlainSettings(stack'[i].node, IF i = 1 THEN Both ELSE {""})
  <2> SUFFICES ASSUME NEW i \in 1 .. below
               PROVE  HasPlainSettings(stack'[i].node, IF i = 1 THEN Both ELSE {""})
    BY <1>3
  <2>1. CASE i = below
    BY <1>3, <1>4, <1>9, <2>1
  <2>2. CASE i # below
    <3>1. i \in DOMAIN stack
      BY <1>3
    <3> QED
      BY <1>1, <1>3, <2>2, <3>1 DEF LastMerged
  <2> QED
    BY <2>1, <2>2
<1>11. FromRoot(root, stack[1].node) /\ ReplacesAs(root, stack[1].node)
  BY <1>1 DEF LastMerged
<1>12. FromRoot(root, stack'[1].node) /\ ReplacesAs(root, stack'[1].node)
  <2>1. CASE below = 1
    <3>1. stack'[1].node = c /\ stack[1].node = a
      BY <1>3, <2>1 DEF a
    <3>2. At(c, "project") = At(root, "project")
      BY <1>9, <1>11, <3>1 DEF FromRoot
    <3>3. ASSUME NEW s, Replaces(root, s)
          PROVE  /\ Gives(c, s) /\ Value(c, s) = Value(root, s) /\ Attr(c, s) = "REPLACE"
      <4>1. Gives(a, s) /\ Attr(a, s) = "REPLACE" /\ Value(a, s) = Value(root, s)
        BY <1>11, <3>1, <3>3 DEF FromRoot, ReplacesAs
      <4> QED
        BY <1>9, <4>1 DEF SettingsMerge
    <3>4. ASSUME NEW s, Gives(c, s), Attr(c, s) = "REPLACE" PROVE Replaces(root, s)
      <4>1. Gives(a, s) /\ Attr(a, s) = "REPLACE"
        BY <1>9, <3>4 DEF SettingsMerge
      <4> QED
        BY <1>11, <3>1, <4>1 DEF ReplacesAs
    <3> QED
      BY <3>1, <3>2, <3>3, <3>4 DEF FromRoot, ReplacesAs
  <2>2. CASE below # 1
    <3>1. stack'[1].node = stack[1].node
      BY <1>3, <2>2
    <3> QED
      BY <1>11, <3>1
  <2> QED
    BY <2>1, <2>2
<1>13. Agree(root, Nodes(stack'), Read)
  <2>1. DOMAIN Nodes(stack) = 1 .. below + 1
        /\ \A i \in 1 .. below + 1 : Nodes(stack)[i] = stack[i].node
    BY <1>3 DEF Nodes
  <2>2. DOMAIN Nodes(stack') = 1 .. below /\ \A i \in 1 .. below : Nodes(stack')[i] = stack'[i].node
    BY <1>3 DEF Nodes
  <2>3. below \in 1 .. below /\ below \in 1 .. below + 1 /\ below + 1 \in 1 .. below + 1
        /\ \A i \in 1 .. below : i \in 1 .. below + 1
    BY <1>3
  <2>4. /\ Nodes(stack)[below] = a /\ Nodes(stack)[below + 1] = b /\ Nodes(stack')[below] = c
        /\ \A i \in 1 .. below : i # below => Nodes(stack')[i] = Nodes(stack)[i]
    BY <1>3, <2>1, <2>2, <2>3 DEF a, b
  <2>5. \A s : Gives(a, s) /\ Attr(a, s) = "REPLACE" => below = 1 /\ Replaces(root, s)
    <3>1. CASE below = 1
      BY <1>11, <3>1 DEF a, ReplacesAs
    <3>2. CASE below # 1
      <4>1. \A s : Gives(a, s) => Attr(a, s) \in attrs
        BY <1>3, <1>6, AttrIn DEF a
      <4>2. attrs = {""} /\ "REPLACE" # ""
        BY <1>4, <3>2
      <4> QED
        BY <4>1, <4>2
    <3> QED
      BY <3>1, <3>2
  <2>6. Agree(root, Nodes(stack), Read)
    BY <1>1 DEF LastMerged
  <2>7. PICK n \in Nat : n = below /\ n >= 1
    BY <1>3
  <2>8. PICK cs : cs = Nodes(stack)
    OBVIOUS
  <2>9. PICK d : d = Nodes(stack')
    OBVIOUS
  <2>10. /\ DOMAIN cs = 1 .. n + 1 /\ DOMAIN d = 1 .. n
         /\ \A i \in 1 .. n : i # n => d[i] = cs[i]
         /\ At(from, "settings") = At(cs[n + 1], "settings")
         /\ SettingsMerge(d[n], from, cs[n])
         /\ \A s : Gives(cs[n], s) /\ Attr(cs[n], s) = "REPLACE" => n = 1 /\ Replaces(root, s)
    BY <1>8, <1>9, <2>1, <2>2, <2>4, <2>5, <2>7, <2>8, <2>9
  <2>11. Agree(root, cs, Read)
    BY <2>6, <2>8
  <2>12. Agree(root, d, Read)
    BY <2>7, <2>10, <2>11, AgreeBack
  <2> QED
    BY <2>9, <2>12
<1>14. Read' = Read
  BY <1>1 DEF Read
<1> QED
  BY <1>1, <1>10, <1>12, <1>13, <1>14 DEF LastMerged, Nodes

\* A map whose settings have no attribute is one whose settings may have.
LEMMA PlainMay ==
  ASSUME NEW node, HasPlainSettings(node, {""}) PROVE HasPlainSettings(node, Both)
BY DEF HasPlainSettings, PlainMap, Both

\* The same settings give the same.
LEMMA SameGiven ==
  ASSUME NEW c, NEW d, At(d, "settings") = At(c, "settings")
  PROVE  \A s : (Gives(d, s) <=> Gives(c, s)) /\ (Gives(c, s) => Value(d, s) = Value(c, s))
BY DEF Gives, Value

Merged == {"validate_included", "templates", "validate_result", "accepted"}

\* A step that leaves the calls and what was read, and what the configuration
\* gives, leaves what is known of the settings.
LEMMA SettingsStay ==
  ASSUME LastMerged, UNCHANGED <<root, files, visits>>,
         pc' = "includes" => pc = "includes" /\ UNCHANGED stack,
         pc' \in Merged =>
           /\ pc \in Merged /\ HasPlainSettings(config', Both)
           /\ At(config', "project") = At(config, "project")
           /\ \A s : /\ Gives(config', s) <=> Gives(config, s)
                     /\ Gives(config, s) => Value(config', s) = Value(config, s),
         pc' \in {"validate_result", "accepted"} => HasPlainSettings(config', {""})
  PROVE  LastMerged'
<1>1. Read' = Read
  BY DEF Read
<1>2. ASSUME pc' = "includes"
      PROVE  /\ \A i \in DOMAIN stack' :
                  HasPlainSettings(stack'[i].node, IF i = 1 THEN Both ELSE {""})
             /\ FromRoot(root, stack'[1].node) /\ ReplacesAs(root, stack'[1].node)
             /\ Agree(root, Nodes(stack'), Read')
  BY <1>1, <1>2 DEF LastMerged
<1>3. ASSUME pc' \in Merged
      PROVE  FromRoot(root, config') /\ Agree(root, <<config'>>, Read')
  <2>1. FromRoot(root, config) /\ Agree(root, <<config>>, Read)
    BY <1>3 DEF LastMerged, Merged
  <2>2. FromRoot(root, config')
    BY <1>3, <2>1 DEF FromRoot
  <2>3. Agree(root, <<config'>>, Read)
    BY <1>3, <2>1, AgreeSame
  <2> QED
    BY <1>1, <2>2, <2>3
<1> QED
  BY <1>2, <1>3 DEF LastMerged, Merged, Nodes

\* An include that is passed over leaves the settings of the calls.
LEMMA SettingsOfPop ==
  ASSUME TypeInv, LastMerged, pc = "includes", top.todo # <<>>, stack' = Pop,
         UNCHANGED <<root, files, pc, visits>>
  PROVE  LastMerged'
<1>1. /\ DOMAIN Pop = DOMAIN stack /\ \A i \in DOMAIN stack : Pop[i].node = stack[i].node
      /\ 1 \in DOMAIN stack
  <2>1. 1 \in DOMAIN stack
    BY SeqParts DEF TypeInv, Calls
  <2> QED
    BY <2>1, PopIs DEF TypeInv
<1>2. Nodes(stack') = Nodes(stack) /\ Read' = Read /\ stack'[1].node = stack[1].node
  <2>1. Nodes(stack') = Nodes(stack)
    BY <1>1 DEF Nodes
  <2> QED
    BY <1>1, <2>1 DEF Read
<1>3. \A i \in DOMAIN stack' : HasPlainSettings(stack'[i].node, IF i = 1 THEN Both ELSE {""})
  BY <1>1 DEF LastMerged
<1>4. /\ FromRoot(root, stack'[1].node) /\ ReplacesAs(root, stack'[1].node)
      /\ Agree(root, Nodes(stack'), Read')
  BY <1>2 DEF LastMerged
<1> QED
  BY <1>3, <1>4 DEF LastMerged, Nodes

\* A step leaves the settings those that the last file gives.
LEMMA SettingsStep ==
  ASSUME TreesAsWritten, SettingsArePlain
  PROVE  LastInv /\ [Next]_vars => LastMerged'
<1> SUFFICES ASSUME TypeInv, Visiting, LastMerged, [Next]_vars PROVE LastMerged'
  BY DEF LastInv, CompleteInv
<1>0. Calls /\ Paths /\ Merging /\ IsSeq(stack)
  BY DEF TypeInv, Calls
<1>1. CASE CheckVersion
  <2>1. UNCHANGED <<root, files, visits>> /\ pc' \in {"validate", "rejected"}
    BY <1>1 DEF CheckVersion, input
  <2> QED
    BY <2>1, SettingsStay DEF Merged
<1>2. CASE Invalid
  <2>1. UNCHANGED <<root, files, visits>> /\ pc' = "rejected"
    BY <1>2 DEF Invalid, input
  <2> QED
    BY <2>1, SettingsStay DEF Merged
<1>3. CASE Valid
  <2>1. pc = "validate" /\ pc' = "includes" /\ stack' = <<Frame("", root, {})>>
        /\ UNCHANGED <<root, files, visits>>
    BY <1>3 DEF Valid, input
  <2>2. IsConfig(root) /\ HasPlainSettings(root, Both)
    BY <1>0, FilesAssumption DEF Paths, SettingsArePlain
  <2>3. PICK c : c = Wrap(root)
    OBVIOUS
  <2>4. /\ HasPlainSettings(c, Both) /\ At(c, "settings") = At(root, "settings")
        /\ At(c, "project") = At(root, "project")
    BY <2>2, <2>3, SettingsKept
  <2>5. DOMAIN stack' = {1} /\ stack'[1].node = c
    BY <2>1, <2>3, OneIs DEF Frame
  <2>6. Nodes(stack') = <<c>>
    BY <2>5 DEF Nodes
  <2>7. Read' = <<root>>
    <3>1. IsSeq(Read) /\ Len(Read) = Len(visits) + 1 /\ Read[1] = root /\ Len(visits) = 0
      BY <2>1, ReadIs DEF Visiting
    <3>2. IsSeq(<<root>>) /\ Len(<<root>>) = 1 /\ <<root>>[1] = root
      BY OneIs
    <3>3. \A i \in 1 .. Len(Read) : Read[i] = <<root>>[i]
      BY <3>1, <3>2
    <3>4. Read = <<root>>
      BY <3>1, <3>2, <3>3, SameSeq
    <3> QED
      BY <2>1, <3>4 DEF Read
  <2>8. Agree(root, Nodes(stack'), Read')
    BY <2>4, <2>6, <2>7, AgreeOne
  <2>9. FromRoot(root, c) /\ ReplacesAs(root, c)
    BY <2>4 DEF FromRoot, ReplacesAs, Replaces, Gives, Value, Attr
  <2> QED
    BY <2>1, <2>4, <2>5, <2>8, <2>9 DEF LastMerged, Nodes
<1>4. CASE IncludeNotFound
  <2>1. pc = "includes" /\ top.todo # <<>> /\ stack' = Pop /\ UNCHANGED <<root, files, pc, visits>>
    BY <1>4 DEF IncludeNotFound, input
  <2> QED
    BY <2>1, SettingsOfPop
<1>5. CASE IncludeAgain
  <2>1. pc = "includes" /\ top.todo # <<>> /\ stack' = Pop /\ UNCHANGED <<root, files, pc, visits>>
    BY <1>5 DEF IncludeAgain, input
  <2> QED
    BY <2>1, SettingsOfPop
<1>6. CASE IncludeFile
  BY <1>6, SettingsOfRead
<1>7. CASE IncludeReturn
  BY <1>7, SettingsOfReturn
<1>8. CASE IncludesDone
  <2>1. /\ pc = "includes" /\ Len(stack) = 1 /\ pc' = "validate_included" /\ config' = top.node
        /\ UNCHANGED <<root, files, visits>>
    BY <1>8 DEF IncludesDone, input
  <2>2. PICK c : c = top.node
    OBVIOUS
  <2>3. /\ DOMAIN stack = 1 .. 1 /\ stack[1].node = c /\ HasPlainSettings(c, Both)
        /\ FromRoot(root, c)
    <3>1. DOMAIN stack = 1 .. 1 /\ stack # <<>>
      <4>1. DOMAIN stack = 1 .. Len(stack) /\ (stack # <<>> <=> Len(stack) > 0)
        BY <1>0, SeqParts
      <4>2. Len(stack) = 1
        BY <2>1
      <4> QED
        BY <4>1, <4>2
    <3>2. top = stack[1]
      BY <1>0, <2>1, <3>1, FrontIs DEF top
    <3> QED
      BY <2>1, <2>2, <3>1, <3>2 DEF LastMerged
  <2>4. Nodes(stack) = <<c>>
    BY <2>3 DEF Nodes
  <2>5. Agree(root, <<c>>, Read)
    BY <2>1, <2>4 DEF LastMerged
  <2>6. Agree(root, <<config'>>, Read')
    <3>1. Read' = Read
      BY <2>1 DEF Read
    <3> QED
      BY <2>1, <2>2, <2>5, <3>1
  <2> QED
    BY <2>1, <2>2, <2>3, <2>6 DEF LastMerged
<1>9. CASE ValidIncluded
  <2>1. pc = "validate_included" /\ pc' = "templates" /\ config' = Wrap(config)
        /\ UNCHANGED <<root, files, visits>>
    BY <1>9 DEF ValidIncluded, input
  <2>2. IsConfig(config) /\ HasPlainSettings(config, Both)
    BY <1>0, <2>1 DEF Merging, LastMerged
  <2>3. /\ HasPlainSettings(config', Both) /\ At(config', "settings") = At(config, "settings")
        /\ At(config', "project") = At(config, "project")
    BY <2>1, <2>2, SettingsKept
  <2> QED
    BY <2>1, <2>3, SameGiven, SettingsStay DEF Merged
<1>10. CASE TemplateNotFound
  <2>1. pc = "templates" /\ UNCHANGED <<root, files, pc, config, visits>>
    BY <1>10 DEF TemplateNotFound, input
  <2>2. HasPlainSettings(config, Both)
    BY <2>1 DEF LastMerged
  <2> QED
    BY <2>1, <2>2, SettingsStay DEF Merged
<1>11. ASSUME pc = "templates", \E t : config' = SetTarget(t),
              UNCHANGED <<root, files, pc, visits>>
       PROVE  LastMerged'
  <2>1. IsConfig(config) /\ HasPlainSettings(config, Both)
    BY <1>0, <1>11 DEF Merging, LastMerged
  <2>2. /\ HasPlainSettings(config', Both) /\ At(config', "settings") = At(config, "settings")
        /\ At(config', "project") = At(config, "project")
    BY <1>11, <2>1, SettingsKept
  <2> QED
    BY <1>11, <2>2, SameGiven, SettingsStay DEF Merged
<1>12. CASE MergeTemplate
  BY <1>11, <1>12 DEF MergeTemplate, input
<1>13. CASE TargetDone
  BY <1>11, <1>13 DEF TargetDone, input
<1>14. CASE TemplatesDone
  <2>1. pc = "templates" /\ pc' = "validate_result" /\ config' = trim_attributes(config)
        /\ UNCHANGED <<root, files, visits>>
    BY <1>14 DEF TemplatesDone, input
  <2>2. /\ IsConfig(config) /\ HasPlainSettings(config, Both)
        /\ At(config, "project") = At(root, "project")
    BY <1>0, <2>1 DEF Merging, LastMerged, FromRoot
  <2>3. At(config, "project") = Undefined \/ IsPlain(At(config, "project"))
    BY <1>0, <2>2 DEF Paths, SettingsArePlain
  <2>4. /\ HasPlainSettings(config', {""}) /\ At(config', "project") = At(config, "project")
        /\ \A s : /\ Gives(config', s) <=> Gives(config, s)
                  /\ Gives(config, s) => Value(config', s) = Value(config, s)
    BY <2>1, <2>2, <2>3, SettingsTrimmed
  <2>5. HasPlainSettings(config', Both)
    BY <2>4, PlainMay
  <2> QED
    BY <2>1, <2>4, <2>5, SettingsStay DEF Merged
<1>15. CASE ValidResult
  <2>1. /\ pc = "validate_result"
        /\ \/ pc' = "accepted" /\ config' = Wrap(config)
           \/ pc' = "rejected"
        /\ UNCHANGED <<root, files, visits>>
    BY <1>15 DEF ValidResult, input
  <2>2. IsConfig(config) /\ HasPlainSettings(config, {""})
    BY <1>0, <2>1 DEF Merging, LastMerged
  <2>3. PICK none : none = {""}
    OBVIOUS
  <2>4. CASE pc' = "accepted"
    <3>1. config' = Wrap(config)
      BY <2>1, <2>4
    <3>2. /\ HasPlainSettings(config', none) /\ At(config', "settings") = At(config, "settings")
          /\ At(config', "project") = At(config, "project")
      BY <2>2, <2>3, <3>1, SettingsKept
    <3>3. HasPlainSettings(config', {""}) /\ HasPlainSettings(config', Both)
      BY <2>3, <3>2, PlainMay
    <3> QED
      BY <2>1, <2>4, <3>2, <3>3, SameGiven, SettingsStay DEF Merged
  <2>5. CASE pc' = "rejected"
    BY <2>1, <2>5, SettingsStay DEF Merged
  <2> QED
    BY <2>1, <2>4, <2>5
<1>16. CASE UNCHANGED vars
  <2>1. UNCHANGED <<root, files, pc, stack, config, visits>>
    BY <1>16 DEF vars, input
  <2>2. /\ pc \in Merged => HasPlainSettings(config, Both)
        /\ pc \in {"validate_result", "accepted"} => HasPlainSettings(config, {""})
    BY DEF LastMerged, Merged
  <2> QED
    BY <2>1, <2>2, SettingsStay
<1> QED
  BY <1>1, <1>2, <1>3, <1>4, <1>5, <1>6, <1>7, <1>8, <1>9, <1>10, <1>12, <1>13, <1>14,
     <1>15, <1>16 DEF Next

\* Numbers that are bounded have a greatest.
LEMMA GreatestIs ==
  ASSUME NEW m \in Nat, NEW G \in SUBSET (1 .. m), G # {}
  PROVE  Max(G) \in G /\ \A y \in G : Max(G) >= y
<1> DEFINE T == {m - y : y \in G}
<1>1. T \in SUBSET Nat /\ T # {}
  <2>1. \A y \in G : m - y \in Nat
    OBVIOUS
  <2> QED
    BY <2>1
<1> HIDE DEF T
<1>2. PICK x \in T : \A y \in T : x <= y
  BY <1>1, LeastElement
<1>3. PICK g \in G : x = m - g
  BY DEF T
<1>4. ASSUME NEW y \in G PROVE g >= y
  <2>1. m - y \in T
    BY DEF T
  <2>2. x <= m - y
    BY <1>2, <2>1
  <2> QED
    BY <1>3, <2>2
<1>5. \E n \in G : \A y \in G : n >= y
  BY <1>4
<1> QED
  BY <1>5 DEF Max

\* The files that were read have plain settings, those of cgen.yml may have REPLACE.
LEMMA SettingsRead ==
  ASSUME TreesAsWritten, SettingsArePlain, Paths, Visiting
  PROVE  /\ Len(Read) \in Nat /\ DOMAIN Read = 1 .. Len(Read) /\ Read[1] = root
         /\ \A r \in DOMAIN Read :
              IsConfig(Read[r]) /\ HasPlainSettings(Read[r], IF r = 1 THEN Both ELSE {""})
<1>1. IsConfig(root) /\ HasPlainSettings(root, Both)
  BY FilesAssumption DEF Paths, SettingsArePlain
<1>2. ASSUME NEW use, use.name.of \in DOMAIN files
      PROVE  IsConfig(Reading(use)) /\ HasPlainSettings(Reading(use), {""})
  <2>1. PICK none : none = {""}
    OBVIOUS
  <2>2. IsConfig(files[use.name.of]) /\ HasPlainSettings(files[use.name.of], none)
    BY <1>2, <2>1, FilesAssumption DEF Paths, SettingsArePlain
  <2>3. IsConfig(Reading(use)) /\ HasPlainSettings(Reading(use), none)
    BY <2>2, ReplacedIs, SettingsReplaced DEF Reading
  <2> QED
    BY <2>1, <2>3
<1>3. IsSeq(visits) /\ Len(visits) \in Nat /\ DOMAIN visits = 1 .. Len(visits)
  BY SeqParts DEF Visiting
<1>4. /\ IsSeq(Read) /\ DOMAIN Read = 1 .. Len(visits) + 1 /\ Read[1] = root
      /\ \A i \in 1 .. Len(visits) : Read[i + 1] = Reading(visits[i])
  BY <1>3, ReadIs
<1>5. ASSUME NEW r \in DOMAIN Read
      PROVE  IsConfig(Read[r]) /\ HasPlainSettings(Read[r], IF r = 1 THEN Both ELSE {""})
  <2>1. CASE r = 1
    BY <1>1, <1>4, <2>1
  <2>2. CASE r # 1
    <3>1. PICK i \in 1 .. Len(visits) : i + 1 = r
      <4>1. r - 1 \in 1 .. Len(visits) /\ (r - 1) + 1 = r
        BY <1>3, <1>4, <2>2
      <4> QED
        BY <4>1
    <3>2. visits[i].name.of \in DOMAIN files
      BY <1>3, <3>1 DEF Visiting, Paths
    <3>3. Read[i + 1] = Reading(visits[i])
      BY <1>4, <3>1
    <3> QED
      BY <1>2, <2>2, <3>1, <3>2, <3>3
  <2> QED
    BY <2>1, <2>2
<1>6. Len(Read) \in Nat /\ DOMAIN Read = 1 .. Len(Read)
  BY <1>4, SeqParts
<1> QED
  BY <1>4, <1>5, <1>6

\* What a configuration that is accepted has is what the last file gives.
LEMMA LastWins ==
  ASSUME TreesAsWritten, SettingsArePlain PROVE LastInv => LastSettingWins
<1> SUFFICES ASSUME TypeInv, Visiting, LastMerged, pc = "accepted" PROVE LastSettingWins
  BY DEF LastInv, CompleteInv, LastSettingWins, Accepted
<1> DEFINE given(s) == {i \in DOMAIN Read : Has(At(Read[i], "settings"), s)}
           own(s)   == node_find(At(root, "settings"), s)
<1>1. /\ Paths /\ IsConfig(config) /\ HasPlainSettings(config, {""})
      /\ FromRoot(root, config) /\ Agree(root, <<config>>, Read)
  BY DEF TypeInv, Merging, LastMerged
<1>2. /\ Len(Read) \in Nat /\ DOMAIN Read = 1 .. Len(Read) /\ Read[1] = root
      /\ \A r \in DOMAIN Read :
           IsConfig(Read[r]) /\ HasPlainSettings(Read[r], IF r = 1 THEN Both ELSE {""})
  BY <1>1, SettingsRead
<1>3. \A s : given(s) = {i \in DOMAIN Read : Gives(Read[i], s)}
  BY DEF Gives
<1>4. \A s : own(s).node = Value(root, s) /\ own(s).attr = Attr(root, s)
  BY DEF Value, Attr
<1>5. \A s : Gives(config, s) => At(At(config, "settings"), s) = Value(config, s)
  <2>1. PICK none : none = {""}
    OBVIOUS
  <2>2. HasPlainSettings(config, none)
    BY <1>1, <2>1
  <2>3. ASSUME NEW s, Gives(config, s)
        PROVE  /\ Attr(config, s) \in none
               /\ Attr(config, s) = "" => At(At(config, "settings"), s) = Value(config, s)
    BY <1>1, <2>2, <2>3, AttrIn
  <2> QED
    BY <2>1, <2>3
<1>6. ASSUME NEW s, NEW i \in DOMAIN Read, Has(Read[i], "settings"),
             s \in Names(At(Read[i], "settings"))
      PROVE  Gives(Read[i], s)
  <2>1. PICK attrs : attrs = IF i = 1 THEN Both ELSE {""}
    OBVIOUS
  <2>2. IsConfig(Read[i]) /\ HasPlainSettings(Read[i], attrs)
    BY <1>2, <2>1
  <2>3. "settings" \in Names(Read[i])
    BY <1>6 DEF Has
  <2> QED
    BY <1>6, <2>2, <2>3, SettingsKey
<1>7. ASSUME NEW s, NEW i \in DOMAIN Read, Gives(Read[i], s)
      PROVE  At(At(config, "settings"), s) =
               IF 1 \in given(s) /\ own(s).attr = "REPLACE" THEN own(s).node
               ELSE At(At(Read[Max(given(s))], "settings"), s)
  <2>0. PICK m \in Nat : m = Len(Read)
    BY <1>2
  <2>1. PICK G : G = given(s)
    OBVIOUS
  <2>2. /\ DOMAIN Read = 1 .. m /\ G = {j \in 1 .. m : Gives(Read[j], s)}
        /\ G \in SUBSET (1 .. m) /\ i \in G
    <3>1. DOMAIN Read = 1 .. m
      BY <1>2, <2>0
    <3>2. G = {j \in 1 .. m : Gives(Read[j], s)}
      BY <1>3, <2>1, <3>1
    <3> QED
      BY <1>7, <3>1, <3>2
  <2>3. PICK last : last = Max(G)
    OBVIOUS
  <2>4. last \in G /\ \A y \in G : last >= y
    BY <2>2, <2>3, GreatestIs
  <2>5. LastGives(Read, s, last)
    <3>1. ASSUME NEW j \in DOMAIN Read, j > last PROVE ~ Gives(Read[j], s)
      <4>1. j \in 1 .. m /\ last \in 1 .. m
        BY <2>2, <2>4
      <4>2. ~ (last >= j)
        BY <3>1, <4>1
      <4> QED
        BY <2>2, <2>4, <4>1, <4>2
    <3> QED
      BY <2>2, <2>4, <3>1 DEF LastGives
  <2>6. DOMAIN <<config>> = {1} /\ <<config>>[1] = config
    BY OneIs
  <2>7. Gives(config, s)
    BY <1>1, <1>7, <2>6 DEF Agree
  <2>8. LastGives(<<config>>, s, 1)
    BY <2>6, <2>7 DEF LastGives
  <2>9. Value(config, s) = Value(Read[last], s) \/ Replaces(root, s)
    BY <1>1, <2>2, <2>4, <2>5, <2>6, <2>8 DEF Agree
  <2>10. 1 \in G /\ own(s).attr = "REPLACE" <=> Replaces(root, s)
    <3>1. 1 \in 1 .. m
      <4>1. i \in 1 .. m
        BY <2>2
      <4> QED
        BY <4>1
    <3> QED
      BY <1>2, <1>4, <2>2, <3>1 DEF Replaces
  <2>11. CASE Replaces(root, s)
    <3>1. At(At(config, "settings"), s) = Value(root, s)
      BY <1>1, <1>5, <2>7, <2>11 DEF FromRoot
    <3> QED
      BY <1>4, <2>1, <2>10, <2>11, <3>1
  <2>12. CASE ~ Replaces(root, s)
    <3>1. PICK attrs : attrs = IF last = 1 THEN Both ELSE {""}
      OBVIOUS
    <3>2. IsConfig(Read[last]) /\ HasPlainSettings(Read[last], attrs) /\ Gives(Read[last], s)
      BY <1>2, <2>2, <2>4, <3>1
    <3>3. /\ Attr(Read[last], s) \in attrs
          /\ Attr(Read[last], s) = "" => At(At(Read[last], "settings"), s) = Value(Read[last], s)
      BY <3>2, AttrIn
    <3>4. Attr(Read[last], s) = ""
      <4>1. CASE last = 1
        <5>1. Attr(Read[last], s) # "REPLACE"
          BY <1>2, <2>12, <3>2, <4>1 DEF Replaces
        <5> QED
          BY <3>1, <3>3, <4>1, <5>1 DEF Both
      <4>2. CASE last # 1
        BY <3>1, <3>3, <4>2
      <4> QED
        BY <4>1, <4>2
    <3>5. At(At(config, "settings"), s) = At(At(Read[last], "settings"), s)
      BY <1>5, <2>7, <2>9, <2>12, <3>3, <3>4
    <3> QED
      BY <2>1, <2>3, <2>10, <2>12, <3>5
  <2> QED
    BY <2>11, <2>12
<1>8. At(config, "project") = At(root, "project")
  BY <1>1 DEF FromRoot
<1>9. ASSUME NEW s \in UNION {Names(At(Read[i], "settings")) :
                                i \in {j \in DOMAIN Read : Has(Read[j], "settings")}}
      PROVE  At(At(config, "settings"), s) =
               IF 1 \in given(s) /\ own(s).attr = "REPLACE" THEN own(s).node
               ELSE At(At(Read[Max(given(s))], "settings"), s)
  <2>1. PICK i \in DOMAIN Read : Has(Read[i], "settings") /\ s \in Names(At(Read[i], "settings"))
    OBVIOUS
  <2>2. Gives(Read[i], s)
    BY <1>6, <2>1
  <2> HIDE DEF given, own
  <2> QED
    BY <1>7, <2>2
<1> QED
  BY <1>8, <1>9 DEF LastSettingWins

\* A setting has the value of the last file that gives it, in the order in which
\* they are read, unless cgen.yml has it with REPLACE, and the project is that of
\* cgen.yml: for all files whose settings are scalars.
THEOREM LastSettingIsTaken ==
  ASSUME TreesAsWritten, SettingsArePlain PROVE Spec => []LastSettingWins
<1>1. Init => LastInv
  BY CompleteInit DEF Init, LastInv, LastMerged
<1>2. LastInv /\ [Next]_vars => LastInv'
  BY CompleteStep, SettingsStep DEF LastInv
<1>3. LastInv => LastSettingWins
  BY LastWins
<1> QED
  BY <1>1, <1>2, <1>3, PTL DEF Spec
=============================================================================

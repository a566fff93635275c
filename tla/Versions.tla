------------------------------ MODULE Versions ------------------------------
(***************************************************************************)
(* src/libcgen/versions.cpp: how the version pattern of a package ("1.*")  *)
(* is resolved to one of the tags of its remote.                           *)
(*                                                                         *)
(* A version or a tag is a sequence of characters: a number below ten is a *)
(* digit, and two digits never stand side by side, so that every digit is  *)
(* a number of its own; the other characters are model values.             *)
(***************************************************************************)
EXTENDS Integers, Sequences, FiniteSetsExt

CONSTANTS
  Star, Dash, Plus,  \* the characters * - +
  Other,             \* the dot, letters and any other character
  MaxInt,            \* the largest int: std::stoi throws beyond it
  Versions,          \* patterns of packages, for which version_is_valid holds
  TagLists,          \* what git_remote_tags may return
  NoTag              \* std::nullopt

Marks == {Dash, Plus} \cup Other

\* version_is_valid lets no "-" or "+" through.
ASSUME VersionsAssumption ==
  /\ MaxInt \in Nat \ {0}
  /\ {Star, Dash, Plus, NoTag} \cap Other = {} /\ Star \notin {Dash, Plus}
  /\ Versions \subseteq Seq(({Star} \cup Other \cup Nat) \ {Dash, Plus})
  /\ TagLists \subseteq Seq(Seq({Star} \cup Marks \cup Nat))
  /\ NoTag \notin UNION {{l[i] : i \in DOMAIN l} : l \in TagLists}

-----------------------------------------------------------------------------
\* version_parse: the numbers before the first "-" or "+" (normal), from that
\* "-" to the first "+" (rc), and after it (build), without trailing zeros.

\* Mutant: trailing zeros are kept.
KeepZeros(parts) == parts

vector_remove_trailing_zeros(parts) ==
  SubSeq(parts, 1, Max({0} \cup {i \in DOMAIN parts : parts[i] # 0}))

Numbers(chars) ==
  LET parts[n \in 0 .. Len(chars)] ==
        IF n = 0 THEN <<>>
        ELSE CASE chars[n] \in Marks -> parts[n - 1]
               [] chars[n] = Star    -> Append(parts[n - 1], MaxInt)
               [] OTHER              -> Append(parts[n - 1], chars[n])
  IN parts[Len(chars)]

Parts(chars) == vector_remove_trailing_zeros(Numbers(chars))

First(str, marks) == Min({i \in DOMAIN str : str[i] \in marks} \cup {Len(str) + 1})

version_parse(str) ==
  LET n == First(str, {Dash, Plus})
      b == First(str, {Plus})
  IN [normal |-> Parts(SubSeq(str, 1, n - 1)),
      has_rc |-> n < b,
      rc     |-> Parts(SubSeq(str, n + 1, b - 1)),
      build  |-> Parts(SubSeq(str, b + 1, Len(str))),
      size   |-> Len(str)]

\* std::stoi throws out_of_range.
Overflows(str) == \E i \in DOMAIN str : str[i] \notin {Star} \cup Marks /\ str[i] > MaxInt

-----------------------------------------------------------------------------
\* version_match and version_less on parsed versions.

\* The part of v at i does not fit the tag t, which has 0 where it ends.
Mismatch(v, t, i) ==
  v[i] # MaxInt /\ v[i] # (IF i > Len(t) THEN 0 ELSE t[i])

\* Mutant: a tag may always have more parts.
MatchPrefix(v, t) == v = t \/ \A i \in DOMAIN v : ~Mismatch(v, t, i)

Match(v, t) ==
  \/ v = t
  \/ /\ \A i \in DOMAIN v : ~Mismatch(v, t, i)
     /\ (v # <<>> /\ v[Len(v)] = MaxInt) \/ Len(v) >= Len(t)

version_match(ver, tag, ignore_rc) ==
  /\ ~(ignore_rc /\ version_parse(tag).has_rc)
  /\ Match(version_parse(ver).normal, version_parse(tag).normal)

\* std::lexicographical_compare.
Lex(s, t) ==
  \E i \in DOMAIN t :
    /\ \A j \in 1 .. i - 1 : j \in DOMAIN s /\ s[j] = t[j]
    /\ i \in DOMAIN s => s[i] < t[i]

\* Mutant: a tag is also less than one of the same size.
LessOrSameSize(l, r) ==
  \/ Lex(l.normal, r.normal)
  \/ l.normal = r.normal /\ l.has_rc /\ ~r.has_rc
  \/ l.normal = r.normal /\ l.has_rc = r.has_rc /\ l.size <= r.size

\* Parsed version l has a lower precedence than r: by normal parts, without a
\* pre-release, by pre-release parts, by build parts, and the longer string.
Less(l, r) ==
  \/ Lex(l.normal, r.normal)
  \/ /\ l.normal = r.normal
     /\ \/ (l.has_rc /\ ~r.has_rc)
        \/ /\ l.has_rc = r.has_rc
           /\ \/ Lex(l.rc, r.rc)
              \/ l.rc = r.rc /\ Lex(l.build, r.build)
              \/ l.rc = r.rc /\ l.build = r.build /\ l.size < r.size

version_less(lhs, rhs) == Less(version_parse(lhs), version_parse(rhs))

-----------------------------------------------------------------------------
\* version_tag as a process: the tags are sorted, then tried in that order.

VARIABLES ver, tags, ignore_rc, pc, sorted, it, result

vars == <<ver, tags, ignore_rc, pc, sorted, it, result>>

TagSet == {tags[i] : i \in DOMAIN tags}

Init ==
  /\ ver \in Versions /\ tags \in TagLists /\ ignore_rc \in BOOLEAN
  /\ pc = "sort" /\ sorted = <<>> /\ it = 0 /\ result = NoTag

\* Mutant: the least tag comes first.
Ascending(list) ==
  {[i \in DOMAIN list |-> list[p[i]]] : p \in
     {q \in [DOMAIN list -> DOMAIN list] : \A i, j \in DOMAIN list :
        i < j => q[i] # q[j] /\ ~version_less(list[q[j]], list[q[i]])}}

\* What std::sort makes of list: the greatest comes first, and tags of which
\* none is less than the other come in any order.
Descending(list) ==
  {[i \in DOMAIN list |-> list[p[i]]] : p \in
     {q \in [DOMAIN list -> DOMAIN list] : \A i, j \in DOMAIN list :
        i < j => q[i] # q[j] /\ ~version_less(list[q[i]], list[q[j]])}}

Sort ==
  /\ pc = "sort" /\ ~\E tag \in TagSet : Overflows(tag)
  /\ sorted' \in Descending(tags)
  /\ pc' = "search" /\ it' = 1
  /\ UNCHANGED <<ver, tags, ignore_rc, result>>

\* Every tag is parsed, by the sort or by the first match.
Throw ==
  /\ pc = "sort" /\ \E tag \in TagSet : Overflows(tag)
  /\ pc' = "threw"
  /\ UNCHANGED <<ver, tags, ignore_rc, sorted, it, result>>

Found ==
  /\ pc = "search" /\ it <= Len(sorted)
  /\ version_match(ver, sorted[it], ignore_rc)
  /\ pc' = "done" /\ result' = sorted[it]
  /\ UNCHANGED <<ver, tags, ignore_rc, sorted, it>>

TryNext ==
  /\ pc = "search" /\ it <= Len(sorted)
  /\ ~version_match(ver, sorted[it], ignore_rc)
  /\ it' = it + 1
  /\ UNCHANGED <<ver, tags, ignore_rc, pc, sorted, result>>

NotFound ==
  /\ pc = "search" /\ it > Len(sorted)
  /\ pc' = "done"
  /\ UNCHANGED <<ver, tags, ignore_rc, sorted, it, result>>

Next == Sort \/ Throw \/ Found \/ TryNext \/ NotFound

Spec == Init /\ [][Next]_vars

-----------------------------------------------------------------------------
\* What a version means: infinitely many numbers, 0 from where it ends.

Padded(parts, i) == IF i \in DOMAIN parts THEN parts[i] ELSE 0
Longest(s, t)    == 1 .. Max({Len(s), Len(t)})
SameNumbers(s, t) == \A i \in Longest(s, t) : Padded(s, i) = Padded(t, i)
LowerNumbers(s, t) ==
  \E i \in Longest(s, t) : /\ Padded(s, i) < Padded(t, i)
                           /\ \A j \in 1 .. i - 1 : Padded(s, j) = Padded(t, j)

\* The characters of str from the first "-" on belong to the pre-release, those
\* from the first "+" on to the build.
NormalChars(str)  == SubSeq(str, 1, First(str, {Dash, Plus}) - 1)

\* The version covers the numbers of a tag: number by number, a wildcard
\* covering any, and a wildcard at the end all that follow.
Covers(v, t) ==
  \A i \in Longest(v, t) :
       \/ Padded(v, i) \in {MaxInt, Padded(t, i)}
       \/ i > Len(v) /\ v # <<>> /\ v[Len(v)] = MaxInt

-----------------------------------------------------------------------------
\* Properties.

\* When version_tag ends, its result matches and no matching tag is greater,
\* and it has no result only if no tag matches.
ResultIsGreatest ==
  pc = "done" =>
    LET matching == {tag \in TagSet : version_match(ver, tag, ignore_rc)}
    IN IF result = NoTag THEN matching = {}
       ELSE result \in matching /\ \A tag \in matching : ~version_less(result, tag)

\* version_less is the strict weak order that std::sort requires: of the tags
\* of a remote none is less than itself, and neither "less" nor "neither is
\* less than the other" breaks along a chain of three.
LessIsStrictWeakOrder ==
  LET same(x, y) == ~version_less(x, y) /\ ~version_less(y, x)
  IN pc = "sort" => \A x, y, z \in TagSet :
       /\ ~version_less(x, x)
       /\ version_less(x, y) /\ version_less(y, z) => version_less(x, z)
       /\ same(x, y) /\ same(y, z) => same(x, z)

\* version_less orders tags with different normal numbers by these numbers,
\* "1" and "1.0" being the same, and puts a pre-release below its release.
LessIsPrecedence ==
  pc = "sort" => \A x, y \in TagSet :
    LET s == Numbers(NormalChars(x))
        t == Numbers(NormalChars(y))
    IN /\ LowerNumbers(s, t) => version_less(x, y)
       /\ SameNumbers(s, t) /\ version_parse(x).has_rc /\ ~version_parse(y).has_rc
            => version_less(x, y)

\* version_match accepts a tag exactly when the version, without its trailing
\* zeros, covers the numbers of the tag.
MatchIsCover ==
  pc = "sort" => \A tag \in TagSet :
    version_match(ver, tag, FALSE) <=> Covers(Parts(ver), Numbers(NormalChars(tag)))

=============================================================================

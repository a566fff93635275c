----------------------------- MODULE MCVersions -----------------------------
(***************************************************************************)
(* Instances of Versions for TLC.                                          *)
(***************************************************************************)
EXTENDS Versions

CONSTANTS Dot, V, R

\* "1.2", "", "*", "1.*", "1.*.2", "1.0.*", "1.*.0", "*.0", "1.0".
VersionsChosen ==
  {<<1, Dot, 2>>, <<>>, <<Star>>, <<1, Dot, Star>>, <<1, Dot, Star, Dot, 2>>,
   <<1, Dot, 0, Dot, Star>>, <<1, Dot, Star, Dot, 0>>, <<Star, Dot, 0>>, <<1, Dot, 0>>}

\* "1", "r1", "1.0", "1.0.2", "1.2", "1.2.2.1", "2-1", "2-r1", "2",
\* "1.2-0+1", "1.2+2-1", "0.1", "1.0-1", and a number that is too wide.
Tags ==
  {<<1>>, <<R, 1>>, <<1, Dot, 0>>, <<1, Dot, 0, Dot, 2>>, <<1, Dot, 2>>,
   <<1, Dot, 2, Dot, 2, Dot, 1>>, <<2, Dash, 1>>, <<2, Dash, R, 1>>, <<2>>,
   <<1, Dot, 2, Dash, 0, Plus, 1>>, <<1, Dot, 2, Plus, 2, Dash, 1>>, 
   <<0, Dot, 1>>, <<1, Dot, 0, Dash, 1>>}
TooWide == <<V, 9>>

\* Up to three different tags in any order.
ShortLists(S) ==
  {<<>>} \cup {<<x>> : x \in S}
         \cup {l \in {<<x, y>> : x, y \in S} : l[1] # l[2]}
         \cup {l \in {<<x, y, z>> : x, y, z \in S} :
                 l[1] # l[2] /\ l[2] # l[3] /\ l[1] # l[3]}
AllLists  == ShortLists(Tags) \cup {<<TooWide>>, <<<<1>>, TooWide>>}
=============================================================================

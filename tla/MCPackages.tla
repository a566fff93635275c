----------------------------- MODULE MCPackages -----------------------------
(***************************************************************************)
(* Instances of Packages for TLC: configurations of the paths "a" and "b". *)
(***************************************************************************)
EXTENDS Packages

Pkg(strategy, p, url, version) ==
  [strategy |-> strategy, path |-> p, url |-> url,
   version |-> version, original |-> OriginalVersion(version)]

SubA  == Pkg("submodule", "a", "u", "v")
MovedA == Pkg("submodule", "a", "w", "v")
HeadA == Pkg("clone", "a", "u", NoVersion)
SubB  == Pkg("submodule", "b", "u", NoVersion)

\* A package, the same from another repository, another version and strategy of
\* it with a second one; none at all.  Where a process may die, "b" is outside
\* of the working directory, so that it dies there after "a" was fetched.
TwoConfigs   == {<<SubA>>, <<MovedA>>, <<HeadA, SubB>>}
OneConfig    == {<<>>, <<SubA>>, <<HeadA>>, <<SubA, SubB>>}
PairConfigs  == {<<HeadA, SubB>>}

\* The second repository has only the newer commit of the first one.
Repositories == [url \in Urls |-> IF url = "u" THEN Commits ELSE {"c2"}]

\* cgen -g, and -u without a path, with one, and with an unknown one first;
\* both together, the last of which is the command, and what is none.
Opt(opt, values) == [opt |-> opt, values |-> values]
Generate     == <<Opt("-g", <<>>)>>
PlainArgs    == {Generate, <<Opt("-u", <<>>)>>, <<Opt("-u", <<"a">>)>>}
UnknownArgs  == {<<Opt("-u", <<"a">>), Opt("-g", <<>>)>>, <<Opt("-u", <<>>), Opt("-v", <<>>)>>,
                 <<Opt("-u", <<"c">>), Opt("-u", <<"a">>)>>, <<Opt("-u", <<"a">>)>>,
                 <<Opt("-g", <<>>), Opt("-h", <<>>)>>, <<Opt("-v", <<>>)>>, Generate}
CrashArgs    == {Generate, <<Opt("-u", <<"c">>), Opt("-u", <<"a">>)>>}
=============================================================================

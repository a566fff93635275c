--------------------------- MODULE MCPackageFetch ---------------------------
(***************************************************************************)
(* Instances of PackageFetch for TLC.                                      *)
(***************************************************************************)
EXTENDS PackageFetch, TLC

\* The two commits are interchangeable.
Symmetry == Permutations(Commits)

\* Each repository has all commits.
Repositories == [url \in Urls |-> Commits]
=============================================================================

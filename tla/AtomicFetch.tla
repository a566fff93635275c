---------------------------- MODULE AtomicFetch -----------------------------
(***************************************************************************)
(* What package_fetch of src/libcgen/packages.cpp promises a caller that   *)
(* is not killed: a package is replaced by a complete checkout in one step *)
(* or stays as it is.                                                      *)
(***************************************************************************)
CONSTANTS Paths, Commits

VARIABLES
  installed,  \* the commit installed at each path, or "none"
  fetching,   \* the path being fetched, or "none"
  result      \* of the fetch: "none" yet, "failed", or the new commit

vars == <<installed, fetching, result>>

Init == /\ installed = [p \in Paths |-> "none"]
        /\ fetching = "none" /\ result = "none"

Begin(p) == /\ fetching = "none"
            /\ fetching' = p
            /\ UNCHANGED <<installed, result>>

Install(c) == /\ fetching # "none" /\ result = "none"
              /\ installed' = [installed EXCEPT ![fetching] = c]
              /\ result' = c
              /\ UNCHANGED fetching

Fail == /\ fetching # "none" /\ result = "none"
        /\ result' = "failed"
        /\ UNCHANGED <<installed, fetching>>

\* The caller takes the result, or the process ended without one.
End == /\ fetching # "none"
       /\ fetching' = "none" /\ result' = "none"
       /\ UNCHANGED installed

\* A package is removed while no fetch is in progress.
Drop(p) == /\ fetching = "none"
           /\ installed' = [installed EXCEPT ![p] = "none"]
           /\ UNCHANGED <<fetching, result>>

Next == \/ \E p \in Paths : Begin(p) \/ Drop(p)
        \/ \E c \in Commits : Install(c)
        \/ Fail \/ End

Spec == Init /\ [][Next]_vars
=============================================================================

------------------------- MODULE PackageFetchProofs -------------------------
(***************************************************************************)
(* Proofs about PackageFetch: the invariant IInv is inductive, for every   *)
(* set of paths, commits and versions and any number of kills, so that the *)
(* last complete checkout of a package is never lost.                      *)
(*                                                                         *)
(* A step of a call changes the slot of one path: SetGoto and KeepGoto say *)
(* how, OtherPaths that no other path matters, and one lemma per group of  *)
(* actions what the step does to the path of the call.                     *)
(***************************************************************************)
EXTENDS PackageFetch, TLAPS

\* A call in progress has a package, and its slot is well typed.
LEMMA CallTyped ==
  ASSUME TypeOK, step # "idle"
  PROVE  /\ pkg \in Package /\ path \in Paths /\ here \in Slot
         /\ here.tree \in Directory /\ here.bak \in Directory
         /\ here.modules \in BOOLEAN /\ here.modulesBak \in BOOLEAN
         /\ here.index \in BOOLEAN
<1>1. pkg \in Package
  BY DEF TypeOK
<1>2. path \in Paths
  BY <1>1 DEF Package, path
<1>3. here \in Slot
  BY <1>2 DEF TypeOK, here
<1> QED
  BY <1>1, <1>2, <1>3 DEF Slot

\* The commits of the package's repository are commits.
LEMMA OriginTyped ==
  ASSUME TypeOK, step # "idle" PROVE CommitsOf[pkg.url] \subseteq Commits
BY CallTyped, FetchAssumption DEF Package

\* Set changes the slot of the call's path and no other.
LEMMA SetSlot ==
  ASSUME TypeOK, step # "idle", NEW slot \in Slot, Set(slot)
  PROVE  /\ disk' \in [Paths -> Slot]
         /\ disk'[path] = slot
         /\ \A p \in Paths \ {path} : disk'[p] = disk[p]
BY CallTyped DEF TypeOK, Set

\* The slots a behaviour starts with.
LEMMA BlankTyped == Blank \in Slot /\ Absent \in Directory /\ Empty \in Directory
BY DEF Blank, Slot, Absent, Empty, Directory, Unfinished

\* Nothing has been fetched.
THEOREM InitIInv == FetchInit => IInv
<1> SUFFICES ASSUME FetchInit PROVE IInv
  OBVIOUS
<1>1. TypeOK
  <2>1. disk \in [Paths -> Slot] /\ before \in Slot
    BY BlankTyped DEF FetchInit
  <2>2. good \in [Paths -> Commits \cup {"none"}]
    BY DEF FetchInit
  <2> QED
    BY <2>1, <2>2 DEF FetchInit, TypeOK, Removes
<1>2. NothingLost
  BY DEF FetchInit, NothingLost
<1>3. Complete /\ InBackup /\ InTree /\ PathFree
  BY DEF FetchInit, Complete, InBackup, InTree, PathFree, Removes, Gits, Finishes, Restores
<1> QED
  BY <1>1, <1>2, <1>3 DEF IInv

\* What the call does at its next program counter is well typed when the slot is.
LEMMA GotoTyped ==
  ASSUME TypeOK, step # "idle", disk' \in [Paths -> Slot],
         NEW s \in Running \cup Returned, s \in Removes => after # "idle", Goto(s)
  PROVE  TypeOK'
BY DEF TypeOK, Goto, histVars, Running, Returned, Backups, Removes, Gits, Finishes, Restores

\* The other paths keep their last checkout: what is left to prove is what the
\* step does to the path of the call.
LEMMA OtherPaths ==
  ASSUME IInv, step # "idle", TypeOK', path' = path,
         \A p \in Paths \ {path} : disk'[p] = disk[p] /\ good'[p] = good[p],
         good'[path] # "none" => good'[path] \in {here'.tree.at, here'.bak.at},
         Complete', InBackup', InTree', PathFree'
  PROVE  IInv'
<1>1. here' = disk'[path]
  BY DEF here
<1>2. NothingLost'
  BY <1>1 DEF IInv, NothingLost
<1> QED
  BY <1>2 DEF IInv

\* The step goes on at s and leaves h in the slot of the path.
Moves(h, s) ==
  /\ TypeOK'
  /\ path' = path /\ here' = h /\ step' = s
  /\ UNCHANGED <<after, ok, good>>
  /\ \A p \in Paths \ {path} : disk'[p] = disk[p] /\ good'[p] = good[p]

\* A step that changes the slot of the path.
LEMMA SetGoto ==
  ASSUME TypeOK, step # "idle", NEW h \in Slot, Set(h),
         NEW s \in Running \cup Returned, s \in Removes => after # "idle", Goto(s)
  PROVE  Moves(h, s)
<1>1. path' = path /\ here' = disk'[path] /\ step' = s /\ UNCHANGED <<after, ok, good>>
  BY DEF Goto, histVars, path, here
<1> QED
  BY <1>1, SetSlot, GotoTyped DEF Moves

\* A step that changes nothing on the disk.
LEMMA KeepGoto ==
  ASSUME TypeOK, step # "idle",
         NEW s \in Running \cup Returned, s \in Removes => after # "idle", Keep(s)
  PROVE  Moves(here, s)
<1>1. /\ path' = path /\ here' = here /\ step' = s /\ UNCHANGED <<after, ok, good>>
      /\ disk' = disk /\ Goto(s)
  BY DEF Keep, Goto, histVars, path, here
<1> QED
  BY <1>1, GotoTyped DEF TypeOK, Moves

\* What the invariant says of the call in progress.
LEMMA Here ==
  ASSUME IInv, step # "idle"
  PROVE  /\ TypeOK /\ Complete /\ InBackup /\ InTree /\ PathFree
         /\ pkg \in Package /\ path \in Paths /\ here \in Slot
         /\ here.tree \in Directory /\ here.bak \in Directory
         /\ here.modules \in BOOLEAN /\ here.modulesBak \in BOOLEAN
         /\ good[path] \in Commits \cup {"none"}
         /\ good[path] # "none" => good[path] \in {here.tree.at, here.bak.at}
<1>1. TypeOK /\ Complete /\ InBackup /\ InTree /\ PathFree /\ NothingLost
  BY DEF IInv
<1> QED
  BY <1>1, CallTyped DEF TypeOK, NothingLost, here

\* A directory without a complete checkout is at no commit.
LEMMA AbsentNoCommit == Commits \cap {"absent", "empty", "partial", "none"} = {}
BY FetchAssumption DEF Unfinished

-----------------------------------------------------------------------------
\* package_backup: the only copy of the package moves to the backup.
LEMMA BackupIInv == IInv /\ BackupStep => IInv'
<1> SUFFICES ASSUME IInv, BackupStep PROVE IInv'
  OBVIOUS
<1> USE DEF Running, Returned, Backups, Removes, Gits, Finishes, Restores
<1>0. step # "idle"
  BY DEF BackupStep, FetchOutside, FetchStart, BackupThrows, BackupModules, BackupTree
<1>a. /\ TypeOK /\ here \in Slot /\ here.tree \in Directory /\ path \in Paths
      /\ here.bak \in Directory /\ here.modules \in BOOLEAN /\ here.modulesBak \in BOOLEAN
  BY <1>0, Here
<1>1. CASE FetchOutside \/ FetchStart \/ BackupThrows
  <2>1. PICK s \in {"dead", "backup_modules"} : Keep(s)
    BY <1>1 DEF FetchOutside, FetchStart, BackupThrows
  <2>2. Moves(here, s)
    BY <1>0, <1>a, <2>1, KeepGoto
  <2> QED
    BY <1>0, <2>2, Here, OtherPaths DEF Moves, Complete, InBackup, InTree, PathFree
<1>2. CASE BackupModules
  <2> DEFINE h == [here EXCEPT !.modules = FALSE, !.modulesBak = @ \/ here.modules]
  <2>1. h \in Slot /\ h.tree = here.tree /\ h.bak = here.bak /\ h.modules = FALSE
    BY <1>a DEF Slot
  <2>2. Moves(h, "backup_tree")
    BY <1>0, <1>a, <1>2, <2>1, SetGoto DEF BackupModules
  <2> HIDE DEF h
  <2> QED
    BY <1>0, <2>1, <2>2, Here, OtherPaths DEF Moves, Complete, InBackup, InTree, PathFree
<1>3. CASE BackupTree
  <2>1. /\ path' = path /\ step' = "remove" /\ after' \in {"tag", "add"} /\ good' = good
        /\ here' = disk'[path]
    BY <1>3 DEF BackupTree, histVars, path, here
  <2> DEFINE h == [here EXCEPT !.tree = Absent, !.bak = here.tree]
  <2>2. h \in Slot /\ h.tree = Absent /\ h.bak = here.tree /\ h.modules = here.modules
    BY <1>a, BlankTyped DEF Slot
  <2>3. \/ disk' = disk /\ here.tree.at = "absent"
        \/ Set(h) /\ here.bak.at \in {"absent", "empty"}
    BY <1>3 DEF BackupTree
  <2> HIDE DEF h
  <2>4. /\ disk' \in [Paths -> Slot]
        /\ \A p \in Paths \ {path} : disk'[p] = disk[p] /\ good'[p] = good[p]
    BY <1>0, <1>a, <2>1, <2>2, <2>3, SetSlot DEF TypeOK
  <2>5. TypeOK'
    BY <1>a, <1>3, <2>1, <2>4 DEF BackupTree, TypeOK, histVars
  <2>6. here'.tree.at = "absent" /\ here'.modules = here.modules
        /\ (good[path] # "none" => here'.bak.at = good[path])
    <3>1. CASE disk' = disk /\ here.tree.at = "absent"
      BY <1>0, <3>1, <2>1, Here, AbsentNoCommit DEF here
    <3>2. CASE Set(h) /\ here.bak.at \in {"absent", "empty"}
      BY <1>0, <1>a, <3>2, <2>1, <2>2, SetSlot, Here, AbsentNoCommit DEF Absent
    <3> QED
      BY <2>3, <3>1, <3>2
  <2>7. ~here.modules
    BY <1>0, <1>3, Here DEF BackupTree, PathFree
  <2> QED
    BY <1>0, <2>1, <2>4, <2>5, <2>6, <2>7, OtherPaths DEF Complete, InBackup, InTree, PathFree
<1> QED
  BY <1>1, <1>2, <1>3 DEF BackupStep

\* package_remove does not touch the backup.
LEMMA RemoveIInv == IInv /\ RemoveStep => IInv'
<1> SUFFICES ASSUME IInv, RemoveStep PROVE IInv'
  OBVIOUS
<1> USE DEF Running, Returned, Backups, Removes, Gits, Finishes, Restores
<1>0. step \in Removes
  BY DEF RemoveStep, RemoveNothing, RemoveStart, GitDeinit, GitRm, RemoveModules, RemoveTree
<1>a. /\ TypeOK /\ here \in Slot /\ here.tree \in Directory /\ path \in Paths
      /\ here.bak \in Directory /\ here.modules \in BOOLEAN /\ here.modulesBak \in BOOLEAN
  BY <1>0, Here
<1>b. after \in {"removed", "tag", "add", "restore_modules"}
  BY <1>0, <1>a DEF TypeOK
<1>c. good[path] # "none" => here.bak.at = good[path]
  BY <1>0, Here DEF InBackup
<1>1. CASE RemoveNothing
  <2>1. Moves(here, after)
    BY <1>0, <1>1, <1>a, <1>b, KeepGoto DEF RemoveNothing
  <2>2. /\ here.tree.at = "absent"
        /\ after # "removed" => ~here.modules
    BY <1>0, <1>1, Here DEF RemoveNothing, PathFree
  <2>3. PathFree' /\ InBackup'
    BY <1>b, <1>c, <2>1, <2>2 DEF Moves, PathFree, InBackup
  <2>4. Complete' /\ InTree'
    BY <1>b, <2>1 DEF Moves, Complete, InTree
  <2> QED
    BY <1>0, <1>c, <2>1, <2>3, <2>4, OtherPaths DEF Moves
<1>2. CASE RemoveStart
  <2>1. Moves(here, "deinit")
    BY <1>0, <1>2, <1>a, <1>b, KeepGoto DEF RemoveStart
  <2>2. after \in {"removed", "restore_modules"}
    BY <1>0, <1>2, <1>b, Here DEF RemoveStart, PathFree
  <2>3. PathFree' /\ InBackup'
    BY <1>c, <2>1, <2>2 DEF Moves, PathFree, InBackup
  <2>4. Complete' /\ InTree'
    BY <2>1 DEF Moves, Complete, InTree
  <2> QED
    BY <1>0, <1>c, <2>1, <2>3, <2>4, OtherPaths DEF Moves
<1>3. ASSUME step # "remove",
             NEW h \in Slot, h.bak = here.bak,
             NEW s \in {"git_rm", "remove_modules", "remove_tree", after}, Set(h), Goto(s),
             s \in {"remove_tree", after} => ~h.modules,
             s = after => h.tree = Absent
      PROVE  IInv'
  <2>1. Moves(h, s)
    BY <1>0, <1>3, <1>a, <1>b, SetGoto
  <2>2. after \in {"removed", "restore_modules"}
    BY <1>0, <1>3, Here DEF PathFree
  <2>3. CASE s = after
    <3>1. /\ step' \in {"removed", "restore_modules"} /\ here'.tree.at = "absent"
          /\ ~here'.modules /\ here'.bak = here.bak /\ UNCHANGED <<good, path, ok>>
      BY <1>3, <2>1, <2>2, <2>3 DEF Moves, Absent
    <3>2. PathFree' /\ InBackup' /\ Complete' /\ InTree'
      BY <1>c, <3>1 DEF PathFree, InBackup, Complete, InTree
    <3> QED
      BY <1>0, <1>c, <2>1, <3>1, <3>2, OtherPaths DEF Moves
  <2>4. CASE s # after
    <3>1. /\ step' \in {"git_rm", "remove_modules", "remove_tree"} /\ after' = after
          /\ step' = "remove_tree" => ~here'.modules
          /\ here'.bak = here.bak /\ UNCHANGED <<good, path, ok>>
      BY <1>3, <2>1, <2>4 DEF Moves
    <3>2. PathFree' /\ InBackup' /\ Complete' /\ InTree'
      BY <1>c, <2>2, <3>1 DEF PathFree, InBackup, Complete, InTree
    <3> QED
      BY <1>0, <1>c, <2>1, <3>1, <3>2, OtherPaths DEF Moves
  <2> QED
    BY <2>3, <2>4
<1>4. CASE GitDeinit \/ GitRm
  <2> DEFINE t == IF step = "deinit" THEN Empty ELSE Absent
             d == IF here.index THEN t ELSE here.tree
             h == [here EXCEPT !.tree = d, !.index = IF step = "deinit" THEN @ ELSE FALSE]
  <2>1. h \in Slot /\ h.bak = here.bak
    BY <1>a, BlankTyped DEF Slot
  <2>2. \E s \in {"git_rm", "remove_modules"} : Set(h) /\ Goto(s)
    BY <1>a, <1>4 DEF GitDeinit, GitRm, Set, Slot
  <2>3. step # "remove"
    BY <1>4 DEF GitDeinit, GitRm
  <2> HIDE DEF h
  <2> QED
    BY <1>3, <1>b, <2>1, <2>2, <2>3
<1>5. CASE RemoveModules
  <2> DEFINE h == [here EXCEPT !.modules = FALSE]
  <2>1. h \in Slot /\ h.bak = here.bak /\ ~h.modules
    BY <1>a DEF Slot
  <2>2. Set(h) /\ Goto("remove_tree") /\ step = "remove_modules"
    BY <1>5 DEF RemoveModules
  <2> HIDE DEF h
  <2> QED
    BY <1>3, <1>b, <2>1, <2>2
<1>6. CASE RemoveTree
  <2> DEFINE h == [here EXCEPT !.tree = Absent]
  <2>1. h \in Slot /\ h.bak = here.bak /\ h.modules = here.modules /\ h.tree = Absent
    BY <1>a, BlankTyped DEF Slot
  <2>2. Set(h) /\ Goto(after) /\ step = "remove_tree" /\ ~here.modules
    BY <1>0, <1>6, Here DEF RemoveTree, PathFree
  <2> HIDE DEF h
  <2> QED
    BY <1>3, <1>b, <2>1, <2>2
<1> QED
  BY <1>1, <1>2, <1>4, <1>5, <1>6 DEF RemoveStep

-----------------------------------------------------------------------------
LEMMA PartialTyped ==
  ASSUME here \in Slot, PartialAdd
  PROVE  \E h \in Slot : Set(h) /\ h.bak = here.bak /\ h.tree.at = "partial"
<1> DEFINE d(git) == [at |-> "partial", git |-> git]
           sub    == [here EXCEPT !.tree = d("file"), !.modules = TRUE]
           raw    == [here EXCEPT !.tree = d("dir")]
<1>1. d("file") \in Directory /\ d("dir") \in Directory
  BY DEF Directory, Unfinished
<1>2. /\ sub \in Slot /\ sub.bak = here.bak /\ sub.tree.at = "partial"
      /\ raw \in Slot /\ raw.bak = here.bak /\ raw.tree.at = "partial"
  BY <1>1 DEF Slot
<1>3. Set(sub) \/ Set(raw)
  BY DEF PartialAdd
<1> QED
  BY <1>2, <1>3

\* A git command of package_fetch works on the path, not on the backup, until
\* HEAD is resolved: then the checkout is the last complete one.
LEMMA GitIInv == IInv /\ GitStep => IInv'
<1> SUFFICES ASSUME IInv, GitStep PROVE IInv'
  OBVIOUS
<1> USE DEF Running, Returned, Backups, Removes, Gits, Finishes, Restores
<1>0. step \in Gits
  BY DEF GitStep, TagFails, TagThrows, TagFound, SubmoduleAdd, Clone, AddFails, GitReset,
         GitResetFails, GitInitNested, FetchFails, ResolveHead
<1>a. /\ TypeOK /\ here \in Slot /\ here.tree \in Directory /\ path \in Paths
      /\ here.bak \in Directory /\ here.modules \in BOOLEAN /\ here.modulesBak \in BOOLEAN
  BY <1>0, Here
<1>b. /\ good[path] # "none" => here.bak.at = good[path]
      /\ after # "removed" /\ (here.tree.at = "absent" => ~here.modules)
  BY <1>0, Here DEF InBackup, PathFree
<1>1. CASE TagThrows \/ TagFound
  <2>1. PICK s \in {"dead", "add"} : Keep(s)
    BY <1>1 DEF TagThrows, TagFound
  <2>2. Moves(here, s)
    BY <1>0, <1>a, <2>1, KeepGoto
  <2>3. PathFree' /\ InBackup'
    BY <1>b, <2>2 DEF Moves, PathFree, InBackup
  <2>4. Complete' /\ InTree'
    BY <2>2 DEF Moves, Complete, InTree
  <2> QED
    BY <1>0, <1>b, <2>2, <2>3, <2>4, OtherPaths DEF Moves
<1>2. CASE TagFails \/ FetchFails
  <2>1. Restore
    BY <1>2 DEF TagFails, FetchFails
  <2>2. /\ path' = path /\ here' = here /\ step' = "remove" /\ after' = "restore_modules"
        /\ UNCHANGED <<disk, good>>
    BY <2>1 DEF Restore, histVars, path, here
  <2>3. TypeOK'
    BY <1>0, <1>a, <2>1 DEF Restore, TypeOK, histVars
  <2>4. PathFree' /\ InBackup'
    BY <1>b, <2>2 DEF PathFree, InBackup
  <2>5. Complete' /\ InTree'
    BY <2>2 DEF Complete, InTree
  <2> QED
    BY <1>0, <1>b, <2>2, <2>3, <2>4, <2>5, OtherPaths
<1>o. CommitsOf[pkg.url] \subseteq Commits
  BY <1>0, <1>a, OriginTyped
<1>d. AfterAdd \in {"reset", "nested", "head"} /\ AfterReset \in {"nested", "head"}
  BY DEF AfterAdd, AfterReset
<1>3. CASE SubmoduleAdd \/ Clone \/ AddFails \/ GitReset \/ GitResetFails \/ GitInitNested
  <2>1. PICK b \in BOOLEAN, n \in {"reset", "nested", "head"}, h \in Slot :
          /\ Returns(b, n) /\ (Set(h) \/ (h = here /\ disk' = disk))
          /\ h.bak = here.bak
          /\ h.tree.at = "absent" => ~h.modules
          /\ b => h.tree.at \in CommitsOf[pkg.url] \/ (h = here /\ step = "nested")
    <3>1. CASE SubmoduleAdd
      <4>1. PICK c \in CommitsOf[pkg.url] :
              Set([here EXCEPT !.tree = [at |-> c, git |-> "file"], !.modules = TRUE, !.index = TRUE])
        BY <3>1 DEF SubmoduleAdd
      <4> DEFINE d == [at |-> c, git |-> "file"]
                 h == [here EXCEPT !.tree = d, !.modules = TRUE, !.index = TRUE]
      <4>2. d \in Directory
        BY <1>o DEF Directory
      <4>3. h \in Slot /\ h.bak = here.bak /\ h.tree.at = c
        BY <1>a, <4>2 DEF Slot
      <4>4. Returns(TRUE, AfterAdd) /\ Set(h)
        BY <3>1, <4>1 DEF SubmoduleAdd
      <4> HIDE DEF h
      <4> QED
        BY <1>d, <1>o, <4>3, <4>4, AbsentNoCommit
    <3>2. CASE Clone
      <4>1. PICK c \in CommitsOf[pkg.url] : Set([here EXCEPT !.tree = [at |-> c, git |-> "dir"]])
        BY <3>2 DEF Clone
      <4> DEFINE d == [at |-> c, git |-> "dir"]
                 h == [here EXCEPT !.tree = d]
      <4>2. d \in Directory
        BY <1>o DEF Directory
      <4>3. h \in Slot /\ h.bak = here.bak /\ h.tree.at = c
        BY <1>a, <4>2 DEF Slot
      <4>4. Returns(TRUE, AfterAdd) /\ Set(h)
        BY <3>2, <4>1 DEF Clone
      <4> HIDE DEF h
      <4> QED
        BY <1>d, <1>o, <4>3, <4>4, AbsentNoCommit
    <3>3. CASE AddFails
      <4>1. Returns(FALSE, AfterAdd)
        BY <3>3 DEF AddFails
      <4>2. CASE PartialAdd
        <5>1. PICK h \in Slot : Set(h) /\ h.bak = here.bak /\ h.tree.at = "partial"
          BY <1>a, <4>2, PartialTyped
        <5> QED
          BY <1>d, <4>1, <5>1
      <4>3. CASE UNCHANGED disk
        BY <1>a, <1>b, <1>d, <4>1, <4>3
      <4> QED
        BY <3>3, <4>2, <4>3 DEF AddFails
    <3>4. CASE GitReset
      <4>1. PICK c \in CommitsOf[pkg.url] : Set([here EXCEPT !.tree.at = c])
        BY <3>4 DEF GitReset
      <4> DEFINE d == [here.tree EXCEPT !.at = c]
                 h == [here EXCEPT !.tree = d]
      <4>2. d \in Directory /\ d.at = c
        BY <1>a, <1>o DEF Directory
      <4>3. h \in Slot /\ h.bak = here.bak /\ h.tree.at = c
        BY <1>a, <4>2 DEF Slot
      <4>4. Returns(TRUE, AfterReset) /\ Set(h)
        BY <3>4, <4>1 DEF GitReset
      <4> HIDE DEF h
      <4> QED
        BY <1>d, <1>o, <4>3, <4>4, AbsentNoCommit
    <3>5. CASE GitResetFails
      BY <1>a, <1>b, <1>d, <3>5 DEF GitResetFails
    <3>6. CASE GitInitNested
      BY <1>a, <1>b, <3>6 DEF GitInitNested
    <3> QED
      BY <1>3, <3>1, <3>2, <3>3, <3>4, <3>5, <3>6
  <2>2. /\ path' = path /\ pkg' = pkg /\ step' = n /\ ok' = (ok /\ b) /\ UNCHANGED <<after, good>>
        /\ here' = disk'[path]
    BY <2>1 DEF Returns, histVars, path, here
  <2>3. /\ disk' \in [Paths -> Slot] /\ here' = h
        /\ \A p \in Paths \ {path} : disk'[p] = disk[p]
    BY <1>0, <1>a, <2>1, <2>2, SetSlot DEF TypeOK, here
  <2>4. TypeOK'
    BY <1>0, <1>a, <2>1, <2>2, <2>3 DEF Returns, TypeOK, histVars
  <2>5. PathFree' /\ InBackup'
    BY <1>b, <2>1, <2>2, <2>3 DEF PathFree, InBackup
  <2>6. Complete' /\ InTree'
    BY <1>0, <2>1, <2>2, <2>3, Here DEF Complete, InTree
  <2> QED
    BY <1>0, <1>b, <2>1, <2>2, <2>3, <2>4, <2>5, <2>6, OtherPaths
<1>4. CASE ResolveHead
  <2>1. /\ path' = path /\ here' = here /\ step' = "dotgit" /\ disk' = disk
        /\ good' = [good EXCEPT ![path] = here.tree.at]
    BY <1>4 DEF ResolveHead, path, here
  <2>2. here.tree.at \in Commits
    BY <1>0, <1>4, <1>o, Here DEF ResolveHead, Complete
  <2>3. /\ good' \in [Paths -> Commits \cup {"none"}] /\ good'[path] = here.tree.at
        /\ \A p \in Paths \ {path} : good'[p] = good[p]
    BY <1>a, <2>1, <2>2 DEF TypeOK
  <2>4. TypeOK'
    BY <1>a, <1>4, <2>2, <2>3 DEF ResolveHead, TypeOK
  <2>5. Complete' /\ InBackup' /\ InTree' /\ PathFree'
    BY <2>1, <2>3 DEF Complete, InBackup, InTree, PathFree
  <2> QED
    BY <1>0, <2>1, <2>3, <2>4, <2>5, OtherPaths
<1> QED
  BY <1>1, <1>2, <1>3, <1>4 DEF GitStep

\* The backup is deleted when the directory holds the new checkout, and is
\* renamed back to a path that is free.
LEMMA FinishIInv == IInv /\ FinishStep => IInv'
<1> SUFFICES ASSUME IInv, FinishStep PROVE IInv'
  OBVIOUS
<1> USE DEF Running, Returned, Backups, Removes, Gits, Finishes, Restores
<1>0. step \in Finishes \cup Restores
  BY DEF FinishStep, DropDotGit, DropBackupModules, DropBackupTree, RestoreModules, RestoreTree
<1>a. /\ TypeOK /\ here \in Slot /\ here.tree \in Directory /\ path \in Paths
      /\ here.bak \in Directory /\ here.modules \in BOOLEAN /\ here.modulesBak \in BOOLEAN
  BY <1>0, Here
<1>1. CASE DropDotGit \/ DropBackupModules \/ DropBackupTree
  <2>0. good[path] = here.tree.at
    BY <1>0, <1>1, Here DEF DropDotGit, DropBackupModules, DropBackupTree, InTree
  <2>1. PICK h \in Slot, s \in {"drop_modules", "drop_tree", "done"} :
          Set(h) /\ Goto(s) /\ h.tree.at = here.tree.at
    <3>1. CASE DropDotGit
      <4> DEFINE d == [here.tree EXCEPT !.git = IF @ = "dir" THEN "none" ELSE @]
                 h == [here EXCEPT !.tree = d]
      <4>1. d \in Directory /\ d.at = here.tree.at
        BY <1>a DEF Directory
      <4>2. h \in Slot /\ h.tree = d
        BY <1>a, <4>1 DEF Slot
      <4>3. Set(h) /\ Goto("drop_modules")
        BY <3>1 DEF DropDotGit
      <4> QED
        BY <4>1, <4>2, <4>3
    <3>2. CASE DropBackupModules
      <4> DEFINE h == [here EXCEPT !.modulesBak = FALSE]
      <4>1. h \in Slot /\ h.tree = here.tree
        BY <1>a DEF Slot
      <4>2. Set(h) /\ Goto("drop_tree")
        BY <3>2 DEF DropBackupModules
      <4> QED
        BY <4>1, <4>2
    <3>3. CASE DropBackupTree
      <4> DEFINE h == [here EXCEPT !.bak = Absent]
      <4>1. h \in Slot /\ h.tree = here.tree
        BY <1>a, BlankTyped DEF Slot
      <4>2. Set(h) /\ Goto("done")
        BY <3>3 DEF DropBackupTree
      <4> QED
        BY <4>1, <4>2
    <3> QED
      BY <1>1, <3>1, <3>2, <3>3
  <2>2. Moves(h, s)
    BY <1>0, <1>a, <2>1, SetGoto
  <2>3. Complete' /\ InBackup' /\ InTree' /\ PathFree'
    BY <2>0, <2>1, <2>2 DEF Moves, Complete, InBackup, InTree, PathFree
  <2> QED
    BY <1>0, <2>0, <2>1, <2>2, <2>3, OtherPaths DEF Moves
<1>2. CASE RestoreModules
  <2>0. /\ ~here.modules /\ here.tree.at = "absent"
        /\ good[path] # "none" => here.bak.at = good[path]
    BY <1>0, <1>2, Here DEF RestoreModules, PathFree, InBackup
  <2> DEFINE h == [here EXCEPT !.modules = @ \/ here.modulesBak, !.modulesBak = FALSE]
  <2>1. h \in Slot /\ h.tree = here.tree /\ h.bak = here.bak
    BY <1>a DEF Slot
  <2>2. Moves(h, "restore_tree")
    BY <1>0, <1>2, <1>a, <2>0, <2>1, SetGoto DEF RestoreModules
  <2> HIDE DEF h
  <2>3. Complete' /\ InBackup' /\ InTree' /\ PathFree'
    BY <2>0, <2>1, <2>2 DEF Moves, Complete, InBackup, InTree, PathFree
  <2> QED
    BY <1>0, <2>0, <2>1, <2>2, <2>3, OtherPaths DEF Moves
<1>3. CASE RestoreTree
  <2>0. /\ here.tree.at = "absent"
        /\ good[path] # "none" => here.bak.at = good[path]
    BY <1>0, <1>3, Here DEF RestoreTree, PathFree, InBackup
  <2> DEFINE d == IF here.bak.at = "absent" THEN here.tree ELSE here.bak
             h == [here EXCEPT !.tree = d, !.bak = Absent]
  <2>1. h \in Slot /\ h.tree = d
    BY <1>a, BlankTyped DEF Slot
  <2>2. Set(h) /\ Goto("done")
    BY <1>3, <2>0 DEF RestoreTree
  <2>3. good[path] # "none" => h.tree.at = good[path]
    BY <1>0, <2>0, <2>1, Here, AbsentNoCommit
  <2> HIDE DEF h
  <2>4. Moves(h, "done")
    BY <1>0, <1>a, <2>1, <2>2, SetGoto
  <2>5. Complete' /\ InBackup' /\ InTree' /\ PathFree'
    BY <2>4 DEF Moves, Complete, InBackup, InTree, PathFree
  <2> QED
    BY <1>0, <2>3, <2>4, <2>5, OtherPaths DEF Moves
<1> QED
  BY <1>1, <1>2, <1>3 DEF FinishStep

-----------------------------------------------------------------------------
\* The caller, the kill and the user.
LEMMA CallIInv == IInv /\ Calls => IInv'
<1> SUFFICES ASSUME IInv, Calls PROVE IInv'
  OBVIOUS
<1> USE DEF Running, Returned, Backups, Removes, Gits, Finishes, Restores
<1>0. TypeOK /\ NothingLost
  BY DEF IInv
<1>1. ASSUME NEW p \in Package, CallRemove(p) PROVE IInv'
  <2>1. p.path \in Paths
    BY DEF Package
  <2>2. /\ good' \in [Paths -> Commits \cup {"none"}] /\ good'[p.path] = "none"
        /\ \A q \in Paths : good'[q] \in {good[q], "none"}
    BY <1>0, <1>1, <2>1 DEF CallRemove, TypeOK
  <2>3. /\ disk' = disk /\ step' = "remove" /\ pkg' = p /\ path' = p.path /\ after' = "removed"
    BY <1>1 DEF CallRemove, path
  <2>4. TypeOK'
    BY <1>0, <1>1, <2>2, <2>3, FetchAssumption DEF CallRemove, TypeOK
  <2>5. NothingLost'
    BY <1>0, <2>2, <2>3 DEF NothingLost
  <2>6. Complete' /\ InBackup' /\ InTree' /\ PathFree'
    BY <2>2, <2>3 DEF Complete, InBackup, InTree, PathFree
  <2> QED
    BY <2>4, <2>5, <2>6 DEF IInv
<1>2. ASSUME NEW p \in Package, NEW e \in BOOLEAN, CallFetch(p, e) PROVE IInv'
  <2>1. p.path \in Paths /\ disk[p.path] \in Slot
    BY <1>0 DEF Package, TypeOK
  <2>2. TypeOK'
    BY <1>0, <1>2, <2>1, FetchAssumption DEF CallFetch, TypeOK
  <2>3. NothingLost'
    BY <1>0, <1>2 DEF CallFetch, NothingLost
  <2>4. Complete' /\ InBackup' /\ InTree' /\ PathFree'
    BY <1>2 DEF CallFetch, Complete, InBackup, InTree, PathFree
  <2> QED
    BY <2>2, <2>3, <2>4 DEF IInv
<1>3. CASE Collect
  <2>1. TypeOK'
    BY <1>0, <1>3, BlankTyped DEF Collect, TypeOK
  <2>2. NothingLost'
    BY <1>0, <1>3 DEF Collect, NothingLost
  <2>3. Complete' /\ InBackup' /\ InTree' /\ PathFree'
    BY <1>3 DEF Collect, Complete, InBackup, InTree, PathFree
  <2> QED
    BY <2>1, <2>2, <2>3 DEF IInv
<1> QED
  BY <1>1, <1>2, <1>3 DEF Calls

\* A kill in the middle of a step leaves one of the two copies as it was.
LEMMA CrashIInv == IInv /\ Crash => IInv'
<1> SUFFICES ASSUME IInv, Crash PROVE IInv'
  OBVIOUS
<1> USE DEF Running, Returned, Backups, Removes, Gits, Finishes, Restores
<1>0. step # "idle"
  BY DEF Crash
<1>a. /\ TypeOK /\ here \in Slot /\ here.tree \in Directory /\ path \in Paths
      /\ here.bak \in Directory
  BY <1>0, Here
<1>1. /\ path' = path /\ step' = "dead" /\ good' = good /\ here' = disk'[path]
  BY DEF Crash, path, here
<1>2. /\ disk' \in [Paths -> Slot]
      /\ \A p \in Paths \ {path} : disk'[p] = disk[p]
      /\ good[path] # "none" => good[path] \in {here'.tree.at, here'.bak.at}
  <2>1. CASE UNCHANGED disk
    BY <1>0, <1>a, <1>1, <2>1, Here DEF TypeOK, here
  <2>2. CASE step = "add" /\ PartialAdd
    <3>1. PICK h \in Slot : Set(h) /\ h.bak = here.bak
      BY <1>a, <2>2, PartialTyped
    <3>2. good[path] # "none" => here.bak.at = good[path]
      BY <1>0, <2>2, Here DEF InBackup
    <3> QED
      BY <1>0, <1>a, <1>1, <3>1, <3>2, SetSlot
  <2>3. CASE step = "remove_tree" /\ Set([here EXCEPT !.tree.at = "partial"])
    <3> DEFINE d == [here.tree EXCEPT !.at = "partial"]
               h == [here EXCEPT !.tree = d]
    <3>1. d \in Directory
      BY <1>a DEF Directory, Unfinished
    <3>2. h \in Slot /\ h.bak = here.bak
      BY <1>a, <3>1 DEF Slot
    <3>3. Set(h)
      BY <2>3
    <3>4. good[path] # "none" => here.bak.at = good[path]
      BY <1>0, <2>3, Here DEF InBackup
    <3> HIDE DEF h
    <3> QED
      BY <1>0, <1>a, <1>1, <3>2, <3>3, <3>4, SetSlot
  <2>4. CASE step = "drop_tree" /\ Set([here EXCEPT !.bak.at = "partial"])
    <3> DEFINE d == [here.bak EXCEPT !.at = "partial"]
               h == [here EXCEPT !.bak = d]
    <3>1. d \in Directory
      BY <1>a DEF Directory, Unfinished
    <3>2. h \in Slot /\ h.tree = here.tree
      BY <1>a, <3>1 DEF Slot
    <3>3. Set(h)
      BY <2>4
    <3>4. good[path] = here.tree.at
      BY <1>0, <2>4, Here DEF InTree
    <3> HIDE DEF h
    <3> QED
      BY <1>0, <1>a, <1>1, <3>2, <3>3, <3>4, SetSlot
  <2> QED
    BY <2>1, <2>2, <2>3, <2>4 DEF Crash
<1>3. TypeOK'
  BY <1>0, <1>a, <1>1, <1>2 DEF Crash, TypeOK
<1>4. Complete' /\ InBackup' /\ InTree' /\ PathFree'
  BY <1>1 DEF Complete, InBackup, InTree, PathFree
<1> QED
  BY <1>0, <1>1, <1>2, <1>3, <1>4, OtherPaths

\* What the user deletes is not counted as lost.
LEMMA UserIInv == ASSUME IInv, NEW p \in Paths, UserEmpties(p) PROVE IInv'
<1>1. TypeOK /\ NothingLost /\ step = "idle" /\ step' = "idle"
  BY DEF IInv, UserEmpties, callVars
<1>2. PICK d \in Directory : disk' = [disk EXCEPT ![p].tree = d]
  BY BlankTyped DEF UserEmpties
<1>3. disk[p] \in Slot
  BY <1>1 DEF TypeOK
<1> DEFINE h == [disk[p] EXCEPT !.tree = d]
<1>4. h \in Slot /\ h.bak = disk[p].bak
  BY <1>3 DEF Slot
<1>5. disk' = [disk EXCEPT ![p] = h]
  BY <1>2
<1> HIDE DEF h
<1>6. /\ disk' \in [Paths -> Slot] /\ disk'[p] = h
      /\ \A q \in Paths \ {p} : disk'[q] = disk[q]
  BY <1>1, <1>4, <1>5 DEF TypeOK
<1>7. /\ good' \in [Paths -> Commits \cup {"none"}]
      /\ good'[p] # "none" => good'[p] = disk[p].bak.at
      /\ \A q \in Paths \ {p} : good'[q] = good[q]
  BY <1>1 DEF UserEmpties, TypeOK
<1>8. TypeOK'
  BY <1>1, <1>6, <1>7 DEF UserEmpties, TypeOK, callVars
<1>9. NothingLost'
  BY <1>1, <1>4, <1>6, <1>7 DEF NothingLost
<1>10. Complete' /\ InBackup' /\ InTree' /\ PathFree'
  BY <1>1 DEF Complete, InBackup, InTree, PathFree, Removes, Gits, Finishes, Restores
<1> QED
  BY <1>8, <1>9, <1>10 DEF IInv

\* The invariant depends on the variables of the module only.
LEMMA StutterIInv == ASSUME IInv, UNCHANGED fetchVars PROVE IInv'
<1>1. /\ disk' = disk /\ step' = step /\ pkg' = pkg /\ after' = after /\ errors' = errors
      /\ ok' = ok /\ head' = head /\ crashes' = crashes /\ before' = before /\ good' = good
      /\ path' = path /\ here' = here
  BY DEF fetchVars, callVars, histVars, path, here
<1>2. TypeOK' /\ NothingLost'
  BY <1>1 DEF IInv, TypeOK, NothingLost
<1>3. Complete' /\ InBackup' /\ InTree' /\ PathFree'
  BY <1>1 DEF IInv, Complete, InBackup, InTree, PathFree
<1> QED
  BY <1>2, <1>3 DEF IInv

\* Every step of a call, of its caller, of the user and of a kill preserves
\* the invariant.
THEOREM StepIInv == IInv /\ [FetchNext]_fetchVars => IInv'
BY BackupIInv, RemoveIInv, GitIInv, FinishIInv, CallIInv, CrashIInv, UserIInv, StutterIInv
   DEF FetchNext, FetchStep

\* IInv holds in every reachable state, whatever is fetched or removed, for
\* any number of paths and of kills.
THEOREM FetchInvariant == FetchSpec => []IInv
BY InitIInv, StepIInv, PTL DEF FetchSpec

-----------------------------------------------------------------------------
\* The variables of package_fetch stay in their types; HEAD is never resolved
\* to an unfinished checkout.
THEOREM FetchTypeCorrect == FetchSpec => []TypeOK
<1>1. IInv => TypeOK
  BY DEF IInv
<1> QED
  BY <1>1, FetchInvariant, PTL

\* Wherever the process is killed or an exception ends it, the last complete
\* checkout of every package is in its directory or in the backup.
THEOREM FetchLosesNothing == FetchSpec => []NothingLost
<1>1. IInv => NothingLost
  BY DEF IInv
<1> QED
  BY <1>1, FetchInvariant, PTL

\* package_backup_restore never fails for a destination that is taken.
THEOREM RestoreNeverThrows == FetchSpec => []RestoreFindsFreeDestination
<1>1. IInv => RestoreFindsFreeDestination
  BY DEF IInv, PathFree, RestoreFindsFreeDestination
<1> QED
  BY <1>1, FetchInvariant, PTL
-----------------------------------------------------------------------------
\* What HEAD was resolved to: the checkout in the directory, and the version
\* of the package when that is a commit.  A reset that fails is remembered in
\* "ok" until then.
IsPin == pkg.version \in Commits \ Patterns
HeadInv ==
  /\ step \notin Finishes \cup {"done", "dead"} => head = "none"
  /\ step \in {"nested", "head"} /\ ok /\ IsPin => here.tree.at = pkg.version
  /\ step \in Finishes => head = here.tree.at /\ (IsPin => head = pkg.version)
  /\ step = "done" /\ head # "none" => head = here.tree.at /\ (IsPin => head = pkg.version)

\* No step but one of package_fetch's git commands and its end bears on HEAD.
LEMMA HeadElsewhere ==
  ASSUME IInv, HeadInv,
         BackupStep \/ RemoveStep \/ Calls \/ Crash \/ (\E p \in Paths : UserEmpties(p))
           \/ UNCHANGED fetchVars
  PROVE  HeadInv'
<1> USE DEF HeadInv, IsPin, Backups, Removes, Gits, Finishes, Restores, Running, Returned
<1>0. TypeOK
  BY DEF IInv
<1>1. CASE BackupStep
  BY <1>1 DEF BackupStep, FetchOutside, FetchStart, BackupThrows, BackupModules, BackupTree, Keep, Goto
<1>2. CASE RemoveStep
  BY <1>0, <1>2 DEF RemoveStep, RemoveNothing, RemoveStart, GitDeinit, GitRm, RemoveModules,
                    RemoveTree, Keep, Goto, TypeOK
<1>3. CASE Calls
  BY <1>3 DEF Calls, CallRemove, CallFetch, Collect
<1>4. CASE Crash
  BY <1>4 DEF Crash
<1>5. CASE \E p \in Paths : UserEmpties(p)
  BY <1>5 DEF UserEmpties, callVars
<1>6. CASE UNCHANGED fetchVars
  BY <1>6 DEF fetchVars, callVars, here, path
<1> QED
  BY <1>1, <1>2, <1>3, <1>4, <1>5, <1>6

\* The git commands: rev-parse reads HEAD of the checkout that the last fetch,
\* clone or checkout has left.
LEMMA HeadGit == ASSUME IInv, HeadInv, GitStep PROVE HeadInv'
<1> USE DEF HeadInv, IsPin, Backups, Removes, Gits, Finishes, Restores
<1>1. CASE TagFails \/ TagThrows \/ TagFound \/ FetchFails
  BY <1>1 DEF TagFails, TagThrows, TagFound, FetchFails, Restore, Keep, Goto
<1>2. CASE SubmoduleAdd \/ Clone \/ AddFails
  <2>1. step' = AfterAdd /\ pkg' = pkg /\ head' = head /\ step = "add"
    BY <1>2 DEF SubmoduleAdd, Clone, AddFails, Returns
  <2>2. AfterAdd \in {"reset", "nested", "head"} /\ (IsPin => AfterAdd = "reset")
    <3>1. pkg.strategy \in Strategy
      BY <2>1, Here DEF Package
    <3> QED
      BY <3>1, FetchAssumption DEF AfterAdd, Strategy
  <2> QED
    BY <2>1, <2>2
<1>3. CASE GitReset
  <2>0. step # "idle"
    BY <1>3 DEF GitReset
  <2>1. PICK c \in CommitsOf[pkg.url] : /\ IsPin => c = pkg.version
                                       /\ Set([here EXCEPT !.tree.at = c])
    BY <1>3 DEF GitReset
  <2> DEFINE d == [here.tree EXCEPT !.at = c]
             h == [here EXCEPT !.tree = d]
  <2>2. d \in Directory /\ d.at = c
    BY <2>0, Here, OriginTyped DEF Directory
  <2>3. h \in Slot /\ h.tree = d
    BY <2>0, <2>2, Here DEF Slot
  <2>4. Set(h)
    BY <2>1
  <2>5. step' \in {"nested", "head"} /\ pkg' = pkg /\ head' = head /\ path' = path
        /\ step = "reset"
    BY <1>3 DEF GitReset, Returns, AfterReset, path
  <2> HIDE DEF h
  <2>6. here'.tree.at = c
    BY <2>0, <2>2, <2>3, <2>4, <2>5, SetSlot, Here DEF here
  <2> QED
    BY <2>1, <2>5, <2>6
<1>4. CASE GitResetFails \/ GitInitNested
  <2>1. step' \in {"nested", "head"} /\ pkg' = pkg /\ head' = head /\ disk' = disk
        /\ step \in {"reset", "nested"} /\ (ok' => ok /\ step = "nested")
    BY <1>4 DEF GitResetFails, GitInitNested, Returns, AfterReset
  <2>2. here' = here
    BY <2>1 DEF here, path
  <2> QED
    BY <2>1, <2>2
<1>5. CASE ResolveHead
  <2>1. step = "head" /\ ok /\ step' = "dotgit" /\ pkg' = pkg /\ disk' = disk /\ head' = here.tree.at
    BY <1>5 DEF ResolveHead
  <2>2. here' = here
    BY <2>1 DEF here, path
  <2> QED
    BY <2>1, <2>2
<1> QED
  BY <1>1, <1>2, <1>3, <1>4, <1>5 DEF GitStep

\* The end of package_fetch, and a directory put back after a failure.
LEMMA HeadFinish == ASSUME IInv, HeadInv, FinishStep PROVE HeadInv'
<1> USE DEF HeadInv, IsPin, Backups, Removes, Gits, Finishes, Restores
<1>0. step \in Finishes \cup Restores /\ step # "idle"
  BY DEF FinishStep, DropDotGit, DropBackupModules, DropBackupTree, RestoreModules, RestoreTree
<1>a. /\ TypeOK /\ here \in Slot /\ here.tree \in Directory /\ path \in Paths
  BY <1>0, Here
<1>1. CASE DropDotGit \/ DropBackupModules \/ DropBackupTree
  <2>1. PICK h \in Slot, s \in {"drop_modules", "drop_tree", "done"} :
          Set(h) /\ Goto(s) /\ h.tree.at = here.tree.at
    <3> DEFINE d  == [here.tree EXCEPT !.git = IF @ = "dir" THEN "none" ELSE @]
               h1 == [here EXCEPT !.tree = d]
               h2 == [here EXCEPT !.modulesBak = FALSE]
               h3 == [here EXCEPT !.bak = Absent]
    <3>1. d \in Directory /\ d.at = here.tree.at
      BY <1>a DEF Directory
    <3>2. /\ h1 \in Slot /\ h2 \in Slot /\ h3 \in Slot
          /\ h1.tree = d /\ h2.tree = here.tree /\ h3.tree = here.tree
      BY <1>a, <3>1, BlankTyped DEF Slot
    <3>3. \/ Set(h1) /\ Goto("drop_modules")
          \/ Set(h2) /\ Goto("drop_tree")
          \/ Set(h3) /\ Goto("done")
      BY <1>1 DEF DropDotGit, DropBackupModules, DropBackupTree
    <3> HIDE DEF h1, h2, h3
    <3> QED
      BY <3>1, <3>2, <3>3
  <2>2. step \in Finishes
    BY <1>1 DEF DropDotGit, DropBackupModules, DropBackupTree
  <2>3. here'.tree.at = here.tree.at /\ pkg' = pkg /\ head' = head /\ step' = s
    BY <1>0, <1>a, <2>1, SetSlot DEF Goto, here, path
  <2> QED
    BY <2>1, <2>2, <2>3
<1>2. CASE RestoreModules \/ RestoreTree
  BY <1>2 DEF RestoreModules, RestoreTree, Keep, Goto
<1> QED
  BY <1>1, <1>2 DEF FinishStep

\* HEAD is resolved after the checkout of the version and nothing moves it then.
LEMMA HeadInvariant == FetchSpec => [](IInv /\ HeadInv)
<1>1. FetchInit => HeadInv
  BY DEF FetchInit, HeadInv, Finishes
<1>2. IInv /\ HeadInv /\ [FetchNext]_fetchVars => HeadInv'
  BY HeadElsewhere, HeadGit, HeadFinish DEF FetchNext, FetchStep
<1> QED
  BY <1>1, <1>2, FetchInvariant, PTL DEF FetchSpec

\* A pinned package is fetched at exactly the commit it is pinned to, for any
\* repositories and strategies and whichever git commands fail.
THEOREM PinsAreExact == FetchSpec => []PinnedFetchExact
<1>1. HeadInv => PinnedFetchExact
  BY DEF HeadInv, IsPin, PinnedFetchExact
<1> QED
  BY <1>1, HeadInvariant, PTL
=============================================================================

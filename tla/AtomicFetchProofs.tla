------------------------- MODULE AtomicFetchProofs --------------------------
(***************************************************************************)
(* PackageFetch implements AtomicFetch: as long as no process is killed or *)
(* dies on a tag, package_fetch replaces a package in one step or not at   *)
(* all, for every set of paths, commits and versions; and a fetch that     *)
(* fails puts back what it found.                                          *)
(***************************************************************************)
EXTENDS PackageFetchProofs

\* No kill, no tag that is too wide; and no path is called like no path.
Undisturbed == MaxCrashes = 0 /\ TagOverflow = FALSE /\ "none" \notin Paths

\* The steps of a fetch while the package is in its backup.
Inside == Removes \cup Gits \cup Finishes \cup Restores

\* A backup belongs to the fetch in progress, and is gone when that ends.
BackupsOwned ==
  \A p \in Paths :
    /\ disk[p].bak.at # "absent" => step \in Inside /\ after # "removed" /\ p = path
    /\ disk[p].modulesBak => /\ step \in {"backup_tree"} \cup (Inside \ {"drop_tree", "restore_tree"})
                             /\ after # "removed" /\ p = path

\* Which call is in progress, and that HEAD is resolved when it succeeds.
Phase ==
  /\ step = "idle" => after = "idle"
  /\ step \in {"start", "done"} \cup Backups \cup Finishes \cup Restores => after # "removed"
  /\ step = "removed" => after = "removed"
  /\ step \in Finishes => head = here.tree.at /\ head \in Commits
  /\ step \notin Finishes \cup {"done"} => head = "none"

AInv == BackupsOwned /\ Phase

\* At the start no call is in progress and no backup is there.
LEMMA InitAInv == FetchInit => AInv
BY DEF FetchInit, AInv, BackupsOwned, Phase, Blank, Absent, Inside, Backups, Removes, Gits,
       Finishes, Restores

\* Set writes the slot of the call's path and no other.
LEMMA SetDisk ==
  ASSUME TypeOK, step # "idle", NEW h, Set(h)
  PROVE  disk'[path] = h /\ \A p \in Paths \ {path} : disk'[p] = disk[p]
BY CallTyped DEF TypeOK, Set

-----------------------------------------------------------------------------
\* The invariant: one lemma per group of actions.

\* A step of the call leaves the other paths alone, so that only the slot of
\* its own path can break the invariant.
LEMMA OwnPath ==
  ASSUME AInv, step # "idle", path' = path,
         \A p \in Paths \ {path} : disk'[p] = disk[p],
         disk'[path].bak.at # "absent" => step' \in Inside /\ after' # "removed",
         disk'[path].modulesBak =>
           /\ step' \in {"backup_tree"} \cup (Inside \ {"drop_tree", "restore_tree"})
           /\ after' # "removed",
         Phase'
  PROVE  AInv'
BY DEF AInv, BackupsOwned

\* package_backup: what it renames becomes the backup of the fetch.
LEMMA BackupAInv == ASSUME IInv, AInv, BackupStep PROVE AInv'
<1>0. step \in {"start"} \cup Backups /\ step # "idle"
  BY DEF BackupStep, FetchOutside, FetchStart, BackupThrows, BackupModules, BackupTree, Backups
<1>a. TypeOK /\ path \in Paths /\ here \in Slot /\ here = disk[path]
  BY <1>0, Here DEF here
<1>b. /\ after # "removed" /\ head = "none" /\ here.bak.at = "absent"
      /\ step # "backup_tree" => ~here.modulesBak
  BY <1>0, <1>a DEF AInv, Phase, BackupsOwned, Backups, Inside, Removes, Gits, Finishes, Restores
<1>1. CASE FetchOutside \/ FetchStart
  <2>1. disk' = disk /\ path' = path /\ after' = after /\ head' = head /\ step' \in {"dead", "backup_modules"}
    BY <1>1 DEF FetchOutside, FetchStart, Keep, Goto, path
  <2>2. Phase'
    BY <1>b, <2>1 DEF Phase, Backups, Finishes, Restores
  <2> QED
    BY <1>0, <1>a, <1>b, <1>1, <2>1, <2>2, OwnPath DEF FetchOutside, FetchStart
<1>2. CASE BackupThrows
  BY <1>2, <1>b DEF BackupThrows
<1>3. CASE BackupModules
  <2> DEFINE h == [here EXCEPT !.modules = FALSE, !.modulesBak = @ \/ here.modules]
  <2>0. h.bak = here.bak
    BY <1>a DEF Slot
  <2>1. /\ path' = path /\ after' = after /\ head' = head /\ step' = "backup_tree"
        /\ Set(h)
    BY <1>3 DEF BackupModules, Goto, path
  <2> HIDE DEF h
  <2>2. /\ disk'[path].bak.at = "absent"
        /\ \A p \in Paths \ {path} : disk'[p] = disk[p]
    BY <1>0, <1>a, <1>b, <2>0, <2>1, SetDisk
  <2>3. Phase'
    BY <1>b, <2>1 DEF Phase, Backups, Finishes, Restores
  <2> QED
    BY <1>0, <1>b, <2>1, <2>2, <2>3, OwnPath
<1>4. CASE BackupTree
  <2>1. /\ path' = path /\ after' \in {"tag", "add"} /\ head' = head /\ step' = "remove"
        /\ disk' = disk \/ Set([here EXCEPT !.tree = Absent, !.bak = here.tree])
    BY <1>4 DEF BackupTree, path
  <2>2. \A p \in Paths \ {path} : disk'[p] = disk[p]
    BY <1>0, <1>a, <2>1, SetDisk
  <2>3. Phase'
    BY <1>b, <2>1 DEF Phase, Backups, Finishes, Restores
  <2> QED
    BY <1>0, <2>1, <2>2, <2>3, OwnPath DEF Inside, Removes
<1> QED
  BY <1>1, <1>2, <1>3, <1>4 DEF BackupStep

\* What a step of package_remove leaves alone: the backups, and the directory
\* unless it is emptied.
LEMMA RemoveKeeps ==
  ASSUME IInv, RemoveStep
  PROVE  /\ step \in Removes
         /\ \E s \in Removes \cup {after} : Goto(s)
         /\ disk'[path].bak = disk[path].bak /\ disk'[path].modulesBak = disk[path].modulesBak
         /\ disk'[path].tree.at \in {disk[path].tree.at, "absent", "empty"}
         /\ \A p \in Paths \ {path} : disk'[p] = disk[p]
<1>0. step \in Removes /\ step # "idle"
  BY DEF RemoveStep, RemoveNothing, RemoveStart, GitDeinit, GitRm, RemoveModules, RemoveTree, Removes
<1>a. /\ TypeOK /\ path \in Paths /\ here = disk[path] /\ here \in Slot /\ here.tree \in Directory
  BY <1>0, Here DEF here
<1>1. CASE RemoveNothing \/ RemoveStart
  BY <1>0, <1>a, <1>1 DEF RemoveNothing, RemoveStart, Keep, Removes
<1>2. CASE GitDeinit
  <2> DEFINE h == [here EXCEPT !.tree = IF here.index THEN Empty ELSE @]
  <2>1. /\ h.bak = here.bak /\ h.modulesBak = here.modulesBak
        /\ h.tree.at \in {here.tree.at, "absent", "empty"}
    BY <1>a DEF Slot, Empty
  <2>2. Set(h) /\ Goto("git_rm")
    BY <1>2 DEF GitDeinit
  <2> HIDE DEF h
  <2> QED
    BY <1>0, <1>a, <2>1, <2>2, SetDisk DEF Removes
<1>3. CASE GitRm
  <2> DEFINE h == [here EXCEPT !.tree = IF here.index THEN Absent ELSE @, !.index = FALSE]
  <2>1. /\ h.bak = here.bak /\ h.modulesBak = here.modulesBak
        /\ h.tree.at \in {here.tree.at, "absent", "empty"}
    BY <1>a DEF Slot, Absent
  <2>2. Set(h) /\ Goto("remove_modules")
    BY <1>3 DEF GitRm
  <2> HIDE DEF h
  <2> QED
    BY <1>0, <1>a, <2>1, <2>2, SetDisk DEF Removes
<1>4. CASE RemoveModules
  <2> DEFINE h == [here EXCEPT !.modules = FALSE]
  <2>1. h.bak = here.bak /\ h.modulesBak = here.modulesBak /\ h.tree = here.tree
    BY <1>a DEF Slot
  <2>2. Set(h) /\ Goto("remove_tree")
    BY <1>4 DEF RemoveModules
  <2> HIDE DEF h
  <2> QED
    BY <1>0, <1>a, <2>1, <2>2, SetDisk DEF Removes
<1>5. CASE RemoveTree
  <2> DEFINE h == [here EXCEPT !.tree = Absent]
  <2>1. h.bak = here.bak /\ h.modulesBak = here.modulesBak /\ h.tree.at = "absent"
    BY <1>a DEF Slot, Absent
  <2>2. Set(h) /\ Goto(after)
    BY <1>5 DEF RemoveTree
  <2> HIDE DEF h
  <2> QED
    BY <1>0, <1>a, <2>1, <2>2, SetDisk DEF Removes
<1> QED
  BY <1>1, <1>2, <1>3, <1>4, <1>5 DEF RemoveStep

\* What a git command leaves alone, and when it resolves HEAD.
LEMMA GitKeeps ==
  ASSUME TagOverflow = FALSE, IInv, GitStep
  PROVE  /\ step \in Gits
         /\ path' = path /\ after' \in {after, "restore_modules"}
         /\ \/ step' \in Gits \cup {"remove"} /\ head' = head
            \/ step' = "dotgit" /\ head' = disk'[path].tree.at /\ head' \in Commits
         /\ disk'[path].bak = disk[path].bak /\ disk'[path].modulesBak = disk[path].modulesBak
         /\ \A p \in Paths \ {path} : disk'[p] = disk[p]
<1> USE DEF Gits
<1>0. step \in Gits /\ step # "idle" /\ path' = path
  BY DEF GitStep, TagFails, TagThrows, TagFound, SubmoduleAdd, Clone, AddFails, GitReset,
         GitResetFails, GitInitNested, FetchFails, ResolveHead, Restore, Returns, Keep, Goto, path
<1>a. /\ TypeOK /\ path \in Paths /\ here = disk[path] /\ here \in Slot /\ here.tree \in Directory
  BY <1>0, Here DEF here
<1>1. CASE TagFails \/ FetchFails
  BY <1>0, <1>1 DEF TagFails, FetchFails, Restore
<1>2. CASE TagFound \/ TagThrows
  BY <1>0, <1>2 DEF TagFound, TagThrows, Keep, Goto
<1>3. CASE GitResetFails \/ GitInitNested
  BY <1>0, <1>3 DEF GitResetFails, GitInitNested, Returns, AfterReset
<1>4. ASSUME NEW h, Set(h), h.bak = here.bak, h.modulesBak = here.modulesBak
      PROVE  /\ disk'[path].bak = disk[path].bak /\ disk'[path].modulesBak = disk[path].modulesBak
             /\ \A p \in Paths \ {path} : disk'[p] = disk[p]
  BY <1>0, <1>a, <1>4, SetDisk
<1>5. CASE SubmoduleAdd \/ Clone \/ AddFails
  <2>1. step' \in Gits /\ after' = after /\ head' = head
    BY <1>5 DEF SubmoduleAdd, Clone, AddFails, Returns, AfterAdd
  <2>2. CASE SubmoduleAdd
    <3>1. PICK c : Set([here EXCEPT !.tree = [at |-> c, git |-> "file"], !.modules = TRUE, !.index = TRUE])
      BY <2>2 DEF SubmoduleAdd
    <3> DEFINE h == [here EXCEPT !.tree = [at |-> c, git |-> "file"], !.modules = TRUE, !.index = TRUE]
    <3>2. h.bak = here.bak /\ h.modulesBak = here.modulesBak /\ Set(h)
      BY <1>a, <3>1 DEF Slot
    <3> HIDE DEF h
    <3> QED
      BY <1>0, <1>4, <2>1, <3>2
  <2>3. CASE Clone
    <3>1. PICK c : Set([here EXCEPT !.tree = [at |-> c, git |-> "dir"]])
      BY <2>3 DEF Clone
    <3> DEFINE h == [here EXCEPT !.tree = [at |-> c, git |-> "dir"]]
    <3>2. h.bak = here.bak /\ h.modulesBak = here.modulesBak /\ Set(h)
      BY <1>a, <3>1 DEF Slot
    <3> HIDE DEF h
    <3> QED
      BY <1>0, <1>4, <2>1, <3>2
  <2>4. CASE AddFails
    <3> DEFINE hs == [here EXCEPT !.tree = [at |-> "partial", git |-> "file"], !.modules = TRUE]
               hc == [here EXCEPT !.tree = [at |-> "partial", git |-> "dir"]]
    <3>1. Set(hs) \/ Set(hc) \/ disk' = disk
      BY <2>4 DEF AddFails, PartialAdd
    <3>2. /\ hs.bak = here.bak /\ hs.modulesBak = here.modulesBak
          /\ hc.bak = here.bak /\ hc.modulesBak = here.modulesBak
      BY <1>a DEF Slot
    <3> HIDE DEF hs, hc
    <3> QED
      BY <1>0, <1>4, <2>1, <3>1, <3>2
  <2> QED
    BY <1>5, <2>2, <2>3, <2>4
<1>6. CASE GitReset
  <2>1. step' \in Gits /\ after' = after /\ head' = head
    BY <1>6 DEF GitReset, Returns, AfterReset
  <2>2. PICK c : Set([here EXCEPT !.tree.at = c])
    BY <1>6 DEF GitReset
  <2> DEFINE h == [here EXCEPT !.tree.at = c]
  <2>3. h.bak = here.bak /\ h.modulesBak = here.modulesBak /\ Set(h)
    BY <1>a, <2>2 DEF Slot
  <2> HIDE DEF h
  <2> QED
    BY <1>0, <1>4, <2>1, <2>3
<1>7. CASE ResolveHead
  <2>1. here.tree.at \in Commits
    BY <1>0, <1>7, Here, OriginTyped DEF ResolveHead, Complete
  <2> QED
    BY <1>0, <1>a, <1>7, <2>1 DEF ResolveHead
<1> QED
  BY <1>1, <1>2, <1>3, <1>5, <1>6, <1>7 DEF GitStep

-----------------------------------------------------------------------------
\* A step of a removal or a git command keeps a backup where it is.
LEMMA BackupsStay ==
  ASSUME AInv, step \in Inside, path \in Paths, path' = path,
         after # "removed" => after' # "removed" /\ step' \in Inside \ {"drop_tree", "restore_tree"},
         step \notin {"drop_tree", "restore_tree"},
         disk'[path].bak = disk[path].bak, disk'[path].modulesBak = disk[path].modulesBak,
         \A p \in Paths \ {path} : disk'[p] = disk[p],
         Phase'
  PROVE  AInv'
<1>1. step # "idle"
  BY DEF Inside, Removes, Gits, Finishes, Restores
<1>2. disk'[path].bak.at # "absent" \/ disk'[path].modulesBak => after # "removed"
  BY DEF AInv, BackupsOwned
<1> QED
  BY <1>1, <1>2, OwnPath

\* package_remove keeps the backup of the fetch that calls it.
LEMMA RemoveAInv == ASSUME IInv, AInv, RemoveStep PROVE AInv'
<1> USE DEF Inside, Backups, Removes, Gits, Finishes, Restores
<1>1. PICK s \in Removes \cup {after} : Goto(s)
  BY RemoveKeeps
<1>2. step' = s /\ path' = path /\ after' = after /\ head' = head
  BY <1>1 DEF Goto, path
<1>3. /\ step \in Removes /\ step # "idle" /\ path \in Paths
      /\ after \in {"removed", "tag", "add", "restore_modules"} /\ head = "none"
  <2>1. step \in Removes /\ step # "idle"
    BY RemoveKeeps
  <2> QED
    BY <2>1, Here DEF TypeOK, AInv, Phase
<1>4. Phase'
  BY <1>2, <1>3 DEF Phase
<1> QED
  BY <1>2, <1>3, <1>4, RemoveKeeps, BackupsStay

\* The git commands keep the backup, and resolve HEAD for the steps that drop it.
LEMMA GitAInv == ASSUME TagOverflow = FALSE, IInv, AInv, GitStep PROVE AInv'
<1> USE DEF Inside, Backups, Removes, Gits, Finishes, Restores
<1>1. step \in Gits /\ step # "idle" /\ path \in Paths
  BY GitKeeps, Here
<1>2. after # "removed" /\ head = "none"
  BY <1>1, Here DEF PathFree, AInv, Phase
<1>3. here' = disk'[path]
  BY GitKeeps DEF here
<1>4. Phase'
  BY <1>2, <1>3, GitKeeps DEF Phase
<1> QED
  BY <1>1, <1>2, <1>4, GitKeeps, BackupsStay

\* The backup is dropped or renamed back before the fetch ends.
LEMMA FinishAInv == ASSUME IInv, AInv, FinishStep PROVE AInv'
<1> USE DEF Inside, Backups, Removes, Gits, Finishes, Restores
<1>0. step \in Finishes \cup Restores /\ step # "idle"
  BY DEF FinishStep, DropDotGit, DropBackupModules, DropBackupTree, RestoreModules, RestoreTree
<1>a. /\ TypeOK /\ path \in Paths /\ here = disk[path] /\ here \in Slot
      /\ here.tree \in Directory /\ here.bak \in Directory
  BY <1>0, Here DEF here
<1>b. /\ after # "removed"
      /\ step \in Finishes => head = here.tree.at /\ head \in Commits
      /\ step \in Restores => head = "none"
      /\ step \in {"drop_tree", "restore_tree"} => ~here.modulesBak
  BY <1>0, <1>a DEF AInv, Phase, BackupsOwned
<1>1. CASE DropDotGit
  <2> DEFINE d == [here.tree EXCEPT !.git = IF @ = "dir" THEN "none" ELSE @]
             h == [here EXCEPT !.tree = d]
  <2>1. d.at = here.tree.at
    BY <1>a DEF Directory
  <2>2. h.bak = here.bak /\ h.modulesBak = here.modulesBak /\ h.tree.at = here.tree.at
    BY <1>a, <2>1 DEF Slot
  <2>3. Set(h) /\ Goto("drop_modules") /\ step = "dotgit"
    BY <1>1 DEF DropDotGit
  <2> HIDE DEF h, d
  <2>4. disk'[path] = h /\ here' = h /\ path' = path /\ \A p \in Paths \ {path} : disk'[p] = disk[p]
    BY <1>0, <1>a, <2>3, SetDisk DEF Goto, path, here
  <2>5. Phase'
    BY <1>b, <2>2, <2>3, <2>4 DEF Goto, Phase
  <2> QED
    BY <1>a, <1>b, <2>2, <2>3, <2>4, <2>5, BackupsStay DEF Goto
<1>2. CASE DropBackupModules
  <2> DEFINE h == [here EXCEPT !.modulesBak = FALSE]
  <2>1. h.bak = here.bak /\ h.modulesBak = FALSE /\ h.tree = here.tree
    BY <1>a DEF Slot
  <2>2. Set(h) /\ Goto("drop_tree") /\ step = "drop_modules"
    BY <1>2 DEF DropBackupModules
  <2> HIDE DEF h
  <2>3. disk'[path] = h /\ here' = h /\ path' = path /\ \A p \in Paths \ {path} : disk'[p] = disk[p]
    BY <1>0, <1>a, <2>2, SetDisk DEF Goto, path, here
  <2>4. Phase'
    BY <1>b, <2>1, <2>2, <2>3 DEF Goto, Phase
  <2> QED
    BY <1>0, <1>b, <2>1, <2>2, <2>3, <2>4, OwnPath DEF Goto
<1>3. CASE DropBackupTree
  <2> DEFINE h == [here EXCEPT !.bak = Absent]
  <2>1. h.bak.at = "absent" /\ h.modulesBak = here.modulesBak /\ h.tree = here.tree
    BY <1>a DEF Slot, Absent
  <2>2. Set(h) /\ Goto("done") /\ step = "drop_tree"
    BY <1>3 DEF DropBackupTree
  <2> HIDE DEF h
  <2>3. disk'[path] = h /\ here' = h /\ path' = path /\ \A p \in Paths \ {path} : disk'[p] = disk[p]
    BY <1>0, <1>a, <2>2, SetDisk DEF Goto, path, here
  <2>4. Phase'
    BY <1>b, <2>1, <2>2, <2>3 DEF Goto, Phase
  <2> QED
    BY <1>0, <1>b, <2>1, <2>2, <2>3, <2>4, OwnPath DEF Goto
<1>4. CASE RestoreModules
  <2> DEFINE h == [here EXCEPT !.modules = @ \/ here.modulesBak, !.modulesBak = FALSE]
  <2>1. h.bak = here.bak /\ h.modulesBak = FALSE
    BY <1>a DEF Slot
  <2>2. Set(h) /\ Goto("restore_tree") /\ step = "restore_modules"
    BY <1>0, <1>4, Here DEF RestoreModules, PathFree
  <2> HIDE DEF h
  <2>3. disk'[path] = h /\ here' = h /\ path' = path /\ \A p \in Paths \ {path} : disk'[p] = disk[p]
    BY <1>0, <1>a, <2>2, SetDisk DEF Goto, path, here
  <2>4. Phase'
    BY <1>b, <2>2, <2>3 DEF Goto, Phase
  <2> QED
    BY <1>0, <1>b, <2>1, <2>2, <2>3, <2>4, OwnPath DEF Goto
<1>5. CASE RestoreTree
  <2> DEFINE h == [here EXCEPT !.tree = IF here.bak.at = "absent" THEN @ ELSE here.bak, !.bak = Absent]
  <2>1. h.bak.at = "absent" /\ h.modulesBak = here.modulesBak
    BY <1>a DEF Slot, Absent
  <2>2. Set(h) /\ Goto("done") /\ step = "restore_tree"
    BY <1>0, <1>5, Here DEF RestoreTree, PathFree
  <2> HIDE DEF h
  <2>3. disk'[path] = h /\ here' = h /\ path' = path /\ \A p \in Paths \ {path} : disk'[p] = disk[p]
    BY <1>0, <1>a, <2>2, SetDisk DEF Goto, path, here
  <2>4. Phase'
    BY <1>b, <2>2, <2>3 DEF Goto, Phase
  <2> QED
    BY <1>0, <1>b, <2>1, <2>2, <2>3, <2>4, OwnPath DEF Goto
<1> QED
  BY <1>1, <1>2, <1>3, <1>4, <1>5 DEF FinishStep

\* Calls, returns and the user: no backup is there before or after.
LEMMA CallAInv == ASSUME IInv, AInv, Calls PROVE AInv'
<1> USE DEF Inside, Backups, Removes, Gits, Finishes, Restores
<1>1. \A p \in Paths : disk'[p].bak.at = "absent" /\ ~disk'[p].modulesBak
  BY DEF Calls, CallRemove, CallFetch, Collect, Returned, AInv, BackupsOwned
<1>2. Phase'
  BY DEF Calls, CallRemove, CallFetch, Collect, AInv, Phase
<1> QED
  BY <1>1, <1>2 DEF AInv, BackupsOwned

\* The user empties a directory between two calls: no backup is there.
LEMMA UserAInv == ASSUME IInv, AInv, NEW p \in Paths, UserEmpties(p) PROVE AInv'
<1> USE DEF Inside, Backups, Removes, Gits, Finishes, Restores
<1>1. TypeOK /\ step = "idle" /\ step' = "idle" /\ after' = after /\ head' = head
  BY DEF UserEmpties, callVars, IInv
<1>2. PICK d : disk' = [disk EXCEPT ![p].tree = d]
  BY DEF UserEmpties
<1>3. \A q \in Paths : disk'[q].bak = disk[q].bak /\ disk'[q].modulesBak = disk[q].modulesBak
  BY <1>1, <1>2 DEF TypeOK, Slot
<1> QED
  BY <1>1, <1>3 DEF AInv, BackupsOwned, Phase

\* The invariant depends on the variables of the module only.
LEMMA StutterAInv == ASSUME AInv, UNCHANGED fetchVars PROVE AInv'
<1>1. /\ disk' = disk /\ step' = step /\ after' = after /\ head' = head
      /\ path' = path /\ here' = here
  BY DEF fetchVars, callVars, histVars, path, here
<1>2. BackupsOwned'
  BY <1>1 DEF AInv, BackupsOwned
<1>3. Phase'
  BY <1>1 DEF AInv, Phase
<1> QED
  BY <1>2, <1>3 DEF AInv

\* Every step but a kill keeps the backups where they belong.
LEMMA StepAInv ==
  ASSUME TagOverflow = FALSE, IInv, AInv, [FetchNext]_fetchVars, ~Crash PROVE AInv'
BY BackupAInv, RemoveAInv, GitAInv, FinishAInv, CallAInv, UserAInv, StutterAInv
   DEF FetchNext, FetchStep

-----------------------------------------------------------------------------
\* What a fetch that fails puts back.

\* A raw copy has no .git directory, the .git file of a submodule has its
\* repository, and a directory that is not there has neither.
TidySlot(s) ==
  /\ s.tree.git # "dir"
  /\ s.tree.git = "file" => s.modules
  /\ s.tree.at = "absent" => s.tree.git = "none"

\* Where the directory of the call's path is not in the middle of a change.
Settled == {"idle", "start", "backup_modules", "removed", "done", "dead"}

TidySlots ==
  /\ TidySlot(before)
  /\ \A p \in Paths : /\ disk[p].tree.at = "absent" => disk[p].tree.git = "none"
                      /\ step \in Settled \/ p # path => TidySlot(disk[p])

\* Where a fetch in progress keeps the directory and the repository that it
\* found, from its first step to its end in a failure.
Found ==
  /\ step \in {"start", "backup_modules"} => here = before
  /\ step = "backup_tree" => here.tree = before.tree /\ here.modulesBak = before.modules
  /\ step \in Removes \cup Gits \cup Restores /\ after # "removed" =>
       IF before.tree.at = "absent" THEN here.bak.at = "absent" ELSE here.bak = before.tree
  /\ step \in Removes \cup Gits \cup {"restore_modules"} /\ after # "removed" =>
       here.modulesBak = before.modules
  /\ step = "restore_tree" => here.modules = before.modules
  /\ step = "done" /\ head = "none" => here.tree = before.tree /\ here.modules = before.modules

\* What a fetch makes: a submodule with its repository, and at last no .git
\* directory.
Made ==
  /\ step \in Gits \cup Finishes => (here.tree.git = "file" => here.modules)
  /\ step \in {"drop_modules", "drop_tree"} => here.tree.git # "dir"

OInv == TidySlots /\ Found /\ Made

\* The invariant of the calls of a process that is not killed.
Quiet == crashes = 0 => AInv /\ OInv

\* At the start nothing is fetched.
LEMMA InitOInv == FetchInit => OInv
BY DEF FetchInit, OInv, TidySlots, TidySlot, Found, Made, Blank, Absent, Removes, Gits, Finishes, Restores

\* A step of the call leaves the other paths as they are.
LEMMA OwnSlot ==
  ASSUME OInv, step # "idle", path' = path, before' = before,
         \A p \in Paths \ {path} : disk'[p] = disk[p],
         disk'[path].tree.at = "absent" => disk'[path].tree.git = "none",
         step' \in Settled => TidySlot(disk'[path]),
         Found', Made'
  PROVE  OInv'
<1>1. TidySlots'
  BY DEF OInv, TidySlots
<1> QED
  BY <1>1 DEF OInv

\* What the invariant says of the slot of the call.
LEMMA HereFound ==
  ASSUME IInv, OInv, step # "idle"
  PROVE  /\ Found /\ Made /\ TidySlot(before)
         /\ here.tree.at = "absent" => here.tree.git = "none"
         /\ step \in Settled => TidySlot(here)
BY Here DEF OInv, TidySlots, here

\* package_backup moves what it finds: the directory, and the repository.
LEMMA BackupOInv == ASSUME IInv, AInv, OInv, BackupStep PROVE OInv'
<1> USE DEF Backups, Inside, Removes, Gits, Finishes, Restores, Settled
<1>0. step \in {"start"} \cup Backups /\ step # "idle"
  BY DEF BackupStep, FetchOutside, FetchStart, BackupThrows, BackupModules, BackupTree
<1>a. TypeOK /\ path \in Paths /\ here \in Slot /\ here = disk[path] /\ here.tree \in Directory
  BY <1>0, Here DEF here
<1>b. here.bak.at = "absent" /\ (step # "backup_tree" => ~here.modulesBak)
  BY <1>0, <1>a DEF AInv, Phase, BackupsOwned
<1>c. /\ Found /\ TidySlot(before)
      /\ here.tree.at = "absent" => here.tree.git = "none"
      /\ step \in Settled => TidySlot(here)
  BY <1>0, HereFound
<1>1. CASE FetchOutside \/ FetchStart
  <2>1. /\ disk' = disk /\ path' = path /\ here' = here /\ before' = before
        /\ step = "start" /\ step' \in {"dead", "backup_modules"}
    BY <1>1 DEF FetchOutside, FetchStart, Keep, Goto, histVars, path, here
  <2>2. Found' /\ Made'
    BY <1>c, <2>1 DEF Found, Made
  <2> QED
    BY <1>a, <1>c, <2>1, <2>2, OwnSlot
<1>2. CASE BackupThrows
  BY <1>2, <1>b DEF BackupThrows
<1>3. CASE BackupModules
  <2> DEFINE h == [here EXCEPT !.modules = FALSE, !.modulesBak = @ \/ here.modules]
  <2>1. h.tree = here.tree /\ h.modulesBak = (here.modulesBak \/ here.modules)
    BY <1>a DEF Slot
  <2>2. Set(h) /\ Goto("backup_tree") /\ step = "backup_modules"
    BY <1>3 DEF BackupModules
  <2> HIDE DEF h
  <2>3. /\ disk'[path] = h /\ here' = h /\ path' = path /\ before' = before /\ step' = "backup_tree"
        /\ \A p \in Paths \ {path} : disk'[p] = disk[p]
    BY <1>0, <1>a, <2>2, SetDisk DEF Goto, histVars, path, here
  <2>4. here = before /\ here.modules \in BOOLEAN /\ here.modulesBak = FALSE
    BY <1>a, <1>b, <1>c, <2>2 DEF Found, Slot
  <2>5. Found' /\ Made'
    BY <2>1, <2>3, <2>4 DEF Found, Made
  <2> QED
    BY <1>0, <1>c, <2>1, <2>3, <2>5, OwnSlot
<1>4. CASE BackupTree
  <2> DEFINE h == [here EXCEPT !.tree = Absent, !.bak = here.tree]
  <2>1. h.tree = Absent /\ h.bak = here.tree /\ h.modulesBak = here.modulesBak
    BY <1>a DEF Slot
  <2>2. /\ step = "backup_tree" /\ step' = "remove" /\ path' = path /\ before' = before
        /\ \/ here.tree.at = "absent" /\ disk' = disk
           \/ here.tree.at # "absent" /\ Set(h)
    BY <1>4 DEF BackupTree, histVars, path
  <2> HIDE DEF h
  <2>3. /\ \A p \in Paths \ {path} : disk'[p] = disk[p]
        /\ here' = disk'[path] /\ here'.modulesBak = here.modulesBak /\ here'.tree.at = "absent"
        /\ here'.tree.git = "none"
        /\ IF here.tree.at = "absent" THEN here'.bak = here.bak ELSE here'.bak = here.tree
    <3>1. here' = disk'[path]
      BY <2>2 DEF here
    <3>2. CASE here.tree.at = "absent" /\ disk' = disk
      BY <1>a, <1>c, <3>1, <3>2
    <3>3. CASE here.tree.at # "absent" /\ Set(h)
      BY <1>0, <1>a, <2>1, <3>1, <3>3, SetDisk DEF Absent
    <3> QED
      BY <2>2, <3>2, <3>3
  <2>4. Found' /\ Made'
    BY <1>b, <1>c, <2>2, <2>3 DEF Found, Made
  <2> QED
    BY <1>0, <2>2, <2>3, <2>4, OwnSlot
<1> QED
  BY <1>1, <1>2, <1>3, <1>4 DEF BackupStep

\* package_remove keeps the directory or empties it, and returns when it is gone.
LEMMA RemoveEmpties ==
  ASSUME IInv, RemoveStep
  PROVE  /\ disk'[path].tree \in {disk[path].tree, Empty, Absent}
         /\ step' \in Removes \/ disk'[path].tree.at = "absent"
         /\ before' = before
<1>0. step \in Removes /\ step # "idle"
  BY RemoveKeeps DEF Removes
<1>a. TypeOK /\ path \in Paths /\ here = disk[path] /\ here \in Slot
  BY <1>0, Here DEF here
<1>b. before' = before
  BY RemoveKeeps DEF Goto, histVars
<1>1. CASE RemoveNothing \/ RemoveStart
  BY <1>a, <1>b, <1>1 DEF RemoveNothing, RemoveStart, Keep, Goto, Removes
<1>2. ASSUME NEW h, Set(h), h.tree \in {here.tree, Empty, Absent},
             step' \in Removes \/ h.tree = Absent
      PROVE  /\ disk'[path].tree \in {disk[path].tree, Empty, Absent}
             /\ step' \in Removes \/ disk'[path].tree.at = "absent"
  BY <1>0, <1>a, <1>2, SetDisk DEF Absent
<1>3. CASE GitDeinit
  <2> DEFINE h == [here EXCEPT !.tree = IF here.index THEN Empty ELSE @]
  <2>1. h.tree \in {here.tree, Empty, Absent} /\ Set(h) /\ step' \in Removes
    BY <1>a, <1>3 DEF GitDeinit, Slot, Goto, Removes
  <2> HIDE DEF h
  <2> QED
    BY <1>b, <1>2, <2>1
<1>4. CASE GitRm
  <2> DEFINE h == [here EXCEPT !.tree = IF here.index THEN Absent ELSE @, !.index = FALSE]
  <2>1. h.tree \in {here.tree, Empty, Absent} /\ Set(h) /\ step' \in Removes
    BY <1>a, <1>4 DEF GitRm, Slot, Goto, Removes
  <2> HIDE DEF h
  <2> QED
    BY <1>b, <1>2, <2>1
<1>5. CASE RemoveModules
  <2> DEFINE h == [here EXCEPT !.modules = FALSE]
  <2>1. h.tree \in {here.tree, Empty, Absent} /\ Set(h) /\ step' \in Removes
    BY <1>a, <1>5 DEF RemoveModules, Slot, Goto, Removes
  <2> HIDE DEF h
  <2> QED
    BY <1>b, <1>2, <2>1
<1>6. CASE RemoveTree
  <2> DEFINE h == [here EXCEPT !.tree = Absent]
  <2>1. h.tree = Absent /\ Set(h)
    BY <1>a, <1>6 DEF RemoveTree, Slot
  <2> HIDE DEF h
  <2> QED
    BY <1>b, <1>2, <2>1
<1> QED
  BY <1>1, <1>3, <1>4, <1>5, <1>6 DEF RemoveStep

\* A removal ends with no directory; one inside of a fetch keeps what was found.
LEMMA RemoveOInv == ASSUME IInv, OInv, RemoveStep PROVE OInv'
<1> USE DEF Backups, Inside, Removes, Gits, Finishes, Restores, Settled
<1>1. PICK s \in Removes \cup {after} : Goto(s)
  BY RemoveKeeps
<1>2. /\ step \in Removes /\ step # "idle" /\ path \in Paths
      /\ after \in {"removed", "tag", "add", "restore_modules"}
  <2>1. step \in Removes /\ step # "idle"
    BY RemoveKeeps
  <2> QED
    BY <2>1, Here DEF TypeOK
<1>3. /\ step' = s /\ path' = path /\ after' = after /\ head' = head /\ before' = before
      /\ here' = disk'[path] /\ here = disk[path]
  BY <1>1 DEF Goto, histVars, path, here
<1>4. /\ Found
      /\ here.tree.at = "absent" => here.tree.git = "none"
  BY <1>2, HereFound
<1>5. here'.tree.at = "absent" => here'.tree.git = "none"
  BY <1>3, <1>4, RemoveEmpties DEF Empty, Absent
<1>6. here'.bak = here.bak /\ here'.modulesBak = here.modulesBak
  BY <1>3, RemoveKeeps
<1>7. s \in Removes \/ here'.tree.at = "absent"
  BY <1>3, RemoveEmpties
<1>8. Found' /\ Made'
  BY <1>2, <1>3, <1>4, <1>5, <1>6, <1>7 DEF Found, Made
<1>9. step' \in Settled => TidySlot(here')
  BY <1>2, <1>3, <1>5, <1>7 DEF TidySlot
<1> QED
  BY <1>2, <1>3, <1>5, <1>8, <1>9, RemoveKeeps, OwnSlot

\* A git command makes a submodule with its repository, or a clone.
LEMMA GitMakes ==
  ASSUME IInv, OInv, GitStep
  PROVE  /\ before' = before
         /\ disk'[path].tree.git = "file" => disk'[path].modules
         /\ disk'[path].tree.at = "absent" => disk'[path].tree.git = "none"
<1> USE DEF Gits
<1>0. step \in Gits /\ step # "idle" /\ before' = before
  BY DEF GitStep, TagFails, TagThrows, TagFound, SubmoduleAdd, Clone, AddFails, GitReset,
         GitResetFails, GitInitNested, FetchFails, ResolveHead, Restore, Returns, Keep, Goto, histVars
<1>a. /\ TypeOK /\ path \in Paths /\ here = disk[path] /\ here \in Slot /\ here.tree \in Directory
  BY <1>0, Here DEF here
<1>b. /\ here.tree.git = "file" => here.modules
      /\ here.tree.at = "absent" => here.tree.git = "none"
  BY <1>0, HereFound DEF Made
<1>c. CommitsOf[pkg.url] \subseteq Commits
  BY <1>0, <1>a, OriginTyped
<1>1. CASE disk' = disk
  BY <1>0, <1>a, <1>b, <1>1
<1>2. ASSUME NEW h, Set(h), h.tree.git = "file" => h.modules, h.tree.at = "absent" => h.tree.git = "none"
      PROVE  /\ disk'[path].tree.git = "file" => disk'[path].modules
             /\ disk'[path].tree.at = "absent" => disk'[path].tree.git = "none"
  BY <1>0, <1>a, <1>2, SetDisk
<1>3. CASE SubmoduleAdd
  <2>1. PICK c \in CommitsOf[pkg.url] :
          Set([here EXCEPT !.tree = [at |-> c, git |-> "file"], !.modules = TRUE, !.index = TRUE])
    BY <1>3 DEF SubmoduleAdd
  <2> DEFINE h == [here EXCEPT !.tree = [at |-> c, git |-> "file"], !.modules = TRUE, !.index = TRUE]
  <2>2. h.tree.at # "absent" /\ h.modules /\ Set(h)
    BY <1>a, <1>c, <2>1, AbsentNoCommit DEF Slot
  <2> HIDE DEF h
  <2> QED
    BY <1>0, <1>2, <2>2
<1>4. CASE Clone
  <2>1. PICK c \in CommitsOf[pkg.url] : Set([here EXCEPT !.tree = [at |-> c, git |-> "dir"]])
    BY <1>4 DEF Clone
  <2> DEFINE h == [here EXCEPT !.tree = [at |-> c, git |-> "dir"]]
  <2>2. h.tree.at # "absent" /\ h.tree.git = "dir" /\ Set(h)
    BY <1>a, <1>c, <2>1, AbsentNoCommit DEF Slot
  <2> HIDE DEF h
  <2> QED
    BY <1>0, <1>2, <2>2
<1>5. CASE AddFails
  <2> DEFINE hs == [here EXCEPT !.tree = [at |-> "partial", git |-> "file"], !.modules = TRUE]
             hc == [here EXCEPT !.tree = [at |-> "partial", git |-> "dir"]]
  <2>1. Set(hs) \/ Set(hc) \/ disk' = disk
    BY <1>5 DEF AddFails, PartialAdd
  <2>2. /\ hs.tree.at = "partial" /\ hs.modules
        /\ hc.tree.at = "partial" /\ hc.tree.git = "dir"
    BY <1>a DEF Slot
  <2> HIDE DEF hs, hc
  <2>3. CASE Set(hs)
    BY <1>0, <1>2, <2>2, <2>3
  <2>4. CASE Set(hc)
    BY <1>0, <1>2, <2>2, <2>4
  <2> QED
    BY <1>1, <2>1, <2>3, <2>4
<1>6. CASE GitReset
  <2>1. PICK c \in CommitsOf[pkg.url] : Set([here EXCEPT !.tree.at = c])
    BY <1>6 DEF GitReset
  <2> DEFINE h == [here EXCEPT !.tree.at = c]
  <2>2. h.tree.at # "absent" /\ h.tree.git = here.tree.git /\ h.modules = here.modules /\ Set(h)
    BY <1>a, <1>c, <2>1, AbsentNoCommit DEF Slot, Directory
  <2> HIDE DEF h
  <2> QED
    BY <1>0, <1>b, <1>2, <2>2
<1>7. CASE \/ TagFails \/ TagThrows \/ TagFound \/ GitResetFails \/ GitInitNested
           \/ FetchFails \/ ResolveHead
  BY <1>1, <1>7 DEF TagFails, TagThrows, TagFound, GitResetFails, GitInitNested, FetchFails,
                    ResolveHead, Restore, Keep
<1> QED
  BY <1>3, <1>4, <1>5, <1>6, <1>7 DEF GitStep

\* The git commands keep what was found in the backup.
LEMMA GitOInv == ASSUME TagOverflow = FALSE, IInv, AInv, OInv, GitStep PROVE OInv'
<1> USE DEF Backups, Inside, Removes, Gits, Finishes, Restores, Settled
<1>1. step \in Gits /\ step # "idle" /\ path \in Paths /\ path' = path
  BY GitKeeps, Here
<1>2. here = disk[path] /\ here' = disk'[path]
  BY <1>1 DEF here
<1>3. after # "removed" /\ Found
  BY <1>1, Here, HereFound DEF PathFree
<1>4. here'.bak = here.bak /\ here'.modulesBak = here.modulesBak /\ before' = before
  BY <1>2, GitKeeps, GitMakes
<1>5. step' \in Gits \cup {"remove", "dotgit"}
  BY GitKeeps
<1>6. Found' /\ Made'
  BY <1>1, <1>2, <1>3, <1>4, <1>5, GitMakes DEF Found, Made
<1> QED
  BY <1>1, <1>4, <1>5, <1>6, GitKeeps, GitMakes, OwnSlot

\* The end of package_fetch: a clone loses its .git directory, or what was
\* found is put back.
LEMMA FinishOInv == ASSUME IInv, AInv, OInv, FinishStep PROVE OInv'
<1> USE DEF Backups, Inside, Removes, Gits, Finishes, Restores, Settled
<1>0. step \in Finishes \cup Restores /\ step # "idle"
  BY DEF FinishStep, DropDotGit, DropBackupModules, DropBackupTree, RestoreModules, RestoreTree
<1>a. /\ TypeOK /\ path \in Paths /\ here = disk[path] /\ here \in Slot
      /\ here.tree \in Directory /\ here.bak \in Directory /\ before \in Slot /\ before.tree \in Directory
  BY <1>0, Here DEF here, TypeOK, Slot
<1>b. /\ after # "removed"
      /\ step \in Finishes => head = here.tree.at /\ head \in Commits
      /\ step \in Restores => head = "none"
      /\ step \in {"drop_tree", "restore_tree"} => ~here.modulesBak
  BY <1>0, <1>a DEF AInv, Phase, BackupsOwned
<1>c. /\ Found /\ Made /\ TidySlot(before)
      /\ here.tree.at = "absent" => here.tree.git = "none"
  BY <1>0, HereFound
<1>1. ASSUME NEW h, Set(h), NEW s, Goto(s)
      PROVE  /\ disk'[path] = h /\ here' = h /\ path' = path /\ before' = before
             /\ step' = s /\ after' = after /\ head' = head
             /\ \A p \in Paths \ {path} : disk'[p] = disk[p]
  BY <1>0, <1>a, <1>1, SetDisk DEF Goto, histVars, path, here
<1>2. CASE DropDotGit
  <2> DEFINE d == [here.tree EXCEPT !.git = IF @ = "dir" THEN "none" ELSE @]
             h == [here EXCEPT !.tree = d]
  <2>1. d.at = here.tree.at /\ d.git # "dir" /\ (d.git = "file" => here.tree.git = "file")
    BY <1>a DEF Directory
  <2>2. h.tree = d /\ h.modules = here.modules
    BY <1>a DEF Slot
  <2>3. Set(h) /\ Goto("drop_modules") /\ step = "dotgit"
    BY <1>2 DEF DropDotGit
  <2> HIDE DEF h, d
  <2>4. Found' /\ Made'
    BY <1>1, <1>c, <2>1, <2>2, <2>3 DEF Found, Made
  <2>5. h.tree.at # "absent"
    BY <1>b, <2>1, <2>2, <2>3, AbsentNoCommit
  <2> QED
    BY <1>0, <1>1, <2>3, <2>4, <2>5, OwnSlot
<1>3. CASE DropBackupModules
  <2> DEFINE h == [here EXCEPT !.modulesBak = FALSE]
  <2>1. h.tree = here.tree /\ h.modules = here.modules
    BY <1>a DEF Slot
  <2>2. Set(h) /\ Goto("drop_tree") /\ step = "drop_modules"
    BY <1>3 DEF DropBackupModules
  <2> HIDE DEF h
  <2>3. Found' /\ Made'
    BY <1>1, <1>c, <2>1, <2>2 DEF Found, Made
  <2> QED
    BY <1>0, <1>1, <1>c, <2>1, <2>2, <2>3, OwnSlot
<1>4. CASE DropBackupTree
  <2> DEFINE h == [here EXCEPT !.bak = Absent]
  <2>1. h.tree = here.tree /\ h.modules = here.modules
    BY <1>a DEF Slot
  <2>2. Set(h) /\ Goto("done") /\ step = "drop_tree"
    BY <1>4 DEF DropBackupTree
  <2> HIDE DEF h
  <2>3. head # "none"
    BY <1>b, <2>2, AbsentNoCommit
  <2>4. Found' /\ Made'
    BY <1>1, <2>2, <2>3 DEF Found, Made
  <2>5. TidySlot(h)
    BY <1>c, <2>1, <2>2 DEF Made, TidySlot
  <2> QED
    BY <1>0, <1>1, <2>2, <2>4, <2>5, OwnSlot DEF TidySlot
<1>5. CASE RestoreModules
  <2> DEFINE h == [here EXCEPT !.modules = @ \/ here.modulesBak, !.modulesBak = FALSE]
  <2>1. h.tree = here.tree /\ h.bak = here.bak /\ h.modules = (here.modules \/ here.modulesBak)
    BY <1>a DEF Slot
  <2>2. Set(h) /\ Goto("restore_tree") /\ step = "restore_modules"
    BY <1>0, <1>5, Here DEF RestoreModules, PathFree
  <2> HIDE DEF h
  <2>3. here.modules = FALSE /\ here.modulesBak = before.modules /\ before.modules \in BOOLEAN
    BY <1>a, <1>b, <1>c, <2>2, Here DEF PathFree, Found, Slot
  <2>4. Found' /\ Made'
    BY <1>1, <1>b, <1>c, <2>1, <2>2, <2>3 DEF Found, Made
  <2> QED
    BY <1>0, <1>1, <1>c, <2>1, <2>2, <2>4, OwnSlot
<1>6. CASE RestoreTree
  <2> DEFINE h == [here EXCEPT !.tree = IF here.bak.at = "absent" THEN @ ELSE here.bak, !.bak = Absent]
  <2>1. /\ h.tree = IF here.bak.at = "absent" THEN here.tree ELSE here.bak
        /\ h.modules = here.modules
    BY <1>a DEF Slot
  <2>2. Set(h) /\ Goto("done") /\ step = "restore_tree" /\ here.tree.at = "absent"
    BY <1>0, <1>6, Here DEF RestoreTree, PathFree
  <2> HIDE DEF h
  <2>3. h.modules = before.modules /\ h.tree = before.tree
    <3>1. CASE before.tree.at = "absent"
      <4>1. here.tree.git = "none" /\ before.tree.git = "none" /\ here.bak.at = "absent"
        BY <1>b, <1>c, <2>2, <3>1 DEF Found, TidySlot
      <4> QED
        BY <1>a, <1>c, <2>1, <2>2, <3>1, <4>1 DEF Directory, Found
    <3>2. CASE before.tree.at # "absent"
      BY <1>b, <1>c, <2>1, <2>2, <3>2 DEF Found
    <3> QED
      BY <3>1, <3>2
  <2>4. Found' /\ Made'
    BY <1>1, <2>2, <2>3 DEF Found, Made
  <2>5. TidySlot(h)
    BY <1>c, <2>3 DEF TidySlot
  <2> QED
    BY <1>0, <1>1, <2>2, <2>4, <2>5, OwnSlot DEF TidySlot
<1> QED
  BY <1>2, <1>3, <1>4, <1>5, <1>6 DEF FinishStep

\* A call begins in a settled directory, which is what it found.
LEMMA CallOInv == ASSUME IInv, AInv, OInv, Calls PROVE OInv'
<1> USE DEF Backups, Inside, Removes, Gits, Finishes, Restores, Settled
<1>1. ASSUME NEW p \in Package, CallRemove(p) PROVE OInv'
  <2>1. /\ disk' = disk /\ before' = before /\ step = "idle" /\ step' = "remove" /\ after' = "removed"
    BY <1>1 DEF CallRemove
  <2>2. TidySlots'
    BY <2>1 DEF OInv, TidySlots
  <2>3. Found' /\ Made'
    BY <2>1 DEF Found, Made
  <2> QED
    BY <2>2, <2>3 DEF OInv
<1>2. ASSUME NEW p \in Package, NEW e \in BOOLEAN, CallFetch(p, e) PROVE OInv'
  <2>1. /\ disk' = disk /\ step = "idle" /\ step' = "start" /\ p.path \in Paths
        /\ before' = disk[p.path] /\ here' = disk[p.path]
    BY <1>2 DEF CallFetch, Package, path, here
  <2>2. TidySlots'
    BY <2>1 DEF OInv, TidySlots
  <2>3. Found' /\ Made'
    BY <2>1 DEF Found, Made
  <2> QED
    BY <2>2, <2>3 DEF OInv
<1>3. CASE Collect
  <2>1. disk' = disk /\ step \in {"done", "removed", "dead"} /\ step' = "idle" /\ before' = Blank
    BY <1>3 DEF Collect, Returned
  <2>2. TidySlot(Blank)
    BY DEF TidySlot, Blank, Absent
  <2>3. TidySlots'
    BY <2>1, <2>2 DEF OInv, TidySlots
  <2>4. Found' /\ Made'
    BY <2>1 DEF Found, Made
  <2> QED
    BY <2>3, <2>4 DEF OInv
<1> QED
  BY <1>1, <1>2, <1>3 DEF Calls

\* The directory that the user empties has no .git any more.
LEMMA UserOInv == ASSUME IInv, OInv, NEW p \in Paths, UserEmpties(p) PROVE OInv'
<1> USE DEF Backups, Inside, Removes, Gits, Finishes, Restores, Settled
<1>1. TypeOK /\ step = "idle" /\ step' = "idle" /\ before' = before
  BY DEF UserEmpties, callVars, IInv
<1>2. PICK d \in {Absent, Empty} : disk' = [disk EXCEPT ![p].tree = d]
  BY DEF UserEmpties
<1>3. d.git = "none"
  BY DEF Absent, Empty
<1>4. disk'[p].tree = d /\ \A q \in Paths \ {p} : disk'[q] = disk[q]
  BY <1>1, <1>2 DEF TypeOK, Slot
<1>5. TidySlots'
  BY <1>1, <1>3, <1>4 DEF OInv, TidySlots, TidySlot
<1>6. Found' /\ Made'
  BY <1>1 DEF Found, Made
<1> QED
  BY <1>5, <1>6 DEF OInv

\* The invariant depends on the variables of the module only.
LEMMA StutterOInv == ASSUME OInv, UNCHANGED fetchVars PROVE OInv'
<1>1. /\ disk' = disk /\ step' = step /\ after' = after /\ head' = head /\ before' = before
      /\ path' = path /\ here' = here
  BY DEF fetchVars, callVars, histVars, path, here
<1>2. TidySlots' /\ Found' /\ Made'
  BY <1>1 DEF OInv, TidySlots, Found, Made
<1> QED
  BY <1>2 DEF OInv

\* A kill is counted, and any other step leaves the count alone.
LEMMA CrashesCount ==
  ASSUME IInv, [FetchNext]_fetchVars
  PROVE  crashes' = 0 => crashes = 0 /\ ~Crash
<1>1. crashes \in Nat
  BY DEF IInv, TypeOK
<1>2. Crash => crashes' = crashes + 1
  BY DEF Crash
<1>3. CASE UNCHANGED fetchVars
  BY <1>1, <1>2, <1>3 DEF fetchVars, histVars
<1>4. CASE BackupStep \/ RemoveStep
  BY <1>1, <1>2, <1>4 DEF BackupStep, RemoveStep, FetchOutside, FetchStart, BackupThrows, BackupModules,
     BackupTree, RemoveNothing, RemoveStart, GitDeinit, GitRm, RemoveModules, RemoveTree, Keep, Goto, histVars
<1>5. CASE GitStep
  <2>1. \A s, n : Returns(s, n) => crashes' = crashes
    BY DEF Returns, histVars
  <2>2. \/ \E s, n : Returns(s, n)
        \/ crashes' = crashes
    BY <1>5 DEF GitStep, TagFails, TagThrows, TagFound, SubmoduleAdd, Clone, AddFails, GitReset,
       GitResetFails, GitInitNested, FetchFails, ResolveHead, Restore, Keep, Goto, histVars
  <2> QED
    BY <1>1, <1>2, <2>1, <2>2
<1>6. CASE FinishStep
  BY <1>1, <1>2, <1>6 DEF FinishStep, DropDotGit, DropBackupModules, DropBackupTree, RestoreModules, RestoreTree,
     Keep, Goto, histVars
<1>7. CASE Calls \/ \E p \in Paths : UserEmpties(p)
  BY <1>1, <1>2, <1>7 DEF Calls, CallRemove, CallFetch, Collect, UserEmpties
<1> QED
  BY <1>1, <1>2, <1>3, <1>4, <1>5, <1>6, <1>7 DEF FetchNext, FetchStep

\* As long as no process was killed and none died on a tag, the backups belong
\* to the fetch in progress and hold what it found.
LEMMA QuietInvariant ==
  ASSUME TagOverflow = FALSE PROVE FetchSpec => [](IInv /\ Quiet)
<1>1. FetchInit => Quiet
  BY InitAInv, InitOInv DEF Quiet
<1>2. ASSUME IInv, Quiet, [FetchNext]_fetchVars PROVE Quiet'
  <2> SUFFICES ASSUME crashes' = 0 PROVE AInv' /\ OInv'
    BY DEF Quiet
  <2>1. AInv /\ OInv /\ ~Crash
    BY <1>2, CrashesCount DEF Quiet
  <2>2. AInv'
    BY <1>2, <2>1, StepAInv
  <2> QED
    BY <1>2, <2>1, <2>2, BackupOInv, RemoveOInv, GitOInv, FinishOInv, CallOInv, UserOInv, StutterOInv
       DEF FetchNext, FetchStep
<1> QED
  BY <1>1, <1>2, FetchInvariant, PTL DEF FetchSpec

\* A package_fetch that fails puts back the directory and the repository that
\* it found and leaves no backup, whichever of its commands failed.
THEOREM FailedFetchPutsBack ==
  ASSUME TagOverflow = FALSE PROVE FetchSpec => []FailedFetchRestores
<1>1. IInv /\ Quiet => FailedFetchRestores
  <2> SUFFICES ASSUME IInv, Quiet, step = "done", head = "none", crashes = 0
               PROVE  /\ here.tree = before.tree /\ here.modules = before.modules
                      /\ here.bak.at = "absent" /\ ~here.modulesBak
    BY DEF FailedFetchRestores
  <2>1. path \in Paths
    BY Here
  <2> QED
    BY <2>1 DEF Quiet, AInv, OInv, BackupsOwned, Found, here, Inside, Removes, Gits, Finishes, Restores
<1> QED
  BY <1>1, QuietInvariant, PTL

\* Between two calls of package_fetch and package_remove no backup is left, a
\* raw copy has no .git directory and a submodule has its repository.
THEOREM CallsLeaveTidy == ASSUME TagOverflow = FALSE PROVE FetchSpec => []Tidy
<1>1. Quiet => Tidy
  BY DEF Quiet, Tidy, AInv, OInv, BackupsOwned, TidySlots, TidySlot, Settled, Inside, Removes, Gits,
         Finishes, Restores
<1> QED
  BY <1>1, QuietInvariant, PTL

-----------------------------------------------------------------------------
\* The refinement: what a step is for AtomicFetch.

AtomicStep == [Atomic!Next]_(Atomic!vars)

\* Paths whose slot is the same have the same commit installed.
LEMMA SameInstalled ==
  ASSUME \A p \in Paths : held(p)' = held(p) PROVE installed' = installed
BY DEF installed

\* Between the backup and the end of a fetch, what it does is not seen.
LEMMA InsideStutters ==
  ASSUME step \in Inside, step' \in Inside, after # "removed", after' # "removed",
         path' = path, path \in Paths,
         disk'[path].bak = disk[path].bak,
         \A p \in Paths \ {path} : disk'[p] = disk[p]
  PROVE  AtomicStep
<1> USE DEF Inside, Backups, Removes, Gits, Finishes, Restores
<1>1. fetching = path /\ fetching' = path /\ result = "none" /\ result' = "none"
  BY DEF fetching, result
<1>2. \A p \in Paths : held(p)' = held(p)
  BY <1>1 DEF held
<1> QED
  BY <1>1, <1>2, SameInstalled DEF AtomicStep, Atomic!vars

\* While none is fetched, a directory may be emptied.
LEMMA OutsideDrops ==
  ASSUME Undisturbed, fetching = "none", fetching' = "none", result = "none", result' = "none",
         NEW q \in Paths, disk'[q].tree.at \in {disk[q].tree.at, "absent", "empty"},
         \A p \in Paths \ {q} : disk'[p].tree.at = disk[p].tree.at
  PROVE  AtomicStep
<1>1. \A p \in Paths : held(p) = disk[p].tree.at /\ held(p)' = disk'[p].tree.at
  BY DEF held, Undisturbed
<1>2. CASE disk'[q].tree.at = disk[q].tree.at
  <2>1. \A p \in Paths : held(p)' = held(p)
    BY <1>1, <1>2
  <2> QED
    BY <2>1, SameInstalled DEF AtomicStep, Atomic!vars
<1>3. CASE disk'[q].tree.at \in {"absent", "empty"}
  <2>1. \A p \in Paths : (installed')[p] = IF p = q THEN "none" ELSE installed[p]
    BY <1>1, <1>3, AbsentNoCommit DEF installed
  <2>2. installed' = [installed EXCEPT ![q] = "none"]
    BY <2>1 DEF installed
  <2> QED
    BY <2>2 DEF AtomicStep, Atomic!Next, Atomic!Drop
<1> QED
  BY <1>2, <1>3

\* package_backup begins the fetch and hides nothing, or fails before it.
LEMMA BackupAtomic == ASSUME Undisturbed, IInv, AInv, BackupStep PROVE AtomicStep
<1>0. step \in {"start"} \cup Backups /\ step # "idle"
  BY DEF BackupStep, FetchOutside, FetchStart, BackupThrows, BackupModules, BackupTree, Backups
<1>a. TypeOK /\ path \in Paths /\ here \in Slot /\ here = disk[path] /\ here.tree \in Directory
  BY <1>0, Here DEF here
<1>b. /\ after # "removed" /\ here.bak.at = "absent"
      /\ step # "backup_tree" => ~here.modulesBak
  BY <1>0, <1>a DEF AInv, Phase, BackupsOwned, Backups, Inside, Removes, Gits, Finishes, Restores
<1>c. fetching = path /\ result = "none" /\ \A p \in Paths : held(p) = disk[p].tree.at
  BY <1>0, <1>b DEF fetching, result, held, Backups
<1>1. CASE FetchOutside
  <2>1. disk' = disk /\ step' = "dead"
    BY <1>1 DEF FetchOutside, Keep, Goto
  <2>2. fetching' = "none" /\ result' = "none"
    BY <2>1 DEF fetching, result
  <2>3. \A p \in Paths : held(p)' = held(p)
    BY <1>c, <2>1, <2>2 DEF held, Undisturbed
  <2> QED
    BY <1>a, <1>c, <2>2, <2>3, SameInstalled DEF AtomicStep, Atomic!Next, Atomic!End, Undisturbed
<1>2. CASE FetchStart \/ BackupModules
  <2>1. step' \in Backups /\ path' = path /\ after' = after
    BY <1>2 DEF FetchStart, BackupModules, Keep, Goto, Backups, path
  <2>2. \A p \in Paths : disk'[p].tree = disk[p].tree
    <3>1. CASE FetchStart
      BY <3>1 DEF FetchStart, Keep
    <3>2. CASE BackupModules
      <4> DEFINE h == [here EXCEPT !.modules = FALSE, !.modulesBak = @ \/ here.modules]
      <4>1. h.tree = here.tree
        BY <1>a DEF Slot
      <4>2. Set(h)
        BY <3>2 DEF BackupModules
      <4> HIDE DEF h
      <4> QED
        BY <1>0, <1>a, <4>1, <4>2, SetDisk
    <3> QED
      BY <1>2, <3>1, <3>2
  <2>3. fetching' = path /\ result' = "none" /\ \A p \in Paths : held(p)' = disk'[p].tree.at
    BY <1>b, <2>1 DEF fetching, result, held, Backups
  <2>4. \A p \in Paths : held(p)' = held(p)
    BY <1>c, <2>2, <2>3
  <2> QED
    BY <1>c, <2>3, <2>4, SameInstalled DEF AtomicStep, Atomic!vars
<1>3. CASE BackupThrows
  BY <1>3, <1>b DEF BackupThrows
<1>4. CASE BackupTree
  <2> DEFINE h == [here EXCEPT !.tree = Absent, !.bak = here.tree]
  <2>1. h.bak = here.tree
    BY <1>a DEF Slot
  <2>2. /\ step' = "remove" /\ path' = path /\ after' # "removed"
        /\ (here.tree.at = "absent" /\ disk' = disk) \/ Set(h)
    BY <1>4 DEF BackupTree, path
  <2> HIDE DEF h
  <2>3. disk'[path].bak.at = here.tree.at /\ \A p \in Paths \ {path} : disk'[p] = disk[p]
    BY <1>0, <1>a, <1>b, <2>1, <2>2, SetDisk
  <2>4. fetching' = path /\ result' = "none"
    BY <2>2 DEF fetching, result
  <2>5. \A p \in Paths : held(p)' = held(p)
    BY <1>a, <1>c, <2>2, <2>3, <2>4 DEF held, Backups
  <2> QED
    BY <1>c, <2>4, <2>5, SameInstalled DEF AtomicStep, Atomic!vars
<1> QED
  BY <1>1, <1>2, <1>3, <1>4 DEF BackupStep

\* What package_remove empties is not seen in a fetch, and dropped outside of one.
LEMMA RemoveAtomic == ASSUME Undisturbed, IInv, AInv, RemoveStep PROVE AtomicStep
<1>1. PICK s \in Removes \cup {after} : Goto(s)
  BY RemoveKeeps
<1>2. step' = s /\ path' = path /\ after' = after
  BY <1>1 DEF Goto, path
<1>3. /\ step \in Removes /\ path \in Paths
      /\ after \in {"removed", "tag", "add", "restore_modules"}
  <2>1. step \in Removes /\ step # "idle"
    BY RemoveKeeps DEF Removes
  <2> QED
    BY <2>1, Here DEF TypeOK
<1>4. CASE after = "removed"
  <2>1. fetching = "none" /\ fetching' = "none" /\ result = "none" /\ result' = "none"
    BY <1>2, <1>3, <1>4 DEF fetching, result, Removes
  <2> QED
    BY <1>3, <2>1, RemoveKeeps, OutsideDrops
<1>5. CASE after # "removed"
  <2>1. step \in Inside /\ step' \in Inside
    BY <1>2, <1>3, <1>5 DEF Inside, Gits, Restores
  <2> QED
    BY <1>2, <1>3, <1>5, <2>1, RemoveKeeps, InsideStutters
<1> QED
  BY <1>4, <1>5

\* The git commands work in a directory that is not yet installed.
LEMMA GitAtomic == ASSUME Undisturbed, IInv, AInv, GitStep PROVE AtomicStep
<1>1. step \in Gits /\ step # "idle" /\ path \in Paths
  BY GitKeeps, Here DEF Undisturbed, Gits
<1>2. after # "removed"
  BY <1>1, Here DEF PathFree
<1>3. step \in Inside /\ step' \in Inside
  BY <1>1, GitKeeps DEF Undisturbed, Inside, Gits, Removes, Finishes
<1> QED
  BY <1>1, <1>2, <1>3, GitKeeps, InsideStutters DEF Undisturbed

\* The end of a fetch: dropping the backup installs the new checkout, and
\* renaming it back leaves the old one.
LEMMA FinishAtomic == ASSUME Undisturbed, IInv, AInv, FinishStep PROVE AtomicStep
<1>0. step \in Finishes \cup Restores /\ step # "idle"
  BY DEF FinishStep, DropDotGit, DropBackupModules, DropBackupTree, RestoreModules, RestoreTree,
         Finishes, Restores
<1>a. /\ TypeOK /\ path \in Paths /\ here = disk[path] /\ here \in Slot
      /\ here.tree \in Directory /\ here.bak \in Directory
  BY <1>0, Here DEF here
<1>b. /\ after # "removed"
      /\ step \in Finishes => head = here.tree.at /\ head \in Commits
      /\ step \in Restores => head = "none" /\ here.tree.at = "absent"
  BY <1>0, Here DEF AInv, Phase, PathFree, Finishes, Restores
<1>c. /\ fetching = path /\ result = "none" /\ held(path) = here.bak.at
      /\ \A p \in Paths \ {path} : held(p) = disk[p].tree.at
  BY <1>0, <1>a, <1>b DEF fetching, result, held, Backups, Finishes, Restores
<1>1. CASE DropDotGit \/ DropBackupModules \/ RestoreModules
  <2>1. step' \in Inside /\ after' = after /\ path' = path
    BY <1>0, <1>1, Here DEF DropDotGit, DropBackupModules, RestoreModules, PathFree, Goto, path,
       Inside, Finishes, Restores
  <2>2. \E h : Set(h) /\ h.bak = here.bak
    <3> DEFINE h1 == [here EXCEPT !.tree.git = IF @ = "dir" THEN "none" ELSE @]
               h2 == [here EXCEPT !.modulesBak = FALSE]
               h3 == [here EXCEPT !.modules = @ \/ here.modulesBak, !.modulesBak = FALSE]
    <3>1. Set(h1) \/ Set(h2) \/ Set(h3)
      BY <1>0, <1>1, Here DEF DropDotGit, DropBackupModules, RestoreModules, PathFree
    <3>2. h1.bak = here.bak /\ h2.bak = here.bak /\ h3.bak = here.bak
      BY <1>a DEF Slot
    <3> HIDE DEF h1, h2, h3
    <3> QED
      BY <3>1, <3>2
  <2>3. disk'[path].bak = disk[path].bak /\ \A p \in Paths \ {path} : disk'[p] = disk[p]
    BY <1>0, <1>a, <2>2, SetDisk
  <2> QED
    BY <1>0, <1>a, <1>b, <2>1, <2>3, InsideStutters DEF Inside
<1>2. CASE DropBackupTree
  <2> DEFINE h == [here EXCEPT !.bak = Absent]
  <2>1. h.tree = here.tree
    BY <1>a DEF Slot
  <2>2. Set(h) /\ Goto("done") /\ step = "drop_tree"
    BY <1>2 DEF DropBackupTree
  <2> HIDE DEF h
  <2>3. /\ step' = "done" /\ path' = path /\ after' = after /\ head' = head
        /\ disk'[path].tree = here.tree /\ \A p \in Paths \ {path} : disk'[p] = disk[p]
    BY <1>0, <1>a, <2>1, <2>2, SetDisk DEF Goto, path
  <2>4. head \in Commits /\ head = here.tree.at /\ head # "none"
    BY <1>b, <2>2, AbsentNoCommit DEF Finishes
  <2>5. fetching' = path /\ result' = head /\ \A p \in Paths : held(p)' = disk'[p].tree.at
    BY <1>b, <2>3, <2>4 DEF fetching, result, held
  <2>6. \A p \in Paths : (installed')[p] = IF p = path THEN head ELSE installed[p]
    BY <1>a, <1>c, <2>3, <2>4, <2>5 DEF installed
  <2>7. installed' = [installed EXCEPT ![path] = head]
    BY <2>6 DEF installed
  <2>8. Atomic!Install(head)
    BY <1>a, <1>c, <2>5, <2>7 DEF Atomic!Install, Undisturbed
  <2> QED
    BY <2>4, <2>8 DEF AtomicStep, Atomic!Next
<1>3. CASE RestoreTree
  <2> DEFINE h == [here EXCEPT !.tree = IF here.bak.at = "absent" THEN @ ELSE here.bak, !.bak = Absent]
  <2>1. h.tree = IF here.bak.at = "absent" THEN here.tree ELSE here.bak
    BY <1>a DEF Slot
  <2>2. Set(h) /\ Goto("done") /\ step = "restore_tree"
    BY <1>0, <1>3, Here DEF RestoreTree, PathFree, Restores
  <2> HIDE DEF h
  <2>3. /\ step' = "done" /\ path' = path /\ after' = after /\ head' = head
        /\ disk'[path] = h /\ \A p \in Paths \ {path} : disk'[p] = disk[p]
    BY <1>0, <1>a, <2>2, SetDisk DEF Goto, path
  <2>4. head = "none" /\ disk'[path].tree.at = here.bak.at
    BY <1>b, <2>1, <2>2, <2>3 DEF Restores
  <2>5. fetching' = path /\ result' = "failed" /\ \A p \in Paths : held(p)' = disk'[p].tree.at
    BY <1>b, <2>3, <2>4 DEF fetching, result, held
  <2>6. \A p \in Paths : held(p)' = held(p)
    BY <1>a, <1>c, <2>3, <2>4, <2>5
  <2>7. Atomic!Fail
    BY <1>a, <1>c, <2>5, <2>6, SameInstalled DEF Atomic!Fail, Undisturbed
  <2> QED
    BY <2>7 DEF AtomicStep, Atomic!Next
<1> QED
  BY <1>1, <1>2, <1>3 DEF FinishStep

\* A call begins and a return ends what AtomicFetch calls a fetch.
LEMMA CallAtomic == ASSUME Undisturbed, IInv, AInv, Calls PROVE AtomicStep
<1>1. ASSUME NEW p \in Package, CallRemove(p) PROVE AtomicStep
  <2>1. /\ disk' = disk /\ fetching = "none" /\ fetching' = "none"
        /\ result = "none" /\ result' = "none"
    BY <1>1 DEF CallRemove, fetching, result
  <2>2. \A q \in Paths : held(q)' = held(q)
    BY <2>1 DEF held, Undisturbed
  <2> QED
    BY <2>1, <2>2, SameInstalled DEF AtomicStep, Atomic!vars
<1>2. ASSUME NEW p \in Package, NEW e \in BOOLEAN, CallFetch(p, e) PROVE AtomicStep
  <2>1. /\ disk' = disk /\ p.path \in Paths
        /\ fetching = "none" /\ fetching' = p.path /\ result = "none" /\ result' = "none"
    BY <1>2 DEF CallFetch, fetching, result, path, Package, AInv, Phase
  <2>2. \A q \in Paths : held(q)' = held(q)
    BY <1>2, <2>1 DEF CallFetch, held, Undisturbed
  <2> QED
    BY <2>1, <2>2, SameInstalled DEF AtomicStep, Atomic!Next, Atomic!Begin
<1>3. CASE Collect
  <2>1. /\ disk' = disk /\ step \in {"done", "removed", "dead"} /\ step' = "idle"
        /\ fetching' = "none" /\ result' = "none"
    BY <1>3 DEF Collect, Returned, fetching, result
  <2>2. \A q \in Paths : held(q)' = held(q)
    BY <2>1, AbsentNoCommit DEF held, Undisturbed, AInv, Phase, fetching
  <2>3. CASE step = "done"
    <3>1. fetching # "none"
      BY <2>3, Here DEF fetching, AInv, Phase, Undisturbed
    <3> QED
      BY <2>1, <2>2, <3>1, SameInstalled DEF AtomicStep, Atomic!Next, Atomic!End
  <2>4. CASE step # "done"
    <3>1. fetching = "none" /\ result = "none"
      BY <2>1, <2>4 DEF fetching, result, AInv, Phase
    <3> QED
      BY <2>1, <2>2, <3>1, SameInstalled DEF AtomicStep, Atomic!vars
  <2> QED
    BY <2>3, <2>4
<1> QED
  BY <1>1, <1>2, <1>3 DEF Calls

\* A directory that the user empties is a package dropped.
LEMMA UserAtomic == ASSUME Undisturbed, IInv, NEW p \in Paths, UserEmpties(p) PROVE AtomicStep
<1>1. TypeOK /\ step = "idle" /\ step' = "idle"
  BY DEF UserEmpties, callVars, IInv
<1>2. PICK d \in {Absent, Empty} : disk' = [disk EXCEPT ![p].tree = d]
  BY DEF UserEmpties
<1>3. d.at \in {"absent", "empty"}
  BY DEF Absent, Empty
<1>4. disk'[p].tree.at \in {"absent", "empty"} /\ \A q \in Paths \ {p} : disk'[q] = disk[q]
  BY <1>1, <1>2, <1>3 DEF TypeOK, Slot
<1>5. fetching = "none" /\ fetching' = "none" /\ result = "none" /\ result' = "none"
  BY <1>1 DEF fetching, result
<1> QED
  BY <1>4, <1>5, OutsideDrops

\* What AtomicFetch sees depends on the variables of the module only.
LEMMA StutterAtomic == ASSUME UNCHANGED fetchVars PROVE AtomicStep
<1>1. disk' = disk /\ step' = step /\ after' = after /\ head' = head /\ path' = path
  BY DEF fetchVars, callVars, path
<1>2. fetching' = fetching /\ result' = result
  BY <1>1 DEF fetching, result
<1>3. \A p \in Paths : held(p)' = held(p)
  BY <1>1, <1>2 DEF held
<1> QED
  BY <1>2, <1>3, SameInstalled DEF AtomicStep, Atomic!vars

\* Every step is one of AtomicFetch or changes nothing that it can see.
LEMMA StepAtomic ==
  ASSUME Undisturbed, IInv, AInv, [FetchNext]_fetchVars, ~Crash PROVE AtomicStep
BY BackupAtomic, RemoveAtomic, GitAtomic, FinishAtomic, CallAtomic, UserAtomic, StutterAtomic
   DEF FetchNext, FetchStep

\* A process that may be killed no more has no step Crash.
LEMMA NoKill == ASSUME MaxCrashes = 0, IInv PROVE ~Crash
BY DEF Crash, IInv, TypeOK

\* Nothing is installed at the start.
LEMMA InitAtomic == FetchInit => Atomic!Init
BY FetchAssumption
   DEF FetchInit, Atomic!Init, installed, held, fetching, result, Blank, Absent, Backups, Unfinished

\* package_fetch implements the atomic replacement: whatever commands of it
\* fail, a caller sees the new checkout or the old one and never something in
\* between, as long as the process is not killed.
THEOREM FetchIsAtomic == ASSUME Undisturbed PROVE FetchSpec => AtomicSpec
<1>1. AInv /\ IInv /\ [FetchNext]_fetchVars => AInv' /\ AtomicStep
  BY NoKill, StepAInv, StepAtomic DEF Undisturbed
<1> QED
  BY <1>1, InitAInv, InitAtomic, FetchInvariant, PTL
     DEF FetchSpec, AtomicSpec, Atomic!Spec, AtomicStep
=============================================================================

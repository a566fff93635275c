---------------------------- MODULE PackageFetch ----------------------------
(***************************************************************************)
(* package_fetch and package_remove of src/libcgen/packages.cpp: how cgen  *)
(* replaces the directory of one external package by a freshly fetched     *)
(* one.  The old directory and its .git/modules entry are renamed to       *)
(* <path>.bak, git fetches the package, and the backup is deleted when     *)
(* everything worked or renamed back when something failed.                *)
(*                                                                         *)
(* One step of the model is one call that changes the file system or the   *)
(* git index, so that the process can die between any two of them.  What   *)
(* git does is external: each command of git.cpp is an action that         *)
(* succeeds or fails, with what it leaves behind.                          *)
(***************************************************************************)
EXTENDS Naturals

CONSTANTS
  Paths,       \* package paths of the configuration
  Outside,     \* those of them outside the current working directory
  Urls,        \* repository urls
  Commits,     \* commit hashes
  CommitsOf,   \* the commits of the repository of each url
  Patterns,    \* versions for which version_is_valid holds ("1.*")
  Refs,        \* any other version: a branch or tag name
  NoVersion,   \* the empty version: HEAD of the remote
  NoPackage,   \* no call in progress
  TagOverflow, \* TRUE: a remote tag may hold a number wider than int
  MaxCrashes   \* bound on the times the process is killed

Version  == {NoVersion} \cup Patterns \cup Refs \cup Commits
Strategy == {"submodule", "clone"}

\* original_version of a package read from the configuration.
OriginalVersion(version) == IF version = NoVersion THEN "HEAD" ELSE version

\* A package of the configuration, or a row of the resolved file.
Package == [strategy : Strategy, path : Paths, url : Urls,
            version  : Version,  original : Version \cup {"HEAD"}]

\* A directory: the commit it holds (or that it is absent, empty or
\* incomplete) and whether <dir>/.git is missing, a file or a directory.
Unfinished == {"absent", "empty", "partial"}
Directory  == [at : Commits \cup Unfinished, git : {"none", "file", "dir"}]
Absent     == [at |-> "absent", git |-> "none"]
Empty      == [at |-> "empty",  git |-> "none"]

\* What the disk holds for a package path: <path>, <path>.bak, whether
\* .git/modules/<path> and .git/modules/<path>.bak exist, and whether the
\* git index registers <path> as a submodule.
Slot  == [tree : Directory, bak : Directory,
          modules : BOOLEAN, modulesBak : BOOLEAN, index : BOOLEAN]
Blank == [tree |-> Absent, bak |-> Absent,
          modules |-> FALSE, modulesBak |-> FALSE, index |-> FALSE]

ASSUME FetchAssumption ==
  /\ Outside \subseteq Paths
  /\ CommitsOf \in [Urls -> SUBSET Commits]
  /\ Commits \cap (Unfinished \cup {"none"}) = {}
  /\ NoVersion \notin Commits \cup Patterns
  /\ NoPackage \notin Package
  /\ TagOverflow \in BOOLEAN
  /\ MaxCrashes \in Nat

VARIABLES
  disk,     \* the slot of every path
  step,     \* program counter of the call in progress
  pkg,      \* its argument
  after,    \* where package_remove returns to
  errors,   \* the caller's error list is not empty
  ok,       \* every git command so far returned EXIT_SUCCESS
  head,     \* resolved_pkg.version once HEAD is resolved
  crashes,  \* times the process was killed
  before,   \* history: the slot of the path when package_fetch was called
  good      \* history: the last complete fetch of each path

callVars  == <<step, pkg, after, errors, ok, head>>
histVars  == <<crashes, before, good>>
fetchVars == <<disk, callVars, histVars>>

Backups   == {"backup_modules", "backup_tree"}
Removes   == {"remove", "deinit", "git_rm", "remove_modules", "remove_tree"}
Gits      == {"tag", "add", "reset", "nested", "head"}
Finishes  == {"dotgit", "drop_modules", "drop_tree"}
Restores  == {"restore_modules", "restore_tree"}
Running   == {"start"} \cup Backups \cup Removes \cup Gits \cup Finishes \cup Restores
Returned  == {"done", "removed", "dead"}

path == pkg.path
here == disk[path]

FetchInit ==
  /\ disk = [p \in Paths |-> Blank]
  /\ step = "idle" /\ pkg = NoPackage /\ after = "idle"
  /\ errors = FALSE /\ ok = TRUE /\ head = "none"
  /\ crashes = 0 /\ before = Blank /\ good = [p \in Paths |-> "none"]

\* The call goes on at step s and changes nothing but the disk.
Goto(s)   == step' = s /\ UNCHANGED <<pkg, after, errors, ok, head, histVars>>
Keep(s)   == Goto(s) /\ UNCHANGED disk
Set(slot) == disk' = [disk EXCEPT ![path] = slot]

-----------------------------------------------------------------------------
\* Calls and returns.

\* package_fetch(p, errors): the list holds an error already when e.
CallFetch(p, e) ==
  /\ step = "idle"
  /\ step' = "start" /\ pkg' = p /\ errors' = e /\ before' = disk[p.path]
  /\ UNCHANGED <<disk, after, ok, head, crashes, good>>

\* packages_cleanup calls package_remove: the package is given up.
CallRemove(p) ==
  /\ step = "idle"
  /\ step' = "remove" /\ pkg' = p /\ after' = "removed"
  /\ good' = [good EXCEPT ![p.path] = "none"]
  /\ UNCHANGED <<disk, errors, ok, head, crashes, before>>

\* The caller takes the result of a finished call, or the process is gone.
Collect ==
  /\ step \in Returned
  /\ step' = "idle" /\ pkg' = NoPackage /\ after' = "idle"
  /\ errors' = FALSE /\ ok' = TRUE /\ head' = "none" /\ before' = Blank
  /\ UNCHANGED <<disk, crashes, good>>

-----------------------------------------------------------------------------
\* The guard of package_fetch, and package_backup.

\* Fetching outside of the working directory is a fatal error (abort).
FetchOutside == step = "start" /\ path \in Outside /\ Keep("dead")

FetchStart == step = "start" /\ path \notin Outside /\ Keep("backup_modules")

\* rename(2) onto a directory that is not empty throws filesystem_error.
BackupThrows ==
  /\ \/ step = "backup_modules" /\ here.modules /\ here.modulesBak
     \/ /\ step = "backup_tree"
        /\ here.tree.at # "absent" /\ here.bak.at \notin {"absent", "empty"}
  /\ Keep("dead")

BackupModules ==
  /\ step = "backup_modules" /\ ~(here.modules /\ here.modulesBak)
  /\ Set([here EXCEPT !.modules = FALSE, !.modulesBak = @ \/ here.modules])
  /\ Goto("backup_tree")

\* Whether the version is looked up among the remote's tags.
NeedsTag(p) ==
  /\ p.version \in Patterns
  /\ p.strategy = "clone" => p.version \notin Commits

\* Mutants: removes the directory instead of renaming it; makes way for the
\* backup by deleting a stale one.
BackupTreeRemoves ==
  /\ step = "backup_tree" /\ Set([here EXCEPT !.tree = Absent])
  /\ step' = "remove" /\ after' = IF NeedsTag(pkg) THEN "tag" ELSE "add"
  /\ UNCHANGED <<pkg, errors, ok, head, histVars>>
BackupTreeForces ==
  /\ step = "backup_tree"
  /\ IF here.tree.at = "absent" THEN UNCHANGED disk
     ELSE Set([here EXCEPT !.tree = Absent, !.bak = here.tree])
  /\ step' = "remove" /\ after' = IF NeedsTag(pkg) THEN "tag" ELSE "add"
  /\ UNCHANGED <<pkg, errors, ok, head, histVars>>

\* The call of package_remove that follows may find an old directory no more.
BackupTree ==
  /\ step = "backup_tree"
  /\ \/ here.tree.at = "absent" /\ UNCHANGED disk
     \/ /\ here.tree.at # "absent" /\ here.bak.at \in {"absent", "empty"}
        /\ Set([here EXCEPT !.tree = Absent, !.bak = here.tree])
  /\ step' = "remove" /\ after' = IF NeedsTag(pkg) THEN "tag" ELSE "add"
  /\ UNCHANGED <<pkg, errors, ok, head, histVars>>

-----------------------------------------------------------------------------
\* package_remove, which returns to the step in "after".

RemoveNothing == step = "remove" /\ here.tree.at = "absent" /\ Keep(after)

RemoveStart == step = "remove" /\ here.tree.at # "absent" /\ Keep("deinit")

\* git submodule deinit --force: empties the work tree of a registered
\* submodule; for any other path it fails, and the status is not read.
GitDeinit ==
  /\ step = "deinit" /\ Goto("git_rm")
  /\ Set([here EXCEPT !.tree = IF here.index THEN Empty ELSE @])

\* git rm --force --ignore-unmatch: unregisters a registered submodule.
GitRm ==
  /\ step = "git_rm" /\ Goto("remove_modules")
  /\ Set([here EXCEPT !.tree = IF here.index THEN Absent ELSE @, !.index = FALSE])

\* Mutant: keeps the submodule's repository.
RemoveModulesNot == step = "remove_modules" /\ Keep("remove_tree")

RemoveModules ==
  /\ step = "remove_modules" /\ Goto("remove_tree")
  /\ Set([here EXCEPT !.modules = FALSE])

RemoveTree ==
  /\ step = "remove_tree" /\ Goto(after)
  /\ Set([here EXCEPT !.tree = Absent])

-----------------------------------------------------------------------------
\* The git commands of package_fetch.

\* An error is reported and the backup restored.
Restore ==
  /\ step' = "remove" /\ after' = "restore_modules" /\ errors' = TRUE
  /\ UNCHANGED <<disk, pkg, ok, head, histVars>>

\* package_tag: the tags cannot be listed, or none matches.  A tag that is
\* found is of no use when the list holds an error of an earlier package.
TagFails == step = "tag" /\ Restore

TagFound == step = "tag" /\ ~errors /\ Keep("add")

\* std::stoi throws on a tag with a number that does not fit an int.
TagThrows == step = "tag" /\ TagOverflow /\ Keep("dead")

\* Mutant: the status of the last command counts, "|" is dropped.
ReturnsLast(s, n) ==
  /\ step' = n /\ ok' = s
  /\ UNCHANGED <<pkg, after, errors, head, histVars>>

\* A git command returns with status s, and step n follows.
Returns(s, n) ==
  /\ step' = n /\ ok' = (ok /\ s)
  /\ UNCHANGED <<pkg, after, errors, head, histVars>>

\* Mutant: a clone of a commit is not reset to it.
AfterAddNoReset ==
  CASE pkg.strategy = "submodule" /\ pkg.version = NoVersion -> "nested"
    [] pkg.strategy = "submodule" /\ pkg.version # NoVersion -> "reset"
    [] OTHER                                                 -> "head"

AfterAdd ==
  CASE pkg.strategy = "submodule" /\ pkg.version = NoVersion -> "nested"
    [] pkg.strategy = "submodule" /\ pkg.version # NoVersion -> "reset"
    [] pkg.strategy = "clone" /\ pkg.version \in Commits     -> "reset"
    [] OTHER                                                 -> "head"

\* git submodule add: a checkout with a .git file, its repository under
\* .git/modules, and an entry of the index.
SubmoduleAdd ==
  /\ step = "add" /\ pkg.strategy = "submodule" /\ Returns(TRUE, AfterAdd)
  /\ \E c \in CommitsOf[pkg.url] : Set([here EXCEPT !.tree = [at |-> c, git |-> "file"],
                                                   !.modules = TRUE, !.index = TRUE])

\* git clone: a checkout with a repository of its own.
Clone ==
  /\ step = "add" /\ pkg.strategy = "clone" /\ Returns(TRUE, AfterAdd)
  /\ \E c \in CommitsOf[pkg.url] : Set([here EXCEPT !.tree = [at |-> c, git |-> "dir"]])

\* What is left by an add or a clone that did not finish.
PartialAdd ==
  Set(IF pkg.strategy = "submodule"
      THEN [here EXCEPT !.tree = [at |-> "partial", git |-> "file"], !.modules = TRUE]
      ELSE [here EXCEPT !.tree = [at |-> "partial", git |-> "dir"]])

AddFails ==
  /\ step = "add" /\ Returns(FALSE, AfterAdd)
  /\ PartialAdd \/ UNCHANGED disk

AfterReset == IF pkg.strategy = "submodule" THEN "nested" ELSE "head"

\* git reset --hard to the tag, the ref or the commit of the version, if the
\* repository has it.
GitReset ==
  /\ step = "reset" /\ here.tree.git # "none" /\ Returns(TRUE, AfterReset)
  /\ \E c \in CommitsOf[pkg.url] : /\ pkg.version \in Commits \ Patterns => c = pkg.version
                                  /\ Set([here EXCEPT !.tree.at = c])

GitResetFails == step = "reset" /\ Returns(FALSE, AfterReset) /\ UNCHANGED disk

\* git submodule update --init --recursive inside the package.
GitInitNested ==
  /\ step = "nested" /\ UNCHANGED disk
  /\ \E s \in BOOLEAN : (s => here.tree.git # "none") /\ Returns(s, "head")

\* Mutants: a failed fetch returns without restoring, or starts again.
FetchFailsBare ==
  /\ step = "head" /\ step' = "done" /\ errors' = TRUE
  /\ UNCHANGED <<disk, pkg, after, ok, head, histVars>>
FetchFailsRetries == step = "head" /\ Keep("start")

\* Some command failed, or git rev-parse --verify HEAD does.
FetchFails == step = "head" /\ Restore

\* Mutant: HEAD is resolved whatever the status.
ResolveHeadAlways ==
  /\ step = "head"
  /\ step' = "dotgit" /\ head' = here.tree.at
  /\ good' = [good EXCEPT ![path] = here.tree.at]
  /\ UNCHANGED <<disk, pkg, after, errors, ok, crashes, before>>

ResolveHead ==
  /\ step = "head" /\ ok
  /\ step' = "dotgit" /\ head' = here.tree.at
  /\ good' = [good EXCEPT ![path] = here.tree.at]
  /\ UNCHANGED <<disk, pkg, after, errors, ok, crashes, before>>

-----------------------------------------------------------------------------
\* The end of package_fetch.

\* A clone is kept as raw files; a submodule keeps its .git file.
DropDotGit ==
  /\ step = "dotgit" /\ Goto("drop_modules")
  /\ Set([here EXCEPT !.tree.git = IF @ = "dir" THEN "none" ELSE @])

\* Mutant: forgets the backup under .git/modules.
DropBackupModulesNot == step = "drop_modules" /\ Keep("drop_tree")

\* package_backup_remove.
DropBackupModules ==
  /\ step = "drop_modules" /\ Goto("drop_tree")
  /\ Set([here EXCEPT !.modulesBak = FALSE])

DropBackupTree ==
  /\ step = "drop_tree" /\ Goto("done")
  /\ Set([here EXCEPT !.bak = Absent])

\* package_backup_restore, after its package_remove.
RestoreModules ==
  /\ step = "restore_modules"
  /\ IF here.modules /\ here.modulesBak
     THEN Keep("dead")
     ELSE /\ Set([here EXCEPT !.modules = @ \/ here.modulesBak, !.modulesBak = FALSE])
          /\ Goto("restore_tree")

RestoreTree ==
  /\ step = "restore_tree"
  /\ IF here.bak.at # "absent" /\ here.tree.at \notin {"absent", "empty"}
     THEN Keep("dead")
     ELSE /\ Set([here EXCEPT !.tree = IF here.bak.at = "absent" THEN @ ELSE here.bak,
                              !.bak = Absent])
          /\ Goto("done")

-----------------------------------------------------------------------------
\* The environment.

\* The process is killed between two steps, or in the middle of a step that
\* touches many files: a fetch, or the removal of a directory.
Crash ==
  /\ step \in Running /\ crashes < MaxCrashes
  /\ crashes' = crashes + 1 /\ step' = "dead"
  /\ \/ UNCHANGED disk
     \/ step = "add" /\ PartialAdd
     \/ /\ step = "remove_tree" /\ here.tree.at # "absent"
        /\ Set([here EXCEPT !.tree.at = "partial"])
     \/ /\ step = "drop_tree" /\ here.bak.at # "absent"
        /\ Set([here EXCEPT !.bak.at = "partial"])
  /\ UNCHANGED <<pkg, after, errors, ok, head, before, good>>

\* The user deletes a package directory or checks the project out afresh,
\* which leaves an empty directory for a submodule.
UserEmpties(p) ==
  /\ step = "idle" /\ disk[p].tree.at # "absent"
  /\ \E d \in {Absent, Empty} : disk' = [disk EXCEPT ![p].tree = d]
  /\ good' = [good EXCEPT ![p] = IF disk[p].bak.at = @ THEN @ ELSE "none"]
  /\ UNCHANGED <<callVars, crashes, before>>

-----------------------------------------------------------------------------
BackupStep == FetchOutside \/ FetchStart \/ BackupThrows \/ BackupModules \/ BackupTree
RemoveStep == RemoveNothing \/ RemoveStart \/ GitDeinit \/ GitRm \/ RemoveModules \/ RemoveTree
GitStep    == \/ TagFails \/ TagThrows \/ TagFound
              \/ SubmoduleAdd \/ Clone \/ AddFails \/ GitReset \/ GitResetFails
              \/ GitInitNested \/ FetchFails \/ ResolveHead
FinishStep == \/ DropDotGit \/ DropBackupModules \/ DropBackupTree
              \/ RestoreModules \/ RestoreTree

\* A step of the call in progress.
FetchStep == BackupStep \/ RemoveStep \/ GitStep \/ FinishStep

\* Any caller: it fetches or removes any package, with or without errors of
\* earlier packages in the list it passes.
Calls == \/ \E p \in Package : CallRemove(p) \/ \E e \in BOOLEAN : CallFetch(p, e)
         \/ Collect

FetchNext == FetchStep \/ Calls \/ Crash \/ (\E p \in Paths : UserEmpties(p))

FetchSpec == FetchInit /\ [][FetchNext]_fetchVars

\* The process runs on as long as it is not killed, every git command
\* returns, and the caller takes the result.
FairFetchSpec == /\ FetchSpec
                 /\ WF_fetchVars(FetchStep)
                 /\ WF_fetchVars(Collect)

-----------------------------------------------------------------------------
\* Properties.

\* Every variable stays in its type; in particular package_fetch never
\* resolves HEAD of a checkout that a git command left unfinished.
TypeOK ==
  /\ disk \in [Paths -> Slot]
  /\ step \in {"idle"} \cup Running \cup Returned
  /\ pkg \in Package \cup {NoPackage} /\ (pkg = NoPackage <=> step = "idle")
  /\ after \in {"idle", "removed", "tag", "add", "restore_modules"}
  /\ step \in Removes => after # "idle"
  /\ errors \in BOOLEAN /\ ok \in BOOLEAN
  /\ head \in Commits \cup {"none"}
  /\ crashes \in Nat
  /\ before \in Slot
  /\ good \in [Paths -> Commits \cup {"none"}]

\* A package_fetch that failed leaves the directory and the submodule's
\* repository as it found them, whatever step of it failed, and no backup.
FailedFetchRestores ==
  step = "done" /\ head = "none" /\ crashes = 0 =>
    /\ here.tree = before.tree /\ here.modules = before.modules
    /\ here.bak.at = "absent" /\ ~here.modulesBak

\* A package_fetch that succeeds for a version that is a commit, as it is for
\* every pinned package, leaves exactly that commit: no failure of the reset
\* goes unnoticed.
PinnedFetchExact ==
  step = "done" /\ head # "none" /\ pkg.version \in Commits \ Patterns =>
    head = pkg.version /\ here.tree.at = head

\* Wherever the process dies, the last complete checkout of a package is on
\* the disk: in its directory or in the backup.
NothingLost ==
  \A p \in Paths : good[p] # "none" => good[p] \in {disk[p].tree.at, disk[p].bak.at}

\* Between the calls of a process that is not killed no backup is left, a
\* raw copy has no .git directory, and the .git file of a submodule has the
\* repository it points to.
Tidy ==
  step = "idle" /\ crashes = 0 =>
    \A p \in Paths : /\ disk[p].bak.at = "absent" /\ ~disk[p].modulesBak
                     /\ disk[p].tree.git # "dir"
                     /\ disk[p].tree.git = "file" => disk[p].modules

\* The renames of package_backup_restore find their destination free, even
\* when an earlier process was killed: restoring never throws.
RestoreFindsFreeDestination ==
  /\ step = "restore_modules" => ~(here.modules /\ here.modulesBak)
  /\ step \in Restores => here.tree.at = "absent"

\* The three of them follow from where a call in progress keeps the package.
\* Until HEAD is resolved the last complete checkout is in the backup, then in
\* the directory; package_backup and package_backup_restore leave the path
\* free; and a status of success means that the checkout is complete.
Complete == step \in {"reset", "nested", "head"} /\ ok => here.tree.at \in CommitsOf[pkg.url]
InBackup == step \in Removes \cup Gits \cup Restores /\ good[path] # "none"
              => here.bak.at = good[path]
InTree   == step \in Finishes => good[path] = here.tree.at
PathFree ==
  /\ step = "backup_tree" => ~here.modules
  /\ step \in Restores => here.tree.at = "absent"
  /\ step \in {"remove_tree", "restore_modules"} => ~here.modules
  /\ step = "remove" /\ after \in {"tag", "add"} => here.tree.at = "absent" /\ ~here.modules
  /\ step \in Removes \ {"remove"} => after \in {"removed", "restore_modules"}
  /\ step \in Gits \cup {"remove"} /\ after # "removed" /\ here.tree.at = "absent" => ~here.modules
  /\ step \in Gits => after # "removed"

IInv == TypeOK /\ NothingLost /\ Complete /\ InBackup /\ InTree /\ PathFree

\* Every call of package_fetch and package_remove returns or ends the process.
CallReturns == step # "idle" ~> step = "idle"

\* The promise of docs/spec.md for strategy submodule, "fetch as git
\* submodule": a package checked out as a submodule is one for git as well.
SubmoduleRegistered ==
  step = "idle" /\ crashes = 0 =>
    \A p \in Paths : disk[p].tree.git = "file" => disk[p].index

\* package_fetch implements the atomic replacement of AtomicFetch.  From the
\* backup of the directory to its end, a fetch in progress leaves in <path>.bak
\* what the package still is.
fetching  == IF step \notin {"idle", "dead"} /\ after # "removed" THEN path ELSE "none"
result    == CASE step # "done"                   -> "none"
               [] step = "done" /\ head = "none"  -> "failed"
               [] step = "done" /\ head # "none"  -> head
held(p)   == IF fetching = p /\ step \notin {"start", "done"} \cup Backups
             THEN disk[p].bak.at ELSE disk[p].tree.at
installed == [p \in Paths |-> IF held(p) \in Commits THEN held(p) ELSE "none"]

Atomic     == INSTANCE AtomicFetch WITH installed <- installed, fetching <- fetching, result <- result
AtomicSpec == Atomic!Spec
=============================================================================

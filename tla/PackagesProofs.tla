---------------------------- MODULE PackagesProofs ----------------------------
(***************************************************************************)
(* Proofs about Packages.  Every command keeps its variables in their      *)
(* types and uses package_fetch and package_remove as PackageFetch allows, *)
(* so that what is proved of these holds in all commands.  Then, what      *)
(* cgen.resolved says when a command has ended: "cgen -g" records every    *)
(* configured package and then has nothing to fetch, "cgen -u" records     *)
(* what it fetched and leaves the other rows alone, no package has two     *)
(* rows, and as long as all commands succeed a row names what is in its    *)
(* directory.  Last, that the commands implement AtomicLock.               *)
(*                                                                         *)
(* The invariant says where a command is (Shape), which paths it still has *)
(* to do (Progress), which rows it keeps (Kept) and makes (NewRows), and   *)
(* what it has written (Written).  A row in "resolved" stays true of its   *)
(* directory because only the first path of "work" is being fetched, and   *)
(* none of "work" is in "resolved": every path is named once.              *)
(***************************************************************************)
EXTENDS Packages, AtomicFetchProofs, SequenceTheorems

\* What a call tells its caller: without an error it has resolved a commit of
\* the package's repository.
Recorded ==
  /\ step \in Finishes => head \in CommitsOf[pkg.url]
  /\ step \in Restores \/ (step \in Removes /\ after = "restore_modules") => errors = TRUE
  /\ step = "done" /\ ~errors => head \in CommitsOf[pkg.url]

LEMMA RecordedStep ==
  ASSUME IInv, Recorded, [FetchNext]_fetchVars PROVE Recorded'
<1> USE DEF Recorded, Removes, Gits, Finishes, Restores, Running, Returned
<1>0. TypeOK /\ Complete /\ PathFree
  BY DEF IInv
<1>1. CASE BackupStep
  BY <1>1, <1>0 DEF BackupStep, FetchOutside, FetchStart, BackupThrows, BackupModules, BackupTree,
                    Keep, Goto
<1>2. CASE RemoveStep
  BY <1>2, <1>0 DEF RemoveStep, RemoveNothing, RemoveStart, GitDeinit, GitRm, RemoveModules,
                    RemoveTree, Keep, Goto, TypeOK
<1>3. CASE GitStep
  <2>1. CASE TagFails \/ TagThrows \/ TagFound \/ FetchFails
    BY <2>1 DEF TagFails, TagThrows, TagFound, FetchFails, Restore, Keep, Goto
  <2>2. CASE SubmoduleAdd \/ Clone \/ AddFails
    BY <2>2 DEF SubmoduleAdd, Clone, AddFails, Returns, AfterAdd
  <2>3. CASE GitReset \/ GitResetFails \/ GitInitNested
    BY <2>3 DEF GitReset, GitResetFails, GitInitNested, Returns, AfterReset
  <2>4. CASE ResolveHead
    BY <2>4, <1>0 DEF ResolveHead, Complete
  <2> QED BY <1>3, <2>1, <2>2, <2>3, <2>4 DEF GitStep
<1>4. CASE FinishStep
  BY <1>4 DEF FinishStep, DropDotGit, DropBackupModules, DropBackupTree, RestoreModules, RestoreTree,
              Keep, Goto
<1>5. CASE Calls
  BY <1>5 DEF Calls, CallRemove, CallFetch, Collect
<1>6. CASE Crash
  BY <1>6 DEF Crash
<1>7. CASE \E p \in Paths : UserEmpties(p)
  BY <1>7 DEF UserEmpties, callVars
<1>8. CASE UNCHANGED fetchVars
  BY <1>8 DEF fetchVars, callVars
<1> QED BY <1>1, <1>2, <1>3, <1>4, <1>5, <1>6, <1>7, <1>8 DEF FetchNext, FetchStep

-----------------------------------------------------------------------------
\* The variables of a command without those of the call it makes.
CommandTyped ==
  /\ config \in Configs
  /\ command \in CommandLine
  /\ pc \in {"ready", "cleanup", "removing", "work", "fetching", "write", "flush", "cmake",
             "cmake_flush", "finish"}
  /\ lock \subseteq Package /\ lock0 \subseteq Package /\ todo \subseteq Package
  /\ rows \subseteq Package /\ resolved \subseteq Package
  /\ work \in Seq(Paths) /\ (pc = "fetching" => work # <<>>)
  /\ failed \in BOOLEAN /\ lost \in BOOLEAN /\ clean \in BOOLEAN
  /\ cmake \in {"none", "stale", "current", "partial"}
  /\ outcome \in {"none", "generated", "updated", "failed", "lost", "killed"}

\* The invariant: the call in progress, its result, and the command.
PInv == IInv /\ Recorded /\ CommandTyped

LEMMA ConfigTyped ==
  ASSUME CommandTyped
  PROVE  /\ config \in Seq(Package) /\ ConfigPaths \in Seq(Paths)
         /\ \A p \in Range(ConfigPaths) : PackageAt(p) \in Package
         /\ command.paths \in Seq(Paths) /\ command.name \in {"generate", "update"}
<1>1. config \in Seq(Package) /\ command \in CommandLine
  BY PackagesAssumption DEF CommandTyped
<1>2. \A i \in 1 .. Len(config) : config[i] \in Package /\ config[i].path \in Paths
  <2> SUFFICES ASSUME NEW i \in 1 .. Len(config)
               PROVE  config[i] \in Package /\ config[i].path \in Paths
    OBVIOUS
  <2>1. config[i] \in Package
    BY <1>1
  <2> QED BY <2>1 DEF Package
<1>3. ConfigPaths \in Seq(Paths)
  BY <1>1, <1>2 DEF ConfigPaths
<1>4. ASSUME NEW p \in Range(ConfigPaths) PROVE PackageAt(p) \in Package
  <2>1. PICK i \in 1 .. Len(config) : p = config[i].path
    BY <1>1 DEF Range, ConfigPaths
  <2>2. config[i] \in Configured
    BY <1>1 DEF Configured, Range
  <2>3. PackageAt(p) \in Configured
    BY <2>1, <2>2 DEF PackageAt
  <2> QED BY <2>3, <1>1, <1>2 DEF Configured, Range
<1>5. command.paths \in Seq(Paths) /\ command.name \in {"generate", "update"}
  BY <1>1 DEF CommandLine
<1> QED BY <1>1, <1>3, <1>4, <1>5

\* A row as packages_resolve or packages_update records it.
LEMMA RowTyped ==
  ASSUME NEW p \in Package, NEW c \in Commits PROVE [p EXCEPT !.version = c] \in Package
BY DEF Package, Version

LEMMA PInit == Init => PInv
<1> SUFFICES ASSUME Init PROVE PInv
  OBVIOUS
<1>1. IInv /\ Recorded
  BY InitIInv DEF Init, FetchInit, Recorded, Finishes, Restores, Removes
<1>2. command \in CommandLine
  <2>1. <<>> \in Seq(Paths)
    BY EmptySeq
  <2> QED BY <2>1 DEF Init, CommandLine
<1>3. work \in Seq(Paths)
  <2>1. work = <<>>
    BY DEF Init
  <2> QED BY <2>1, EmptySeq
<1>4. CommandTyped
  BY <1>2, <1>3 DEF Init, CommandTyped
<1> QED BY <1>1, <1>4 DEF PInv

\* Every step of a command is a step of package_fetch, of package_remove or of
\* their caller, or does not concern them.
LEMMA StepFetches == PInv /\ [Next]_vars => [FetchNext]_fetchVars
<1> SUFFICES ASSUME PInv, [Next]_vars PROVE [FetchNext]_fetchVars
  OBVIOUS
<1>0. CommandTyped
  BY DEF PInv
<1>1. CASE User
  BY <1>1 DEF User, EditConfig, DeletePackage, FetchNext
<1>2. CASE \E c \in CommandLines : Start(c)
  BY <1>2 DEF Start
<1>3. CASE Command
  <2>1. ASSUME NEW row \in todo, CleanupKeep(row) \/ CleanupRemove(row)
        PROVE  [FetchNext]_fetchVars
    <3>1. row \in Package
      BY <1>0 DEF CommandTyped
    <3> QED BY <2>1, <3>1 DEF CleanupKeep, CleanupRemove, FetchNext, Calls
  <2>2. CASE Removed \/ Fetched \/ Gone
    BY <2>2 DEF Removed, Fetched, Gone, FetchNext, Calls
  <2>3. CASE Fetch
    <3>1. /\ Head(work) \in Range(ConfigPaths)
          /\ \E f \in ToResolve(PackageAt(Head(work))) \cup ToUpdate(PackageAt(Head(work))) :
               CallFetch(f, failed)
      BY <2>3 DEF Fetch
    <3>2. PackageAt(Head(work)) \in Package /\ rows \subseteq Package /\ failed \in BOOLEAN
      BY <1>0, <3>1, ConfigTyped DEF CommandTyped
    <3>3. ToResolve(PackageAt(Head(work))) \cup ToUpdate(PackageAt(Head(work))) \subseteq Package
      BY <3>2 DEF ToResolve, ToUpdate
    <3> QED BY <3>1, <3>2, <3>3 DEF FetchNext, Calls
  <2>4. ASSUME NEW row \in rows, Present(row) PROVE [FetchNext]_fetchVars
    BY <2>4 DEF Present
  <2>5. CASE CleanupDone \/ NotFound \/ WorkDone
    BY <2>5 DEF CleanupDone, NotFound, WorkDone
  <2>6. CASE SkipWrite \/ Truncate \/ OpenFails \/ Flush \/ FlushFails \/ CMakeTruncate \/ CMakeFlush \/ Finish
    BY <2>6 DEF SkipWrite, Truncate, OpenFails, Flush, FlushFails, CMakeTruncate, CMakeFlush, Finish
  <2> QED BY <1>3, <2>1, <2>2, <2>3, <2>4, <2>5, <2>6 DEF Command
<1>4. CASE Call
  BY <1>4 DEF Call, FetchNext
<1>5. CASE Killed \/ Kill
  BY <1>5 DEF Killed, Kill, FetchNext
<1>6. CASE UNCHANGED vars
  BY <1>6 DEF vars
<1> QED BY <1>1, <1>2, <1>3, <1>4, <1>5, <1>6 DEF Next

-----------------------------------------------------------------------------
\* The end of a command.
LEMMA EndTyped ==
  ASSUME CommandTyped, NEW how \in {"generated", "updated", "failed", "lost", "killed"}, End(how),
         lock' = lock
  PROVE  CommandTyped'
<1>1. work' \in Seq(Paths)
  <2>1. work' = <<>>
    BY DEF End
  <2> QED BY <2>1, EmptySeq
<1>2. clean' \in BOOLEAN /\ failed' \in BOOLEAN /\ lost' \in BOOLEAN
  BY DEF End, CommandTyped
<1>3. /\ config' \in Configs /\ command' \in CommandLine
      /\ lock' \subseteq Package /\ lock0' \subseteq Package
  BY DEF End, CommandTyped
<1> QED BY <1>1, <1>2, <1>3 DEF CommandTyped, End

LEMMA CommandStep == PInv /\ [Next]_vars => CommandTyped'
<1> SUFFICES ASSUME PInv, [Next]_vars PROVE CommandTyped'
  OBVIOUS
<1> USE DEF cmdVars, endVars
<1>0. CommandTyped /\ TypeOK /\ Recorded
  BY DEF PInv, IInv
<1>1. CASE User
  BY <1>0, <1>1 DEF User, EditConfig, DeletePackage, CommandTyped
<1>2. CASE \E c \in CommandLines : Start(c)
  BY <1>0, <1>2, PackagesAssumption DEF Start, CommandTyped
<1>3. CASE Command
  <2>1. ASSUME NEW row \in todo, CleanupKeep(row) \/ CleanupRemove(row) PROVE CommandTyped'
    BY <1>0, <2>1 DEF CleanupKeep, CleanupRemove, CommandTyped
  <2>2. CASE Removed \/ Fetch \/ WorkDone
    BY <1>0, <2>2 DEF Removed, Fetch, WorkDone, CommandTyped
  <2>3. CASE CleanupDone
    <3>1. work' \in Seq(Paths)
      BY <1>0, <2>3, ConfigTyped DEF CleanupDone
    <3> QED BY <1>0, <2>3, <3>1 DEF CleanupDone, CommandTyped
  <2>4. CASE Fetched
    <3>1. pkg \in Package /\ errors \in BOOLEAN /\ CommitsOf[pkg.url] \subseteq Commits
      BY <1>0, <2>4, OriginTyped DEF Fetched, TypeOK
    <3>2. ~errors => [pkg EXCEPT !.version = head] \in Package
      BY <1>0, <2>4, <3>1, RowTyped DEF Fetched, Recorded
    <3>3. resolved' \subseteq Package
      BY <1>0, <2>4, <3>1, <3>2 DEF Fetched, CommandTyped
    <3>4. work \in Seq(Paths) /\ work # <<>> /\ work' = Tail(work)
      BY <1>0, <2>4 DEF Fetched, CommandTyped
    <3>5. work' \in Seq(Paths)
      BY <3>4
    <3> QED BY <1>0, <2>4, <3>1, <3>3, <3>5 DEF Fetched, CommandTyped
  <2>5. ASSUME NEW row \in rows, Present(row) PROVE CommandTyped'
    BY <1>0, <2>5 DEF Present, CommandTyped
  <2>6. CASE NotFound
    BY <1>0, <2>6 DEF NotFound, CommandTyped
  <2>7. CASE SkipWrite \/ Truncate \/ FlushFails \/ CMakeTruncate \/ CMakeFlush
    BY <1>0, <2>7 DEF SkipWrite, Truncate, FlushFails, CMakeTruncate, CMakeFlush, AfterWrite, CommandTyped
  <2>8. CASE Flush
    <3>1. lock' \subseteq Package
      BY <1>0, <2>8 DEF Flush, Merged, CommandTyped
    <3> QED BY <1>0, <2>8, <3>1 DEF Flush, AfterWrite, CommandTyped
  <2>9. CASE OpenFails \/ Gone
    <3>1. \E how \in {"failed", "lost", "killed"} : End(how)
      BY <2>9 DEF OpenFails, Gone
    <3> QED BY <1>0, <2>9, <3>1, EndTyped DEF OpenFails, Gone
  <2>10. CASE Finish
    <3>1. failed \in BOOLEAN /\ command.name \in {"generate", "update"}
      BY <1>0, ConfigTyped DEF CommandTyped
    <3>2. \E how \in {"generated", "updated", "failed", "lost"} : End(how)
      BY <2>10, <3>1 DEF Finish
    <3> QED BY <1>0, <2>10, <3>2, EndTyped DEF Finish
  <2> QED BY <1>3, <2>1, <2>2, <2>3, <2>4, <2>5, <2>6, <2>7, <2>8, <2>9, <2>10 DEF Command
<1>4. CASE Call \/ Killed
  BY <1>0, <1>4 DEF Call, Killed, CommandTyped
<1>5. CASE Kill
  BY <1>0, <1>5, EndTyped DEF Kill
<1>6. CASE UNCHANGED vars
  BY <1>0, <1>6 DEF vars, CommandTyped
<1> QED BY <1>1, <1>2, <1>3, <1>4, <1>5, <1>6 DEF Next

LEMMA PStep == PInv /\ [Next]_vars => PInv'
BY StepFetches, StepIInv, RecordedStep, CommandStep DEF PInv

LEMMA PInvariant == Spec => []PInv
BY PInit, PStep, PTL DEF Spec

-----------------------------------------------------------------------------
\* The commands -g and -u call package_fetch and package_remove in no other way
\* than PackageFetch allows: Packages implements it.
THEOREM PackagesImplementFetch == Spec => FetchSpec
<1>1. Init => FetchInit
  BY DEF Init
<1> QED BY <1>1, PInvariant, StepFetches, PTL DEF Spec, FetchSpec

\* Every variable of the commands stays in its type; what is recorded of a
\* package has a commit for its version.
THEOREM CommandTypeCorrect == Spec => []CommandTypeOK
<1>1. PInv => CommandTypeOK
  BY DEF PInv, IInv, CommandTyped, CommandTypeOK
<1> QED BY <1>1, PInvariant, PTL

\* Wherever a command is killed, the last complete checkout of every package
\* is in its directory or in the backup.
THEOREM CommandsLoseNothing == Spec => []NothingLost
BY PackagesImplementFetch, FetchLosesNothing, PTL

-----------------------------------------------------------------------------
\* A row comes from a fetch of its own repository, and from then on it is only
\* carried along, from the lock to the command and back.
Origin(row)  == row.version \in CommitsOf[row.url]
RowsOfOrigin == \A row \in lock \cup todo \cup rows \cup resolved : Origin(row)

LEMMA RowsOfOriginStep == PInv /\ RowsOfOrigin /\ [Next]_vars => RowsOfOrigin'
<1> SUFFICES ASSUME PInv, RowsOfOrigin, [Next]_vars PROVE RowsOfOrigin'
  OBVIOUS
<1> USE DEF cmdVars, endVars, RowsOfOrigin
<1>1. CASE User
  BY <1>1 DEF User, EditConfig, DeletePackage
<1>2. CASE \E c \in CommandLines : Start(c)
  BY <1>2 DEF Start
<1>3. CASE Command
  <2>1. ASSUME NEW row \in todo, CleanupKeep(row) \/ CleanupRemove(row) PROVE RowsOfOrigin'
    BY <2>1 DEF CleanupKeep, CleanupRemove
  <2>2. CASE Removed \/ Fetch \/ WorkDone \/ CleanupDone \/ NotFound
    BY <2>2 DEF Removed, Fetch, WorkDone, CleanupDone, NotFound
  <2>3. CASE Fetched
    <3>1. pkg \in Package /\ (~errors => head \in CommitsOf[pkg.url])
      BY <2>3 DEF Fetched, TypeOK, PInv, IInv, Recorded
    <3>2. ~errors => Origin([pkg EXCEPT !.version = head])
      BY <3>1 DEF Origin, Package
    <3> QED BY <2>3, <3>2 DEF Fetched
  <2>4. ASSUME NEW row \in rows, Present(row) PROVE RowsOfOrigin'
    BY <2>4 DEF Present
  <2>5. CASE SkipWrite \/ Truncate \/ FlushFails \/ CMakeTruncate \/ CMakeFlush
    BY <2>5 DEF SkipWrite, Truncate, FlushFails, CMakeTruncate, CMakeFlush
  <2>6. CASE Flush
    BY <2>6 DEF Flush, Merged
  <2>7. CASE OpenFails \/ Finish \/ Gone
    BY <2>7 DEF OpenFails, Finish, Gone, End
  <2> QED BY <1>3, <2>1, <2>2, <2>3, <2>4, <2>5, <2>6, <2>7 DEF Command
<1>4. CASE Call \/ Killed \/ Kill
  BY <1>4 DEF Call, Killed, Kill, End
<1>5. CASE UNCHANGED vars
  BY <1>5 DEF vars
<1> QED BY <1>1, <1>2, <1>3, <1>4, <1>5 DEF Next

\* What cgen.resolved pins of a package is a commit of the repository it names,
\* for all configurations and command lines and wherever a command is killed.
THEOREM RowsNameTheirOrigin == Spec => []RowNamesOrigin
<1>1. Init => RowsOfOrigin
  BY DEF Init, RowsOfOrigin
<1>2. RowsOfOrigin => RowNamesOrigin
  BY DEF RowsOfOrigin, RowNamesOrigin, Origin
<1> QED BY <1>1, <1>2, PInvariant, RowsOfOriginStep, PTL DEF Spec

-----------------------------------------------------------------------------
\* Where the rows of configured packages are while a command runs: in the lock
\* until it is truncated, in the rows the cleanup keeps from then on, and in
\* the lock again when it was written.
Pinned == PathsOf(lock0) \cap Range(ConfigPaths)
PinsHeld ==
  /\ pc \in {"cleanup", "removing", "work", "fetching", "write"} => lock = lock0
  /\ pc \in {"cleanup", "removing"} => Pinned \subseteq PathsOf(rows) \cup PathsOf(todo)
  /\ pc \in {"work", "fetching", "write", "flush"} => Pinned \subseteq PathsOf(rows)
  /\ pc \in {"cmake", "cmake_flush", "finish"} /\ ~lost => Pinned \subseteq PathsOf(lock)

LEMMA PinsHeldStep ==
  CommandTyped /\ PinsHeld /\ FailureKeepsPins /\ [Next]_vars => PinsHeld' /\ FailureKeepsPins'
<1> SUFFICES ASSUME CommandTyped, PinsHeld, FailureKeepsPins, [Next]_vars
             PROVE  PinsHeld' /\ FailureKeepsPins'
  OBVIOUS
<1> USE DEF cmdVars, endVars, PinsHeld, Pinned, FailureKeepsPins, PathsOf, ConfigPaths
<1>1. CASE User
  BY <1>1 DEF User, EditConfig, DeletePackage
<1>2. CASE \E c \in CommandLines : Start(c)
  BY <1>2 DEF Start
<1>3. CASE Command
  <2>1. ASSUME NEW row \in todo, CleanupKeep(row) \/ CleanupRemove(row)
        PROVE  PinsHeld' /\ FailureKeepsPins'
    BY <2>1 DEF CleanupKeep, CleanupRemove
  <2>2. CASE Removed \/ Fetch \/ WorkDone \/ CleanupDone \/ NotFound \/ Fetched
    BY <2>2 DEF Removed, Fetch, WorkDone, CleanupDone, NotFound, Fetched
  <2>3. ASSUME NEW row \in rows, Present(row) PROVE PinsHeld' /\ FailureKeepsPins'
    BY <2>3 DEF Present
  <2>4. CASE SkipWrite \/ Truncate \/ FlushFails \/ CMakeTruncate \/ CMakeFlush
    BY <2>4 DEF SkipWrite, Truncate, FlushFails, CMakeTruncate, CMakeFlush, AfterWrite
  <2>5. CASE Flush
    <3>1. PathsOf(rows) \subseteq PathsOf(lock')
      BY <2>5 DEF Flush, Merged
    <3> QED BY <2>5, <3>1 DEF Flush, AfterWrite
  <2>6. CASE OpenFails
    BY <2>6 DEF OpenFails, End
  <2>7. CASE Finish
    BY <2>7 DEF Finish, End, CommandTyped
  <2>8. CASE Gone
    BY <2>8 DEF Gone, End
  <2> QED BY <1>3, <2>1, <2>2, <2>3, <2>4, <2>5, <2>6, <2>7, <2>8 DEF Command
<1>4. CASE Call \/ Killed \/ Kill
  BY <1>4 DEF Call, Killed, Kill, End
<1>5. CASE UNCHANGED vars
  BY <1>5 DEF vars
<1> QED BY <1>1, <1>2, <1>3, <1>4, <1>5 DEF Next

\* A command that reports an error never drops a configured package from
\* cgen.resolved, for all configurations, command lines and failures.
THEOREM FailuresKeepPins == Spec => []FailureKeepsPins
<1>1. Init => PinsHeld /\ FailureKeepsPins
  BY DEF Init, PinsHeld, FailureKeepsPins
<1>2. PInv => CommandTyped
  BY DEF PInv
<1> QED BY <1>1, <1>2, PInvariant, PinsHeldStep, PTL DEF Spec

-----------------------------------------------------------------------------
\* No command line names a path twice.
EachPathOnce == \A line \in CommandLines : IsInjective(line.paths)

\* The paths of the running command are all different.
Single == command.name = "generate" \/ EachPathOnce

Holds(row) == disk[row.path].tree.at \notin {"absent", "empty"}

Before  == {"ready", "cleanup", "removing"}
Working == {"work", "fetching"}
Writing == {"write", "flush"}
After   == {"cmake", "cmake_flush", "finish"}

\* Where the command is, and the call it waits for.
Shape ==
  /\ pc \notin {"fetching", "removing"} => step = "idle"
  /\ pc \in Before => work = <<>> /\ resolved = {} /\ failed = FALSE /\ lost = FALSE
  /\ pc = "ready" => todo = {} /\ rows = {}
  /\ pc \notin Before => todo = {}
  /\ pc \in Writing \cup After => work = <<>>
  /\ lost => pc \in After
  /\ pc \in {"cmake", "cmake_flush"} => command.name = "generate"
  /\ pc = "removing" => /\ after = "removed" /\ step \in Removes \cup {"removed", "dead"}
                        /\ path \notin Range(ConfigPaths)
  /\ pc = "fetching" => /\ path = Head(work) /\ path \in Range(ConfigPaths)
                        /\ Matches(pkg, PackageAt(path))
                        /\ pkg = PackageAt(path) \/ (command.name = "generate" /\ pkg \in rows)
                        /\ failed => errors

\* The paths that a command resolves when nothing fails.
Aim == IF command.name = "generate" \/ config = <<>> THEN Range(ConfigPaths) ELSE Updated

\* The paths still to do and those done.
Progress ==
  /\ EachPathOnce => IsInjective(command.paths)
  /\ Single => IsInjective(work) /\ PathsOf(resolved) \cap Range(work) = {}
  /\ pc \notin Before /\ ~failed => PathsOf(resolved) \cup Range(work) = Aim

\* The rows of the old lock that are kept: those of configured paths.
Kept ==
  /\ pc # "ready" => /\ rows \cup todo \subseteq lock0
                     /\ {row \in lock0 : row.path \in Range(ConfigPaths)} \subseteq rows \cup todo
  /\ PathsOf(rows) \cup PathsOf(resolved) \subseteq Range(ConfigPaths)
  /\ pc \in {"cleanup", "removing", "write"} \cup Working => lock = lock0

\* The rows that are made.
NewRows ==
  Single => \A row \in resolved :
    /\ Matches(row, PackageAt(row.path)) /\ Holds(row)
    /\ command.name = "update" => /\ row.version = disk[row.path].tree.at
                                  /\ row.url = PackageAt(row.path).url

\* What is written when the disk is not full.
Written ==
  /\ pc \in After /\ ~lost => \/ lock \in Merged(rows, resolved)
                              \/ rows = {} /\ resolved = {} /\ lock = lock0
  /\ pc = "finish" /\ ~lost /\ command.name = "generate" => cmake = "current"

\* While nothing changes after a success of "cgen -g", every configured package
\* is there and all its rows are for its version and strategy.
AllRows(rs) ==
  \A p \in Configured : /\ p.path \in PathsOf(rs)
                         /\ \A row \in rs : row.path = p.path => Matches(row, p)
Repeated ==
  outcome = "generated" /\ (pc = "ready" \/ command.name = "generate") =>
    /\ pc # "fetching" /\ \A p \in Configured : Holds(p)
    /\ pc # "ready" => AllRows(lock0)
    /\ pc = "ready" => /\ AllRows(lock) /\ cmake = "current"
                       /\ config # <<>> => PathsOf(lock) = Range(ConfigPaths)

\* As long as all commands succeed: the directory of a row is at its version,
\* or the row is about to be replaced.
Held(row) == disk[row.path].tree.at \in {row.version, "absent", "empty"}
HeldRows ==
  clean =>
    /\ pc = "ready" => \A row \in lock : Held(row)
    /\ pc # "ready" /\ ~failed /\ step # "dead" =>
         /\ \A row \in resolved : Held(row)
         /\ \A row \in lock0 : \/ Held(row) \/ row.path \in PathsOf(resolved)
                               \/ pc = "fetching" /\ row.path = path

RInv == Shape /\ Progress /\ Kept /\ NewRows /\ Written

-----------------------------------------------------------------------------
\* What a call does for its caller.

\* A step of a call, or a kill in it, writes one slot at most.
LEMMA WritesHere ==
  ASSUME FetchStep \/ Crash
  PROVE  /\ step \notin {"idle", "dead"} /\ pkg' = pkg
         /\ disk' = disk \/ \E h : Set(h)
         /\ errors' = errors \/ errors' = TRUE
<1>1. CASE BackupStep
  BY <1>1 DEF BackupStep, FetchOutside, FetchStart, BackupThrows, BackupModules, BackupTree, Keep, Goto
<1>2. CASE RemoveStep
  BY <1>2 DEF RemoveStep, RemoveNothing, RemoveStart, GitDeinit, GitRm, RemoveModules, RemoveTree,
              Keep, Goto
<1>3. CASE GitStep
  <2>1. CASE TagFails \/ TagThrows \/ TagFound \/ FetchFails \/ ResolveHead
    BY <2>1 DEF TagFails, TagThrows, TagFound, FetchFails, ResolveHead, Restore, Keep, Goto
  <2>2. CASE SubmoduleAdd \/ Clone \/ AddFails
    BY <2>2 DEF SubmoduleAdd, Clone, AddFails, PartialAdd, Returns
  <2>3. CASE GitReset \/ GitResetFails \/ GitInitNested
    BY <2>3 DEF GitReset, GitResetFails, GitInitNested, Returns
  <2> QED
    BY <1>3, <2>1, <2>2, <2>3 DEF GitStep
<1>4. CASE FinishStep
  BY <1>4 DEF FinishStep, DropDotGit, DropBackupModules, DropBackupTree, RestoreModules, RestoreTree,
              Keep, Goto
<1>5. CASE Crash
  BY <1>5 DEF Crash, PartialAdd, Running, Backups, Removes, Gits, Finishes, Restores
<1> QED
  BY <1>1, <1>2, <1>3, <1>4, <1>5 DEF FetchStep

\* No path but that of the call is touched.
LEMMA OnlyPath ==
  ASSUME IInv, FetchStep \/ Crash
  PROVE  /\ step \notin {"idle", "dead"} /\ path \in Paths /\ pkg' = pkg /\ path' = path
         /\ errors => errors'
         /\ \A p \in Paths \ {path} : disk'[p] = disk[p]
<1>1. step \notin {"idle", "dead"} /\ TypeOK /\ path \in Paths
  BY WritesHere, Here
<1>2. pkg' = pkg /\ path' = path
  BY WritesHere DEF path
<1>3. errors => errors'
  BY WritesHere
<1>4. \A p \in Paths \ {path} : disk'[p] = disk[p]
  BY <1>1, WritesHere, SetDisk
<1> QED
  BY <1>1, <1>2, <1>3, <1>4

\* A removal goes on until it returns.
LEMMA RemovalGoesOn ==
  ASSUME FetchStep, after = "removed", step \in Removes \cup {"removed", "dead"}
  PROVE  RemoveStep
<1> USE DEF Removes
<1>1. ~BackupStep
  BY DEF BackupStep, FetchOutside, FetchStart, BackupThrows, BackupModules, BackupTree
<1>2. ~GitStep
  BY DEF GitStep, TagFails, TagThrows, TagFound, SubmoduleAdd, Clone, AddFails, GitReset,
         GitResetFails, GitInitNested, FetchFails, ResolveHead
<1>3. ~FinishStep
  BY DEF FinishStep, DropDotGit, DropBackupModules, DropBackupTree, RestoreModules, RestoreTree
<1> QED
  BY <1>1, <1>2, <1>3 DEF FetchStep

\* The rest of a list of different paths.
LEMMA RestOfWork ==
  ASSUME NEW w \in Seq(Paths), w # <<>>
  PROVE  /\ Head(w) \in Paths /\ Tail(w) \in Seq(Paths)
         /\ Range(w) = {Head(w)} \cup Range(Tail(w))
         /\ IsInjective(w) => IsInjective(Tail(w)) /\ Head(w) \notin Range(Tail(w))
<1>1. /\ Len(w) \in Nat /\ Len(w) >= 1 /\ DOMAIN w = 1 .. Len(w) /\ Head(w) = w[1]
      /\ Tail(w) \in Seq(Paths) /\ Len(Tail(w)) = Len(w) - 1
      /\ \A i \in 1 .. Len(w) - 1 : Tail(w)[i] = w[i + 1]
  BY HeadTailProperties
<1>2. DOMAIN Tail(w) = 1 .. Len(w) - 1
  BY <1>1
<1>3. ASSUME NEW p \in Range(w) PROVE p \in {Head(w)} \cup Range(Tail(w))
  <2>1. PICK i \in 1 .. Len(w) : p = w[i]
    BY <1>1 DEF Range
  <2>2. CASE i = 1
    BY <1>1, <2>1, <2>2
  <2>3. CASE i # 1
    <3>1. i - 1 \in 1 .. Len(w) - 1 /\ Tail(w)[i - 1] = w[i]
      BY <1>1, <2>3
    <3> QED
      BY <1>2, <2>1, <3>1 DEF Range
  <2> QED
    BY <2>2, <2>3
<1>4. Head(w) \in Range(w) /\ Range(Tail(w)) \subseteq Range(w)
  BY <1>1, <1>2 DEF Range
<1>5. ASSUME IsInjective(w) PROVE IsInjective(Tail(w)) /\ Head(w) \notin Range(Tail(w))
  <2>1. \A i, j \in 1 .. Len(w) : w[i] = w[j] => i = j
    BY <1>1, <1>5 DEF IsInjective
  <2>2. IsInjective(Tail(w))
    BY <1>1, <1>2, <2>1 DEF IsInjective
  <2>3. Head(w) \notin Range(Tail(w))
    BY <1>1, <1>2, <2>1 DEF Range
  <2> QED
    BY <2>2, <2>3
<1>6. Head(w) \in Paths
  BY <1>1
<1> QED
  BY <1>1, <1>3, <1>4, <1>5, <1>6

\* The package of a configured path.
LEMMA PackageAtPath ==
  ASSUME CommandTyped
  PROVE  /\ \A p \in Range(ConfigPaths) :
              p \in Paths /\ PackageAt(p) \in Configured /\ PackageAt(p).path = p
         /\ \A c \in Configured : c \in Package /\ c.path \in Range(ConfigPaths) /\ PackageAt(c.path) = c
         /\ IsInjective(ConfigPaths)
<1>1. /\ config \in Seq(Package)
      /\ \A i, j \in DOMAIN config : config[i].path = config[j].path => i = j
  BY PackagesAssumption DEF CommandTyped
<1>2. DOMAIN ConfigPaths = DOMAIN config /\ \A i \in DOMAIN config : ConfigPaths[i] = config[i].path
  BY DEF ConfigPaths
<1>3. IsInjective(ConfigPaths)
  BY <1>1, <1>2 DEF IsInjective
<1>4. \A c, d \in Configured : c.path = d.path => c = d
  BY <1>1 DEF Configured, Range
<1>5. \A c \in Configured : c.path \in Range(ConfigPaths) /\ c \in Package
  BY <1>1, <1>2 DEF Configured, Range
<1>6. \A p \in Range(ConfigPaths) : \E c \in Configured : c.path = p
  BY <1>2 DEF Configured, Range
<1>7. ASSUME NEW p \in Range(ConfigPaths)
      PROVE  p \in Paths /\ PackageAt(p) \in Configured /\ PackageAt(p).path = p
  BY <1>5, <1>6 DEF PackageAt, Package
<1>8. ASSUME NEW c \in Configured PROVE PackageAt(c.path) = c
  BY <1>4, <1>5, <1>7
<1> QED
  BY <1>3, <1>5, <1>7, <1>8
-----------------------------------------------------------------------------
\* Where the command is.

\* packages_resolve and packages_update fetch the configured package, or its
\* row where that is for the same version and strategy.
LEMMA FetchCalls ==
  ASSUME CommandTyped, Fetch
  PROVE  /\ path' = Head(work) /\ path' \in Range(ConfigPaths)
         /\ Matches(pkg', PackageAt(path'))
         /\ pkg' = PackageAt(path') \/ (command.name = "generate" /\ pkg' \in rows)
         /\ disk' = disk /\ errors' = failed /\ step' = "start"
         /\ command.name = "generate" =>
              \/ \A row \in rows : row.path # path'
              \/ \E row \in rows : /\ row.path = path'
                                   /\ ~Matches(row, PackageAt(path')) \/ ~Holds(row)
<1> DEFINE p == PackageAt(Head(work))
<1>1. PICK f \in IF command.name = "generate" THEN ToResolve(p) ELSE ToUpdate(p) : CallFetch(f, failed)
  BY DEF Fetch
<1>2. Head(work) \in Range(ConfigPaths)
  BY DEF Fetch
<1>3. p.path = Head(work)
  BY <1>2, PackageAtPath
<1>4. pkg' = f /\ disk' = disk /\ errors' = failed /\ step' = "start"
  BY <1>1 DEF CallFetch
<1>5. Matches(p, p)
  BY DEF Matches
<1>6. f = p \/ (command.name = "generate" /\ f \in rows /\ f.path = p.path /\ Matches(f, p))
  BY <1>1 DEF ToResolve, ToUpdate
<1>7. f.path = Head(work) /\ path' = Head(work)
  BY <1>3, <1>4, <1>6 DEF path
<1>8. command.name = "generate" =>
        \/ \A row \in rows : row.path # p.path
        \/ \E row \in rows : row.path = p.path /\ (Matches(row, p) => ~Holds(row))
  BY <1>1, <1>3 DEF ToResolve, Holds
<1> HIDE DEF p
<1>9. PackageAt(path') = p
  BY <1>7 DEF p
<1> QED
  BY <1>2, <1>3, <1>4, <1>5, <1>6, <1>7, <1>8, <1>9

\* A command that waits for no call has none in progress, and what it collects
\* is empty before and after it works.
LEMMA ShapeStep == ASSUME PInv, Shape, [Next]_vars PROVE Shape'
<1> USE DEF cmdVars, endVars, Shape, Before, Working, Writing, After
<1>0. CommandTyped /\ IInv /\ TypeOK
  BY DEF PInv, IInv
<1>1. CASE User
  <2>1. CASE \E c \in Configs : EditConfig(c)
    BY <2>1 DEF EditConfig, fetchVars, callVars
  <2>2. CASE \E p \in Paths : DeletePackage(p)
    BY <2>2 DEF DeletePackage, UserEmpties, callVars
  <2> QED
    BY <1>1, <2>1, <2>2 DEF User
<1>2. CASE \E c \in CommandLines : Start(c)
  BY <1>2 DEF Start, fetchVars, callVars
<1>3. CASE Command
  <2>1. ASSUME NEW row \in todo, CleanupKeep(row) PROVE Shape'
    BY <2>1 DEF CleanupKeep, fetchVars, callVars
  <2>2. ASSUME NEW row \in todo, CleanupRemove(row) PROVE Shape'
    <3>1. /\ pc = "cleanup" /\ pc' = "removing" /\ row.path \notin Range(ConfigPaths)
          /\ step' = "remove" /\ after' = "removed" /\ path' = row.path
          /\ UNCHANGED <<config, work, resolved, failed, lost>>
      BY <2>2 DEF CleanupRemove, CallRemove, path
    <3>2. ConfigPaths' = ConfigPaths
      BY <3>1 DEF ConfigPaths
    <3> QED
      BY <3>1, <3>2 DEF Removes
  <2>3. CASE Removed
    BY <2>3 DEF Removed, Collect
  <2>4. CASE CleanupDone
    BY <2>4 DEF CleanupDone, fetchVars, callVars
  <2>5. CASE Fetch
    <3>1. pc = "work" /\ pc' = "fetching" /\ UNCHANGED <<config, cmdVars>>
      BY <2>5 DEF Fetch
    <3>2. Range(ConfigPaths)' = Range(ConfigPaths) /\ \A p : PackageAt(p)' = PackageAt(p)
      BY <3>1 DEF ConfigPaths, PackageAt, Configured
    <3>3. \A r, p : Matches(r, p)' = Matches(r, p)
      BY DEF Matches
    <3> QED
      BY <1>0, <2>5, <3>1, <3>2, <3>3, FetchCalls DEF Matches, ConfigPaths, PackageAt, Configured
  <2>6. CASE Fetched
    BY <2>6 DEF Fetched, Collect
  <2>7. ASSUME NEW row \in rows, Present(row) PROVE Shape'
    BY <2>7 DEF Present, fetchVars, callVars
  <2>8. CASE NotFound \/ WorkDone
    BY <2>8 DEF NotFound, WorkDone, fetchVars, callVars
  <2>9. CASE SkipWrite \/ Truncate \/ Flush \/ FlushFails \/ CMakeTruncate \/ CMakeFlush
    BY <2>9 DEF SkipWrite, Truncate, Flush, FlushFails, CMakeTruncate, CMakeFlush, AfterWrite,
                fetchVars, callVars
  <2>10. CASE OpenFails \/ Finish
    BY <2>10 DEF OpenFails, Finish, End, fetchVars, callVars
  <2>11. CASE Gone
    BY <2>11 DEF Gone, Collect, End
  <2> QED
    BY <1>3, <2>1, <2>2, <2>3, <2>4, <2>5, <2>6, <2>7, <2>8, <2>9, <2>10, <2>11 DEF Command
<1>4. CASE Call \/ Killed
  <2>1. /\ UNCHANGED <<config, pc, cmdVars>> /\ step # "idle" /\ path' = path /\ pkg' = pkg
        /\ errors => errors'
    BY <1>0, <1>4, OnlyPath DEF Call, Killed
  <2>2. pc \in {"fetching", "removing"}
    BY <2>1
  <2>3. /\ Range(ConfigPaths)' = Range(ConfigPaths)
        /\ \A p : PackageAt(p)' = PackageAt(p)
    BY <2>1 DEF ConfigPaths, PackageAt, Configured
  <2>4. CASE pc = "fetching"
    <3>1. PackageAt(path)' = PackageAt(path)
      BY <2>1 DEF PackageAt, Configured
    <3>2. Matches(pkg, PackageAt(path))'
      BY <2>1, <2>4, <3>1 DEF Matches
    <3> QED
      BY <2>1, <2>3, <2>4, <3>1, <3>2
  <2>5. CASE pc = "removing"
    <3>1. after' = "removed" /\ step' \in Removes \cup {"removed", "dead"}
      <4>1. CASE Call
        BY <1>0, <2>5, <4>1, RemovalGoesOn, RemoveKeeps DEF Call, Goto
      <4>2. CASE Killed
        BY <2>5, <4>2 DEF Killed, Crash
      <4> QED
        BY <1>4, <4>1, <4>2
    <3> QED
      BY <2>1, <2>3, <2>5, <3>1
  <2> QED
    BY <2>2, <2>4, <2>5
<1>5. CASE Kill
  BY <1>5 DEF Kill, End, fetchVars, callVars
<1>6. CASE UNCHANGED vars
  <2>1. UNCHANGED <<step, after, errors, pkg, config, pc, cmdVars>>
    BY <1>6 DEF vars, fetchVars, callVars
  <2>2. /\ path' = path /\ Range(ConfigPaths)' = Range(ConfigPaths) /\ PackageAt(path)' = PackageAt(path)
        /\ Matches(pkg, PackageAt(path))' = Matches(pkg, PackageAt(path))
    BY <2>1 DEF ConfigPaths, PackageAt, Configured, path, Matches
  <2> QED
    BY <2>1, <2>2
<1> QED
  BY <1>1, <1>2, <1>3, <1>4, <1>5, <1>6 DEF Next
-----------------------------------------------------------------------------
\* The paths to do.

\* A path that is done leaves the work and is in "resolved", or failed.
LEMMA PathDone ==
  ASSUME CommandTyped, Progress, work # <<>>, pc \in Working, pc' \in Working,
         UNCHANGED <<config, command>>, work' = Tail(work),
         \/ resolved' = resolved /\ failed' = TRUE
         \/ /\ \E row : row.path = Head(work) /\ resolved' = resolved \cup {row}
            /\ ~failed' => ~failed
  PROVE  Progress'
<1> USE DEF Progress, Before, Working
<1>1. /\ Range(work) = {Head(work)} \cup Range(work')
      /\ IsInjective(work) => IsInjective(work') /\ Head(work) \notin Range(work')
  BY RestOfWork DEF CommandTyped
<1>2. Single' = Single /\ Aim' = Aim
  BY DEF Single, Aim, ConfigPaths, Updated
<1>3. PathsOf(resolved)' \in {PathsOf(resolved), PathsOf(resolved) \cup {Head(work)}}
  BY DEF PathsOf
<1>4. ~failed' => PathsOf(resolved)' = PathsOf(resolved) \cup {Head(work)} /\ ~failed
  BY DEF PathsOf
<1>5. Single' => IsInjective(work') /\ PathsOf(resolved)' \cap Range(work') = {}
  BY <1>1, <1>2, <1>3
<1>6. pc' \notin Before /\ ~failed' => PathsOf(resolved)' \cup Range(work') = Aim'
  BY <1>1, <1>2, <1>4
<1> QED
  BY <1>5, <1>6

\* Steps that leave the list alone.
LEMMA WorkStays ==
  ASSUME Progress, UNCHANGED <<command, work, resolved, failed>>,
         pc' \in Before \/ (pc \notin Before /\ config' = config)
  PROVE  Progress'
<1>1. Single' = Single
  BY DEF Single
<1>2. CASE pc' \in Before
  BY <1>1, <1>2 DEF Progress, PathsOf
<1>3. CASE pc \notin Before /\ config' = config
  <2>1. Aim' = Aim
    BY <1>3 DEF Aim, ConfigPaths, Updated
  <2> QED
    BY <1>1, <1>3, <2>1 DEF Progress, PathsOf
<1> QED
  BY <1>2, <1>3

\* No path is left and none is done: the command begins or has ended.
LEMMA NoWork ==
  ASSUME work' = <<>>, resolved' = {}, pc' \in Before, EachPathOnce => IsInjective(command'.paths)
  PROVE  Progress'
<1>1. IsInjective(<<>>) /\ PathsOf({}) = {}
  BY DEF IsInjective, PathsOf
<1>2. PathsOf(resolved)' = {}
  BY <1>1
<1> QED
  BY <1>1, <1>2 DEF Progress

\* What is left of a command when it ends.
LEMMA EndShape ==
  ASSUME NEW how, End(how)
  PROVE  /\ pc' = "ready" /\ outcome' = how /\ clean' = (clean /\ how \in {"generated", "updated"})
         /\ todo' = {} /\ rows' = {} /\ work' = <<>> /\ resolved' = {} /\ failed' = FALSE /\ lost' = FALSE
         /\ UNCHANGED <<config, command, lock0, cmake>>
BY DEF End

\* A path that is done leaves "work" and is in "resolved", unless its fetch
\* failed.
LEMMA ProgressStep == ASSUME PInv, Shape, Progress, [Next]_vars PROVE Progress'
<1> USE DEF cmdVars, endVars
<1>0. CommandTyped
  BY DEF PInv
<1>1. CASE User
  <2>1. UNCHANGED <<cmdVars, pc>> /\ pc = "ready"
    BY <1>1 DEF User, EditConfig, DeletePackage
  <2> QED
    BY <2>1, WorkStays DEF Before
<1>2. ASSUME NEW c \in CommandLines, Start(c) PROVE Progress'
  BY <1>2, NoWork DEF Start, Shape, Before, EachPathOnce
<1>3. CASE Command
  <2>1. ASSUME NEW row \in todo, CleanupKeep(row) \/ CleanupRemove(row) PROVE Progress'
    BY <2>1, WorkStays DEF CleanupKeep, CleanupRemove, Before
  <2>2. CASE Removed
    BY <2>2, WorkStays DEF Removed, Before
  <2>3. CASE CleanupDone
    <3>1. /\ pc = "cleanup" /\ pc' = "work" /\ resolved' = {}
          /\ work' = IF command.name = "generate" \/ command.paths = <<>> \/ config = <<>>
                     THEN ConfigPaths ELSE command.paths
          /\ UNCHANGED <<config, command, failed>>
      BY <2>3 DEF CleanupDone, Shape, Before
    <3>2. Single' = Single /\ Aim' = Aim
      BY <3>1 DEF Single, Aim, ConfigPaths, Updated
    <3>3. Range(work') = Aim
      BY <3>1 DEF Aim, Updated
    <3>4. Single => IsInjective(work')
      BY <1>0, <3>1, PackageAtPath DEF Single, Progress
    <3>5. PathsOf(resolved)' = {}
      BY <3>1 DEF PathsOf
    <3> QED
      BY <3>1, <3>2, <3>3, <3>4, <3>5 DEF Progress
  <2>4. CASE Fetch
    BY <2>4, WorkStays DEF Fetch, Before
  <2>5. CASE Fetched
    <3>1. /\ pc = "fetching" /\ pc' = "work" /\ work' = Tail(work) /\ failed' = errors
          /\ UNCHANGED <<config, command>> /\ work # <<>> /\ pkg.path = Head(work)
          /\ ~errors => ~failed /\ pkg \in Package
      BY <1>0, <2>5 DEF Fetched, CommandTyped, Shape, path, PInv, IInv, TypeOK
    <3>2. \/ resolved' = resolved /\ failed' = TRUE
          \/ /\ \E row : row.path = Head(work) /\ resolved' = resolved \cup {row}
             /\ ~failed' => ~failed
      <4>1. [pkg EXCEPT !.version = head].path = Head(work)
        BY <3>1 DEF Package
      <4>2. errors \in BOOLEAN
        BY DEF PInv, IInv, TypeOK
      <4>3. CASE errors = TRUE
        BY <2>5, <3>1, <4>3 DEF Fetched
      <4>4. CASE errors = FALSE
        BY <2>5, <3>1, <4>1, <4>4 DEF Fetched
      <4> QED
        BY <4>2, <4>3, <4>4
    <3> QED
      BY <1>0, <3>1, <3>2, PathDone DEF Working
  <2>6. ASSUME NEW row \in rows, Present(row) PROVE Progress'
    BY <1>0, <2>6, PathDone DEF Present, Working
  <2>7. CASE NotFound
    BY <1>0, <2>7, PathDone DEF NotFound, Working
  <2>8. CASE WorkDone \/ SkipWrite \/ Truncate \/ Flush \/ FlushFails \/ CMakeTruncate \/ CMakeFlush
    BY <2>8, WorkStays DEF WorkDone, SkipWrite, Truncate, Flush, FlushFails, CMakeTruncate, CMakeFlush, Before
  <2>9. CASE OpenFails \/ Finish \/ Gone
    <3>1. \E how : End(how)
      BY <2>9 DEF OpenFails, Finish, Gone
    <3> QED
      BY <3>1, EndShape, NoWork DEF Before, Progress
  <2> QED
    BY <1>3, <2>1, <2>2, <2>3, <2>4, <2>5, <2>6, <2>7, <2>8, <2>9 DEF Command
<1>4. CASE Call \/ Killed
  BY <1>4, WorkStays DEF Call, Killed
<1>5. CASE Kill
  BY <1>5, EndShape, NoWork DEF Kill, Before, Progress
<1>6. CASE UNCHANGED vars
  BY <1>6, WorkStays DEF vars
<1> QED
  BY <1>1, <1>2, <1>3, <1>4, <1>5, <1>6 DEF Next
-----------------------------------------------------------------------------
\* The rows that are kept.

\* packages_cleanup drops a row only when no package is configured at its path.
LEMMA KeptStep == ASSUME PInv, Shape, Kept, [Next]_vars PROVE Kept'
<1> USE DEF cmdVars, endVars, Kept, Before, Working, PathsOf, ConfigPaths
<1>0. CommandTyped
  BY DEF PInv
<1>1. CASE User
  <2>1. /\ UNCHANGED <<cmdVars, pc>> /\ pc = "ready" /\ rows = {} /\ resolved = {}
    BY <1>1 DEF User, EditConfig, DeletePackage, Shape
  <2> QED
    BY <2>1
<1>2. CASE \E c \in CommandLines : Start(c)
  BY <1>2 DEF Start, Shape
<1>3. CASE Command
  <2>1. ASSUME NEW row \in todo, CleanupKeep(row) \/ CleanupRemove(row) PROVE Kept'
    BY <2>1 DEF CleanupKeep, CleanupRemove
  <2>2. CASE Removed \/ CleanupDone \/ Fetch \/ NotFound \/ WorkDone
    BY <2>2 DEF Removed, CleanupDone, Fetch, NotFound, WorkDone
  <2>3. CASE Fetched
    <3>1. pkg \in Package /\ pkg.path \in Range(ConfigPaths)
      BY <2>3 DEF Fetched, Shape, path, PInv, IInv, TypeOK
    <3>2. [pkg EXCEPT !.version = head].path \in Range(ConfigPaths)
      BY <3>1 DEF Package
    <3> QED
      BY <2>3, <3>1, <3>2 DEF Fetched
  <2>4. ASSUME NEW row \in rows, Present(row) PROVE Kept'
    BY <2>4 DEF Present
  <2>5. CASE SkipWrite \/ Truncate \/ Flush \/ FlushFails \/ CMakeTruncate \/ CMakeFlush
    BY <2>5 DEF SkipWrite, Truncate, Flush, FlushFails, CMakeTruncate, CMakeFlush, AfterWrite
  <2>6. CASE OpenFails \/ Finish \/ Gone
    <3>1. \E how : End(how)
      BY <2>6 DEF OpenFails, Finish, Gone
    <3> QED
      BY <3>1, EndShape
  <2> QED
    BY <1>3, <2>1, <2>2, <2>3, <2>4, <2>5, <2>6 DEF Command
<1>4. CASE Call \/ Killed
  BY <1>4 DEF Call, Killed
<1>5. CASE Kill
  BY <1>5, EndShape DEF Kill
<1>6. CASE UNCHANGED vars
  BY <1>6 DEF vars
<1> QED
  BY <1>1, <1>2, <1>3, <1>4, <1>5, <1>6 DEF Next

-----------------------------------------------------------------------------
\* The rows that are made.

\* A fetch that returns without an error leaves the commit it resolved in the
\* directory.
LEMMA FetchDone ==
  ASSUME PInv, HeadInv, Shape, Fetched, errors = FALSE
  PROVE  /\ pkg \in Package /\ path \in Paths /\ path = Head(work) /\ path \in Range(ConfigPaths)
         /\ head \in Commits /\ disk[path].tree.at = head
         /\ pkg.version \in Commits \ Patterns => head = pkg.version
         /\ disk' = disk
         /\ \E row \in Package :
              /\ resolved' = resolved \cup {row} /\ row.path = path /\ row.url = pkg.url
              /\ Matches(row, PackageAt(path))
              /\ IF command.name = "generate" /\ pkg \in rows
                 THEN row = pkg ELSE row.version = head
<1>1. /\ step = "done" /\ pc = "fetching" /\ disk' = disk
      /\ resolved' = resolved \cup {IF command.name = "generate" /\ pkg \in rows
                                    THEN pkg ELSE [pkg EXCEPT !.version = head]}
  BY DEF Fetched, Collect
<1>2. pkg \in Package /\ path \in Paths /\ IInv /\ here = disk[path]
  BY <1>1, Here DEF PInv, here
<1>3. head \in Commits
  BY <1>1, <1>2, Here, OriginTyped DEF PInv, Recorded
<1>4. disk[path].tree.at = head /\ (pkg.version \in Commits \ Patterns => head = pkg.version)
  BY <1>1, <1>2, <1>3, AbsentNoCommit DEF HeadInv, IsPin
<1>5. path = Head(work) /\ path \in Range(ConfigPaths) /\ Matches(pkg, PackageAt(path))
  BY <1>1 DEF Shape
<1> DEFINE row == IF command.name = "generate" /\ pkg \in rows
                  THEN pkg ELSE [pkg EXCEPT !.version = head]
<1>6. /\ row \in Package /\ row.path = path /\ row.url = pkg.url
      /\ Matches(row, PackageAt(path))
      /\ IF command.name = "generate" /\ pkg \in rows THEN row = pkg ELSE row.version = head
  BY <1>2, <1>3, <1>5, RowTyped DEF Package, Matches, path
<1> HIDE DEF row
<1>7. resolved' = resolved \cup {row}
  BY <1>1 DEF row
<1> QED
  BY <1>1, <1>2, <1>3, <1>4, <1>5, <1>6, <1>7

\* What a fetch in progress touches is in no row that is made.
LEMMA CallTouchesNoRow ==
  ASSUME PInv, Shape, Progress, Call \/ Killed
  PROVE  /\ UNCHANGED <<config, lock, pc, cmdVars, endVars>> /\ pc \in {"fetching", "removing"}
         /\ path \in Paths /\ path' = path
         /\ \A p \in Paths \ {path} : disk'[p] = disk[p]
         /\ Single => path \notin PathsOf(resolved)
<1>1. /\ UNCHANGED <<config, lock, pc, cmdVars, endVars>>
      /\ step # "idle" /\ path \in Paths /\ path' = path
      /\ \A p \in Paths \ {path} : disk'[p] = disk[p]
  BY OnlyPath DEF Call, Killed, PInv
<1>2. pc \in {"fetching", "removing"}
  BY <1>1 DEF Shape
<1>3. CASE pc = "removing"
  BY <1>1, <1>3 DEF Shape, Before, PathsOf
<1>4. CASE pc = "fetching"
  <2>1. path = Head(work) /\ work \in Seq(Paths) /\ work # <<>>
    BY <1>4 DEF Shape, PInv, CommandTyped
  <2>2. path \in Range(work)
    BY <2>1, RestOfWork
  <2> QED
    BY <1>1, <1>4, <2>2 DEF Progress
<1> QED
  BY <1>1, <1>2, <1>3, <1>4

\* Steps that bear on no row.
LEMMA RowsStay ==
  ASSUME NewRows, UNCHANGED <<resolved, command, config>>,
         Single => \A row \in resolved : disk'[row.path] = disk[row.path]
  PROVE  NewRows'
<1>1. Single' = Single
  BY DEF Single
<1>2. \A p : PackageAt(p)' = PackageAt(p)
  BY DEF PackageAt, Configured
<1> QED
  BY <1>1, <1>2 DEF NewRows, Holds, Matches

\* packages_resolve and packages_update record the version and the strategy of
\* the configured package, and its directory is there.
LEMMA NewRowsStep == ASSUME PInv, HeadInv, Shape, Progress, NewRows, [Next]_vars PROVE NewRows'
<1> USE DEF cmdVars, endVars
<1>0. CommandTyped
  BY DEF PInv
<1>a. ASSUME resolved' = {} PROVE NewRows'
  BY <1>a DEF NewRows
<1>1. CASE User \/ \E c \in CommandLines : Start(c)
  BY <1>1, <1>a DEF User, EditConfig, DeletePackage, Start, Shape, Before
<1>2. CASE Command
  <2>1. ASSUME NEW row \in todo, CleanupKeep(row) \/ CleanupRemove(row) PROVE NewRows'
    BY <2>1, <1>a DEF CleanupKeep, CleanupRemove, Shape, Before
  <2>2. CASE Removed \/ CleanupDone
    BY <2>2, <1>a DEF Removed, CleanupDone, Shape, Before
  <2>3. CASE Fetch
    BY <1>0, <2>3, FetchCalls, RowsStay DEF Fetch
  <2>4. CASE Fetched
    <3>1. errors \in BOOLEAN /\ UNCHANGED <<config, command>>
      BY <2>4 DEF PInv, IInv, TypeOK, Fetched
    <3>2. CASE errors = TRUE
      BY <2>4, <3>1, <3>2, RowsStay DEF Fetched, Collect
    <3>3. CASE errors = FALSE
      <4>1. PICK row \in Package :
              /\ resolved' = resolved \cup {row} /\ row.path = path /\ row.url = pkg.url
              /\ Matches(row, PackageAt(path))
              /\ IF command.name = "generate" /\ pkg \in rows
                 THEN row = pkg ELSE row.version = head
        BY <2>4, <3>3, FetchDone
      <4>2. head \in Commits /\ disk[path].tree.at = head /\ disk' = disk
        BY <2>4, <3>3, FetchDone
      <4>3. Holds(row) /\ (command.name = "update" => row.version = disk[path].tree.at)
        BY <4>1, <4>2, AbsentNoCommit DEF Holds
      <4>4. command.name = "update" => row.url = PackageAt(path).url
        BY <2>4, <4>1 DEF Fetched, Shape
      <4>5. Single' = Single /\ \A p : PackageAt(p)' = PackageAt(p)
        BY <3>1 DEF Single, PackageAt, Configured
      <4> QED
        BY <3>1, <4>1, <4>2, <4>3, <4>4, <4>5 DEF NewRows, Holds, Matches
    <3> QED
      BY <3>1, <3>2, <3>3
  <2>5. ASSUME NEW row \in rows, Present(row) PROVE NewRows'
    <3>1. /\ resolved' = resolved \cup {row} /\ disk' = disk /\ UNCHANGED <<config, command>>
          /\ Matches(row, PackageAt(row.path)) /\ Holds(row) /\ command.name = "generate"
      BY <2>5 DEF Present, Holds, fetchVars
    <3>2. Single' = Single /\ \A p : PackageAt(p)' = PackageAt(p)
      BY <3>1 DEF Single, PackageAt, Configured
    <3> QED
      BY <3>1, <3>2 DEF NewRows, Holds, Matches
  <2>6. CASE NotFound \/ WorkDone
    BY <2>6, RowsStay DEF NotFound, WorkDone, fetchVars
  <2>7. CASE SkipWrite \/ Truncate \/ Flush \/ FlushFails \/ CMakeTruncate \/ CMakeFlush
    BY <2>7, RowsStay DEF SkipWrite, Truncate, Flush, FlushFails, CMakeTruncate, CMakeFlush, fetchVars
  <2>8. CASE OpenFails \/ Finish \/ Gone
    <3>1. \E how : End(how)
      BY <2>8 DEF OpenFails, Finish, Gone
    <3> QED
      BY <1>a, <3>1, EndShape
  <2> QED
    BY <1>2, <2>1, <2>2, <2>3, <2>4, <2>5, <2>6, <2>7, <2>8 DEF Command
<1>3. CASE Call \/ Killed
  <2>1. Single => \A row \in resolved : disk'[row.path] = disk[row.path]
    BY <1>0, <1>3, CallTouchesNoRow DEF CommandTyped, Package, PathsOf
  <2> QED
    BY <1>3, <2>1, CallTouchesNoRow, RowsStay
<1>4. CASE Kill
  BY <1>4, <1>a, EndShape DEF Kill
<1>5. CASE UNCHANGED vars
  BY <1>5, RowsStay DEF vars, fetchVars
<1> QED
  BY <1>1, <1>2, <1>3, <1>4, <1>5 DEF Next

-----------------------------------------------------------------------------
\* What is written.

\* What is in cgen.resolved when it is written to the end.
LEMMA WrittenStep == ASSUME PInv, Shape, Kept, Written, [Next]_vars PROVE Written'
<1> USE DEF cmdVars, endVars, Written, After
<1>0. command.name \in {"generate", "update"}
  BY ConfigTyped DEF PInv
<1>1. CASE User \/ \E c \in CommandLines : Start(c)
  BY <1>1 DEF User, EditConfig, DeletePackage, Start
<1>2. CASE Command
  <2>1. ASSUME NEW row \in todo, CleanupKeep(row) \/ CleanupRemove(row) PROVE Written'
    BY <2>1 DEF CleanupKeep, CleanupRemove
  <2>2. CASE Removed \/ CleanupDone \/ Fetch \/ Fetched \/ NotFound \/ WorkDone \/ Truncate
    BY <2>2 DEF Removed, CleanupDone, Fetch, Fetched, NotFound, WorkDone, Truncate
  <2>3. ASSUME NEW row \in rows, Present(row) PROVE Written'
    BY <2>3 DEF Present
  <2>4. CASE SkipWrite
    BY <1>0, <2>4 DEF SkipWrite, AfterWrite, Kept
  <2>5. CASE Flush
    <3>1. /\ lock' \in Merged(rows, resolved) /\ UNCHANGED <<rows, resolved, command>>
          /\ pc' = IF command.name = "generate" THEN "cmake" ELSE "finish"
      BY <2>5 DEF Flush, AfterWrite
    <3>2. Merged(rows, resolved)' = Merged(rows, resolved)
      BY <3>1 DEF Merged, PathsOf
    <3> QED
      BY <1>0, <3>1, <3>2
  <2>6. CASE FlushFails
    BY <2>6 DEF FlushFails
  <2>7. CASE CMakeTruncate \/ CMakeFlush
    <3>1. /\ pc \in After /\ UNCHANGED <<rows, resolved, command, lock, lock0, lost>>
          /\ pc' = "finish" => cmake' = "current"
      BY <2>7 DEF CMakeTruncate, CMakeFlush
    <3>2. Merged(rows, resolved)' = Merged(rows, resolved)
      BY <3>1 DEF Merged, PathsOf
    <3> QED
      BY <3>1, <3>2
  <2>8. CASE OpenFails \/ Finish \/ Gone
    <3>1. \E how : End(how)
      BY <2>8 DEF OpenFails, Finish, Gone
    <3> QED
      BY <3>1, EndShape
  <2> QED
    BY <1>2, <2>1, <2>2, <2>3, <2>4, <2>5, <2>6, <2>7, <2>8 DEF Command
<1>3. CASE Call \/ Killed \/ UNCHANGED vars
  <2>1. UNCHANGED <<rows, resolved, command, lock, lock0, lost, pc, cmake>>
    BY <1>3 DEF Call, Killed, vars
  <2>2. Merged(rows, resolved)' = Merged(rows, resolved)
    BY <2>1 DEF Merged, PathsOf
  <2> QED
    BY <2>1, <2>2
<1>4. CASE Kill
  BY <1>4, EndShape DEF Kill
<1> QED
  BY <1>1, <1>2, <1>3, <1>4 DEF Next

\* No command has started.
LEMMA RInit == Init => RInv
<1> SUFFICES ASSUME Init PROVE RInv
  OBVIOUS
<1>1. Shape
  BY DEF Init, FetchInit, Shape, Before, Working, Writing, After
<1>2. Progress
  <2>1. /\ pc \in Before /\ work = <<>> /\ resolved = {} /\ command.paths = <<>>
    BY DEF Init, Before
  <2> QED
    BY <2>1 DEF Progress, IsInjective, PathsOf
<1>3. Kept
  BY DEF Init, Kept, PathsOf, Working
<1>4. NewRows
  BY DEF Init, NewRows
<1>5. Written
  BY DEF Init, Written, After
<1> QED
  BY <1>1, <1>2, <1>3, <1>4, <1>5 DEF RInv

\* For all configurations, command lines, failures and kills.
LEMMA RInvariant == Spec => [](PInv /\ HeadInv /\ RInv)
<1>1. PInv /\ HeadInv /\ RInv /\ [Next]_vars => RInv'
  BY ShapeStep, ProgressStep, KeptStep, NewRowsStep, WrittenStep DEF RInv
<1>2. Spec => [](IInv /\ HeadInv)
  BY PackagesImplementFetch, HeadInvariant, PTL
<1> QED
  BY <1>1, <1>2, RInit, PInvariant, PTL DEF Spec

-----------------------------------------------------------------------------
\* How a command ends with success.

\* Every path of the command is done, and the rows are written, unless there
\* are none.
LEMMA Succeeds ==
  ASSUME PInv, RInv, [Next]_vars, pc' = "ready", pc # "ready", outcome' \in {"generated", "updated"}
  PROVE  /\ Finish /\ pc = "finish" /\ step = "idle" /\ failed = FALSE /\ lost = FALSE
         /\ outcome' = IF command.name = "generate" THEN "generated" ELSE "updated"
         /\ PathsOf(resolved) = Aim
         /\ lock \in Merged(rows, resolved) \/ (rows = {} /\ resolved = {} /\ lock = lock0)
         /\ UNCHANGED <<fetchVars, config, lock, command, lock0, cmake>> /\ clean' = clean
         /\ command.name = "generate" => cmake = "current"
<1> USE DEF cmdVars, endVars
<1>0. /\ CommandTyped /\ command.name \in {"generate", "update"} /\ failed \in BOOLEAN /\ lost \in BOOLEAN
      /\ clean \in BOOLEAN
  BY ConfigTyped DEF PInv, CommandTyped
<1>1. Finish
  <2>1. ~User /\ ~(\E c \in CommandLines : Start(c)) /\ ~(UNCHANGED vars)
    BY DEF User, EditConfig, DeletePackage, Start, vars
  <2>2. ~Call /\ ~Killed
    BY DEF Call, Killed
  <2>3. ~Kill /\ ~Gone /\ ~OpenFails
    BY DEF Kill, Gone, OpenFails, End
  <2>4. ~Removed /\ ~CleanupDone /\ ~Fetch /\ ~Fetched /\ ~NotFound /\ ~WorkDone
    BY DEF Removed, CleanupDone, Fetch, Fetched, NotFound, WorkDone
  <2>5. ~SkipWrite /\ ~Truncate /\ ~Flush /\ ~FlushFails /\ ~CMakeTruncate /\ ~CMakeFlush
    BY DEF SkipWrite, Truncate, Flush, FlushFails, CMakeTruncate, CMakeFlush, AfterWrite
  <2>6. \A row : ~CleanupKeep(row) /\ ~CleanupRemove(row) /\ ~Present(row)
    BY DEF CleanupKeep, CleanupRemove, Present
  <2> QED
    BY <2>1, <2>2, <2>3, <2>4, <2>5, <2>6 DEF Next, Command
<1>2. /\ pc = "finish" /\ UNCHANGED <<fetchVars, lock, config, command, lock0, cmake>>
      /\ \E how : End(how)
  BY <1>1, EndShape DEF Finish
<1>3. step = "idle" /\ work = <<>>
  BY <1>2 DEF RInv, Shape, Writing, After
<1>4. lost = FALSE /\ failed = FALSE
  <2>1. ~End("lost") /\ ~End("failed")
    <3>1. outcome' # "lost" /\ outcome' # "failed"
      OBVIOUS
    <3> QED
      BY <3>1, EndShape
  <2>2. CASE lost = TRUE
    BY <1>1, <2>1, <2>2 DEF Finish
  <2>3. CASE lost = FALSE /\ failed = TRUE
    BY <1>1, <2>1, <2>3 DEF Finish
  <2> QED
    BY <1>0, <2>2, <2>3
<1>5. outcome' = IF command.name = "generate" THEN "generated" ELSE "updated"
  <2>1. CASE command.name = "generate"
    <3>1. End("generated")
      BY <1>1, <1>4, <2>1 DEF Finish
    <3> QED
      BY <2>1, <3>1, EndShape
  <2>2. CASE command.name = "update"
    <3>1. End("updated")
      BY <1>1, <1>4, <2>2 DEF Finish
    <3> QED
      BY <2>2, <3>1, EndShape
  <2> QED
    BY <1>0, <2>1, <2>2
<1>6. clean' = clean
  BY <1>0, <1>2, EndShape
<1>7. Range(work) = {}
  BY <1>3 DEF Range
<1>8. PathsOf(resolved) = Aim
  BY <1>2, <1>4, <1>7 DEF RInv, Progress, Before
<1> QED
  BY <1>1, <1>2, <1>3, <1>4, <1>5, <1>6, <1>8 DEF RInv, Written, After

\* A configuration that is not empty has a path.
LEMMA SomePath == ASSUME CommandTyped, config # <<>> PROVE Range(ConfigPaths) # {}
<1>1. config \in Seq(Package)
  BY PackagesAssumption DEF CommandTyped
<1>2. 1 \in DOMAIN config
  BY <1>1
<1> QED
  BY <1>2 DEF Range, ConfigPaths

\* The row that is written for a path that was done is the new one.
LEMMA WrittenRows ==
  ASSUME NEW rs \in Merged(rows, resolved)
  PROVE  /\ resolved \subseteq rs /\ rs \subseteq rows \cup resolved
         /\ \A row \in rs : row.path \in PathsOf(resolved) => row \in resolved
         /\ \A row \in rows : row.path \in PathsOf(rs)
<1>1. PICK kept \in SUBSET rows : /\ rs = resolved \cup kept
                                 /\ PathsOf(kept) = PathsOf(rows) \ PathsOf(resolved)
  BY DEF Merged
<1>2. \A row \in kept : row.path \in PathsOf(kept)
  BY DEF PathsOf
<1>3. PathsOf(rs) = PathsOf(resolved) \cup PathsOf(kept)
  BY <1>1 DEF PathsOf
<1>4. \A row \in rows : row.path \in PathsOf(rows)
  BY DEF PathsOf
<1> QED
  BY <1>1, <1>2, <1>3, <1>4

\* "cgen -g" has a row of every configured package, and no other row.
LEMMA GenerateSucceeds ==
  ASSUME PInv, RInv, [Next]_vars, pc' = "ready", pc # "ready", outcome' = "generated"
  PROVE  Repeated'
<1>0. CommandTyped
  BY DEF PInv
<1>1. /\ command.name = "generate" /\ cmake' = "current" /\ disk' = disk
      /\ UNCHANGED <<config, lock, command, lock0>>
      /\ PathsOf(resolved) = Range(ConfigPaths)
      /\ lock \in Merged(rows, resolved) \/ (rows = {} /\ resolved = {} /\ lock = lock0)
  <2>1. command.name = "generate"
    BY Succeeds
  <2> QED
    BY <2>1, Succeeds DEF Aim, fetchVars
<1>2. \A row \in resolved : Matches(row, PackageAt(row.path)) /\ Holds(row)
  BY <1>1 DEF RInv, NewRows, Single
<1>3. \A p \in Configured : p.path \in Range(ConfigPaths) /\ PackageAt(p.path) = p
  BY <1>0, PackageAtPath
<1>4. \A p \in Configured : Holds(p)
  BY <1>1, <1>2, <1>3 DEF PathsOf, Holds
<1>5. resolved = {} => Configured = {} /\ config = <<>>
  BY <1>0, <1>1, <1>3, SomePath DEF PathsOf
<1>6. ASSUME lock \in Merged(rows, resolved) PROVE lock = resolved
  <2>1. /\ resolved \subseteq lock /\ lock \subseteq rows \cup resolved
        /\ \A row \in lock : row.path \in PathsOf(resolved) => row \in resolved
    BY <1>6, WrittenRows
  <2>2. \A row \in rows : row.path \in PathsOf(resolved)
    BY <1>1 DEF RInv, Kept, PathsOf
  <2> QED
    BY <2>1, <2>2
<1>7. AllRows(lock)
  BY <1>1, <1>2, <1>3, <1>5, <1>6 DEF AllRows
<1>8. config # <<>> => PathsOf(lock) = Range(ConfigPaths)
  BY <1>1, <1>5, <1>6
<1>9. /\ Configured' = Configured /\ Range(ConfigPaths)' = Range(ConfigPaths)
      /\ AllRows(lock)' = AllRows(lock) /\ PathsOf(lock)' = PathsOf(lock)
      /\ \A p : Holds(p)' = Holds(p)
  BY <1>1 DEF Configured, ConfigPaths, AllRows, PathsOf, Matches, Holds
<1> QED
  BY <1>1, <1>4, <1>7, <1>8, <1>9 DEF Repeated
-----------------------------------------------------------------------------
\* After a success of "cgen -g".

\* The next "cgen -g" finds every row and directory.
LEMMA NothingToFetch ==
  ASSUME PInv, RInv, Repeated, Fetch, outcome = "generated", command.name = "generate" PROVE FALSE
<1>0. CommandTyped /\ pc = "work"
  BY DEF PInv, Fetch
<1>1. path' \in Range(ConfigPaths) /\ path' \in Paths
  BY <1>0, FetchCalls, PackageAtPath
<1> DEFINE p == PackageAt(path')
<1>2. p \in Configured /\ p.path = path'
  BY <1>0, <1>1, PackageAtPath
<1>3. AllRows(lock0) /\ Holds(p)
  BY <1>0, <1>2 DEF Repeated
<1>4. {row \in lock0 : row.path \in Range(ConfigPaths)} \subseteq rows /\ rows \subseteq lock0
  BY <1>0 DEF RInv, Kept, Shape, Before
<1> HIDE DEF p
<1>5. \E row \in rows : row.path = path'
  BY <1>1, <1>2, <1>3, <1>4 DEF AllRows, PathsOf
<1>6. \A row \in rows : row.path = path' => Matches(row, p) /\ Holds(row)
  BY <1>2, <1>3, <1>4 DEF AllRows, Holds
<1> QED
  BY <1>0, <1>5, <1>6, FetchCalls DEF p

\* Nothing that it depends on changes.
LEMMA RepeatedStays ==
  ASSUME Repeated, outcome' = outcome, UNCHANGED <<config, command>>,
         pc' # "fetching", \A p \in Configured : disk'[p.path] = disk[p.path],
         \/ pc = "ready" /\ pc' = "ready" /\ UNCHANGED <<lock, cmake>>
         \/ pc # "ready" /\ pc' # "ready" /\ lock0' = lock0
  PROVE  Repeated'
<1>1. Configured' = Configured /\ Range(ConfigPaths)' = Range(ConfigPaths)
  BY DEF Configured, ConfigPaths
<1>2. (\A p \in Configured : Holds(p)) => (\A p \in Configured' : Holds(p)')
  BY <1>1 DEF Holds
<1>3. lock0' = lock0 => AllRows(lock0)' = AllRows(lock0)
  BY <1>1 DEF AllRows, PathsOf, Matches
<1>4. lock' = lock => AllRows(lock)' = AllRows(lock) /\ PathsOf(lock)' = PathsOf(lock)
  BY <1>1 DEF AllRows, PathsOf, Matches
<1> QED
  BY <1>1, <1>2, <1>3, <1>4 DEF Repeated

\* After a success of "cgen -g" nothing but a user's change makes a package
\* missing or a row stale: the next "cgen -g" finds all its rows.
LEMMA RepeatedStep == ASSUME PInv, RInv, Repeated, [Next]_vars PROVE Repeated'
<1> USE DEF cmdVars, endVars
<1>0. CommandTyped /\ Shape
  BY DEF PInv, RInv
<1>a. ASSUME outcome' # "generated" PROVE Repeated'
  BY <1>a DEF Repeated
<1>1. CASE User
  BY <1>1, <1>a DEF User, EditConfig, DeletePackage
<1>2. ASSUME NEW c \in CommandLines, Start(c) PROVE Repeated'
  <2>1. /\ pc = "ready" /\ pc' = "cleanup" /\ lock0' = lock /\ UNCHANGED <<disk, config, outcome>>
    BY <1>2 DEF Start, fetchVars
  <2>2. Configured' = Configured /\ (\A p : Holds(p)' = Holds(p)) /\ AllRows(lock0)' = AllRows(lock)
    BY <2>1 DEF Configured, Holds, AllRows, PathsOf, Matches
  <2> QED
    BY <2>1, <2>2 DEF Repeated
<1>3. CASE Command
  <2>1. ASSUME NEW row \in todo, CleanupKeep(row) \/ CleanupRemove(row) PROVE Repeated'
    BY <2>1, RepeatedStays DEF CleanupKeep, CleanupRemove, CallRemove, fetchVars
  <2>2. CASE Removed \/ CleanupDone \/ NotFound \/ WorkDone
    BY <2>2, RepeatedStays DEF Removed, CleanupDone, NotFound, WorkDone, Collect, fetchVars
  <2>3. CASE Fetch
    <3>1. UNCHANGED <<outcome, command>> /\ pc' # "ready"
      BY <2>3 DEF Fetch
    <3> QED
      BY <2>3, <3>1, NothingToFetch DEF Repeated
  <2>4. CASE Fetched
    <3>1. pc = "fetching" /\ pc' = "work" /\ UNCHANGED <<outcome, command>>
      BY <2>4 DEF Fetched
    <3> QED
      BY <3>1 DEF Repeated
  <2>5. ASSUME NEW row \in rows, Present(row) PROVE Repeated'
    BY <2>5, RepeatedStays DEF Present, fetchVars
  <2>6. CASE SkipWrite \/ Truncate \/ Flush \/ FlushFails \/ CMakeTruncate \/ CMakeFlush
    <3>1. /\ pc # "ready" /\ pc' \notin {"ready", "fetching"} /\ outcome' = outcome
          /\ UNCHANGED <<disk, config, command, lock0>>
      BY <2>6 DEF SkipWrite, Truncate, Flush, FlushFails, CMakeTruncate, CMakeFlush, AfterWrite, fetchVars
    <3> QED
      BY <3>1, RepeatedStays
  <2>7. CASE OpenFails \/ Gone
    <3>1. \E how \in {"failed", "lost", "killed"} : End(how)
      BY <2>7 DEF OpenFails, Gone
    <3>2. outcome' \in {"failed", "lost", "killed"}
      BY <3>1, EndShape
    <3> QED
      BY <1>a, <3>2
  <2>8. CASE Finish
    <3>1. pc' = "ready" /\ pc # "ready"
      BY <2>8, EndShape DEF Finish
    <3> QED
      BY <1>a, <3>1, GenerateSucceeds
  <2> QED
    BY <1>3, <2>1, <2>2, <2>3, <2>4, <2>5, <2>6, <2>7, <2>8 DEF Command
<1>4. CASE Call \/ Killed
  <2>1. /\ UNCHANGED <<config, pc, cmdVars, endVars>> /\ pc \in {"fetching", "removing"}
        /\ path \in Paths /\ \A p \in Paths \ {path} : disk'[p] = disk[p]
    BY <1>4, CallTouchesNoRow DEF RInv
  <2>2. CASE pc = "fetching"
    BY <2>1, <2>2 DEF Repeated
  <2>3. CASE pc = "removing"
    <3>1. path \notin Range(ConfigPaths)
      BY <1>0, <2>3 DEF Shape
    <3>2. \A p \in Configured : p.path \in Paths \ {path}
      BY <1>0, <3>1, PackageAtPath
    <3> QED
      BY <2>1, <2>3, <3>2, RepeatedStays
  <2> QED
    BY <2>1, <2>2, <2>3
<1>5. CASE Kill
  <2>1. End("killed")
    BY <1>5 DEF Kill
  <2>2. outcome' = "killed"
    BY <2>1, EndShape
  <2> QED
    BY <1>a, <2>2
<1>6. CASE UNCHANGED vars
  <2>1. UNCHANGED <<disk, config, lock, pc, cmdVars, endVars>>
    BY <1>6 DEF vars, fetchVars
  <2>2. CASE pc = "fetching"
    BY <2>1, <2>2 DEF Repeated
  <2> QED
    BY <2>1, <2>2, RepeatedStays
<1> QED
  BY <1>1, <1>2, <1>3, <1>4, <1>5, <1>6 DEF Next

\* The same for every state of a behaviour.
LEMMA RepeatedInvariant == Spec => [](CommandTyped /\ Repeated)
<1>1. Init => Repeated
  BY DEF Init, Repeated
<1>2. PInv => CommandTyped
  BY DEF PInv
<1> QED
  BY <1>1, <1>2, RInvariant, RepeatedStep, PTL DEF Spec

\* A "cgen -g" that succeeds has recorded every configured package with its
\* version and strategy and no other, its directories hold something, and
\* CMakeLists.txt is written: for all configurations and histories.
THEOREM GenerateIsRecorded == Spec => []GenerateRecords
<1>1. CommandTyped /\ Repeated => GenerateRecords
  BY PackageAtPath DEF Repeated, GenerateRecords, AllRows, RowsAt, PathsOf, Holds
<1> QED
  BY <1>1, RepeatedInvariant, PTL

\* Until something is changed, the "cgen -g" after a successful one calls
\* package_fetch for nothing.
THEOREM GenerateTwice == Spec => []GenerateIsIdempotent
<1>1. Repeated => GenerateIsIdempotent
  BY DEF Repeated, GenerateIsIdempotent
<1> QED
  BY <1>1, RepeatedInvariant, PTL

-----------------------------------------------------------------------------
\* One row of each path.
OneRow(rs) == \A r1, r2 \in rs : r1.path = r2.path => r1 = r2
Unique     == OneRow(lock) /\ OneRow(lock0) /\ OneRow(resolved)

\* A path that is not done has no row yet.
LEMMA NewPath ==
  ASSUME OneRow(resolved), NEW row, row.path \notin PathsOf(resolved)
  PROVE  OneRow(resolved \cup {row})
BY DEF OneRow, PathsOf

\* The first path to do is not done.
LEMMA FirstNotDone ==
  ASSUME EachPathOnce, CommandTyped, Progress, work # <<>> PROVE Head(work) \notin PathsOf(resolved)
<1>1. Head(work) \in Range(work)
  BY RestOfWork DEF CommandTyped
<1> QED
  BY <1>1 DEF Progress, Single

\* A new row replaces the rows of its path, and no path is resolved twice.
LEMMA UniqueStep == ASSUME EachPathOnce, PInv, HeadInv, RInv, Unique, [Next]_vars PROVE Unique'
<1> USE DEF cmdVars, endVars
<1>0. CommandTyped /\ Shape /\ Progress
  BY DEF PInv, RInv
<1>a. OneRow({})
  BY DEF OneRow
<1>1. CASE User \/ \E c \in CommandLines : Start(c)
  BY <1>1 DEF User, EditConfig, DeletePackage, Start, Unique, OneRow
<1>2. CASE Command
  <2>1. ASSUME NEW row \in todo, CleanupKeep(row) \/ CleanupRemove(row) PROVE Unique'
    BY <2>1 DEF CleanupKeep, CleanupRemove, Unique, OneRow
  <2>2. CASE Removed \/ CleanupDone \/ Fetch \/ NotFound \/ WorkDone
    BY <2>2 DEF Removed, CleanupDone, Fetch, NotFound, WorkDone, Unique, OneRow
  <2>3. CASE Fetched
    <3>1. errors \in BOOLEAN /\ UNCHANGED <<lock, lock0>> /\ work # <<>>
      BY <1>0, <2>3 DEF PInv, IInv, TypeOK, Fetched, CommandTyped
    <3>2. CASE errors = TRUE
      BY <2>3, <3>1, <3>2 DEF Fetched, Unique, OneRow
    <3>3. CASE errors = FALSE
      <4>1. PICK row \in Package : resolved' = resolved \cup {row} /\ row.path = Head(work)
        BY <1>0, <2>3, <3>3, FetchDone
      <4>2. OneRow(resolved')
        BY <1>0, <3>1, <4>1, FirstNotDone, NewPath DEF Unique
      <4> QED
        BY <3>1, <4>2 DEF Unique, OneRow
    <3> QED
      BY <3>1, <3>2, <3>3
  <2>4. ASSUME NEW row \in rows, Present(row) PROVE Unique'
    <3>1. /\ resolved' = resolved \cup {row} /\ row.path = Head(work) /\ work # <<>>
          /\ UNCHANGED <<lock, lock0>>
      BY <2>4 DEF Present
    <3>2. OneRow(resolved')
      BY <1>0, <3>1, FirstNotDone, NewPath DEF Unique
    <3> QED
      BY <3>1, <3>2 DEF Unique, OneRow
  <2>5. CASE SkipWrite \/ FlushFails \/ CMakeTruncate \/ CMakeFlush
    BY <2>5 DEF SkipWrite, FlushFails, CMakeTruncate, CMakeFlush, Unique, OneRow
  <2>6. CASE Truncate
    BY <1>a, <2>6 DEF Truncate, Unique, OneRow
  <2>7. CASE Flush
    <3>1. PICK kept \in SUBSET rows : /\ lock' = resolved \cup kept
                                     /\ PathsOf(kept) = PathsOf(rows) \ PathsOf(resolved)
                                     /\ OneRow(kept)
      BY <2>7 DEF Flush, Merged, OneRow
    <3>2. OneRow(lock')
      BY <3>1 DEF Unique, OneRow, PathsOf
    <3> QED
      BY <2>7, <3>2 DEF Flush, Unique, OneRow
  <2>8. CASE OpenFails \/ Finish \/ Gone
    <3>1. (\E how : End(how)) /\ lock' = lock
      BY <2>8 DEF OpenFails, Finish, Gone
    <3>2. resolved' = {} /\ lock0' = lock0
      BY <3>1, EndShape
    <3> QED
      BY <3>1, <3>2 DEF Unique, OneRow
  <2> QED
    BY <1>2, <2>1, <2>2, <2>3, <2>4, <2>5, <2>6, <2>7, <2>8 DEF Command
<1>3. CASE Call \/ Killed \/ UNCHANGED vars
  BY <1>3 DEF Call, Killed, vars, Unique, OneRow
<1>4. CASE Kill
  BY <1>4, EndShape DEF Kill, Unique, OneRow
<1> QED
  BY <1>1, <1>2, <1>3, <1>4 DEF Next

\* The same for every state of a behaviour.
LEMMA UniqueInvariant == ASSUME EachPathOnce PROVE Spec => []Unique
<1>1. Init => Unique
  BY DEF Init, Unique, OneRow
<1> QED
  BY <1>1, RInvariant, UniqueStep, PTL DEF Spec

\* cgen.resolved never has two rows of a package, whatever fails, as long as no
\* command line names a package twice.
THEOREM RowsStayUnique == ASSUME EachPathOnce PROVE Spec => []RowsAreUnique
<1>1. Unique => RowsAreUnique
  BY DEF Unique, OneRow, RowsAreUnique
<1> QED
  BY <1>1, UniqueInvariant, PTL
-----------------------------------------------------------------------------
\* What "cgen -u" records.

\* An updated package is recorded at the commit that was fetched, and the rows
\* of the other packages are those of before.
LEMMA UpdateSucceeds ==
  ASSUME EachPathOnce, PInv, RInv, Unique, [Next]_vars, pc' = "ready", pc # "ready"
  PROVE  UpdateRecords'
<1> SUFFICES ASSUME outcome' = "updated", config' # <<>> PROVE UpdateRecords'
  BY DEF UpdateRecords
<1>0. CommandTyped /\ command.name \in {"generate", "update"}
  BY ConfigTyped DEF PInv
<1>1. /\ command.name = "update" /\ disk' = disk /\ UNCHANGED <<config, lock, command, lock0>>
      /\ PathsOf(resolved) = Aim /\ pc = "finish"
      /\ lock \in Merged(rows, resolved) \/ (rows = {} /\ resolved = {} /\ lock = lock0)
  BY <1>0, Succeeds DEF fetchVars
<1>2. Aim = Updated /\ config # <<>>
  BY <1>1 DEF Aim
<1>3. \A row \in resolved : row.version = disk[row.path].tree.at /\ row.url = PackageAt(row.path).url
  BY <1>1 DEF RInv, NewRows, Single
<1>4. {row \in lock0 : row.path \in Range(ConfigPaths)} = rows
  BY <1>1 DEF RInv, Kept, Shape, Before, PathsOf
<1>5. resolved # {}
  <2>1. Updated # {}
    <3>1. CASE command.paths = <<>>
      BY <1>0, <1>2, <3>1, SomePath DEF Updated
    <3>2. CASE command.paths # <<>>
      <4>1. command.paths \in Seq(Paths)
        BY <1>0, ConfigTyped
      <4>2. Head(command.paths) \in Range(command.paths)
        BY <3>2, <4>1, RestOfWork
      <4> QED
        BY <3>2, <4>2 DEF Updated
    <3> QED
      BY <3>1, <3>2
  <2> QED
    BY <1>1, <1>2, <2>1 DEF PathsOf
<1>6. lock \in Merged(rows, resolved)
  BY <1>1, <1>5
<1>7. ASSUME NEW p \in Updated
      PROVE  /\ RowsAt(p) # {}
             /\ \A row \in RowsAt(p) : row.version = disk[p].tree.at /\ row.url = PackageAt(p).url
  BY <1>1, <1>2, <1>3, <1>6, <1>7, WrittenRows DEF RowsAt, PathsOf
<1>8. ASSUME NEW p \in Range(ConfigPaths) \ Updated
      PROVE  RowsAt(p) = {row \in lock0 : row.path = p}
  <2>1. p \notin PathsOf(resolved)
    BY <1>1, <1>2, <1>8
  <2>2. ASSUME NEW row \in lock, row.path = p PROVE row \in lock0
    BY <1>4, <1>6, <2>1, <2>2, WrittenRows DEF PathsOf
  <2>3. ASSUME NEW row \in lock0, row.path = p PROVE row \in lock
    <3>1. row \in rows
      BY <1>4, <1>8, <2>3
    <3>2. PICK r \in lock : r.path = p
      BY <1>6, <2>3, <3>1, WrittenRows DEF PathsOf
    <3>3. r \in lock0
      BY <2>2, <3>2
    <3> QED
      BY <2>3, <3>2, <3>3 DEF Unique, OneRow
  <2> QED
    BY <2>2, <2>3 DEF RowsAt
<1>9. /\ Updated' = Updated /\ Range(ConfigPaths)' = Range(ConfigPaths)
      /\ \A p : RowsAt(p)' = RowsAt(p) /\ PackageAt(p)' = PackageAt(p)
  BY <1>1 DEF Updated, ConfigPaths, RowsAt, PackageAt, Configured
<1> QED
  BY <1>1, <1>7, <1>8, <1>9 DEF UpdateRecords

\* "cgen -u" ends with the rows it has fetched and the others of the old lock.
LEMMA UpdateStep == ASSUME EachPathOnce, PInv, RInv, Unique, UpdateRecords, [Next]_vars PROVE UpdateRecords'
<1> USE DEF cmdVars, endVars
<1>1. CASE pc' # "ready"
  BY <1>1 DEF UpdateRecords
<1>2. CASE pc' = "ready" /\ pc # "ready"
  BY <1>2, UpdateSucceeds
<1>3. CASE pc' = "ready" /\ pc = "ready"
  <2>1. ~Command
    <3>1. \A row : ~CleanupKeep(row) /\ ~CleanupRemove(row) /\ ~Present(row)
      BY <1>3 DEF CleanupKeep, CleanupRemove, Present
    <3>2. ~Removed /\ ~CleanupDone /\ ~Fetch /\ ~Fetched /\ ~NotFound /\ ~WorkDone
      BY <1>3 DEF Removed, CleanupDone, Fetch, Fetched, NotFound, WorkDone
    <3>3. ~SkipWrite /\ ~Truncate /\ ~Flush /\ ~FlushFails /\ ~CMakeTruncate /\ ~CMakeFlush
      BY <1>3 DEF SkipWrite, Truncate, Flush, FlushFails, CMakeTruncate, CMakeFlush
    <3>4. ~OpenFails /\ ~Finish /\ ~Gone
      BY <1>3 DEF OpenFails, Finish, Gone, RInv, Shape
    <3> QED
      BY <3>1, <3>2, <3>3, <3>4 DEF Command
  <2>2. ~Call /\ ~Killed /\ ~Kill /\ ~(\E c \in CommandLines : Start(c))
    <3>1. ~Call /\ ~Killed
      BY <1>3, CallTouchesNoRow DEF RInv
    <3> QED
      BY <1>3, <3>1 DEF Kill, Start
  <2>3. CASE User
    BY <2>3 DEF User, EditConfig, DeletePackage, UpdateRecords
  <2>4. CASE UNCHANGED vars
    <3>1. UNCHANGED <<disk, config, lock, pc, cmdVars, endVars>>
      BY <2>4 DEF vars, fetchVars
    <3>2. /\ Updated' = Updated /\ Range(ConfigPaths)' = Range(ConfigPaths)
          /\ \A p : RowsAt(p)' = RowsAt(p) /\ PackageAt(p)' = PackageAt(p)
      BY <3>1 DEF Updated, ConfigPaths, RowsAt, PackageAt, Configured
    <3> QED
      BY <3>1, <3>2 DEF UpdateRecords
  <2> QED
    BY <2>1, <2>2, <2>3, <2>4 DEF Next
<1> QED
  BY <1>1, <1>2, <1>3

\* A "cgen -u" that succeeds has recorded the packages it updated at the commits
\* their directories hold and the urls they are configured with, and left the
\* rows of the other packages as they were.
THEOREM UpdateIsRecorded == ASSUME EachPathOnce PROVE Spec => []UpdateRecords
<1>1. Init => UpdateRecords
  BY DEF Init, UpdateRecords
<1> QED
  BY <1>1, RInvariant, UniqueInvariant, UpdateStep, PTL DEF Spec

-----------------------------------------------------------------------------
\* As long as every command succeeds.

\* What is in the directories of the paths of rows does not change.
LEMMA HeldStays ==
  ASSUME HeldRows, pc # "ready", pc' # "ready", step # "dead", UNCHANGED <<disk, lock0, resolved, failed, clean>>,
         pc = "fetching" => pc' = "fetching" /\ path' = path
  PROVE  HeldRows'
<1>1. \A row : Held(row)' = Held(row)
  BY DEF Held
<1> QED
  BY <1>1 DEF HeldRows, PathsOf

\* What a removal leaves of a directory is nothing that a row would miss.
LEMMA CallHolds ==
  ASSUME EachPathOnce, PInv, RInv, HeldRows, Call PROVE HeldRows'
<1>0. CommandTyped /\ Shape
  BY DEF PInv, RInv
<1>1. /\ UNCHANGED <<config, lock, pc, cmdVars, endVars>> /\ pc \in {"fetching", "removing"}
      /\ path \in Paths /\ path' = path
      /\ \A p \in Paths \ {path} : disk'[p] = disk[p]
      /\ path \notin PathsOf(resolved)
  BY CallTouchesNoRow DEF RInv, Single
<1>2. step # "dead" /\ FetchStep
  BY OnlyPath DEF Call, PInv
<1>3. UNCHANGED <<lock0, resolved, failed, clean, pc>>
  BY <1>1 DEF cmdVars, endVars
<1>4. \A row \in lock0 \cup resolved : row.path \in Paths
  BY <1>0 DEF CommandTyped, Package
<1>5. \A row \in lock0 \cup resolved : row.path # path => Held(row)' = Held(row)
  BY <1>1, <1>4 DEF Held
<1>6. \A row \in resolved : row.path # path
  BY <1>1 DEF PathsOf
<1>7. CASE pc = "fetching"
  BY <1>1, <1>2, <1>3, <1>5, <1>6, <1>7 DEF HeldRows, PathsOf
<1>8. CASE pc = "removing"
  <2>1. RemoveStep
    BY <1>0, <1>2, <1>8, RemovalGoesOn DEF Shape
  <2>2. disk'[path].tree.at \in {disk[path].tree.at, "absent", "empty"}
    BY <2>1, RemoveKeeps DEF PInv
  <2>3. \A row : row.path = path => (Held(row) => Held(row)')
    BY <2>2 DEF Held
  <2> QED
    BY <1>1, <1>2, <1>3, <1>5, <1>6, <1>8, <2>3 DEF HeldRows, PathsOf
<1> QED
  BY <1>1, <1>7, <1>8

\* No commit is at the same time a version pattern.
PatternsAreNoCommits == Commits \cap Patterns = {}

\* A fetch that changes a directory is one that succeeds, whose row replaces the
\* old one, or one that fails, after which the history is not clean.
LEMMA HeldStep ==
  ASSUME EachPathOnce, PatternsAreNoCommits, PInv, HeadInv, RInv, RowsOfOrigin, HeldRows, [Next]_vars
  PROVE  HeldRows'
<1> USE DEF cmdVars, endVars
<1>0. CommandTyped /\ Shape /\ Progress /\ clean \in BOOLEAN /\ TypeOK
  BY DEF PInv, IInv, RInv, CommandTyped
<1>a. ASSUME clean' = FALSE PROVE HeldRows'
  BY <1>a DEF HeldRows
<1>b. ASSUME failed' = TRUE, pc' # "ready" PROVE HeldRows'
  BY <1>b DEF HeldRows
<1>1. CASE User
  <2>1. pc = "ready" /\ pc' = "ready" /\ UNCHANGED <<lock, clean>>
    BY <1>1 DEF User, EditConfig, DeletePackage
  <2>2. CASE \E c \in Configs : EditConfig(c)
    <3>1. disk' = disk
      BY <2>2 DEF EditConfig, fetchVars
    <3> QED
      BY <2>1, <3>1 DEF HeldRows, Held
  <2>3. ASSUME NEW p \in Paths, DeletePackage(p) PROVE HeldRows'
    <3>1. PICK d \in {Absent, Empty} : disk' = [disk EXCEPT ![p].tree = d]
      BY <2>3 DEF DeletePackage, UserEmpties
    <3>2. \A q \in Paths : disk'[q].tree.at \in {disk[q].tree.at, "absent", "empty"}
      BY <1>0, <3>1 DEF TypeOK, Slot, Absent, Empty
    <3>3. \A row \in lock : row.path \in Paths
      BY <1>0 DEF CommandTyped, Package
    <3> QED
      BY <2>1, <3>2, <3>3 DEF HeldRows, Held
  <2> QED
    BY <1>1, <2>2, <2>3 DEF User
<1>2. ASSUME NEW c \in CommandLines, Start(c) PROVE HeldRows'
  <2>1. /\ pc = "ready" /\ pc' = "cleanup" /\ lock0' = lock /\ UNCHANGED <<disk, resolved, clean>>
        /\ resolved = {}
    BY <1>0, <1>2 DEF Start, fetchVars, Shape, Before
  <2> QED
    BY <2>1 DEF HeldRows, Held
<1>3. CASE Command
  <2>1. ASSUME NEW row \in todo, CleanupKeep(row) \/ CleanupRemove(row) PROVE HeldRows'
    <3>1. /\ pc = "cleanup" /\ pc' \notin {"ready"} /\ UNCHANGED <<disk, lock0, resolved, failed, clean>>
      BY <2>1 DEF CleanupKeep, CleanupRemove, CallRemove, fetchVars
    <3> QED
      BY <1>0, <3>1, HeldStays DEF Shape
  <2>2. CASE Removed
    BY <2>2, HeldStays DEF Removed, Collect
  <2>3. CASE CleanupDone \/ WorkDone \/ SkipWrite \/ Truncate \/ Flush \/ FlushFails \/ CMakeTruncate \/ CMakeFlush
    <3>1. /\ pc \notin {"ready", "fetching", "removing"} /\ pc' # "ready"
          /\ UNCHANGED <<disk, lock0, resolved, failed, clean>>
      BY <2>3 DEF CleanupDone, WorkDone, SkipWrite, Truncate, Flush, FlushFails, CMakeTruncate,
                  CMakeFlush, AfterWrite, fetchVars
    <3> QED
      BY <1>0, <3>1, HeldStays DEF Shape
  <2>4. CASE Fetch
    <3>1. /\ pc = "work" /\ pc' = "fetching" /\ UNCHANGED <<lock0, resolved, failed, clean>> /\ disk' = disk
      BY <1>0, <2>4, FetchCalls DEF Fetch
    <3> QED
      BY <1>0, <3>1, HeldStays DEF Shape
  <2>5. CASE Fetched
    <3>1. /\ errors \in BOOLEAN /\ failed' = errors /\ pc = "fetching" /\ pc' = "work" /\ step = "done"
          /\ UNCHANGED <<lock0, clean>> /\ (failed => errors) /\ failed \in BOOLEAN
      BY <1>0, <2>5 DEF TypeOK, Fetched, Shape, CommandTyped
    <3>2. CASE errors = TRUE
      BY <1>b, <3>1, <3>2
    <3>3. CASE errors = FALSE
      <4>1. PICK row \in Package :
              /\ resolved' = resolved \cup {row} /\ row.path = path
              /\ IF command.name = "generate" /\ pkg \in rows
                 THEN row = pkg ELSE row.version = head
        BY <1>0, <2>5, <3>3, FetchDone
      <4>2. /\ disk[path].tree.at = head /\ disk' = disk /\ pkg \in Package
            /\ pkg.version \in Commits \ Patterns => head = pkg.version
        BY <1>0, <2>5, <3>3, FetchDone
      <4>3. pkg \in rows => pkg.version \in Commits \ Patterns
        <5>1. pkg \in rows => pkg.version \in CommitsOf[pkg.url]
          BY DEF RowsOfOrigin, Origin
        <5>2. CommitsOf[pkg.url] \subseteq Commits
          BY <4>2, FetchAssumption DEF Package
        <5> QED
          BY <5>1, <5>2 DEF PatternsAreNoCommits
      <4>4. Held(row)
        BY <4>1, <4>2, <4>3 DEF Held
      <4>5. \A r : Held(r)' = Held(r)
        BY <4>2 DEF Held
      <4>6. PathsOf(resolved)' = PathsOf(resolved) \cup {path}
        BY <4>1 DEF PathsOf
      <4> QED
        BY <3>1, <3>3, <4>1, <4>4, <4>5, <4>6 DEF HeldRows
    <3> QED
      BY <3>1, <3>2, <3>3
  <2>6. ASSUME NEW row \in rows, Present(row) PROVE HeldRows'
    <3>1. /\ pc = "work" /\ pc' = "work" /\ resolved' = resolved \cup {row} /\ row.path = Head(work)
          /\ work # <<>> /\ UNCHANGED <<disk, step, lock0, failed, clean>> /\ step = "idle"
      BY <1>0, <2>6 DEF Present, fetchVars, callVars, Shape
    <3>2. row \in lock0 /\ row.path \notin PathsOf(resolved)
      BY <1>0, <3>1, FirstNotDone DEF RInv, Kept
    <3>3. \A r : Held(r)' = Held(r)
      BY <3>1 DEF Held
    <3>4. PathsOf(resolved) \subseteq PathsOf(resolved)'
      BY <3>1 DEF PathsOf
    <3>5. clean /\ ~failed => Held(row)
      BY <3>1, <3>2 DEF HeldRows
    <3> QED
      BY <3>1, <3>3, <3>4, <3>5 DEF HeldRows
  <2>7. CASE NotFound
    BY <2>7, <1>b DEF NotFound
  <2>8. CASE OpenFails \/ Gone
    <3>1. \E how \in {"failed", "lost", "killed"} : End(how)
      BY <2>8 DEF OpenFails, Gone
    <3>2. clean' = FALSE
      BY <1>0, <3>1, EndShape
    <3> QED
      BY <1>a, <3>2
  <2>9. CASE Finish
    <3>1. pc' = "ready" /\ pc # "ready" /\ \E how : End(how)
      BY <2>9, EndShape DEF Finish
    <3>2. CASE outcome' \notin {"generated", "updated"}
      <4>1. clean' = FALSE
        BY <1>0, <3>1, <3>2, EndShape
      <4> QED
        BY <1>a, <4>1
    <3>3. CASE outcome' \in {"generated", "updated"}
      <4>1. /\ step = "idle" /\ failed = FALSE /\ disk' = disk /\ lock' = lock /\ clean' = clean
            /\ lock \in Merged(rows, resolved) \/ (rows = {} /\ resolved = {} /\ lock = lock0)
            /\ pc = "finish"
        BY <3>1, <3>3, Succeeds DEF fetchVars
      <4>2. clean => /\ \A row \in resolved : Held(row)
                     /\ \A row \in lock0 : Held(row) \/ row.path \in PathsOf(resolved)
        BY <4>1 DEF HeldRows
      <4>3. \A row \in lock : \/ row \in resolved
                              \/ row \in lock0 /\ row.path \notin PathsOf(resolved)
        <5>1. CASE lock \in Merged(rows, resolved)
          BY <4>1, <5>1, WrittenRows DEF RInv, Kept
        <5>2. CASE resolved = {} /\ lock = lock0
          BY <5>2 DEF PathsOf
        <5> QED
          BY <4>1, <5>1, <5>2
      <4> QED
        BY <3>1, <4>1, <4>2, <4>3 DEF HeldRows, Held
    <3> QED
      BY <3>2, <3>3
  <2> QED
    BY <1>3, <2>1, <2>2, <2>3, <2>4, <2>5, <2>6, <2>7, <2>8, <2>9 DEF Command
<1>4. CASE Call
  BY <1>4, CallHolds
<1>5. CASE Killed
  <2>1. step' = "dead" /\ pc' # "ready"
    BY <1>5, CallTouchesNoRow DEF RInv, Killed, Crash
  <2> QED
    BY <2>1 DEF HeldRows
<1>6. CASE Kill
  <2>1. clean' = (clean /\ "killed" \in {"generated", "updated"})
    BY <1>6 DEF Kill, End
  <2>2. "killed" \notin {"generated", "updated"}
    OBVIOUS
  <2>3. clean' = FALSE
    BY <2>1, <2>2
  <2> QED
    BY <1>a, <2>3
<1>7. CASE UNCHANGED vars
  <2>1. UNCHANGED <<disk, step, path, lock, lock0, resolved, failed, clean, pc>>
    BY <1>7 DEF vars, fetchVars, callVars, path
  <2> QED
    BY <2>1 DEF HeldRows, Held, PathsOf
<1> QED
  BY <1>1, <1>2, <1>3, <1>4, <1>5, <1>6, <1>7 DEF Next

\* As long as every command succeeds, a directory that is there holds the commit
\* that cgen.resolved says.
THEOREM CleanHistoryStaysPinned ==
  ASSUME EachPathOnce, PatternsAreNoCommits PROVE Spec => []CleanHistoryPinned
<1>1. Init => HeldRows
  BY DEF Init, HeldRows
<1>2. HeldRows => CleanHistoryPinned
  BY DEF HeldRows, CleanHistoryPinned, Held
<1>3. Spec => []RowsOfOrigin
  <2>1. Init => RowsOfOrigin
    BY DEF Init, RowsOfOrigin
  <2> QED
    BY <2>1, PInvariant, RowsOfOriginStep, PTL DEF Spec
<1> QED
  BY <1>1, <1>2, <1>3, RInvariant, HeldStep, PTL DEF Spec

-----------------------------------------------------------------------------
\* The commands implement AtomicLock.  Of each row that is made the invariant
\* Founded says that it is an old one or that there was a reason to resolve its
\* package, and of a fetch in progress that it has that reason, for the rows it
\* is judged by are no longer looked at when it returns.

\* The reason to resolve a package, by the rows of before the command.
Due(p) ==
  IF command.name = "generate"
  THEN \/ \A row \in lock0 : row.path # p.path
       \/ \E row \in lock0 : row.path = p.path /\ ~Matches(row, p)
  ELSE p.path \in Updated

Fresh(row) ==
  \E p \in Configured : p.path = row.path /\ Due(p) /\ row \in Lock!Resolved(p)

Founded ==
  /\ pc = "fetching" /\ command.name = "generate" /\ pkg \notin rows => Due(PackageAt(path))
  /\ \A row \in resolved : Fresh(row) \/ (command.name = "generate" /\ row \in rows)
  /\ pc = "flush" => lock = {}

\* The rows kept of the old lock are all those of the configured paths.
LEMMA AllKept ==
  ASSUME RInv, pc \notin Before
  PROVE  rows = {row \in lock0 : row.path \in Range(ConfigPaths)}
BY DEF RInv, Kept, Shape, Before, PathsOf

\* Nothing that reasons rest on changes.
LEMMA FoundedStays ==
  ASSUME Founded, UNCHANGED <<config, command, lock0, rows, resolved>>,
         pc' = "fetching" => pc = "fetching" /\ pkg' = pkg,
         pc' = "flush" => lock' = {}
  PROVE  Founded'
<1>1. /\ Configured' = Configured /\ \A p : PackageAt(p)' = PackageAt(p)
      /\ Range(ConfigPaths)' = Range(ConfigPaths) /\ Updated' = Updated
  BY DEF Configured, PackageAt, ConfigPaths, Updated
<1>2. \A p : Due(p)' = Due(p)
  BY <1>1 DEF Due, Matches
<1>3. \A p : Lock!Resolved(p)' = Lock!Resolved(p)
  BY DEF Lock!Resolved
<1>4. \A row : Fresh(row)' = Fresh(row)
  BY <1>1, <1>2, <1>3 DEF Fresh
<1> HIDE DEF Due, Fresh
<1>5. pc' = "fetching" => PackageAt(path)' = PackageAt(path)
  BY <1>1 DEF path
<1> QED
  BY <1>1, <1>2, <1>4, <1>5 DEF Founded

\* Of what -g fetches, only the configured package of a path without a row or
\* with a row that is not for it has no row.
LEMMA FetchDue ==
  ASSUME RInv, CommandTyped, Fetch, command.name = "generate", pkg' \notin rows
  PROVE  Due(PackageAt(path'))
<1> DEFINE p == PackageAt(Head(work))
<1>1. PICK f \in ToResolve(p) : CallFetch(f, failed)
  BY DEF Fetch
<1>2. /\ Head(work) \in Range(ConfigPaths) /\ path' = Head(work) /\ p.path = Head(work) /\ pkg' = f
      /\ pc = "work"
  BY <1>1, FetchCalls, PackageAtPath DEF Fetch, CallFetch
<1>3. rows = {row \in lock0 : row.path \in Range(ConfigPaths)}
  BY <1>2, AllKept DEF Before
<1>4. \/ \A row \in rows : row.path # p.path
      \/ \E row \in rows : row.path = p.path /\ ~Matches(row, p)
  BY <1>1, <1>2 DEF ToResolve
<1> HIDE DEF p
<1>5. PackageAt(path') = p
  BY <1>2 DEF p
<1> QED
  BY <1>2, <1>3, <1>4, <1>5 DEF Due

\* A fetch that returns without an error had a reason.
LEMMA FetchedFresh ==
  ASSUME RInv, PInv, Founded, Fetched, errors = FALSE
  PROVE  Founded'
<1>0. /\ pc = "fetching" /\ pc' = "work" /\ UNCHANGED <<config, command, lock0, rows>>
      /\ CommandTyped /\ Shape /\ step = "done" /\ pkg \in Package /\ failed = FALSE
  BY DEF Fetched, PInv, IInv, TypeOK, RInv, Shape, CommandTyped
<1>1. /\ Configured' = Configured /\ \A p : Due(p)' = Due(p)
  BY <1>0 DEF Configured, Due, Matches, Updated, ConfigPaths
<1>2. \A p : Lock!Resolved(p)' = Lock!Resolved(p)
  BY DEF Lock!Resolved
<1>3. \A row : Fresh(row)' = Fresh(row)
  BY <1>1, <1>2 DEF Fresh
<1>4. resolved' = resolved \cup {IF command.name = "generate" /\ pkg \in rows
                                 THEN pkg ELSE [pkg EXCEPT !.version = head]}
  BY DEF Fetched
<1> DEFINE row == [pkg EXCEPT !.version = head]
           p   == PackageAt(path)
<1>5. (command.name = "generate" /\ pkg \in rows) \/ Fresh(row)
  <2> SUFFICES ASSUME ~(command.name = "generate" /\ pkg \in rows) PROVE Fresh(row)
    OBVIOUS
  <2>1. pkg = p /\ p \in Configured /\ p.path = path /\ path = Head(work) /\ work # <<>>
    BY <1>0, PackageAtPath DEF Shape, CommandTyped
  <2>2. Due(p)
    <3>1. CASE command.name = "generate"
      BY <1>0, <3>1 DEF Founded
    <3>2. CASE command.name # "generate"
      <4>1. path \in Aim
        BY <1>0, <2>1, RestOfWork DEF RInv, Progress, Before, CommandTyped
      <4>2. config # <<>>
        BY <2>1 DEF Configured, Range
      <4> QED
        BY <2>1, <3>2, <4>1, <4>2 DEF Due, Aim
    <3> QED
      BY <3>1, <3>2
  <2>3. head \in CommitsOf[pkg.url]
    BY <1>0 DEF PInv, Recorded
  <2>4. row \in Lock!Resolved(pkg)
    BY <2>3 DEF Lock!Resolved
  <2>5. row.path = path
    BY <1>0 DEF Package, path
  <2> HIDE DEF row, p
  <2> QED
    BY <2>1, <2>2, <2>4, <2>5 DEF Fresh
<1> HIDE DEF row, Due, Fresh
<1>6. resolved' = resolved \cup {IF command.name = "generate" /\ pkg \in rows THEN pkg ELSE row}
  BY <1>4 DEF row
<1> QED
  BY <1>0, <1>3, <1>5, <1>6 DEF Founded

\* Every row has its reason while the command runs.
LEMMA FoundedStep == ASSUME PInv, RInv, Founded, [Next]_vars PROVE Founded'
<1> USE DEF cmdVars, endVars
<1>0. CommandTyped /\ Shape /\ errors \in BOOLEAN
  BY DEF PInv, IInv, TypeOK, RInv
<1>a. ASSUME resolved' = {}, pc' \notin {"fetching", "flush"} PROVE Founded'
  BY <1>a DEF Founded
<1>1. CASE User \/ \E c \in CommandLines : Start(c)
  BY <1>0, <1>1, <1>a DEF User, EditConfig, DeletePackage, Start, Shape, Before
<1>2. CASE Command
  <2>1. ASSUME NEW row \in todo, CleanupKeep(row) \/ CleanupRemove(row) PROVE Founded'
    BY <1>0, <2>1, <1>a DEF CleanupKeep, CleanupRemove, Shape, Before
  <2>2. CASE Removed \/ CleanupDone
    BY <1>0, <2>2, <1>a DEF Removed, CleanupDone, Shape, Before
  <2>3. CASE Fetch
    <3>1. pc' = "fetching" /\ UNCHANGED <<config, command, lock0, rows, resolved>>
      BY <2>3 DEF Fetch
    <3>2. command.name = "generate" /\ pkg' \notin rows => Due(PackageAt(path'))
      BY <1>0, <2>3, FetchDue
    <3>3. /\ \A row : Fresh(row)' = Fresh(row)
          /\ Due(PackageAt(path))' = Due(PackageAt(path'))
      <4>1. /\ Configured' = Configured /\ PackageAt(path)' = PackageAt(path')
            /\ \A p : Due(p)' = Due(p)
        BY <3>1 DEF Configured, PackageAt, Due, Matches, Updated, ConfigPaths
      <4>2. \A p : Lock!Resolved(p)' = Lock!Resolved(p)
        BY DEF Lock!Resolved
      <4>3. \A row : Fresh(row)' = Fresh(row)
        BY <4>1, <4>2 DEF Fresh
      <4> HIDE DEF Due
      <4> QED
        BY <4>1, <4>3
    <3> HIDE DEF Due, Fresh
    <3> QED
      BY <3>1, <3>2, <3>3 DEF Founded
  <2>4. CASE Fetched
    <3>1. CASE errors = TRUE
      BY <2>4, <3>1, FoundedStays DEF Fetched
    <3> QED
      BY <1>0, <2>4, <3>1, FetchedFresh
  <2>5. ASSUME NEW row \in rows, Present(row) PROVE Founded'
    <3>1. /\ resolved' = resolved \cup {row} /\ pc' = "work" /\ command.name = "generate"
          /\ UNCHANGED <<config, command, lock0, rows>>
      BY <2>5 DEF Present
    <3>2. \A r : Fresh(r)' = Fresh(r)
      <4>1. Configured' = Configured /\ \A p : Due(p)' = Due(p)
        BY <3>1 DEF Configured, Due, Matches, Updated, ConfigPaths
      <4>2. \A p : Lock!Resolved(p)' = Lock!Resolved(p)
        BY DEF Lock!Resolved
      <4> QED
        BY <4>1, <4>2 DEF Fresh
    <3> HIDE DEF Fresh
    <3> QED
      BY <3>1, <3>2 DEF Founded
  <2>6. CASE NotFound \/ WorkDone \/ SkipWrite \/ Truncate \/ Flush \/ FlushFails
    <3>1. /\ pc' \notin {"fetching"} /\ (pc' = "flush" => lock' = {})
          /\ UNCHANGED <<config, command, lock0, rows, resolved>>
      BY <2>6 DEF NotFound, WorkDone, SkipWrite, Truncate, Flush, FlushFails, AfterWrite
    <3> QED
      BY <3>1, FoundedStays
  <2>7. CASE CMakeTruncate \/ CMakeFlush
    BY <2>7, FoundedStays DEF CMakeTruncate, CMakeFlush
  <2>8. CASE OpenFails \/ Finish \/ Gone
    <3>1. \E how : End(how)
      BY <2>8 DEF OpenFails, Finish, Gone
    <3> QED
      BY <1>a, <3>1, EndShape
  <2> QED
    BY <1>2, <2>1, <2>2, <2>3, <2>4, <2>5, <2>6, <2>7, <2>8 DEF Command
<1>3. CASE Call \/ Killed
  <2>1. UNCHANGED <<config, command, lock0, rows, resolved, pc, lock, pkg>>
    BY <1>3, CallTouchesNoRow, OnlyPath DEF RInv, Call, Killed, PInv
  <2>2. pc # "flush" \/ lock' = {}
    BY <2>1 DEF Founded
  <2> QED
    BY <2>1, <2>2, FoundedStays
<1>4. CASE Kill
  BY <1>4, <1>a, EndShape DEF Kill
<1>5. CASE UNCHANGED vars
  BY <1>5, FoundedStays DEF vars, fetchVars, callVars, Founded
<1> QED
  BY <1>1, <1>2, <1>3, <1>4, <1>5 DEF Next

-----------------------------------------------------------------------------
\* The steps of AtomicLock.

\* What a command is there to do, in the words of AtomicLock.
LEMMA LockReason ==
  ASSUME CommandTyped, standing = lock0, NEW p \in Configured
  PROVE  Lock!Reason(p) <=> Due(p)
<1>1. command.name \in {"generate", "update"} /\ command.paths \in Seq(Paths)
  BY ConfigTyped
<1>2. p.path \in Range(ConfigPaths)
  BY PackageAtPath
<1>3. Range(command.paths) = {command.paths[i] : i \in DOMAIN command.paths}
  BY DEF Range
<1>4. p.path \in Updated <=> \/ command.paths = <<>>
                            \/ \E i \in DOMAIN command.paths : command.paths[i] = p.path
  BY <1>2, <1>3 DEF Updated
<1>5. CASE command.name = "generate"
  BY <1>5 DEF Lock!Reason, Lock!RowsOf, Lock!Matches, Matches, Due
<1>6. CASE command.name = "update"
  BY <1>4, <1>6 DEF Lock!Reason, Due
<1> QED
  BY <1>1, <1>5, <1>6

\* The packages of the configuration, in the words of AtomicLock.
LEMMA LockConfigured == Lock!Configured = Configured
BY DEF Lock!Configured, Configured, Range

\* Rows that keep all old rows or make founded ones for their paths are an
\* update of the old rows.
LEMMA LockMayBecome ==
  ASSUME CommandTyped, RInv, Founded, pc \notin Before, standing = lock0,
         NEW rs, rs \subseteq rows \cup resolved, PathsOf(rows) \subseteq PathsOf(rs)
  PROVE  Lock!MayBecome(rs)
<1>1. rows = {row \in lock0 : row.path \in Range(ConfigPaths)}
  BY AllKept
<1>2. ASSUME NEW row \in rs
      PROVE  \E p \in Configured :
               row.path = p.path /\ (row \in lock0 \/ (Due(p) /\ row \in Lock!Resolved(p)))
  <2>1. CASE row \in rows
    BY <1>1, <2>1, PackageAtPath
  <2>2. CASE row \in resolved /\ row \notin rows
    BY <2>2 DEF Founded, Fresh
  <2> QED
    BY <2>1, <2>2
<1>3. \A p \in Configured : Lock!RowsOf(lock0, p) # {} => Lock!RowsOf(rs, p) # {}
  BY <1>1, PackageAtPath DEF Lock!RowsOf, PathsOf
<1> HIDE DEF Due
<1> QED
  BY <1>2, <1>3, LockReason, LockConfigured DEF Lock!MayBecome

\* A step that AtomicLock does not see.
LEMMA LockStutters ==
  ASSUME UNCHANGED <<config, command, outcome, lost>>, UNCHANGED standing, UNCHANGED phase
  PROVE  [Lock!Next]_(Lock!vars)
BY DEF Lock!vars

\* Where a command is, in the words of AtomicLock.
LEMMA Phases ==
  ASSUME CommandTyped
  PROVE  /\ phase = "idle" <=> pc = "ready"
         /\ pc # "ready" /\ lost => phase = "lost"
         /\ pc \in After /\ ~lost => phase = "written"
         /\ pc \notin After \cup {"ready"} /\ ~lost => phase = "running"
         /\ phase \in {"idle", "running", "written", "lost"}
BY DEF phase, After, CommandTyped

\* A command that ends as success has done all it was asked for.
LEMMA LockSucceeds ==
  ASSUME PInv, RInv, Founded, [Next]_vars, pc' = "ready", pc # "ready",
         outcome' \in {"generated", "updated"}
  PROVE  Lock!Succeed
<1>0. CommandTyped /\ CommandTyped' /\ command.name \in {"generate", "update"}
  BY ConfigTyped, CommandStep DEF PInv
<1>1. /\ pc = "finish" /\ lost = FALSE /\ UNCHANGED <<config, lock, command>>
      /\ outcome' = IF command.name = "generate" THEN "generated" ELSE "updated"
      /\ PathsOf(resolved) = Aim
      /\ lock \in Merged(rows, resolved) \/ (rows = {} /\ resolved = {} /\ lock = lock0)
  BY Succeeds
<1>2. phase = "written" /\ phase' = "idle" /\ standing = lock /\ standing' = lock'
  <2>1. phase = "written" /\ standing = lock
    BY <1>0, <1>1, Phases DEF After, standing
  <2>2. phase' = "idle" /\ standing' = lock'
    BY DEF phase, standing
  <2> QED
    BY <2>1, <2>2
<1>3. CASE command.name = "generate"
  <2>1. Repeated' /\ outcome' = "generated"
    BY <1>1, <1>3, GenerateSucceeds
  <2>2. AllRows(lock)'
    BY <2>1 DEF Repeated
  <2>3. Configured' = Configured /\ lock' = lock
    BY <1>1 DEF Configured
  <2>4. \A p \in Configured : /\ \E row \in lock : row.path = p.path
                              /\ \A row \in lock : row.path = p.path => Matches(row, p)
    BY <2>2, <2>3 DEF AllRows, PathsOf, Matches
  <2>5. Lock!Complete
    BY <1>2, <1>3, <2>4, LockConfigured DEF Lock!Complete, Lock!RowsOf, Lock!Matches, Matches
  <2> QED
    BY <1>1, <1>2, <1>3, <2>5 DEF Lock!Succeed, Lock!End
<1>4. CASE command.name = "update"
  <2>1. \A p \in Configured : Lock!Reason(p) => p.path \in Updated
    <3>1. Range(command.paths) = {command.paths[i] : i \in DOMAIN command.paths}
      BY DEF Range
    <3> QED
      BY <1>0, <1>4, <3>1, PackageAtPath DEF Lock!Reason, Updated
  <2>2. ASSUME NEW p \in Configured, p.path \in Updated
        PROVE  Lock!RowsOf(lock, p) # {} /\ Lock!RowsOf(lock, p) \subseteq Lock!Resolved(p)
    <3>1. config # <<>>
      BY <2>2 DEF Configured, Range
    <3>2. p.path \in PathsOf(resolved)
      BY <1>1, <1>4, <2>2, <3>1 DEF Aim
    <3>3. lock \in Merged(rows, resolved)
      BY <1>1, <3>2 DEF PathsOf
    <3>4. /\ \E row \in resolved : row \in lock /\ row.path = p.path
          /\ \A row \in lock : row.path = p.path => row \in resolved
      BY <3>2, <3>3, WrittenRows DEF PathsOf
    <3>5. \A row \in resolved : row.path = p.path => row \in Lock!Resolved(p)
      BY <1>0, <1>4, PackageAtPath DEF Founded, Fresh
    <3> QED
      BY <3>4, <3>5 DEF Lock!RowsOf
  <2>3. Lock!Complete
    BY <1>2, <1>4, <2>1, <2>2, LockConfigured DEF Lock!Complete
  <2> QED
    BY <1>1, <1>2, <1>4, <2>3 DEF Lock!Succeed, Lock!End
<1> QED
  BY <1>0, <1>3, <1>4

\* A command that ends otherwise leaves the file as it was then.
LEMMA LockEnds ==
  ASSUME CommandTyped, RInv, Founded, NEW how, End(how), pc # "ready", UNCHANGED lock,
         \/ how = "killed"
         \/ pc # "flush" /\ how = IF lost THEN "lost" ELSE "failed"
  PROVE  Lock!Next
<1>1. /\ phase' = "idle" /\ outcome' = how /\ UNCHANGED <<config, command>> /\ standing' = lock
  BY EndShape DEF phase, standing
<1>2. pc # "flush" => standing = lock
  BY DEF standing
<1>3. pc = "flush" => lock = {} /\ lost = FALSE /\ phase = "running"
  BY Phases DEF Founded, After, RInv, Shape, CommandTyped
<1>4. CASE how = "killed"
  BY <1>1, <1>2, <1>3, <1>4, Phases DEF Lock!Next, Lock!Die, Lock!End
<1>5. CASE pc # "flush" /\ how = (IF lost THEN "lost" ELSE "failed") /\ lost = TRUE
  BY <1>1, <1>2, <1>5, Phases DEF Lock!Next, Lock!EndLost, Lock!End
<1>6. CASE pc # "flush" /\ how = (IF lost THEN "lost" ELSE "failed") /\ lost = FALSE
  <2>1. phase \in {"running", "written"}
    BY <1>6, Phases
  <2> QED
    BY <1>1, <1>2, <1>6, <2>1 DEF Lock!Next, Lock!Fail, Lock!End
<1> QED
  BY <1>4, <1>5, <1>6 DEF CommandTyped

\* Every step of a command, of its calls or of the user is a step of AtomicLock
\* or one it does not see.
LEMMA LockStep == ASSUME PInv, RInv, Founded, [Next]_vars PROVE [Lock!Next]_(Lock!vars)
<1> USE DEF cmdVars, endVars
<1>0. CommandTyped /\ CommandTyped' /\ Shape /\ failed \in BOOLEAN /\ lost \in BOOLEAN
  BY CommandStep DEF PInv, RInv, CommandTyped
<1>1. CASE User
  <2>1. CASE \E c \in Configs : EditConfig(c)
    <3>1. /\ phase = "idle" /\ phase' = "idle" /\ UNCHANGED standing
          /\ config' \in Configs /\ outcome' = "none" /\ command' = command
      BY <2>1 DEF EditConfig, phase, standing
    <3> QED
      BY <3>1 DEF Lock!Next, Lock!Edit
  <2>2. CASE \E p \in Paths : DeletePackage(p)
    <3>1. /\ phase = "idle" /\ phase' = "idle" /\ UNCHANGED standing
          /\ config' \in Configs /\ outcome' = "none" /\ command' = command
      BY <1>0, <2>2 DEF DeletePackage, phase, standing, CommandTyped
    <3> QED
      BY <3>1 DEF Lock!Next, Lock!Edit
  <2> QED
    BY <1>1, <2>1, <2>2 DEF User
<1>2. ASSUME NEW c \in CommandLines, Start(c) PROVE Lock!Next
  <2>1. pc = "ready" /\ pc' = "cleanup" /\ lost' = FALSE
    BY <1>0, <1>2 DEF Start, Shape, Before, CommandTyped
  <2>2. /\ phase = "idle" /\ phase' = "running" /\ UNCHANGED standing
        /\ command' = c /\ UNCHANGED <<config, outcome>>
    BY <1>2, <2>1 DEF Start, phase, standing
  <2> QED
    BY <1>2, <2>2 DEF Lock!Next, Lock!Begin
<1>3. CASE Command
  <2>1. ASSUME pc \notin {"ready", "flush"} \cup After, pc' \notin {"ready", "flush"} \cup After,
               UNCHANGED <<config, lock, command, outcome, lost>>
        PROVE  [Lock!Next]_(Lock!vars)
    <3>1. UNCHANGED standing /\ UNCHANGED phase
      BY <2>1 DEF standing, phase, After
    <3> QED
      BY <2>1, <3>1, LockStutters
  <2>2. ASSUME NEW row \in todo, CleanupKeep(row) \/ CleanupRemove(row) PROVE [Lock!Next]_(Lock!vars)
    BY <2>1, <2>2 DEF CleanupKeep, CleanupRemove, After
  <2>3. CASE Removed \/ CleanupDone \/ Fetch \/ Fetched \/ NotFound \/ WorkDone
    BY <2>1, <2>3 DEF Removed, CleanupDone, Fetch, Fetched, NotFound, WorkDone, After
  <2>4. ASSUME NEW row \in rows, Present(row) PROVE [Lock!Next]_(Lock!vars)
    BY <2>1, <2>4 DEF Present, After
  <2>5. CASE SkipWrite
    <3>1. /\ pc = "write" /\ pc' \in {"cmake", "finish"} /\ rows = {} /\ resolved = {} /\ lost = FALSE
          /\ UNCHANGED <<config, lock, command, outcome, lost>>
      BY <1>0, <2>5 DEF SkipWrite, AfterWrite, Shape, After
    <3>2. /\ phase = "running" /\ phase' = "written" /\ UNCHANGED standing /\ standing = lock0
      BY <3>1 DEF phase, standing, RInv, Kept
    <3>3. Lock!MayBecome({})
      BY <1>0, <3>1, <3>2, LockMayBecome DEF Before
    <3> QED
      BY <3>1, <3>2, <3>3 DEF Lock!Next, Lock!Leave
  <2>6. CASE Truncate
    <3>1. /\ pc = "write" /\ pc' = "flush" /\ lost = FALSE
          /\ UNCHANGED <<config, command, outcome, lost, lock0>>
      BY <1>0, <2>6 DEF Truncate, Shape, After
    <3>2. UNCHANGED phase /\ UNCHANGED standing
      BY <3>1 DEF phase, standing, RInv, Kept
    <3> QED
      BY <3>1, <3>2, LockStutters
  <2>7. CASE Flush
    <3>1. /\ pc = "flush" /\ pc' \in {"cmake", "finish"} /\ lost = FALSE
          /\ lock' \in Merged(rows, resolved) /\ UNCHANGED <<config, command, outcome, lost>>
      BY <1>0, <2>7 DEF Flush, AfterWrite, Shape, After
    <3>2. /\ phase = "running" /\ phase' = "written" /\ standing = lock0 /\ standing' = lock'
      BY <3>1 DEF phase, standing
    <3>3. lock' \subseteq rows \cup resolved /\ PathsOf(rows) \subseteq PathsOf(lock')
      BY <3>1, WrittenRows DEF PathsOf
    <3>4. Lock!MayBecome(standing')
      BY <1>0, <3>1, <3>2, <3>3, LockMayBecome DEF Before
    <3> QED
      BY <3>1, <3>2, <3>4 DEF Lock!Next, Lock!Write
  <2>8. CASE FlushFails
    <3>1. /\ pc \in {"flush", "cmake_flush"} /\ pc' \in {"cmake", "finish"} /\ lost' = TRUE
          /\ UNCHANGED <<config, lock, command, outcome>> /\ (pc = "flush" => lock = {})
      BY <2>8 DEF FlushFails, AfterWrite, Founded
    <3>2. phase' = "lost" /\ standing' = lock
      BY <3>1 DEF phase, standing
    <3>3. CASE lost = TRUE
      <4>1. phase = "lost" /\ standing = lock
        BY <1>0, <3>1, <3>3 DEF phase, standing, Shape, After
      <4> QED
        BY <3>1, <3>2, <4>1 DEF Lock!vars
    <3>4. CASE lost = FALSE
      <4>1. /\ phase = IF pc = "flush" THEN "running" ELSE "written"
            /\ pc # "flush" => standing = lock
        BY <3>1, <3>4 DEF phase, standing
      <4> QED
        BY <3>1, <3>2, <4>1 DEF Lock!Next, Lock!Lose
    <3> QED
      BY <1>0, <3>3, <3>4
  <2>9. CASE CMakeTruncate \/ CMakeFlush
    <3>1. /\ pc \in After /\ pc' \in After /\ UNCHANGED <<config, lock, command, outcome, lost>>
      BY <2>9 DEF CMakeTruncate, CMakeFlush, After
    <3>2. UNCHANGED phase /\ UNCHANGED standing
      BY <3>1 DEF phase, standing, After
    <3> QED
      BY <3>1, <3>2, LockStutters
  <2>10. CASE OpenFails
    BY <1>0, <2>10, LockEnds DEF OpenFails
  <2>11. CASE Finish
    <3>1. /\ pc = "finish" /\ UNCHANGED lock /\ command.name \in {"generate", "update"}
          /\ pc' = "ready" /\ \E how : End(how)
      BY <1>0, <2>11, ConfigTyped, EndShape DEF Finish
    <3>2. CASE lost = FALSE /\ failed = FALSE
      <4>1. outcome' \in {"generated", "updated"}
        BY <2>11, <3>1, <3>2 DEF Finish, End
      <4> QED
        BY <3>1, <4>1, LockSucceeds DEF Lock!Next
    <3>3. CASE lost = TRUE \/ failed = TRUE
      <4>1. End(IF lost THEN "lost" ELSE "failed")
        BY <1>0, <2>11, <3>3 DEF Finish
      <4> QED
        BY <1>0, <3>1, <4>1, LockEnds
    <3> QED
      BY <1>0, <3>2, <3>3
  <2>12. CASE Gone
    <3>1. End("killed") /\ pc # "ready" /\ UNCHANGED lock
      BY <1>0, <2>12 DEF Gone, Shape
    <3> QED
      BY <1>0, <3>1, LockEnds
  <2> QED
    BY <1>3, <2>2, <2>3, <2>4, <2>5, <2>6, <2>7, <2>8, <2>9, <2>10, <2>11, <2>12 DEF Command
<1>4. CASE Call \/ Killed \/ UNCHANGED vars
  <2>1. UNCHANGED <<config, lock, lock0, command, outcome, lost, pc>>
    BY <1>4 DEF Call, Killed, vars
  <2>2. UNCHANGED phase /\ UNCHANGED standing
    BY <2>1 DEF phase, standing
  <2> QED
    BY <2>1, <2>2, LockStutters
<1>5. CASE Kill
  BY <1>0, <1>5, LockEnds DEF Kill
<1> QED
  BY <1>1, <1>2, <1>3, <1>4, <1>5 DEF Next

\* For all configurations, command lines, histories and failures, the commands
\* replace cgen.resolved in one step or lose it, give a package another commit
\* only for a reason, and have done all of it when they report success.
THEOREM CommandsUpdateAtomically == Spec => AtomicLockSpec
<1>1. Init => Lock!Init /\ Founded
  BY DEF Init, Lock!Init, Founded, phase, standing
<1>2. Spec => [](PInv /\ RInv /\ Founded)
  BY <1>1, RInvariant, FoundedStep, PTL DEF Spec
<1>3. PInv /\ RInv /\ Founded /\ [Next]_vars => [Lock!Next]_(Lock!vars)
  BY LockStep
<1> QED
  BY <1>1, <1>2, <1>3, PTL DEF Spec, AtomicLockSpec, Lock!Spec
=============================================================================

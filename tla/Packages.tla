------------------------------ MODULE Packages ------------------------------
(***************************************************************************)
(* The commands "cgen -g" and "cgen -u" of src/cgen/main.cpp with          *)
(* packages_cleanup, packages_resolve, packages_update and packages_merge  *)
(* of src/libcgen/packages.cpp: how the external packages of cgen.yml are  *)
(* brought in line with the rows of cgen.resolved, one command after the   *)
(* other, while the user edits cgen.yml and deletes package directories.   *)
(* Each fetch and removal is the multi-step call of PackageFetch.          *)
(***************************************************************************)
EXTENDS PackageFetch, Sequences, SequencesExt

CONSTANTS
  Configs,   \* contents of cgen.yml: sequences of external packages
  Arguments, \* command lines: sequences of options with their values
  WriteErrors \* what may fail in writing a file: "open", "flush"

\* arguments_parse: the last -g or -u is the command, every value of a -u names
\* a package; with anything but these and -v nothing runs.
arguments_parse(argv) ==
  LET commands == SelectSeq(argv, LAMBDA arg : arg.opt \in {"-g", "-u"})
  IN [name  |-> CASE commands = <<>> \/ (\E i \in DOMAIN argv : argv[i].opt \notin {"-g", "-u", "-v"}) -> "usage"
                  [] OTHER -> IF Last(commands).opt = "-g" THEN "generate" ELSE "update",
      paths |-> FlattenSeq([i \in DOMAIN argv |-> IF argv[i].opt = "-u" THEN argv[i].values ELSE <<>>])]
CommandLine  == [name : {"generate", "update"}, paths : Seq(Paths)]
CommandLines == {line \in {arguments_parse(argv) : argv \in Arguments} : line.name # "usage"}

ASSUME PackagesAssumption ==
  /\ Configs \subseteq Seq(Package)
  /\ \A c \in Configs : \A i, j \in DOMAIN c :
       /\ c[i].original = OriginalVersion(c[i].version)
       /\ c[i].path = c[j].path => i = j
  /\ CommandLines \subseteq CommandLine
  /\ WriteErrors \subseteq {"open", "flush"}

VARIABLES
  config,   \* the external packages of cgen.yml
  cmake,    \* CMakeLists.txt: "none", "stale", "current" or "partial"
  lock,     \* the rows of cgen.resolved, none when there is no such file
  command,  \* the command line of the running or else the last command
  pc,       \* where the command is
  todo,     \* rows of the resolved file not yet looked at by the cleanup
  rows,     \* resolved_pkgs: the rows kept by the cleanup
  work,     \* paths still to resolve or update
  resolved, \* new_resolved_pkgs
  failed,   \* the command's error list is not empty
  lost,     \* history: the disk was full when the command wrote a file
  outcome,  \* history: how the last command ended
  clean,    \* history: every command so far ended with success
  lock0     \* history: the lock when the command started

cmdVars == <<command, todo, rows, work, resolved, failed, lost, lock0>>
endVars == <<outcome, clean, cmake>>
vars    == <<fetchVars, config, lock, pc, cmdVars, endVars>>

PathsOf(rs)   == {row.path : row \in rs}
Configured    == Range(config)
ConfigPaths   == [i \in DOMAIN config |-> config[i].path]
PackageAt(p)  == CHOOSE c \in Configured : c.path = p

Init ==
  /\ FetchInit
  /\ config \in Configs /\ lock = {} /\ lock0 = {}
  /\ command = [name |-> "generate", paths |-> <<>>] /\ pc = "ready"
  /\ todo = {} /\ rows = {} /\ work = <<>> /\ resolved = {} /\ failed = FALSE /\ lost = FALSE
  /\ outcome = "none" /\ clean = TRUE /\ cmake = "none"

-----------------------------------------------------------------------------
\* The user.

EditConfig(c) ==
  /\ pc = "ready" /\ c # config
  /\ config' = c /\ outcome' = "none" /\ cmake' = IF cmake = "current" THEN "stale" ELSE cmake
  /\ UNCHANGED <<fetchVars, lock, pc, cmdVars, clean>>

DeletePackage(p) ==
  /\ pc = "ready" /\ UserEmpties(p)
  /\ outcome' = "none"
  /\ UNCHANGED <<config, lock, pc, cmdVars, clean, cmake>>

\* cgen is run with a configuration that it can read.
Start(c) ==
  /\ pc = "ready" /\ pc' = "cleanup"
  /\ command' = c /\ todo' = lock /\ lock0' = lock
  /\ UNCHANGED <<fetchVars, config, lock, rows, work, resolved, failed, lost, endVars>>

-----------------------------------------------------------------------------
\* packages_cleanup.

CleanupKeep(row) ==
  /\ pc = "cleanup" /\ row \in todo /\ row.path \in Range(ConfigPaths)
  /\ todo' = todo \ {row} /\ rows' = rows \cup {row}
  /\ UNCHANGED <<fetchVars, config, lock, pc, command, work, resolved, failed, lost, lock0, endVars>>

CleanupRemove(row) ==
  /\ pc = "cleanup" /\ row \in todo /\ row.path \notin Range(ConfigPaths)
  /\ pc' = "removing" /\ todo' = todo \ {row} /\ CallRemove(row)
  /\ UNCHANGED <<config, lock, command, rows, work, resolved, failed, lost, lock0, endVars>>

Removed ==
  /\ pc = "removing" /\ step = "removed" /\ Collect /\ pc' = "cleanup"
  /\ UNCHANGED <<config, lock, cmdVars, endVars>>

\* packages_resolve goes through the configuration, packages_update through
\* the named paths or, when none is named, the configuration.
CleanupDone ==
  /\ pc = "cleanup" /\ todo = {} /\ pc' = "work"
  /\ work' = IF command.name = "generate" \/ command.paths = <<>> \/ config = <<>>
             THEN ConfigPaths ELSE command.paths
  /\ UNCHANGED <<fetchVars, config, lock, command, todo, rows, resolved, failed, lost, lock0, endVars>>

-----------------------------------------------------------------------------
\* packages_resolve and packages_update.

\* Mutant: compares the resolved version instead of the original one.
MatchesVersion(row, p) == row.version = p.version /\ row.strategy = p.strategy

\* The row is for this version and strategy of the package.
Matches(row, p) == row.original = p.original /\ row.strategy = p.strategy

\* Mutant: always resolves anew, even where a row matches.
ToResolveAgain(p) == {p}

\* The package that packages_resolve fetches for p: the configured one, or
\* its row when that matches but the directory is missing or empty.
ToResolve(p) ==
  IF \E row \in rows : row.path = p.path
  THEN {IF Matches(row, p) THEN row ELSE p :
          row \in {r \in rows : r.path = p.path
                               /\ (Matches(r, p) => disk[p.path].tree.at \in {"absent", "empty"})}}
  ELSE {p}

ToUpdate(p) == {p}

Fetch ==
  /\ pc = "work" /\ work # <<>> /\ Head(work) \in Range(ConfigPaths)
  /\ LET p == PackageAt(Head(work)) IN
       \E f \in IF command.name = "generate" THEN ToResolve(p) ELSE ToUpdate(p) :
         CallFetch(f, failed)
  /\ pc' = "fetching"
  /\ UNCHANGED <<config, lock, cmdVars, endVars>>

\* Mutant: records the result of a fetch that failed.
FetchedAnyway ==
  /\ pc = "fetching" /\ step = "done" /\ Collect
  /\ pc' = "work" /\ work' = Tail(work) /\ failed' = errors
  /\ resolved' = resolved \cup {[pkg EXCEPT !.version = head]}
  /\ UNCHANGED <<config, lock, command, todo, rows, lost, lock0, endVars>>

\* Mutant: a pinned package is recorded with the url it is configured with now.
FetchedConfigured ==
  /\ pc = "fetching" /\ step = "done" /\ Collect
  /\ pc' = "work" /\ work' = Tail(work) /\ failed' = errors
  /\ resolved' = IF errors THEN resolved
                 ELSE resolved \cup {IF command.name = "generate" /\ pkg \in rows
                                     THEN [PackageAt(pkg.path) EXCEPT !.version = pkg.version]
                                     ELSE [pkg EXCEPT !.version = head]}
  /\ UNCHANGED <<config, lock, command, todo, rows, lost, lock0, endVars>>

\* The result is recorded unless some package had an error, this one or an
\* earlier one.  A pinned row is recorded as it is.
Fetched ==
  /\ pc = "fetching" /\ step = "done" /\ Collect
  /\ pc' = "work" /\ work' = Tail(work) /\ failed' = errors
  /\ resolved' = IF errors THEN resolved
                 ELSE resolved \cup {IF command.name = "generate" /\ pkg \in rows
                                     THEN pkg ELSE [pkg EXCEPT !.version = head]}
  /\ UNCHANGED <<config, lock, command, todo, rows, lost, lock0, endVars>>

\* The package is resolved and its directory exists.
Present(row) ==
  /\ pc = "work" /\ work # <<>> /\ command.name = "generate"
  /\ row \in rows /\ row.path = Head(work) /\ Matches(row, PackageAt(row.path))
  /\ disk[row.path].tree.at \notin {"absent", "empty"}
  /\ work' = Tail(work) /\ resolved' = resolved \cup {row}
  /\ UNCHANGED <<fetchVars, config, lock, pc, command, todo, rows, failed, lost, lock0, endVars>>

\* Mutant: stays at the unknown path.
NotFoundAgain ==
  /\ pc = "work" /\ work # <<>> /\ Head(work) \notin Range(ConfigPaths)
  /\ failed' = TRUE
  /\ UNCHANGED <<fetchVars, config, lock, pc, command, todo, rows, work, resolved, lost, lock0, endVars>>

\* -u names a path that is not configured.
NotFound ==
  /\ pc = "work" /\ work # <<>> /\ Head(work) \notin Range(ConfigPaths)
  /\ work' = Tail(work) /\ failed' = TRUE
  /\ UNCHANGED <<fetchVars, config, lock, pc, command, todo, rows, resolved, lost, lock0, endVars>>

WorkDone ==
  /\ pc = "work" /\ work = <<>> /\ pc' = "write"
  /\ UNCHANGED <<fetchVars, config, lock, cmdVars, endVars>>

-----------------------------------------------------------------------------
\* resolved_write, cmake_write, and the end of the command.

End(how) ==
  /\ pc' = "ready" /\ outcome' = how
  /\ clean' = (clean /\ how \in {"generated", "updated"})
  /\ todo' = {} /\ rows' = {} /\ work' = <<>> /\ resolved' = {} /\ failed' = FALSE /\ lost' = FALSE
  /\ UNCHANGED <<config, command, lock0, cmake>>

\* "cgen -g" writes CMakeLists.txt after cgen.resolved.
AfterWrite == IF command.name = "generate" THEN "cmake" ELSE "finish"

\* Mutant: skips the write when there was no row before.
SkipFirstWrite ==
  /\ pc = "write" /\ rows = {} /\ pc' = AfterWrite
  /\ UNCHANGED <<fetchVars, config, lock, cmdVars, endVars>>

SkipWrite ==
  /\ pc = "write" /\ rows = {} /\ resolved = {} /\ pc' = AfterWrite
  /\ UNCHANGED <<fetchVars, config, lock, cmdVars, endVars>>

\* std::ofstream truncates the file; its content follows when it is closed.
Truncate ==
  /\ pc = "write" /\ rows \cup resolved # {} /\ pc' = "flush"
  /\ lock' = {}
  /\ UNCHANGED <<fetchVars, config, cmdVars, endVars>>

OpenFails ==
  /\ \/ pc = "write" /\ rows \cup resolved # {}
     \/ pc = "cmake"
  /\ "open" \in WriteErrors
  /\ End(IF lost THEN "lost" ELSE "failed") /\ UNCHANGED <<fetchVars, lock>>

\* Mutants: the old rows win; the rows of both are kept.
MergedOldFirst(from, to) == {from \cup {row \in to : row.path \notin PathsOf(from)}}
MergedBoth(from, to)     == {from \cup to}

\* packages_merge(from, to): for a path without a row in "to", its first row
\* in "from" is kept; the order of the rows of one path is not determined.
Merged(from, to) ==
  {to \cup kept : kept \in {k \in SUBSET from :
     /\ PathsOf(k) = PathsOf(from) \ PathsOf(to)
     /\ \A r1, r2 \in k : r1.path = r2.path => r1 = r2}}

\* Mutant: writes the new rows only.
FlushNewOnly ==
  /\ pc = "flush" /\ lock' = resolved /\ pc' = AfterWrite
  /\ UNCHANGED <<fetchVars, config, cmdVars, endVars>>

Flush ==
  /\ pc = "flush" /\ lock' \in Merged(rows, resolved) /\ pc' = AfterWrite
  /\ UNCHANGED <<fetchVars, config, cmdVars, endVars>>

\* "return !!out" looks at the stream before its destructor flushes it: that
\* the disk is full goes unnoticed, for either file.
FlushFails ==
  /\ \/ pc = "flush" /\ pc' = AfterWrite
     \/ pc = "cmake_flush" /\ pc' = "finish"
  /\ "flush" \in WriteErrors /\ lost' = TRUE
  /\ UNCHANGED <<fetchVars, config, lock, command, todo, rows, work, resolved, failed, lock0, endVars>>

CMakeTruncate ==
  /\ pc = "cmake" /\ pc' = "cmake_flush" /\ cmake' = "partial"
  /\ UNCHANGED <<fetchVars, config, lock, cmdVars, outcome, clean>>

CMakeFlush ==
  /\ pc = "cmake_flush" /\ pc' = "finish" /\ cmake' = "current"
  /\ UNCHANGED <<fetchVars, config, lock, cmdVars, outcome, clean>>

\* A file that was lost to a full disk is remembered in the outcome, which the
\* command does not know.
Finish ==
  /\ pc = "finish"
  /\ End(CASE lost                                               -> "lost"
           [] ~lost /\ failed                                    -> "failed"
           [] ~lost /\ ~failed /\ command.name = "update"        -> "updated"
           [] ~lost /\ ~failed /\ command.name = "generate"      -> "generated")
  /\ UNCHANGED <<fetchVars, lock>>

\* The process is killed between two calls, or dies in one.
Kill ==
  /\ pc \notin {"ready", "fetching", "removing"} /\ MaxCrashes > 0
  /\ End("killed") /\ UNCHANGED <<fetchVars, lock>>

Gone == step = "dead" /\ Collect /\ End("killed") /\ UNCHANGED lock

-----------------------------------------------------------------------------
User    == (\E c \in Configs : EditConfig(c)) \/ (\E p \in Paths : DeletePackage(p))
Command == \/ \E row \in todo : CleanupKeep(row) \/ CleanupRemove(row)
           \/ Removed \/ CleanupDone \/ Fetch \/ Fetched
           \/ \E row \in rows : Present(row)
           \/ NotFound \/ WorkDone \/ SkipWrite \/ Truncate \/ OpenFails \/ Flush \/ FlushFails
           \/ CMakeTruncate \/ CMakeFlush \/ Finish \/ Gone
Call    == FetchStep /\ UNCHANGED <<config, lock, pc, cmdVars, endVars>>
Killed  == Crash /\ UNCHANGED <<config, lock, pc, cmdVars, endVars>>

Next == \/ User \/ \E c \in CommandLines : Start(c)
        \/ Command \/ Call \/ Killed \/ Kill

Spec     == Init /\ [][Next]_vars
\* A command that was started runs on: the process is scheduled and git returns.
FairSpec == Spec /\ WF_vars(Command) /\ WF_vars(Call)

-----------------------------------------------------------------------------
\* Properties.

CommandTypeOK ==
  /\ TypeOK
  /\ config \in Configs
  /\ command \in CommandLine
  /\ pc \in {"ready", "cleanup", "removing", "work", "fetching", "write", "flush", "cmake",
             "cmake_flush", "finish"}
  /\ \A rs \in {lock, lock0, todo, rows, resolved} : rs \subseteq Package
  /\ work \in Seq(Paths)
  /\ failed \in BOOLEAN /\ lost \in BOOLEAN /\ clean \in BOOLEAN
  /\ cmake \in {"none", "stale", "current", "partial"}
  /\ outcome \in {"none", "generated", "updated", "failed", "lost", "killed"}

RowsAt(p) == {row \in lock : row.path = p}

\* When "cgen -g" ends with success, cgen.resolved has a row for every
\* configured package with the version and the strategy it is configured
\* with, its directory holds something, and no row is left of a package that
\* is gone, as long as any package is configured; and CMakeLists.txt is that of
\* this configuration, complete; unless the disk was full.
GenerateRecords ==
  outcome = "generated" /\ pc = "ready" =>
    /\ \A p \in Configured : /\ \E row \in RowsAt(p.path) : Matches(row, p)
                             /\ disk[p.path].tree.at \notin {"absent", "empty"}
    /\ config # <<>> => PathsOf(lock) = Range(ConfigPaths)
    /\ cmake = "current"

\* When "cgen -u" ends with success, what cgen.resolved says of every updated
\* package is the commit its directory holds and the url it is configured
\* with; of the other packages that are configured it says what it said before.
Updated == IF command.paths = <<>> THEN Range(ConfigPaths) ELSE Range(command.paths)
UpdateRecords ==
  outcome = "updated" /\ pc = "ready" /\ config # <<>> =>
    /\ \A p \in Updated :
         /\ RowsAt(p) # {}
         /\ \A row \in RowsAt(p) : row.version = disk[p].tree.at /\ row.url = PackageAt(p).url
    /\ \A p \in Range(ConfigPaths) \ Updated : RowsAt(p) = {row \in lock0 : row.path = p}

\* A row never names a commit that the repository of its url does not have:
\* whoever clones the project and fetches what is pinned can find it.
RowNamesOrigin == \A row \in lock : row.version \in CommitsOf[row.url]

\* A package never has two rows.
RowsAreUnique == \A r1, r2 \in lock : r1.path = r2.path => r1 = r2

\* A command that fails keeps a row of every configured package that had one.
FailureKeepsPins ==
  outcome = "failed" /\ pc = "ready" =>
    PathsOf(lock0) \cap Range(ConfigPaths) \subseteq PathsOf(lock)

\* As long as every command ended with success, a directory that is there
\* holds the commit cgen.resolved says.
CleanHistoryPinned ==
  clean /\ pc = "ready" =>
    \A row \in lock : disk[row.path].tree.at \in {row.version, "absent", "empty"}

\* After a successful "cgen -g", and until the user changes something, "cgen
\* -g" fetches nothing.
GenerateIsIdempotent ==
  outcome = "generated" /\ command.name = "generate" => pc # "fetching"

\* Every command ends, however its fetches fail.
CommandTerminates == pc # "ready" ~> pc = "ready"

\* The commands implement the atomic update of AtomicLock: from when the file
\* is opened to when its rows are there, it still counts as the old one.
phase == CASE pc = "ready"                                            -> "idle"
           [] pc # "ready" /\ lost                                    -> "lost"
           [] pc \in {"cmake", "cmake_flush", "finish"} /\ ~lost       -> "written"
           [] pc \notin {"ready", "cmake", "cmake_flush", "finish"} /\ ~lost -> "running"
standing == IF pc = "flush" THEN lock0 ELSE lock

Lock           == INSTANCE AtomicLock WITH lock <- standing, phase <- phase
AtomicLockSpec == Lock!Spec

\* README.md, "Dependency resolution and version pinning": when "cgen -g" ends
\* with success, every package is at the commit cgen.resolved pins it to.
GeneratePins ==
  outcome = "generated" /\ pc = "ready" =>
    \A row \in lock : row.path \in Range(ConfigPaths) => disk[row.path].tree.at = row.version
=============================================================================

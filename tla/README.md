# A TLA+ model of cgen

cgen reads a project description (`cgen.yml`), fetches the external packages it
names with git, records what it fetched in `cgen.resolved`, and writes a
`CMakeLists.txt`. This directory holds TLA+ modules for the parts of cgen whose
behaviour is hard to test, configurations with which TLC checks them on small
instances, and proofs that the TLA+ proof system checks for all instances.

`PROJECT.json` maps each definition to the lines it stands for, and lists the
runs, the mutants that show that each property can fail, the findings, the
hazards and the theorems.

## 1. The system

| component | source | state it keeps | operations |
|---|---|---|---|
| command line | `src/cgen/main.cpp` | `CMakeLists.txt` | `-g` (generate), `-u [paths]` (update), `-v`, `-h`; `arguments_parse`, `command_generate`, `command_update`, `cmake_write` |
| reading a configuration | `src/libcgen/config.cpp` | tree, set of included paths, error list | `config_read`: version, schema, includes, templates, decoding |
| preprocessing | `src/libcgen/preproc.cpp` | the tree | `node_merge`, `node_replace_parameters`, `node_trim_attributes`, `node_wrap_*` |
| package resolution | `src/libcgen/packages.cpp`, `main.cpp` | `cgen.resolved`, package directories | `packages_cleanup`, `packages_resolve`, `packages_update`, `packages_merge`, `resolved_read`, `resolved_write` |
| package fetch | `packages.cpp`, `git.cpp`, `fs*.cpp` | `<path>`, `<path>.bak`, `.git/modules/<path>[.bak]`, the git index | `package_fetch`, `package_remove`, `package_backup*` |
| version matching | `src/libcgen/versions.cpp` | none | `version_parse`, `version_match`, `version_less`, `version_tag` |
| git | `src/libcgen/git.cpp`, `exec_impl.cpp` | outside: repositories, index | `submodule add/init/deinit`, `clone`, `reset`, `rm`, `ls-remote` |
| code generation | `src/libcgen/codegen.cpp` | text written so far, indentation | `CMakeGenerator::write`, `target_settings`, `visibility`, `configs` |
| errors, debug, version string | `error.cpp`, `debug.cpp`, `version.cpp` | none | formatting |
| vendored libraries | `external/` (poost, miroir, yaml-cpp, doctest) | none | logging, arguments, schema, YAML, tests |

How they interact: `main` reads the configuration, then the lock
(`resolved_read`), gives up packages that are no longer configured
(`packages_cleanup` calls `package_remove`), resolves or updates the others one
by one (each a `package_fetch`, with one error list for all of them), merges the
new rows into the old ones, writes the lock and, for `-g`, the `CMakeLists.txt`.
`package_fetch` asks `version_tag` for the tag of a version such as `1.*`. All
of it runs in one thread; what makes it hard is

- **failure in the middle**: a fetch is a chain of renames and git commands, any
  of which may fail, throw or be the last one before the process is killed;
- **state that outlives the process**: directories, backups, git's bookkeeping
  and the lock are changed one after the other and read by the next command;
- **one list for several packages**: the error list is shared, so a failure of
  one package decides what is recorded of another;
- **recursion and order in merging**: includes of includes, parameters that are
  passed on, templates shared between targets, `REPLACE` on either side;
- **a text that another program runs**: what `CMakeLists.txt` means depends on
  the order and the nesting of its lines, and every setting reaches them through
  short and long forms, visibilities and configurations;
- **small algorithms with many corners**: wildcards, trailing zeros,
  pre-releases; a scanner with one character of lookahead.

## 2. The modules

| module | models | kind |
|---|---|---|
| `PackageFetch` | `package_fetch`, `package_remove` and their helpers | state machine, one action per call that changes the disk or the index |
| `AtomicFetch` | what a caller may expect of `package_fetch` | abstract specification, refined by `PackageFetch` |
| `Packages` | the commands `-g` and `-u` over `cgen.resolved`; extends `PackageFetch` | composition |
| `AtomicLock` | what a user may expect of a command, of `cgen.resolved` above all | abstract specification, refined by `Packages` |
| `Versions` | `versions.cpp` | operators and the search of `version_tag` |
| `Trees` | trees, and what the functions of `preproc.cpp` do with one node | pure operators |
| `Preproc` | the functions of `preproc.cpp`, on whole trees; extends `Trees` | pure operators (recursive) |
| `Decode` | the decoders of `config.cpp`; extends `Trees` | pure operators |
| `ConfigRead` | `config_read` with includes and templates; extends `Decode`, the functions on trees are constants | state machine, the recursion is a stack |
| `CodeGen` | `CMakeGenerator` of `codegen.cpp` | state machine, one action per loop body and level of nesting |
| `Generation` | decoding and generation, from a tree to the text; extends `CodeGen` and `Decode` | composition |
| `Parameters` | `string_replace_parameters`, character by character | state machine |
| `PackageFetchProofs`, `AtomicFetchProofs`, `PackagesProofs`, `VersionsProofs`, `ParametersProofs`, `CodeGenProofs`, `ConfigReadProofs` | | proofs |
| `NumberInduction` | | lemmas about numbers and lists that the last four rest on |
| `MC*` | | instances for TLC |

### PackageFetch and AtomicFetch

A *slot* is what the disk holds for one package path: the directory (absent,
empty, partial or at a commit, and what its `.git` is), its `.bak`, the two
entries under `.git/modules`, and whether the index registers the path. The
program counter `step` names the next call. Each git command is an action that
succeeds or fails, with what it may leave behind; `PartialAdd`, the states that
a failing `git submodule add` or `git clone` leaves, is external and assumes only
that the command works on its own path. `ok` is the combined status of the
commands so far, `errors` says whether the caller's list holds an error of an
earlier package. A C++ exception (a rename whose destination is taken, a number
too wide for `int`) ends the process: `step = "dead"`. `Crash` is a kill between
two steps or in the middle of a long one.

`CommitsOf` gives the commits of the repository of each url: a fetch takes one
of those, and a reset to any other fails.

`AtomicFetch` replaces the commit at a path in one step or fails. `Atomic ==
INSTANCE AtomicFetch WITH ...` in `PackageFetch` takes the installed commit from
the directory, or from the backup while a call keeps it there.

### Packages

The state adds the configuration, the lock (a set of rows), the position in the
command, and the lists `main` passes around. `PackageFetch` runs as a subroutine:
`Fetch` and `CleanupRemove` call it, `Fetched`, `Removed` and `Gone` collect the
result. Between commands the user edits the configuration or deletes a
directory. `arguments_parse` turns a command line, the sequence of its options
with their values, into a command: the last of `-g` and `-u` counts, and the
values of every `-u` are collected. Each of the two files is written in two
steps, `Truncate` and `CMakeTruncate` (opening the stream), `Flush` and
`CMakeFlush` (its destructor), because the process can end in between and the
code looks at the stream before the second: `FlushFails` sets the history
variable `lost`, which no guard reads, and the command goes on. Of
`CMakeLists.txt` the variable `cmake` says whether it is that of the
configuration (`"current"`), of an earlier one (`"stale"`) or half of one
(`"partial"`).

`AtomicLock` knows of a command only its name and its paths: it begins, replaces
the rows in one step (`Write`) or leaves the file, and ends. `MayBecome` says
which rows may replace the old ones, `Reason` when a package may be taken to
another commit, `Complete` what success means, and `Lose` and `Die` that the rows
are lost together if at all. `Lock == INSTANCE AtomicLock WITH ...` in `Packages`
maps the places in the command to a `phase`, and lets the file count as the old
one (`standing`) from when it is opened, and is empty, to when its rows are there.

### Versions

A tag is a sequence of tokens: numbers, `-`, `+`, `*` and any other character.
`version_parse`, `version_match` and `version_less` are operators (the assumption
`VersionsAssumption` says that a pattern has no `-` and no `+`, which
`version_is_valid` does not let through); `version_tag` is the process that sorts (any result `std::sort` may give) and
tries the tags in turn. The properties compare them with the padded infinite
sequences of numbers that versions stand for.

### Trees, Preproc and ConfigRead

A tree is a record (undefined, null, scalar, list, map); a key is a name with an
attribute, empty or `REPLACE`; a text is a literal, a parameter or an escaped
one. `node_merge` and its helpers follow the code case by case, including the
loss of attributes in clones. What each does with one node is an operator of
`Trees` (`MergedNode` for `node_merge`, `ClonedNode`, `TrimmedNode`,
`ReplacedNode`) whose parameter is what the recursive call does, and `Preproc`
ties the knot: `node_merge(from, to) == MergedNode(from, to, node_clone,
node_merge)`. `ConfigRead` has constants in their place (`merge`,
`replace_parameters`, ...), to which the runs assign the operators of `Preproc`:
the order of the steps does not depend on them, and its theorems are proved
without a RECURSIVE operator. `FilesAssumption` says what every file has been
parsed to, and that includes, packages and targets are lists, as in the schema.

`ConfigRead` turns the recursion of
`node_merge_includes` into a stack of frames, each with its node, the includes
left and the undefined parameters of this call. Whether the schema accepts a
tree is left open: `Invalid` may reject it at each of the three validations.
Decoding has a side effect, the wrapping of short forms in the tree itself, and
that is part of the actions (`Wrap` of `Decode`).

### Decode, CodeGen and Generation

`Decode` has an operator for each decoder (`AsConfig`, `AsTarget`, `AsPackage`,
`as_visibility`, `Configs`, `AsExpression`). An expression keeps whether it is
defined and quoted, which decides how it is written; a path is the sequence of
its components, so that `concatenate_paths` can tell relative from absolute.

`CodeGen` writes a decoded configuration. A line is an indentation and a text,
a text a word with its arguments: `<<"set", "A", value, force>>`. The loops of
`write()` are actions, and inside a target there is an action for each level of
`target_settings`: `GroupBegin`/`GroupEnd` for a command such as `target_sources`,
`VisibilityBegin`/`VisibilityEnd`, `GlobalValues`, and `Configuration` for one
`$<$<CONFIG:...>:...>`; empty groups, visibilities and configurations are skipped
as in the code (`GroupSkip`, `VisibilitySkip`). `indent` is `indent_`.

`Generation` starts from a tree, decodes it and generates. Its properties read
the written text from the top, as CMake does, and compare it with what the tree
says by a definition (`Given`) that knows nothing of wrapping, moving and merging.

### Parameters

The scanner of `string_replace_parameters`, one action per branch of its switch.
Its result is compared with `Meaning`, which reads the text with unbounded
lookahead. `EscapeIsUndone` and `ResultIsMeaning` justify that `Preproc` takes a
text for one of three forms. The end with an open parameter is a choice of the
build: the assertion aborts, or the rest of the text is dropped.

## 3. What the runs check

| run | instance | shows |
|---|---|---|
| `fetch_main` | two paths (one outside the working directory), two commits, no kill | failed fetches restore, pins are exact, nothing is left behind, refinement of `AtomicFetch`, every call returns |
| `fetch_crash` | the same, two kills, overflowing tags | the inductive invariant, `NothingLost`, restores never throw |
| `packages_main` | paths a, b and an unknown c; configurations {a}, {a of another repository} and {a changed, b}; two commits, one of them in both repositories; seven command lines; either file may fail to open | what `-g` and `-u` record, unique rows, rows name commits of their url, failures keep pins, idempotence, refinement of `AtomicLock` |
| `packages_crash` | paths a and b, b outside of the working directory, one commit, one kill, tags overflow, full disk | refinement of `AtomicLock` when a command is killed, dies or finds the disk full; every command ends |
| `versions_main` | nine versions, every list of up to three of thirteen tags in every order, and a too wide number | greatest matching tag, matching by number, strict weak order |
| `config_main` | 107 contents of `cgen.yml` over five sets of files a, b, c | order of merging, completeness, templates, end of reading |
| `codegen_main` | 383 trees: each form of a setting (short, global, configurations, both) for every set of visibilities, with and without a path, for an interface library and others; definitions and properties; packages, options and up to two targets | indentation and nesting, definitions before uses, every value in its place, every condition around its call |
| `parameters_main` | all 21 845 texts of at most seven of four characters | meaning, reported names, escaping, assertion |
| `fetch_submodule`, `packages_pins`, `versions_parts`, `config_dropped` | as above | the findings of section 6 |

Bounds, and why they are enough:

- `MaxCrashes` = 2: a kill, and a kill during the recovery from it. The proof has no bound.
- Two commits: the old and the new checkout. `Permutations(Commits)` is used as a
  symmetry in `fetch_crash` only, which checks no liveness.
- `Outside` holds a path outside of the working directory, which the code refuses.
- `WriteErrors` names what may fail in writing; `TagOverflow` allows the exception of `std::stoi`.
- `Configs`: contents that differ in version, strategy, url and number of packages
  let rows match, mismatch, appear and go away; a third package adds no pair.
- `Urls`, `CommitsOf`: two repositories, of which the second has only the newer
  commit of the first, so that a row can name a commit its url does not have.
- `Arguments`: each command, `-u` with a known and an unknown path, `-u` twice,
  both commands together in either role, and lines that run nothing (`-h`, `-v`).
- `Trees`: a group of settings at a time, for the groups do not interact, and
  trees with all groups at once; two values and two configurations of which one
  may be empty; packages of both types in either order; two targets, with and
  without a condition.
- Tags: three tags decide transitivity and every place in the sorted list; the
  thirteen have equal, longer and shorter numbers, pre-releases, builds and
  leading letters. `MaxInt` = 8 stands for `INT_MAX`, which marks the wildcard;
  9 is too wide.
- Seven characters hold two parameters, or an escaped dollar and a parameter.
- Files: three names allow a cycle, a diamond and a chain of includes; five
  frames (a bound of the mutants only) are more than the four the program can have.

`CHECK_DEADLOCK FALSE` is set where a call simply ends: `Versions`, `ConfigRead`,
`Parameters` and `CodeGen`. `PackageFetch` and `Packages` go on with the next call or
command and are checked for deadlock.

Every property of a passing run has a mutant in `PROJECT.json`: a changed
definition, kept beside the real one and marked `Mutant`, that TLC finds to
violate it.

### Fairness

`FairFetchSpec`, `FairSpec` of `Packages` and of `ConfigRead` assume weak
fairness of the steps of a call that is in progress: the process is scheduled,
and `exec` (which waits for its child) returns. Nothing is assumed of the user,
of kills or of the outcome of git: `CallReturns` and `CommandTerminates` hold if
every command fails. `ConfigTerminates` needs the set of included paths: without
it two files that include each other recurse for ever.

## 4. What is proved

`PackageFetchProofs`, for any sets of paths, urls, versions and commits and any
number of kills, from `FetchAssumption` only:

- `FetchInvariant`: `FetchSpec => []IInv`. `NothingLost` is not inductive: it
  says that the last complete checkout is in the directory *or* the backup, and
  not which of them the next step may touch. `IInv` adds where it is at each
  step: in the backup until HEAD is resolved (`InBackup`), then in the directory
  (`InTree`); that a status of success means a complete checkout (`Complete`);
  and which paths are free (`PathFree`), which the renames back need. One lemma
  per group of actions: `BackupIInv`, `RemoveIInv`, `GitIInv`, `FinishIInv`,
  `CallIInv`, `CrashIInv`, `UserIInv`.
- `FetchTypeCorrect`, `FetchLosesNothing`, `RestoreNeverThrows` follow from it.
- `PinsAreExact`: a fetch of a commit that succeeds leaves exactly that commit.
  Between the checkout and the return nothing may move HEAD; `HeadInv` keeps
  that the resolved commit is that of the directory in all steps that finish a
  fetch, and that for a pin it is the pin.

`AtomicFetchProofs`, for any paths, urls, versions and commits:

- `FetchIsAtomic`: `FetchSpec => AtomicSpec`, that `PackageFetch` implements
  `AtomicFetch`. It assumes `Undisturbed`: no kill (`MaxCrashes = 0`), no tag that
  ends the process (`TagOverflow = FALSE`), and no path that is the model's value
  for "no path". A kill really breaks it: what is installed then is in `<path>.bak`
  and no fetch is in progress (`NothingLost` is what remains). `IInv` allows a
  backup that no fetch owns, as a kill leaves one; the invariant `AInv` excludes
  it: a backup belongs to the fetch in progress and is gone when that ends
  (`BackupsOwned`), and HEAD is resolved, to the commit of the directory, exactly
  in the steps that drop the backup (`Phase`). Then each action is one step of
  `AtomicFetch` or is not seen by it: the drop of the backup is `Install`, the
  rename back is `Fail`. One lemma per group of actions for `AInv`, and one for
  the step: `BackupAtomic`, `RemoveAtomic`, `GitAtomic`, `FinishAtomic`,
  `CallAtomic`, `UserAtomic`.
- `FailedFetchPutsBack` and `CallsLeaveTidy`: as long as no process was killed
  (`crashes = 0`, an antecedent of both properties), a failed fetch restores what
  it found, and between calls no slot holds a backup or a half-made package.
  `AInv` is joined by where a fetch keeps what it found (`Found`), what it has
  made so far (`Made`), and that all other slots are tidy (`TidySlots`). Both
  assume `TagOverflow = FALSE`: a tag that is too wide for `int` throws out of
  `package_fetch` between the backup and the restore, and then they are false
  (the hazard at versions.cpp:144; `NothingLost` still holds).

`PackagesProofs`, from `FetchAssumption` and `PackagesAssumption`, for any
configurations and arguments:

- `PackagesImplementFetch`: `Spec => FetchSpec`, the commands call `package_fetch`
  and `package_remove` only as `PackageFetch` allows. One case per action of
  `Next`; `Fetch` needs that what it fetches is a `Package`, which is why the
  command's types are part of the invariant `PInv`.
- `RowsNameTheirOrigin`: a row names a commit of the repository of its url. The
  invariant `RowsOfOrigin` says it of the lock, of the rows in memory and of the
  call in progress: a pinned row is fetched and recorded with its own url, never
  with that of the configuration, which `Matches` does not compare.
- `FailuresKeepPins`: the invariant `PinsHeld` says, for each place in the
  command, where the row of a package is that had one at the start: in the lock,
  in `todo` or in `rows`; after the lock is truncated, in `rows` alone.
- `CommandsLoseNothing` follows with `FetchLosesNothing`.
- `CommandTypeCorrect`: `PInv` adds `Recorded`, that a call which returns without
  an error has resolved a commit; it is what makes every recorded row a
  `Package`, whose version is a commit.

The second part of the module says what `cgen.resolved` holds. Its
invariant `RInv` describes a command in progress: where it is and which call it
waits for (`Shape`), which paths are done and left (`Progress`), which rows are
kept (`Kept`) and made (`NewRows`), what is on the disk after the write
(`Written`). One lemma per part and step.

- `GenerateIsRecorded`, `GenerateTwice`: what a successful `-g` leaves, and that
  the next one fetches nothing. Of no other hypotheses: a `-g` takes its paths
  from the configuration, where each is named once.
- `RowsStayUnique`, `UpdateIsRecorded`: these assume `EachPathOnce`, that no
  command line names a path twice after `-u`. Without it they are false: the
  path is fetched and recorded twice (section 6, packages.cpp:97).
- `CleanHistoryStaysPinned` also assumes `PatternsAreNoCommits`: a recorded commit
  that could be read as a version pattern may be fetched at a tag instead. Its
  invariant `HeldRows` says of each row, at each place in a command, that its
  directory holds its commit or that the row is about to be replaced.
- `CommandsUpdateAtomically`: `Spec => AtomicLockSpec`, with kills, full disks and
  paths named twice. The state before a step of `AtomicLock` is `lock0`, the rows
  found at the start, so that the invariant needs to know of each row in memory why
  it may replace them: `Founded` says that it is an old one, or resolved for a
  package that had none that matched, or that `-u` named; that the package of the
  call in progress has such a reason; and that the file is empty at the flush.
  Then the flush is `Write`, a command with no row to write is `Leave`, and
  `RInv` gives the end of a successful command its `Complete`.

`VersionsProofs`, for any lists of tags, any patterns and any largest `int`, from
`VersionsAssumption`:

- `SortHasItsOrder`: `version_less` is a strict weak order of all tags, what
  `std::sort` requires. Each of its comparisons is one of sequences of numbers,
  by the first place where they differ (`LexAt`), and their combination is.
- `SortOrdersNumbers`, `PatternsCover`: the order and the match of the truncated,
  trimmed lists of parts agree with the infinite padded sequences of numbers.
- `GreatestIsReturned`: whatever list `std::sort` returns that is a permutation in
  order, the first match in it is a greatest one. The invariant `SearchInv` has
  that no tag before `it` matches; that the sorted list has every tag follows
  since an injection of a finite set into itself is onto (`FS_Injection`).

`ParametersProofs`, for texts of any length over any characters:

- `ParametersTypeCorrect`, and `AssertsOnlyUnclosed`: the assertion at the end of
  the scan fails only for a text with a `$(` that is never closed. The invariant
  `Scanned` keeps that the state ST_PARAM_BEGIN is never entered at the last
  character and that in ST_PARAM a `$(` without a `)` was read.
- `ReplacesAsRead` and `ReportsUndefined`: the scanner gives the result and the
  errors that reading with unbounded lookahead gives. `ReadInv` relates the two at
  every character: what was written and what `Meaning` says of the text up to
  here agree, but for the character or the parameter that is pending.
- `EscapesAreUndone`: a text with all dollars doubled comes out unchanged, what
  passing parameters on to an included file relies on.

`CodeGenProofs`, for any configurations that the decoders can make
(`ConfigurationsAreDecoded`: what is a `std::vector` there is a sequence):

- `IndentationIsLevel`: the indentation is the number of open blocks at every
  step, so that the assertion of `unindent()` holds for every configuration. The
  step is split into the actions outside of a target and those inside
  (`OutsideKeeps`, `InsideKeeps`).
- `BlocksAreNested`: every block is closed by its own end and every line is
  indented as deep as it is nested. The invariant `NestInv` names, for each place
  in `write()`, the stack of blocks that the text so far leaves open (`Here`), the
  last visibility included, which only the next one or the end of its group
  ends. `Nested(o, L, d, q)` says that the lines `L`, indented by `d`, lead from the
  stack `o` to `q`; it composes, and everything that is written between two steps
  is `Flat`: it returns to the stack it found. `WorkTyped` adds that the loops stay
  within the configuration.
- `EverythingIsDefinedFirst`: options before settings, both before packages and
  targets, variables before their target, targets before their aliases and
  values, and every function under a name of its own before its one call.
  The invariant `OrderInv` says it of the text so far, and what the rest needs of
  it: there are no settings before the options are complete, every function has
  ended outside of a target (`Closed`), the next number is in no name yet (`Fresh`),
  and the one function without a call is that of the target being written. `Grown`
  describes a text by the old one and the lines added, and each part of
  `OrderInv` has a lemma on what lines may be added to it.

`ConfigReadProofs`, for any files that include each other, with maps and lists of
any size, from `FilesAssumption`. The functions on trees are constants here, too:
`TreesAsWritten` says of them that each does with a node what the operator of
`Trees` does, the recursive call being the function itself. For the operators of
`Preproc` this is their definition, word for word; it is a hypothesis of the
theorems because a module that knows recursive definitions cannot be proved
about. What a file is merged to at any depth is not asked: the properties are
about the fields of the map at the root, and what these hold.

- `ConfigTypeCorrect`: the calls of `node_merge_includes` have different paths,
  all but the first of them included; the target that is next is one that there
  is. The invariant `TypeInv` adds that every configuration on the way is one
  again, whatever was merged, replaced, wrapped, ignored or trimmed (`ConfigMerged`,
  `ReplacedIs`, `WrapIs`, `IgnoredIs`, `TrimIs`), and that nothing in `targets`
  gets lost.
- `AcceptedComplete`: every included file was read, once, with all its parameters.
  A call forgets an include when it turns to it, so the invariant has to say where
  each is: `NamedIsRead`, it is read, or waits in the list of some call, or is an
  error; and `MissedIsKept`, what parameters were left out is with the call, or in
  the errors.
- `IncludedPackagesInOrder`: the packages of a call are those of the files read
  in it so far, which no list of one call tells. `PackagesMerged` says that the
  packages of all calls, from `cgen.yml` to the innermost, are those of all files
  read, in this order: a file that is read adds to the end of both, and a call that
  returns moves the border between the last two. Hypothesis `PackagesArePlain`:
  `packages` has no attribute, and a package is a map of scalars with a map of
  `options`, as in the schema, without attributes; such a map is cloned as it is
  (`PackageIs`, on `MapIsKept`). With `packages:REPLACE` the property is not meant
  to hold.
- `LastSettingIsTaken`: `LastMerged` says that the last call that gives a
  setting gives it as the last file read does (`Agree`), unless that is the call
  for `cgen.yml` and has it with `REPLACE`. Hypothesis `SettingsArePlain`: settings
  are scalars, as the schema has it, the project is a scalar or a map of them, and
  only settings of `cgen.yml` have attributes; an included file with `REPLACE`
  would stop the files it includes, and only these. TLC evaluates both hypotheses
  for the files of the runs (`MCConfigRead`).

`NumberInduction`: induction over numbers is stated with sets, on the library's
theorem that a well-founded relation has minimal elements (`WFMin`), so that it
can be used for properties of recursive functions; that a recursive function
exists and has its equations is shown each time. `Numbers` and `Only` recurse
over their list for this reason, where the library's filters could not be
reasoned about.

Only model-checked:

- liveness (`CallReturns`, `CommandTerminates`, `ConfigTerminates`), which is
  beyond the prover;
- `TargetSources`. Sources are four levels down in a target, merged with the
  templates by a fold over the list of their names and wrapped at every level: what
  merging makes of them is an induction over that fold and over trees, not a fact
  about the fields of one map;
- `ValuesOfTree` and `ConditionsOfTree` of `Generation`, which compare the written
  text with the tree through all decoders. What a decoded configuration is
  written as is proved for all of them (`CodeGenProofs`); that trees are decoded to
  what they say is an induction over the forms of trees, which `codegen_main` checks
  for each form.

## 5. What is not modelled

- Of `codegen.cpp`: comments, blank lines and the spelling of a line; the version
  of the project and of system packages, which are written as they are read. What
  CMake does with the text, beyond the order and nesting of its lines.
- The schema, YAML itself (anchors, duplicate keys, merge keys, the spellings of a
  boolean), the splitting of `argv` into options and values (`poost::Args`),
  logging, the texts of messages (`error.cpp`, `version.cpp`, `debug.cpp`: no
  state), and the parsing of `git ls-remote`.
- Included files that are no maps: they are decoded before the schema sees them.
- Two cgen processes at a time: there is no locking to check.
- What git itself guarantees. The actions of git are assumptions about it.

## 6. Findings

Four disagreements of the code with what it or its documents say have a run:

- `packages_pins`: after one package failed, what was fetched for another is on
  the disk and not in the lock; the next `-g` accepts it with the old row.
- `fetch_submodule`: the restore after a failed fetch runs `git rm` on the path,
  and the restored checkout is no submodule for git any more.
- `versions_parts`: `1.*.0` accepts `1.0.2`, because the zeros are trimmed first
  and the wildcard then is the last part.
- `config_dropped`: a configuration that a target gives without a visibility is
  dropped when private (or, for interface libraries, interface) has one of that
  name, from a template for example. Global values are appended instead.

Others were met while modelling and are properties of the code as it is; no run
is spent on them:

- A fetch that is killed leaves half a package, which `packages_resolve`
  (packages.cpp:79) takes for resolved because the directory is not empty.
- Without any package left, `resolved_write` (main.cpp:224) does not write, and
  the row of the last package stays.
- `packages_resolve` (packages.cpp:59) does not compare the url: a package that
  moved keeps being fetched from where it was pinned, until `-u`
  (`RowNamesOrigin` shows that its row stays consistent).
- A path named twice after `-u` (packages.cpp:97) is fetched and recorded twice.
- `return !!out` (main.cpp:233) comes before the flush: a full disk empties the
  lock and the command reports success (`outcome = "lost"` in `Packages`).
- A package that changes from submodule to clone keeps its index entry, because
  its directory is renamed before `package_remove` looks at it (packages.cpp:391).
- Which of two equivalent tags (`v1`, `r1`) is chosen depends on the order of the
  remote (versions.cpp:106).
- Targets under `targets:REPLACE` get no templates (config.cpp:271): they are
  looked up under `targets` while the attribute is still there.
- `REPLACE` in a template of an included file has no effect, and in a target of
  one only if the including file has no targets (preproc.cpp:120).
- Of two targets of one name only the options of the last are written
  (codegen.cpp:573); the libraries and settings of both are.
- The generator writes `target_precompiled_headers` (codegen.cpp:381), which is no
  command of CMake (`target_precompile_headers` is), system packages before
  external ones and `message(NOTICE` where docs/spec.md:121-143 shows the opposite
  order and `message(WARNING`, and functions named by index where
  docs/spec.md:285-376 shows `cgen_target_poost`.
- An undefined parameter `$()` is reported with an empty name, on which
  `Error::description` asserts (error.cpp:31).

## 7. Plan

Done: the fetch with its proof and its abstract specification, the commands with
their command lines and both files and theirs, versions, configuration reading
with all decoders, the scanner, code generation. Every safety property that a run
checks is a theorem, but for `TargetSources`, `ValuesOfTree` and
`ConditionsOfTree`. Left:

1. `TargetSources`: a lemma on what a fold over templates makes of one setting,
   on the model of `NumberInduction!FlattenIs`, and the sources of each target as an
   invariant of `MergeTemplate`.
2. The form of a decoded tree as operators for one level, like those of `Trees`,
   to state `ValuesOfTree` for any tree of the schema.
3. `Packages`: `-u` with a path named twice.

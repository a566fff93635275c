------------------------------ MODULE CodeGen ------------------------------
(***************************************************************************)
(* CMakeGenerator of src/libcgen/codegen.cpp: a decoded configuration is   *)
(* written as CMakeLists.txt, line by line, with the indentation the       *)
(* generator keeps in indent_.  One action per loop body of write() and,   *)
(* inside a target, per level of nesting of target_settings(): a group of  *)
(* settings, a visibility, a configuration.                                *)
(*                                                                         *)
(* A line is an indentation and a text; a text is a word with arguments.   *)
(* Comments and blank lines are left out.  A std::map is a function, gone  *)
(* through in the order of its keys.                                       *)
(***************************************************************************)
EXTENDS Integers, Sequences, SequencesExt

CONSTANTS
  Configurations, \* decoded configurations
  Order           \* all keys of their maps, in the order of std::map

IsList(x) == x \in Seq(ToSet(x))

\* What the decoders make lists of: all values but those of properties, for
\* each visibility.
ASSUME ConfigurationsAreDecoded ==
  /\ IsList(Order)
  /\ \A c \in Configurations :
       /\ IsList(c.packages) /\ IsList(c.targets)
       /\ \A i \in DOMAIN c.targets :
            /\ IsList(c.targets[i].aliases)
            /\ \A g \in {"sources", "includes", "pchs", "dependencies", "definitions",
                          "compile_options", "link_options"}, v \in {"PUBLIC", "INTERFACE", "PRIVATE"} :
                 LET given == c.targets[i].groups[g][v]
                 IN /\ IsList(given.global)
                    /\ \A n \in DOMAIN given.configurations : IsList(given.configurations[n])

VARIABLES
  config,  \* the input
  pc,      \* where write() is
  out,     \* out_: the lines written so far
  indent,  \* indent_
  left,    \* external packages or targets left, the current one first
  count,   \* pkg_idx or target_idx
  groups,  \* groups of settings of the target that are left
  vis,     \* visibilities of the group that are left
  confs    \* configurations of the visibility that are left

loopVars == <<left, count, groups, vis, confs>>
vars     == <<config, pc, out, indent, loopVars>>

\* The elements of a sequence that are in a set.
Only(seq, set) ==
  LET only[n \in 0 .. Len(seq)] ==
        IF n = 0 THEN <<>>
        ELSE IF seq[n] \in set THEN Append(only[n - 1], seq[n]) ELSE only[n - 1]
  IN only[Len(seq)]

Sorted(map) == Only(Order, DOMAIN map)
None(values) == DOMAIN values = {}

\* Lines, relative to the current indentation.
Line(text) == <<[indent |-> 0, text |-> text]>>
In(lines)  == [i \in DOMAIN lines |-> [lines[i] EXCEPT !.indent = @ + 1]]
Lines(seq, Text(_)) == [i \in DOMAIN seq |-> [indent |-> 0, text |-> Text(seq[i])]]

\* Mutant: the condition is closed before its body is left.
IfUnindents(cond, lines) ==
  IF cond = "" THEN lines ELSE Line(<<"if", cond>>) \o In(lines) \o In(Line(<<"endif">>))

If(cond, lines) ==
  IF cond = "" THEN lines ELSE Line(<<"if", cond>>) \o In(lines) \o Line(<<"endif">>)

WriteAt(level, lines) == out' = out \o [i \in DOMAIN lines |-> [lines[i] EXCEPT !.indent = @ + level]]
Write(lines) == WriteAt(indent, lines)

-----------------------------------------------------------------------------
\* Values.

NoExpression == [is_defined |-> FALSE, is_quoted |-> FALSE, value |-> <<>>]

\* Mutant: the prefix is put before absolute paths, too.
concatenate_all_paths(lhs, rhs) ==
  [is_defined |-> lhs.is_defined \/ rhs.is_defined,
   is_quoted  |-> lhs.is_quoted \/ rhs.is_quoted,
   value      |-> lhs.value \o rhs.value]

\* A path is the sequence of its components, an absolute one begins with "/".
concatenate_paths(lhs, rhs) ==
  [is_defined |-> lhs.is_defined \/ rhs.is_defined,
   is_quoted  |-> lhs.is_quoted \/ rhs.is_quoted,
   value      |-> IF rhs.value # <<>> /\ rhs.value[1] = "/" THEN rhs.value ELSE lhs.value \o rhs.value]

definition(def) ==
  IF None(def.map) THEN Line(<<"value", def.value>>)
  ELSE Lines(Sorted(def.map), LAMBDA key : <<"key", key, def.map[key]>>)

\* The lines of a list of values: the overloads of configs().
Values(g, prefix, values) ==
  CASE g = "properties"  -> Lines(Sorted(values), LAMBDA key : <<"key", key, values[key]>>)
    [] g = "definitions" -> FlattenSeq([i \in DOMAIN values |-> definition(values[i])])
    [] g \in {"sources", "includes", "pchs"} ->
         Lines(values, LAMBDA expr : <<"value", concatenate_paths(prefix, expr)>>)
    [] OTHER -> Lines(values, LAMBDA expr : <<"value", concatenate_paths(NoExpression, expr)>>)

Empty(given) ==
  ~given.is_defined \/ (None(given.global) /\ \A c \in DOMAIN given.configurations :
                                                  None(given.configurations[c]))

Groups == <<"sources", "includes", "pchs", "dependencies", "definitions", "properties",
            "compile_options", "link_options">>
Visibilities == <<"PUBLIC", "INTERFACE", "PRIVATE">>

EmptyGroup(g, given) ==
  IF g = "properties" THEN Empty(given)
  ELSE \A v \in DOMAIN given : Empty(given[v])

-----------------------------------------------------------------------------
\* The head of the file.

Init ==
  /\ config \in Configurations
  /\ pc = "begin" /\ out = <<>> /\ indent = 0
  /\ left = <<>> /\ count = 0 /\ groups = <<>> /\ vis = <<>> /\ confs = <<>>

Option(opts) == Lines(Sorted(opts), LAMBDA name : <<"option", name, opts[name]>>)
Set(settings, force) == Lines(Sorted(settings), LAMBDA name : <<"set", name, settings[name], force>>)

\* Mutant: options are written where the targets are, after the settings.
BeginLate ==
  /\ pc = "begin" /\ pc' = "target_options"
  /\ Write(Line(<<"cmake_minimum_required">>) \o Line(<<"project", config.project>>)
           \o Set(config.settings, FALSE) \o Option(config.options))
  /\ UNCHANGED <<config, indent, loopVars>>

Begin ==
  /\ pc = "begin" /\ pc' = "target_options"
  /\ Write(Line(<<"cmake_minimum_required">>) \o Line(<<"project", config.project>>)
           \o Option(config.options))
  /\ UNCHANGED <<config, indent, loopVars>>

\* The options of targets by their names: the last target of a name counts.
config_target_options ==
  LET with(n) == {i \in DOMAIN config.targets :
                    config.targets[i].name = n /\ ~None(config.targets[i].options)}
  IN [n \in {t.name : t \in {u \in ToSet(config.targets) : ~None(u.options)}} |->
        config.targets[Max(with(n))].options]

TargetOptions ==
  /\ pc = "target_options" /\ pc' = "settings"
  /\ LET names == Sorted(config_target_options) IN
       Write(FlattenSeq([i \in DOMAIN names |-> Option(config_target_options[names[i]])]))
  /\ UNCHANGED <<config, indent, loopVars>>

SetSettings ==
  /\ pc = "settings" /\ pc' = "packages"
  /\ Write(Set(config.settings, FALSE))
  /\ UNCHANGED <<config, indent, loopVars>>

-----------------------------------------------------------------------------
\* Packages: those of the system first.

Of(type) == Only(config.packages, {pkg \in ToSet(config.packages) : pkg.type = type})

SystemPackages ==
  /\ pc = "packages" /\ pc' = "external" /\ left' = Of("external")
  /\ Write(FlattenSeq([i \in DOMAIN Of("system") |->
       LET pkg == Of("system")[i] IN If(pkg.if_, Line(<<"find_package", pkg.name, pkg.is_required>>))]))
  /\ UNCHANGED <<config, indent, count, groups, vis, confs>>

\* A function for each, so that its settings end with it, and the call.
ExternalPackage ==
  /\ pc = "external" /\ left # <<>>
  /\ LET pkg == Head(left)
         func == <<"cgen_package", count>>
     IN Write(Line(<<"function", func>>)
              \o In(Set(pkg.options, TRUE)
                    \o Line(<<"if", "EXISTS">>) \o In(Line(<<"add_subdirectory", pkg.name>>))
                    \o Line(<<"else">>) \o In(Line(<<"message", pkg.name>>)) \o Line(<<"endif">>))
              \o Line(<<"endfunction">>)
              \o If(pkg.if_, Line(<<"call", func>>)))
  /\ left' = Tail(left) /\ count' = count + 1
  /\ UNCHANGED <<config, pc, indent, groups, vis, confs>>

ExternalDone ==
  /\ pc = "external" /\ left = <<>>
  /\ pc' = "targets" /\ left' = config.targets /\ count' = 0
  /\ UNCHANGED <<config, out, indent, groups, vis, confs>>

-----------------------------------------------------------------------------
\* Targets.

target    == Head(left)
func_name == <<"cgen_target", count>>
Add(t)    == IF t.type = "library" THEN <<"add_library", t.name, t.library>>
             ELSE <<"add_executable", t.name>>
Aliases(t) == Lines(t.aliases, LAMBDA alias : <<"add_alias", alias, t.name>>)

\* Mutant: the variables are set after the target that reads them was added.
TargetBeginSetsLate ==
  /\ pc = "targets" /\ left # <<>> /\ pc' = "groups"
  /\ Write(Line(<<"function", func_name>>)
           \o In(Line(Add(target)) \o Set(target.settings, FALSE)
                 \o Aliases(target)))
  /\ indent' = indent + 1 /\ groups' = Groups
  /\ UNCHANGED <<config, left, count, vis, confs>>

TargetBegin ==
  /\ pc = "targets" /\ left # <<>> /\ pc' = "groups"
  /\ Write(Line(<<"function", func_name>>)
           \o In(Set(target.settings, FALSE) \o Line(Add(target))
                 \o Aliases(target)))
  /\ indent' = indent + 1 /\ groups' = Groups
  /\ UNCHANGED <<config, left, count, vis, confs>>

group   == Head(groups)
setting == target.groups[group]
configs == IF group = "properties" THEN setting ELSE setting[Head(vis)]

GroupSkip ==
  /\ pc = "groups" /\ groups # <<>> /\ EmptyGroup(group, setting)
  /\ groups' = Tail(groups)
  /\ UNCHANGED <<config, pc, out, indent, left, count, vis, confs>>

GroupBegin ==
  /\ pc = "groups" /\ groups # <<>> /\ ~EmptyGroup(group, setting)
  /\ Write(Line(<<group, target.name>>)) /\ indent' = indent + 1
  /\ IF group = "properties" THEN pc' = "values" /\ vis' = <<>>
                             ELSE pc' = "visibility" /\ vis' = Visibilities
  /\ UNCHANGED <<config, left, count, groups, confs>>

VisibilitySkip ==
  /\ pc = "visibility" /\ vis # <<>> /\ Empty(configs) /\ vis' = Tail(vis)
  /\ UNCHANGED <<config, pc, out, indent, left, count, groups, confs>>

VisibilityBegin ==
  /\ pc = "visibility" /\ vis # <<>> /\ ~Empty(configs) /\ pc' = "values"
  /\ Write(Line(<<Head(vis)>>)) /\ indent' = indent + 1
  /\ UNCHANGED <<config, loopVars>>

\* Values for all configurations, and then those of each.
GlobalValues ==
  /\ pc = "values" /\ pc' = "configurations"
  /\ Write(Values(group, target.path, configs.global))
  /\ confs' = Sorted(configs.configurations)
  /\ UNCHANGED <<config, indent, left, count, groups, vis>>

\* Mutant: an empty configuration ends the list.
ConfigurationStops ==
  /\ pc = "configurations" /\ confs # <<>>
  /\ LET values == configs.configurations[Head(confs)] IN
       IF None(values) THEN UNCHANGED out /\ confs' = <<>>
       ELSE /\ Write(Line(<<"config", Head(confs)>>) \o In(Values(group, target.path, values))
                     \o Line(<<"endconfig">>))
            /\ confs' = Tail(confs)
  /\ UNCHANGED <<config, pc, indent, left, count, groups, vis>>

Configuration ==
  /\ pc = "configurations" /\ confs # <<>>
  /\ LET values == configs.configurations[Head(confs)] IN
       IF None(values) THEN UNCHANGED out
       ELSE Write(Line(<<"config", Head(confs)>>) \o In(Values(group, target.path, values))
                  \o Line(<<"endconfig">>))
  /\ confs' = Tail(confs)
  /\ UNCHANGED <<config, pc, indent, left, count, groups, vis>>

\* Mutant: the indentation of the visibility is kept.
VisibilityEndStays ==
  /\ pc = "configurations" /\ confs = <<>> /\ group # "properties"
  /\ pc' = "visibility" /\ vis' = Tail(vis)
  /\ UNCHANGED <<config, out, indent, left, count, groups, confs>>

VisibilityEnd ==
  /\ pc = "configurations" /\ confs = <<>> /\ group # "properties"
  /\ pc' = "visibility" /\ indent' = indent - 1 /\ vis' = Tail(vis)
  /\ UNCHANGED <<config, out, left, count, groups, confs>>

\* target_settings_end.
GroupEnd ==
  /\ IF pc = "configurations" THEN group = "properties" /\ confs = <<>>
                              ELSE pc = "visibility" /\ vis = <<>>
  /\ pc' = "groups" /\ indent' = indent - 1 /\ groups' = Tail(groups)
  /\ WriteAt(indent', Line(<<"endgroup">>))
  /\ UNCHANGED <<config, left, count, vis, confs>>

\* Mutant: the condition ends before the call.
TargetEndCallsAnyway ==
  /\ pc = "groups" /\ groups = <<>>
  /\ pc' = "targets" /\ indent' = indent - 1 /\ left' = Tail(left) /\ count' = count + 1
  /\ WriteAt(indent', Line(<<"endfunction">>) \o If(target.if_, <<>>) \o Line(<<"call", func_name>>))
  /\ UNCHANGED <<config, groups, vis, confs>>

TargetEnd ==
  /\ pc = "groups" /\ groups = <<>>
  /\ pc' = "targets" /\ indent' = indent - 1 /\ left' = Tail(left) /\ count' = count + 1
  /\ WriteAt(indent', Line(<<"endfunction">>) \o If(target.if_, Line(<<"call", func_name>>)))
  /\ UNCHANGED <<config, groups, vis, confs>>

Done ==
  /\ pc = "targets" /\ left = <<>> /\ pc' = "done"
  /\ UNCHANGED <<config, out, indent, loopVars>>

Next ==
  \/ Begin \/ TargetOptions \/ SetSettings \/ SystemPackages \/ ExternalPackage \/ ExternalDone
  \/ TargetBegin \/ GroupSkip \/ GroupBegin \/ VisibilitySkip \/ VisibilityBegin
  \/ GlobalValues \/ Configuration \/ VisibilityEnd \/ GroupEnd \/ TargetEnd
  \/ Done

Spec == Init /\ [][Next]_vars

-----------------------------------------------------------------------------
\* Properties.

\* How deep the blocks are that are open where write() is.
Level ==
  CASE pc = "groups"     -> 1
    [] pc = "visibility" -> 2
    [] pc \in {"values", "configurations"} -> IF group = "properties" THEN 2 ELSE 3
    [] OTHER             -> 0

\* The variables have their types, and the indentation is that of the open
\* blocks: it is never negative (the assertion in unindent()) and each block
\* ends where it began, whichever groups, visibilities and configurations are
\* skipped.
TypeOK ==
  /\ pc \in {"begin", "target_options", "settings", "packages", "external", "targets", "groups",
             "visibility", "values", "configurations", "done"}
  /\ indent \in Nat /\ indent = Level
  /\ count \in Nat
  /\ pc \in {"visibility", "values", "configurations"} => groups # <<>>
  /\ pc = "visibility" => group # "properties"
  /\ pc \in {"values", "configurations"} => group = "properties" \/ vis # <<>>

\* The text as CMake reads it: what a line closes, and what it opens.
Opening == {"function", "if", "else", "config"} \cup ToSet(Groups) \cup ToSet(Visibilities)
Closes(word) ==
  CASE word \in {"else", "endif"}  -> {"if", "else"}
    [] word = "endfunction"        -> {"function"}
    [] word = "endconfig"          -> {"config"}
    [] word = "endgroup"           -> ToSet(Groups)
    [] OTHER                       -> {}

\* The blocks open before a line, or "?" when it closes another than the last.
\* A visibility has no end of its own: the next one, or the end of the group,
\* ends it.
OpenAt(open, word) ==
  LET ended == IF open # <<>> /\ Last(open) \in ToSet(Visibilities)
                  /\ word \in {"endgroup"} \cup ToSet(Visibilities) THEN Front(open) ELSE open
  IN CASE Closes(word) = {} -> ended
       [] Closes(word) # {} /\ ended # <<>> /\ Last(ended) \in Closes(word) -> Front(ended)
       [] OTHER -> <<"?">>
OpenAfter(open, line) ==
  OpenAt(open, line.text[1]) \o IF line.text[1] \in Opening THEN <<line.text[1]>> ELSE <<>>

\* When the text is complete, every block in it is closed by its own end, and
\* every line is indented as deep as it is nested (indent(), unindent() over
\* all of write()).
WellNested ==
  pc = "done" =>
    LET open[n \in 0 .. Len(out)] == IF n = 0 THEN <<>> ELSE OpenAfter(open[n - 1], out[n])
    IN /\ \A i \in DOMAIN out : LET here == OpenAt(open[i - 1], out[i].text[1]) IN
            here # <<"?">> /\ out[i].indent = Len(here)
       /\ open[Len(out)] = <<>>

\* CMake runs the text from the top.  An option or a setting is there before
\* what it governs: options before settings, both before any package or
\* target, the variables of a target before its library; a target before its
\* aliases and values.  Every function is defined under its own name, before
\* its one call.
Word(i)     == out[i].text[1]
Before(these, those, inside) ==
  \A i, j \in inside : Word(i) \in those /\ Word(j) \in these => j < i
DefinedBeforeUsed ==
  pc = "done" =>
    LET top  == {i \in DOMAIN out : out[i].indent = 0}
        defs == {i \in DOMAIN out : Word(i) = "function"}
        body(f) == {i \in DOMAIN out : f < i /\ \A j \in f .. i : Word(j) # "endfunction"}
        add  == {"add_library", "add_executable"}
    IN /\ Before({"option"}, {"set"}, top)
       /\ Before({"option", "set"}, {"find_package", "if", "function", "call"}, top)
       /\ \A f \in defs :
            /\ Before({"set"}, {"add_subdirectory"} \cup add, body(f))
            /\ Before(add, {"add_alias"} \cup ToSet(Groups), body(f))
            /\ \E i \in DOMAIN out : /\ out[i].text = <<"call", out[f].text[2]>> /\ f < i
                                     /\ \A j \in DOMAIN out \ {i} : out[j].text # out[i].text
            /\ \A g \in defs \ {f} : out[g].text # out[f].text
=============================================================================

------------------------------ MODULE ConfigRead ------------------------------
(***************************************************************************)
(* config_read of src/libcgen/config.cpp: the configuration cgen.yml is    *)
(* validated, its includes are merged into it one after the other, each    *)
(* with the includes of its own before, and then the templates into its    *)
(* targets.  The recursion of node_merge_includes is a stack of frames.    *)
(* Whether the schema accepts a tree is left to the validator, miroir.     *)
(***************************************************************************)
EXTENDS Decode

CONSTANTS
  Roots,     \* contents of cgen.yml
  FileSets,  \* the other files: functions from paths to their contents
  \* node_merge, node_replace_parameters, undefined_params, node_trim_attributes
  \* of Preproc, on which the order of the steps does not depend.
  merge(_, _), replace_parameters(_, _), missing_parameters(_, _), trim_attributes(_)

\* What is a list in the schema is a list in every file.
IsConfig(node) ==
  /\ IsMap(node)
  /\ \A key \in DOMAIN node.of :
       key[1] \in {"includes", "packages", "targets"} => IsListNode(node.of[key])

ASSUME FilesAssumption ==
  /\ \A node \in Roots : IsConfig(node)
  /\ \A fs \in FileSets :
       "" \notin DOMAIN fs /\ \A path \in DOMAIN fs : IsConfig(fs[path])

VARIABLES
  root, files,  \* the input
  pc,           \* where config_read is
  stack,        \* the calls of node_merge_includes
  included,     \* included_paths
  errors,       \* the error list
  config,       \* the configuration after its includes
  target, todo, \* the target whose templates are merged, and those left
  visits        \* history: the included files with the parameters given

input     == <<root, files>>
templVars == <<target, todo>>
vars      == <<input, pc, stack, included, errors, config, templVars, visits>>

Error(type, source, subject) == [type |-> type, source |-> source, subject |-> subject]
Missing(type, source, names) == {Error(type, source, p) : p \in names}

Init ==
  /\ root \in Roots /\ files \in FileSets
  /\ pc = "version" /\ stack = <<>> /\ included = {} /\ errors = {}
  /\ config = Null /\ target = 0 /\ todo = <<>> /\ visits = <<>>

\* Whether the version, if any, is the supported one.
CheckVersion ==
  /\ pc = "version"
  /\ IF At(root, "version") \in {Undefined, Scalar(Lit("ours"))}
     THEN pc' = "validate" /\ UNCHANGED errors
     ELSE /\ pc' = "rejected"
          /\ errors' = {Error("ConfigUnsupportedVersion", "", At(root, "version").text.of)}
  /\ UNCHANGED <<input, stack, included, config, templVars, visits>>

\* The schema rejects the tree, before or after any preprocessing.
Invalid ==
  /\ pc \in {"validate", "validate_included", "validate_result"}
  /\ pc' = "rejected" /\ errors' = errors \cup {Error("ConfigValidationError", "", "")}
  /\ UNCHANGED <<input, stack, included, config, templVars, visits>>

-----------------------------------------------------------------------------
\* node_merge_includes.

Frame(path, node, undefined) ==
  [path |-> path, node |-> Wrap(node), todo |-> Uses(node, "includes"), undefined |-> undefined]

top  == Last(stack)
Pop  == [stack EXCEPT ![Len(stack)].todo = Tail(@)]

Valid ==
  /\ pc = "validate" /\ pc' = "includes"
  /\ stack' = <<Frame("", root, {})>>
  /\ UNCHANGED <<input, included, errors, config, templVars, visits>>

IncludeNotFound ==
  /\ pc = "includes" /\ top.todo # <<>> /\ Head(top.todo).name.of \notin DOMAIN files
  /\ errors' = errors \cup {Error("ConfigIncludeNotFound", "", Head(top.todo).name.of)}
  /\ stack' = Pop
  /\ UNCHANGED <<input, pc, included, config, templVars, visits>>

IncludeAgain ==
  /\ pc = "includes" /\ top.todo # <<>> /\ Head(top.todo).name.of \in included
  /\ stack' = Pop
  /\ UNCHANGED <<input, pc, included, errors, config, templVars, visits>>

\* What a call for an included file sees: its parameters are replaced, those
\* that are not given are collected.
Entered(use) == Frame(use.name.of, replace_parameters(files[use.name.of], use.params),
                      missing_parameters(files[use.name.of], use.params))

\* Mutants: the paths are not remembered (a fifth call overflows the stack);
\* all calls share one list of undefined parameters.
IncludeFileForgets ==
  /\ pc = "includes" /\ top.todo # <<>> /\ Len(stack) < 5
  /\ LET use == Head(top.todo) IN
       /\ use.name.of \in DOMAIN files \ included
       /\ visits' = Append(visits, use) /\ stack' = Append(Pop, Entered(use))
  /\ UNCHANGED <<input, pc, included, errors, config, templVars>>
IncludeFileShared ==
  /\ pc = "includes" /\ top.todo # <<>>
  /\ LET use == Head(top.todo) IN
       /\ use.name.of \in DOMAIN files \ included
       /\ included' = included \cup {use.name.of} /\ visits' = Append(visits, use)
       /\ stack' = Append([i \in DOMAIN stack |-> [Pop[i] EXCEPT !.undefined = {}]], Entered(use))
  /\ UNCHANGED <<input, pc, errors, config, templVars>>

\* The file is read, its parameters are replaced, and its own includes follow.
IncludeFile ==
  /\ pc = "includes" /\ top.todo # <<>>
  /\ LET use == Head(top.todo) IN
       /\ use.name.of \in DOMAIN files \ included
       /\ included' = included \cup {use.name.of} /\ visits' = Append(visits, use)
       /\ stack' = Append(Pop, Entered(use))
  /\ UNCHANGED <<input, pc, errors, config, templVars>>

\* Mutant: every field of an included file is merged.
IgnoredNothing(node) == node

\* An included file does not decide about these fields.
Ignored(node) ==
  Map([key \in DOMAIN node.of \ {<<name, "">> : name \in {"version", "project", "includes"}} |->
         node.of[key]])

\* Mutant: the file that includes is merged into the included one.
IncludeReturnSwapped ==
  /\ pc = "includes" /\ top.todo = <<>> /\ Len(stack) > 1
  /\ stack' = [Front(stack) EXCEPT ![Len(stack) - 1].node = merge(@, Ignored(top.node))]
  /\ errors' = errors \cup Missing("ConfigUndefinedIncludeParameter", top.path, top.undefined)
  /\ UNCHANGED <<input, pc, included, config, templVars, visits>>

\* The included file is merged into the file that includes it.
IncludeReturn ==
  /\ pc = "includes" /\ top.todo = <<>> /\ Len(stack) > 1
  /\ stack' = [Front(stack) EXCEPT ![Len(stack) - 1].node = merge(Ignored(top.node), @)]
  /\ errors' = errors \cup Missing("ConfigUndefinedIncludeParameter", top.path, top.undefined)
  /\ UNCHANGED <<input, pc, included, config, templVars, visits>>

IncludesDone ==
  /\ pc = "includes" /\ top.todo = <<>> /\ Len(stack) = 1
  /\ pc' = "validate_included" /\ config' = top.node /\ stack' = <<>>
  /\ UNCHANGED <<input, included, errors, templVars, visits>>

-----------------------------------------------------------------------------
\* node_merge_templates.

Targets == Items(config, "targets")

\* The next target, with the templates it names.
ToTarget(node, i) ==
  /\ target' = i
  /\ todo' = IF i <= Len(Items(node, "targets"))
             THEN Uses(Items(node, "targets")[i], "templates") ELSE <<>>

ValidIncluded ==
  /\ pc = "validate_included" /\ pc' = "templates"
  /\ config' = Wrap(config) /\ ToTarget(config, 1)
  /\ UNCHANGED <<input, stack, included, errors, visits>>

SetTarget(node) == [config EXCEPT !.of[<<"targets", "">>].items[target] = node]
Template(name)  == At(At(config, "templates"), name)

TemplateNotFound ==
  /\ pc = "templates" /\ todo # <<>> /\ Template(Head(todo).name.of) = Undefined
  /\ errors' = errors \cup {Error("ConfigTemplateNotFound", target, Head(todo).name.of)}
  /\ todo' = Tail(todo)
  /\ UNCHANGED <<input, pc, stack, included, config, target, visits>>

\* Mutant: parameters are replaced in the template, not in a clone of it.
MergeTemplateInPlace ==
  /\ pc = "templates" /\ todo # <<>> /\ Template(Head(todo).name.of) # Undefined
  /\ LET use == Head(todo)
         tpl == Template(use.name.of)
         new == replace_parameters(tpl, use.params)
     IN /\ config' = [SetTarget(merge(new, Targets[target]))
                        EXCEPT !.of[<<"templates", "">>].of[<<use.name.of, "">>] = new]
        /\ errors' = errors \cup Missing("ConfigUndefinedTemplateParameter", use.name.of,
                                         missing_parameters(tpl, use.params))
  /\ todo' = Tail(todo)
  /\ UNCHANGED <<input, pc, stack, included, target, visits>>

MergeTemplate ==
  /\ pc = "templates" /\ todo # <<>> /\ Template(Head(todo).name.of) # Undefined
  /\ LET use == Head(todo)
         tpl == Template(use.name.of)
     IN /\ config' = SetTarget(merge(replace_parameters(tpl, use.params), Targets[target]))
        /\ errors' = errors \cup Missing("ConfigUndefinedTemplateParameter", use.name.of,
                                         missing_parameters(tpl, use.params))
  /\ todo' = Tail(todo)
  /\ UNCHANGED <<input, pc, stack, included, target, visits>>

TargetDone ==
  /\ pc = "templates" /\ todo = <<>> /\ target <= Len(Targets)
  /\ config' = SetTarget(trim_attributes(Targets[target])) /\ ToTarget(config, target + 1)
  /\ UNCHANGED <<input, pc, stack, included, errors, visits>>

TemplatesDone ==
  /\ pc = "templates" /\ target > Len(Targets)
  /\ pc' = "validate_result" /\ config' = trim_attributes(config)
  /\ UNCHANGED <<input, stack, included, errors, templVars, visits>>

\* The configuration is decoded, or rejected for an error met on the way.
ValidResult ==
  /\ pc = "validate_result"
  /\ IF errors = {} THEN pc' = "accepted" /\ config' = Wrap(config)
                    ELSE pc' = "rejected" /\ UNCHANGED config
  /\ UNCHANGED <<input, stack, included, errors, templVars, visits>>

Next ==
  \/ CheckVersion \/ Invalid
  \/ Valid \/ IncludeNotFound \/ IncludeAgain \/ IncludeFile \/ IncludeReturn \/ IncludesDone
  \/ ValidIncluded \/ TemplateNotFound \/ MergeTemplate \/ TargetDone \/ TemplatesDone
  \/ ValidResult

Spec     == Init /\ [][Next]_vars
FairSpec == Spec /\ WF_vars(Next)

-----------------------------------------------------------------------------
\* What the theorems about packages and settings ask of the files, as the schema
\* has them.

\* A map of scalars, with attributes of some; a scalar, or such a map without
\* attributes; and a package, with its options.
PlainMap(map, attrs) ==
  IsMap(map) /\ \A key \in DOMAIN map.of : key[2] \in attrs /\ IsScalar(map.of[key])
IsPlain(node)   == IsScalar(node) \/ PlainMap(node, {""})
IsPackage(item) ==
  IsMap(item) /\ \A key \in DOMAIN item.of : key[2] = "" /\ IsPlain(item.of[key])

\* A list of packages, and a configuration that has one, without attribute.
PlainList(list) == IsSeq(list) /\ \A i \in DOMAIN list : IsPackage(list[i])
HasPlainPackages(node) ==
  /\ \A key \in DOMAIN node.of : key[1] = "packages" => key[2] = ""
  /\ PlainList(Items(node, "packages"))

PackagesArePlain ==
  /\ \A node \in Roots : HasPlainPackages(node)
  /\ \A fs \in FileSets : \A path \in DOMAIN fs : HasPlainPackages(fs[path])

SKey == <<"settings", "">>
HasPlainSettings(node, attrs) ==
  /\ \A key \in DOMAIN node.of : key[1] \in {"settings", "project"} => key[2] = ""
  /\ SKey \in DOMAIN node.of => PlainMap(node.of[SKey], attrs)

Both == {"", "REPLACE"}

\* In cgen.yml some settings may have REPLACE, in the other files none.
SettingsArePlain ==
  /\ \A node \in Roots :
       /\ HasPlainSettings(node, Both)
       /\ At(node, "project") = Undefined \/ IsPlain(At(node, "project"))
  /\ \A fs \in FileSets : \A path \in DOMAIN fs : HasPlainSettings(fs[path], {""})

-----------------------------------------------------------------------------
\* Properties.

Accepted == pc = "accepted"

\* Every file that was read, cgen.yml first, with its parameters replaced.
Read == <<root>> \o [i \in DOMAIN visits |->
                       replace_parameters(files[visits[i].name.of], visits[i].params)]

\* The variables have their types, the calls are nested in the order of their
\* includes, and no error was met in a configuration that is accepted.
TypeOK ==
  /\ root \in Roots /\ files \in FileSets
  /\ pc \in {"version", "validate", "includes", "validate_included", "templates",
             "validate_result", "accepted", "rejected"}
  /\ included \subseteq DOMAIN files
  /\ \A i \in DOMAIN stack : IF i = 1 THEN stack[i].path = "" ELSE stack[i].path \in included
  /\ \A i, j \in DOMAIN stack : stack[i].path = stack[j].path => i = j
  /\ target \in 0 .. Len(Items(config, "targets")) + 1
  /\ Accepted => errors = {}

\* Lists of included files follow those of the file that includes them, in the
\* order of the includes, a file's own before those of its includes (merging of
\* lists, the place of the recursive call).
PackagesInOrder ==
  Accepted =>
    Items(config, "packages") = FlattenSeq([i \in DOMAIN Read |-> Items(Read[i], "packages")])

\* A value is that of the last file that gives it, in the same order, unless
\* cgen.yml has it with REPLACE; the project is that of cgen.yml.
LastSettingWins ==
  Accepted =>
    LET given(s) == {i \in DOMAIN Read : Has(At(Read[i], "settings"), s)}
        own(s)   == node_find(At(root, "settings"), s)
    IN /\ At(config, "project") = At(root, "project")
       /\ \A s \in UNION {Names(At(Read[i], "settings")) :
                             i \in {j \in DOMAIN Read : Has(Read[j], "settings")}} :
            At(At(config, "settings"), s) =
              IF 1 \in given(s) /\ own(s).attr = "REPLACE" THEN own(s).node
              ELSE At(At(Read[Max(given(s))], "settings"), s)

\* What is accepted is complete: every file named by one that was read was
\* read, none twice, and each parameter that one needs was given (the error list
\* across the recursion, included_paths).
AcceptedIsComplete ==
  Accepted =>
    /\ \A i \in DOMAIN Read : \A use \in ToSet(Uses(Read[i], "includes")) :
         \E j \in DOMAIN visits : visits[j].name.of = use.name.of
    /\ \A i \in DOMAIN visits :
         missing_parameters(files[visits[i].name.of], visits[i].params) = {}
    /\ IsInjective([i \in DOMAIN visits |-> visits[i].name.of])

\* The sources a target should have: its own, then those of its templates in
\* their order, each with the parameters of this target; REPLACE in the target
\* keeps its own only, and in a template forgets what was before.  Only the
\* targets of the first file that has any and the templates of cgen.yml are
\* heard about REPLACE: the others are cloned without attributes.
SourcesOf(r, own) ==
  LET first(k)  == Has(Read[k], "targets") /\ \A j \in 1 .. k - 1 : ~ Has(Read[j], "targets")
      mine      == node_find(own, "sources")
      from(use) == CHOOSE k \in DOMAIN Read : At(At(Read[k], "templates"), use.name.of) # Undefined
      more(have, use) ==
        LET tpl    == At(At(Read[from(use)], "templates"), use.name.of)
            theirs == node_find(replace_parameters(tpl, use.params), "sources")
            list   == IF theirs.node = Undefined THEN <<>> ELSE theirs.node.items
        IN IF from(use) = 1 /\ theirs.attr = "REPLACE" THEN list ELSE have \o list
      items     == IF mine.node = Undefined THEN <<>> ELSE mine.node.items
  IN IF first(r) /\ mine.attr = "REPLACE" THEN items
     ELSE FoldLeft(more, items, Uses(own, "templates"))

\* Every template a target names is there, with all the parameters it needs.
\* Targets that share a template do not share its parameters, and the order of
\* files, targets and templates decides about the sources (the clone in
\* node_merge_templates, REPLACE in node_merge).
TargetSources ==
  Accepted =>
    /\ \A i \in DOMAIN Targets : \A use \in ToSet(Uses(Targets[i], "templates")) :
         LET in(r) == At(At(Read[r], "templates"), use.name.of)
         IN \E r \in DOMAIN Read : in(r) # Undefined /\ missing_parameters(in(r), use.params) = {}
    /\ [i \in DOMAIN Targets |-> Items(At(At(Targets[i], "sources"), "default"), "global")] =
       FlattenSeq([r \in DOMAIN Read |->
                     [i \in DOMAIN Items(Read[r], "targets") |->
                        SourcesOf(r, Items(Read[r], "targets")[i])]])

\* Reading ends, whatever includes what (included_paths).
ConfigTerminates == <>(pc \in {"accepted", "rejected"})

\* "by default everything is private": what a setting gives without a
\* visibility belongs to the target, for every configuration.
NothingDropped ==
  Accepted =>
    \A i \in DOMAIN Targets, setting \in Settings :
      LET default == Configs("expressions", At(At(Targets[i], setting), "default"))
          all     == as_visibility(Targets[i], setting)
      IN \A c \in DOMAIN default.configurations :
           \E visibility \in {"PRIVATE", "INTERFACE"} :
             /\ c \in DOMAIN all[visibility].configurations
             /\ ToSet(default.configurations[c]) \subseteq ToSet(all[visibility].configurations[c])
=============================================================================

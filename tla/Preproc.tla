------------------------------- MODULE Preproc -------------------------------
(***************************************************************************)
(* src/libcgen/preproc.cpp: how a tree is merged into another, and how     *)
(* parameters in it are replaced.  Trees has what is done to one node, and *)
(* here it is done to the nodes below it, too.                             *)
(***************************************************************************)
EXTENDS Trees

RECURSIVE node_clone(_)
node_clone(node) == ClonedNode(node, node_clone)

\* Mutant: the attribute of the destination is not looked at.
RECURSIVE MergeIgnoringReplace(_, _)
MergeIgnoringReplace(from, to) ==
  IF from.kind \in {"undefined", "null"} THEN to
  ELSE IF from.kind = "map" /\ to.kind = "map"
  THEN LET entry(name) ==
             LET f == node_find(from, name)
                 t == node_find(to, name)
             IN IF f.attr = "REPLACE" THEN node_clone(f.node)
                ELSE MergeIgnoringReplace(f.node, IF t.node = Undefined THEN Null ELSE t.node)
       IN Map([key \in DOMAIN to.of \cup {<<name, "">> : name \in Names(from) \ Names(to)} |->
                 IF key[1] \in Names(from) THEN entry(key[1]) ELSE to.of[key]])
  ELSE IF from.kind = "list" /\ to.kind = "list" THEN List(to.items \o from.items)
  ELSE node_clone(from)

RECURSIVE node_merge(_, _)
node_merge(from, to) == MergedNode(from, to, node_clone, node_merge)

RECURSIVE node_trim_attributes(_)
node_trim_attributes(node) == TrimmedNode(node, node_trim_attributes)

RECURSIVE node_replace_parameters(_, _)
node_replace_parameters(node, params) == ReplacedNode(node, params, node_replace_parameters)

\* The parameters of a node that are not given: undefined_params.
RECURSIVE undefined_params(_, _)
undefined_params(node, params) ==
  LET missing(text) == IF text.form = "ref" THEN {text.of} \ DOMAIN params ELSE {}
  IN CASE node.kind = "map"    -> UNION {undefined_params(node.of[key], params) : key \in DOMAIN node.of}
       [] node.kind = "list"   -> UNION {undefined_params(node.items[i], params) : i \in DOMAIN node.items}
       [] node.kind = "scalar" -> missing(node.text)
       [] node.kind = "use"    -> missing(node.name) \cup UNION {missing(node.params[p]) : p \in DOMAIN node.params}
       [] OTHER                -> {}
=============================================================================

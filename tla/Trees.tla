-------------------------------- MODULE Trees --------------------------------
(***************************************************************************)
(* The trees of a YAML configuration, as src/libcgen/preproc.cpp and       *)
(* config.cpp handle them.                                                 *)
(*                                                                         *)
(* A text is a literal, a parameter "$(p)" or an escaped one "$$(p)".  The *)
(* key of a map is a name with an attribute, "" or "REPLACE"; no map has   *)
(* two keys of the same name, and no value refers to another's node.       *)
(***************************************************************************)
EXTENDS Naturals, Sequences, SequencesExt

Lit(v) == [form |-> "lit", of |-> v]
Ref(p) == [form |-> "ref", of |-> p]
Esc(p) == [form |-> "esc", of |-> p]

Undefined    == [kind |-> "undefined"]
Null         == [kind |-> "null"]
Scalar(text) == [kind |-> "scalar", text |-> text]
Quoted(text) == [kind |-> "scalar", text |-> text, tag |-> "!"]
List(items)  == [kind |-> "list", items |-> items]
Map(of)      == [kind |-> "map", of |-> of]

\* An entry of a list of includes or templates: a path or name, a text too,
\* with its parameters.
Use(name, params) == [kind |-> "use", name |-> name, params |-> params]

Names(map)      == {key[1] : key \in DOMAIN map.of}
Has(node, name) == node.kind = "map" /\ name \in Names(node)
At(node, name)  == IF node.kind = "map" /\ <<name, "">> \in DOMAIN node.of
                   THEN node.of[<<name, "">>] ELSE Undefined

\* What the parser makes of a map, a list and a scalar.
AreKeys(keys) ==
  /\ \A key \in keys : key = <<key[1], key[2]>>
  /\ \A k, l \in keys : k[1] = l[1] => k = l
IsMap(node) ==
  /\ node = Map(node.of) /\ node.of = [key \in DOMAIN node.of |-> node.of[key]]
  /\ AreKeys(DOMAIN node.of)
IsSeq(s) == s \in Seq(ToSet(s))
IsListNode(node) == node = List(node.items) /\ IsSeq(node.items)
IsScalar(node) == node.kind = "scalar" /\ node \in {Scalar(node.text), Quoted(node.text)}

\* The node of a name, whatever its attribute.
node_find(map, name) ==
  IF name \in Names(map)
  THEN LET key == CHOOSE k \in DOMAIN map.of : k[1] = name
       IN [node |-> map.of[key], attr |-> key[2]]
  ELSE [node |-> Undefined, attr |-> ""]

\* What parameters make of a text.
string_replace_parameters(text, params) ==
  CASE text.form = "lit" -> text
    [] text.form = "esc" -> Ref(text.of)
    [] text.form = "ref" -> IF text.of \in DOMAIN params THEN params[text.of] ELSE Lit("")

-----------------------------------------------------------------------------
\* Merging and parameters, for one node: what the recursive calls make of the
\* nodes below it is a parameter.

\* A clone of a map has no attributes; in the maps of a list they stay.
ClonedNode(node, clone(_)) ==
  IF node.kind = "map"
  THEN Map([key \in {<<name, "">> : name \in Names(node)} |->
              clone(node_find(node, key[1]).node)])
  ELSE node

MergedNode(from, to, clone(_), merged(_, _)) ==
  IF from.kind \in {"undefined", "null"} THEN to
  ELSE IF from.kind = "map" /\ to.kind = "map"
  THEN LET entry(name) ==
             LET f == node_find(from, name)
                 t == node_find(to, name)
             IN CASE t.attr = "REPLACE" -> t.node
                  [] t.attr # "REPLACE" /\ f.attr = "REPLACE" -> clone(f.node)
                  [] OTHER -> merged(f.node, IF t.node = Undefined THEN Null ELSE t.node)
       IN Map([key \in DOMAIN to.of \cup {<<name, "">> : name \in Names(from) \ Names(to)} |->
                 IF key[1] \in Names(from) THEN entry(key[1]) ELSE to.of[key]])
  ELSE IF from.kind = "list" /\ to.kind = "list"
  THEN List(to.items \o [i \in DOMAIN from.items |-> clone(from.items[i])])
  ELSE clone(from)

\* Attributes are trimmed in maps, not in the maps of a list.
TrimmedNode(node, trimmed(_)) ==
  IF node.kind = "map"
  THEN Map([key \in {<<name, "">> : name \in Names(node)} |->
              trimmed(node_find(node, key[1]).node)])
  ELSE node

ReplacedNode(node, params, replaced(_, _)) ==
  CASE node.kind = "map"    -> Map([key \in DOMAIN node.of |-> replaced(node.of[key], params)])
    [] node.kind = "list"   -> List([i \in DOMAIN node.items |-> replaced(node.items[i], params)])
    [] node.kind = "scalar" -> [node EXCEPT !.text = string_replace_parameters(@, params)]
    [] node.kind = "use"    -> Use(string_replace_parameters(node.name, params),
                                   [p \in DOMAIN node.params |->
                                      string_replace_parameters(node.params[p], params)])
    [] OTHER                -> node

-----------------------------------------------------------------------------
\* Short forms of a setting are wrapped in place by each decoding.

node_wrap_configs(node) ==
  IF Has(node, "global") \/ Has(node, "configurations") THEN node
  ELSE Map([key \in {<<"global", "">>} |-> node])

node_wrap_visibility(node) ==
  IF \E name \in {"default", "public", "private", "interface"} : Has(node, name)
  THEN Map([key \in DOMAIN node.of |->
              IF key[1] \in {"default", "public", "private", "interface"}
              THEN node_wrap_configs(node.of[key]) ELSE node.of[key]])
  ELSE Map([key \in {<<"default", "">>} |-> node_wrap_configs(node)])
=============================================================================

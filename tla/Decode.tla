-------------------------------- MODULE Decode --------------------------------
(***************************************************************************)
(* The decoders of src/libcgen/config.cpp: what the tree of a YAML         *)
(* configuration comes to, and what decoding does to the tree.             *)
(***************************************************************************)
EXTENDS Trees

\* The settings of a target that are lists with visibilities.
Settings == {"sources", "includes", "pchs", "dependencies", "definitions",
             "compile_options", "link_options"}

WrapSettings(node) ==
  Map([key \in DOMAIN node.of |->
         CASE key[1] \in Settings     -> node_wrap_visibility(node.of[key])
           [] key[1] = "properties"   -> node_wrap_configs(node.of[key])
           [] OTHER                   -> node.of[key]])

Wrap(node) ==
  Map([key \in DOMAIN node.of |->
         CASE key = <<"templates", "">> ->
                Map([name \in DOMAIN node.of[key].of |-> WrapSettings(node.of[key].of[name])])
           [] key = <<"targets", "">> ->
                List([i \in DOMAIN node.of[key].items |-> WrapSettings(node.of[key].items[i])])
           [] OTHER -> node.of[key]])

Items(node, name) == IF At(node, name) = Undefined THEN <<>> ELSE At(node, name).items
Uses(node, name)  == Items(node, name)

-----------------------------------------------------------------------------
\* Values.  The text of a path is the sequence of its components.

AsString(node) == IF node = Undefined THEN "" ELSE node.text.of

AsExpression(node) ==
  [is_defined |-> node # Undefined,
   is_quoted  |-> "tag" \in DOMAIN node,
   value      |-> IF node = Undefined THEN <<>> ELSE node.text.of]

AsList(node, As(_)) == IF node = Undefined THEN <<>> ELSE [i \in DOMAIN node.items |-> As(node.items[i])]
AsMap(node, As(_))  == IF node = Undefined THEN <<>> ELSE [name \in Names(node) |-> As(At(node, name))]

AsExpressions(node)   == AsList(node, AsExpression)
AsExpressionMap(node) == AsMap(node, AsExpression)

AsDefinition(node) ==
  IF node.kind = "scalar" THEN [value |-> AsExpression(node), map |-> <<>>]
  ELSE [value |-> AsExpression(Undefined), map |-> AsExpressionMap(node)]
AsDefinitions(node) == AsList(node, AsDefinition)

AsOption(node) == AsExpression(At(node, "default"))

-----------------------------------------------------------------------------
\* What a setting of a target gives, and to whom.

\* The type of the values of a setting: one of three.
AsValues(type, node) ==
  CASE type = "expressions"    -> AsExpressions(node)
    [] type = "definitions"    -> AsDefinitions(node)
    [] type = "expression map" -> AsExpressionMap(node)

Configs(type, node) ==
  [is_defined     |-> node # Undefined,
   global         |-> AsValues(type, At(node, "global")),
   configurations |-> LET of == At(node, "configurations")
                      IN IF of = Undefined THEN <<>>
                         ELSE [name \in Names(of) |-> AsValues(type, At(of, name))]]

\* A configuration that is there already is not inserted.
move_merge(to, from) ==
  [is_defined     |-> to.is_defined \/ from.is_defined,
   global         |-> to.global \o from.global,
   configurations |-> to.configurations @@ from.configurations]

\* Mutant: the default of an interface library is private, too.
AlwaysPrivate(node, setting) ==
  LET type == IF setting = "definitions" THEN "definitions" ELSE "expressions"
      value(name) == Configs(type, At(At(node, setting), name))
  IN [PUBLIC |-> value("public"), INTERFACE |-> value("interface"),
      PRIVATE |-> move_merge(value("private"), value("default"))]

\* What is given without a visibility is for users of an interface library,
\* and otherwise for the target alone.
as_visibility(node, setting) ==
  LET type == IF setting = "definitions" THEN "definitions" ELSE "expressions"
      value(name) == Configs(type, At(At(node, setting), name))
      interface   == AsString(At(node, "type")) = "interface"
  IN [PUBLIC    |-> value("public"),
      PRIVATE   |-> IF interface THEN value("private")
                    ELSE move_merge(value("private"), value("default")),
      INTERFACE |-> IF interface THEN move_merge(value("interface"), value("default"))
                    ELSE value("interface")]

-----------------------------------------------------------------------------
\* The configuration.

AsPackage(node) ==
  LET type == IF At(node, "external") # Undefined THEN "external" ELSE "system" IN
  [type |-> type, name |-> AsString(At(node, type)), if_ |-> AsString(At(node, "if")),
   is_required |-> AsString(At(node, "required")) # "false",
   options |-> AsExpressionMap(At(node, "options"))]

AsTarget(node) ==
  LET type == IF At(node, "library") # Undefined THEN "library" ELSE "executable" IN
  [type |-> type, name |-> AsString(At(node, type)), if_ |-> AsString(At(node, "if")),
   library  |-> IF At(node, "type") = Undefined THEN "static" ELSE AsString(At(node, "type")),
   aliases  |-> IF type = "library" THEN AsList(At(node, "aliases"), AsString) ELSE <<>>,
   path     |-> AsExpression(At(node, "path")),
   options  |-> AsMap(At(node, "options"), AsOption),
   settings |-> AsExpressionMap(At(node, "settings")),
   groups   |-> [group \in Settings \cup {"properties"} |->
                   IF group = "properties" THEN Configs("expression map", At(node, group))
                   ELSE as_visibility(node, group)]]

AsConfig(tree) ==
  LET node == Wrap(tree) IN
  [project  |-> AsString(At(node, "project")),
   options  |-> AsMap(At(node, "options"), AsOption),
   settings |-> AsExpressionMap(At(node, "settings")),
   packages |-> AsList(At(node, "packages"), AsPackage),
   targets  |-> AsList(At(node, "targets"), AsTarget)]
=============================================================================

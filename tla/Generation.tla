------------------------------ MODULE Generation ------------------------------
(***************************************************************************)
(* From the tree of a YAML configuration, its includes and templates       *)
(* merged, to the text of CMakeLists.txt: the decoders of Decode give      *)
(* CodeGen its input, as config_read and cmake_write of src/cgen/main.cpp  *)
(* do.                                                                     *)
(***************************************************************************)
EXTENDS CodeGen, Decode

CONSTANT Trees

VARIABLE tree

ASSUME ConfigurationsAssumption == Configurations = {AsConfig(t) : t \in Trees}

GInit == /\ tree \in Trees
         /\ config = AsConfig(tree)
         /\ Init
GNext == Next /\ UNCHANGED tree
GSpec == GInit /\ [][GNext]_<<vars, tree>>

-----------------------------------------------------------------------------
\* What the tree says, whichever of the short and long forms it uses.

TreeVisibilities == {"default", "public", "private", "interface"}

Says(node) == [is_defined |-> TRUE, is_quoted |-> "tag" \in DOMAIN node, value |-> node.text.of]

\* A map as the keys and values in it.
Pairs(node) ==
  LET keys == SelectSeq(Order, LAMBDA name : name \in Names(node))
  IN [i \in DOMAIN keys |-> <<"key", keys[i], Says(At(node, keys[i]))>>]

\* A relative path is below the directory of the target; a path is quoted if
\* either is.
Located(t, g, value) ==
  IF At(t, "path") = Undefined \/ g \notin {"sources", "includes", "pchs"} THEN value
  ELSE [is_defined |-> TRUE, is_quoted |-> value.is_quoted \/ Says(At(t, "path")).is_quoted,
        value |-> IF Head(value.value) = "/" THEN value.value
                  ELSE Says(At(t, "path")).value \o value.value]

Each(t, g, node) ==
  CASE node.kind = "undefined" -> <<>>
    [] node.kind = "map"       -> Pairs(node)
    [] node.kind = "scalar"    -> <<<<"value", Located(t, g, Says(node))>>>>
    [] node.kind = "list"      -> FlattenSeq([i \in DOMAIN node.items |->
         IF node.items[i].kind = "map" THEN Pairs(node.items[i])
         ELSE <<<<"value", Located(t, g, Says(node.items[i]))>>>>])

\* For a configuration, or for all of them ("").
GivenIn(t, g, node, conf) ==
  IF Has(node, "global") \/ Has(node, "configurations")
  THEN Each(t, g, IF conf = "" THEN At(node, "global") ELSE At(At(node, "configurations"), conf))
  ELSE IF conf = "" THEN Each(t, g, node) ELSE <<>>

\* "By default everything is private", and for an interface library everything
\* is interface.
Default(t) == IF AsString(At(t, "type")) = "interface" THEN "INTERFACE" ELSE "PRIVATE"
NameOf     == [PUBLIC |-> "public", INTERFACE |-> "interface", PRIVATE |-> "private"]

Given(t, g, visibility, conf) ==
  LET node == At(t, g)
      split == \E name \in TreeVisibilities : Has(node, name)
      of(name) == IF split THEN At(node, name) ELSE IF name = "default" THEN node ELSE Undefined
  IN IF g = "properties" THEN GivenIn(t, g, node, conf)
     ELSE GivenIn(t, g, of(NameOf[visibility]), conf)
          \o (IF visibility = Default(t) THEN GivenIn(t, g, of("default"), conf) ELSE <<>>)

-----------------------------------------------------------------------------
\* What the text says, read from the top.

LastOf(words, i) == Max({0} \cup {j \in 1 .. i - 1 : Word(j) \in words})

\* The function, group, visibility and configuration a value stands in.
Place(i) ==
  LET g == LastOf(ToSet(Groups), i)
      v == LastOf(ToSet(Visibilities), i)
      c == LastOf({"config"}, i)
  IN <<out[LastOf({"function"}, i)].text[2], Word(g), IF v > g THEN Word(v) ELSE "",
       IF c > g /\ c > LastOf({"endconfig"}, i) THEN out[c].text[2] ELSE "">>

Confs == {""} \cup ToSet(Order)

\* The values of each target are those the tree gives it: none is lost, made
\* up, given to another visibility or configuration or reordered, and each path
\* is below the target's, by whichever of the forms of a setting it is written
\* (node_wrap_visibility, as_visibility, visibility(), configs()).
ValuesOfTree ==
  pc = "done" =>
    LET at == [i \in {j \in DOMAIN out : Word(j) \in {"value", "key"}} |-> Place(i)]
        found(place) ==
          LET is == SelectSeq([i \in DOMAIN out |-> i], LAMBDA i : i \in DOMAIN at /\ at[i] = place)
          IN [k \in DOMAIN is |-> out[is[k]].text]
        targets == Items(tree, "targets")
    IN \A k \in DOMAIN targets, g \in ToSet(Groups), c \in Confs :
         \A v \in IF g = "properties" THEN {""} ELSE ToSet(Visibilities) :
           found(<<<<"cgen_target", k - 1>>, g, v, c>>) = Given(targets[k], g, v, c)

\* A package or target takes effect under its own condition only, with its own
\* options or variables, which end with it: the call of its function is as
\* conditional as the tree says, and so is the search for a system package
\* (if_begin, if_end, function_begin, function_call).
ConditionsOfTree ==
  pc = "done" =>
    LET externals == SelectSeq(Items(tree, "packages"), LAMBDA p : Has(p, "external"))
        systems   == SelectSeq(Items(tree, "packages"), LAMBDA p : Has(p, "system"))
        targets   == Items(tree, "targets")
        line(text) == CHOOSE i \in DOMAIN out : out[i].text = text
        cond(i) == IF out[i].indent = 0 THEN "" ELSE out[i - 1].text[2]
        sets(f) == {out[i].text : i \in {j \in DOMAIN out : /\ Word(j) = "set" /\ out[j].indent > 0
                                                            /\ line(<<"function", f>>) = LastOf({"function"}, j)}}
        own(f, node, name, force) ==
          sets(f) = {<<"set", x, Says(At(At(node, name), x)), force>> :
                       x \in IF Has(node, name) THEN Names(At(node, name)) ELSE {}}
    IN /\ \A k \in DOMAIN externals : LET f == <<"cgen_package", k - 1>> IN
            /\ cond(line(<<"call", f>>)) = AsString(At(externals[k], "if"))
            /\ own(f, externals[k], "options", TRUE)
            /\ LastOf({"function"}, line(<<"add_subdirectory", AsString(At(externals[k], "external"))>>))
               = line(<<"function", f>>)
       /\ \A k \in DOMAIN targets : LET f == <<"cgen_target", k - 1>> IN
            /\ cond(line(<<"call", f>>)) = AsString(At(targets[k], "if"))
            /\ own(f, targets[k], "settings", FALSE)
       /\ LET finds == SelectSeq([i \in DOMAIN out |-> i], LAMBDA i : Word(i) = "find_package")
          IN [k \in DOMAIN finds |-> <<out[finds[k]].text[2], cond(finds[k])>>] =
             [k \in DOMAIN systems |-> <<AsString(At(systems[k], "system")), AsString(At(systems[k], "if"))>>]
=============================================================================

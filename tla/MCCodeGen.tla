---- MODULE MCCodeGen ----
(***************************************************************************)
(* Trees that use one group of settings in all its forms, and a few with   *)
(* packages, options and several targets.                                  *)
(***************************************************************************)
EXTENDS Generation

K(name) == <<name, "">>
Name(x) == Scalar(Lit(x))
Val(x)  == Scalar(Lit(<<x>>))
Quo(x)  == Quoted(Lit(<<x>>))
Abs(x)  == Scalar(Lit(<<"/", x>>))

MCOrder == <<"A", "B", "Debug", "Release", "app", "lib">>

\* Values of a list, of definitions and of properties.
Vals(g, x) ==
  CASE g = "definitions" -> List(<<Val(x), Map(K("B") :> Quo("b") @@ K("A") :> Val("a"))>>)
    [] g = "properties"  -> Map(K("B") :> Val("b") @@ K("A") :> Quo(x))
    [] OTHER                 -> List(<<Val(x), Abs("y"), Quo("z")>>)
NoVals(g) == IF g = "properties" THEN Map(<<>>) ELSE List(<<>>)

\* The same for all configurations, or for one of two, the other empty.
Forms(g, x) == {
  Vals(g, x),
  Map(K("global") :> Vals(g, x)),
  Map(K("configurations") :> Map(K("Debug") :> NoVals(g) @@ K("Release") :> Vals(g, x))),
  Map(K("global") :> Vals(g, x)
      @@ K("configurations") :> Map(K("Release") :> Vals(g, x) @@ K("Debug") :> Vals(g, "w"))) }

\* No configuration is given both by default and for the visibility that
\* default comes to.
Plain(g, x) == Map(K("global") :> Vals(g, x))
Split(g) ==
  { Map([key \in {K(v) : v \in vs} |-> IF key = K("default") THEN Plain(g, "d") ELSE form]) :
      vs \in SUBSET TreeVisibilities \ {{}}, form \in Forms(g, "v") }

Library(fields) == Map(K("library") :> Name("lib") @@ fields)
One(t) == Map(K("project") :> Name("p") @@ K("targets") :> List(<<t>>))

Kinds == { <<>>, K("type") :> Name("interface"), K("path") :> Val("src"),
           K("path") :> Quo("src") @@ K("if") :> Name("COND") }

Sources  == { One(Library(kind @@ K("sources") :> node)) : kind \in Kinds, node \in Forms("sources", "v") \cup Split("sources") }
Defs     == { One(Library(kind @@ K("definitions") :> node)) :
                kind \in {<<>>, K("type") :> Name("interface")}, node \in Forms("definitions", "v") \cup Split("definitions") }
Props    == { One(Library(K("properties") :> node)) : node \in Forms("properties", "v") \cup {NoVals("properties")} }

\* Two targets of several groups, packages of both types, options everywhere.
Opt(x)    == Map(K("default") :> Val(x) @@ K("description") :> Name("text"))
Opts(xs)  == Map([key \in {K(x) : x \in xs} |-> Opt(key[1])])
Vars(xs)  == Map([key \in {K(x) : x \in xs} |-> Val(key[1])])
Package(type, name, fields) == Map(K(type) :> Name(name) @@ fields)
Packages == <<Package("external", "e1", K("options") :> Vars({"B", "A"}) @@ K("if") :> Name("COND")),
              Package("system", "s1", K("required") :> Name("false")),
              Package("external", "e2", <<>>),
              Package("system", "s2", K("if") :> Name("OTHER"))>>
Several(groups_) ==
  Library(K("aliases") :> List(<<Name("a1"), Name("a2")>>) @@ K("settings") :> Vars({"A", "B"})
          @@ K("options") :> Opts({"A"}) @@ K("path") :> Val("src")
          @@ [key \in {K(g) : g \in groups_} |->
                IF key[1] = "properties" THEN Vals("properties", "v")
                ELSE Map(K("public") :> Vals(key[1], "u") @@ K("default") :> Vals(key[1], "v"))])
Program == Map(K("executable") :> Name("app") @@ K("if") :> Name("COND") @@ K("options") :> Opts({"B"})
               @@ K("settings") :> Vars({"B"}) @@ K("dependencies") :> List(<<Val("lib")>>)
               @@ K("sources") :> List(<<Val("main")>>))
Whole(targets, packages) ==
  Map(K("project") :> Name("p") @@ K("options") :> Opts({"A", "B"}) @@ K("settings") :> Vars({"A", "B"})
      @@ K("packages") :> List(packages) @@ K("targets") :> List(targets))
Wholes == { Whole(ts, ps) : ts \in {<<>>, <<Program>>, <<Several(ToSet(Groups)), Program>>,
                                    <<Program, Several({"properties", "pchs", "link_options"})>>},
                            ps \in {<<>>, Packages, <<Packages[3], Packages[1]>>} }

MCTrees == Sources \cup Defs \cup Props \cup Wholes
MCConfigurations == { AsConfig(t) : t \in MCTrees }
====

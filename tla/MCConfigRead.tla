---- MODULE MCConfigRead ----
(***************************************************************************)
(* Configurations of a few fields each, over the files a, b and c, that    *)
(* include each other, share templates and leave parameters out.           *)
(***************************************************************************)
EXTENDS ConfigRead, Preproc

K(name) == <<name, "">>
R(name) == <<name, "REPLACE">>
Texts(values) == List([i \in DOMAIN values |-> Scalar(values[i])])
Packages(values) == List([i \in DOMAIN values |-> Map(K("external") :> Scalar(values[i]))])
Fields(packages, includes) ==
  (K("packages") :> Packages(packages)) @@ (K("includes") :> List(includes))

Plain(name)    == Use(Lit(name), <<>>)
With(name, v)  == Use(Lit(name), [p |-> v])
Settings1(key, v) == K("settings") :> Map(key :> Scalar(v))

\* Files: alone, in a cycle, with a parameter passed on, with targets.
FileA == Map(Fields(<<Lit("xa")>>, <<Plain("b")>>) @@ Settings1(K("s"), Lit("a"))
             @@ (K("project") :> Map(K("name") :> Scalar(Lit("other")))))
FileB == Map(Fields(<<Lit("xb")>>, <<Plain("a")>>) @@ Settings1(K("s"), Lit("b")))
FileP == Map(Fields(<<Ref("p")>>, <<With("b", Ref("p")), Use(Ref("p"), <<>>)>>)
             @@ Settings1(K("s"), Ref("p")))
FileQ == Map(Fields(<<Ref("p")>>, <<Plain("b")>>))
FileE == Map(Fields(<<Esc("p")>>, <<>>)
             @@ (K("templates") :> Map(K("u") :> Map(R("sources") :> Texts(<<Esc("p")>>))))
             @@ (K("targets") :> List(<<Map((R("sources") :> Texts(<<Lit("e")>>))
                                            @@ (K("templates") :> List(<<With("u", Lit("1"))>>)))>>)))

Files == {
  "a" :> FileA @@ "b" :> FileB @@ "c" :> FileE,
  "a" :> FileP @@ "b" :> FileB @@ "c" :> FileE,
  "a" :> FileQ @@ "b" :> FileB @@ "c" :> FileE,
  "a" :> FileP @@ "b" :> FileP @@ "c" :> FileA,
  "a" :> FileE @@ "b" :> FileA @@ "c" :> FileE }

Includes == { <<>>, <<Plain("a")>>, <<Plain("a"), Plain("b")>>, <<Plain("c"), With("a", Lit("c"))>>,
              <<With("b", Lit("a")), Plain("a")>>, <<Plain("d")>>, <<With("a", Lit("b"))>> }

Owns == { <<>>, Settings1(K("s"), Lit("r")), Settings1(R("s"), Lit("r")) }

\* No two files give different templates the same name.  Two targets with one
\* template, with other parameters or none, and a target
\* that keeps its own sources.
TemplateT(key) == K("templates") :> Map(K("t") :> Map(key :> Texts(<<Ref("p")>>)))
Target(key, uses) ==
  Map((key :> Texts(<<Lit("own")>>)) @@ (K("templates") :> List(uses)))
Targetses == {
  <<>>,
  TemplateT(K("sources")) @@ (K("targets") :>
    List(<<Target(K("sources"), <<With("t", Lit("1"))>>), Target(K("sources"), <<With("t", Lit("2"))>>)>>)),
  TemplateT(R("sources")) @@ (K("targets") :>
    List(<<Target(R("sources"), <<With("t", Lit("1"))>>),
           Target(K("sources"), <<With("t", Lit("2")), With("t", Lit("3"))>>)>>)),
  TemplateT(K("sources")) @@ (K("targets") :> List(<<Target(K("sources"), <<Plain("t")>>)>>)),
  K("targets") :> List(<<Target(K("sources"), <<With("u", Lit("4"))>>)>>) }

Root(includes, own, targets) ==
  Map((K("project") :> Scalar(Lit("ours"))) @@ Fields(<<Lit("x")>>, includes) @@ own @@ targets)

MCRoots == { Root(i, o, t) : i \in Includes, o \in Owns, t \in Targetses }
  \cup { Map(K("version") :> Scalar(Lit(v))) : v \in {"ours", "theirs"} }

\* A target and its template give options for configurations.
Debug(v) == Map(K("configurations") :> Map(K("Debug") :> Texts(<<v>>)))
Options(node) == Map(K("compile_options") :> node)
MCSplit == { Map((K("project") :> Scalar(Lit("ours")))
                 @@ (K("templates") :> Map(K("t") :> Options(t)))
                 @@ (K("targets") :> List(<<Map((K("compile_options") :> own)
                                                @@ (K("templates") :> List(<<With("t", Lit("1"))>>)))>>))) :
             t \in {Debug(Ref("p")), Map(K("private") :> Debug(Ref("p")))}, own \in {Debug(Lit("own"))} }

\* The files are such as the theorems about packages and settings are about.
ASSUME PlainAssumption == PackagesArePlain /\ SettingsArePlain
====

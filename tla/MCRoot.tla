------------------------------- MODULE MCRoot -------------------------------
(* A small instance of RootAgent. *)
EXTENDS RootAgent, TLC

W(word) == [word |-> word, upper |-> FALSE]
U(word) == [word |-> word, upper |-> TRUE]
NoDefaults == [iterations |-> Absent, require |-> Absent, specialists |-> Absent]
Q(name, names, needs, defaults) ==
  [key |-> name, aliases |-> names, needs |-> needs, defaults |-> defaults]
P(name, names, needs) == Q(name, names, needs, NoDefaults)

AssistantName == W("assistant")
AllWords == {"assistant", "team", "mine", "short", "other", "third", "late"}
AllNeeds == {{}, {"route_dispatch", "plan_execute"}, {"route_dispatch", "own"}}
Dispatch == [NoDefaults EXCEPT !.specialists = DefaultRoster]
Refine == [NoDefaults EXCEPT !.iterations = 5, !.require = TRUE]
AllDefaults == {NoDefaults, Dispatch, Refine}
TwoBuiltins == <<Q(W("assistant"), <<>>, {}, Dispatch),
                 Q(W("team"), <<>>, {"route_dispatch", "plan_execute"}, Refine)>>

Own == {"route_dispatch", "own"}
File(state, entries) == [file |-> state, entries |-> entries]
Good(p) == [kind |-> "custom", preset |-> p]
Junk == [kind |-> "fault", preset |-> P(W("assistant"), <<>>, {})]
Loads(ps) == File("ok", [i \in DOMAIN ps |-> Good(ps[i])])

(* In order: one preset under a mixed-case name; its alias again, and a    *)
(* built-in's key; an alias that hides a built-in; one that is refused     *)
(* after hiding it; two presets of which the first is skipped; a fault     *)
(* after a preset; a file outside the allowlist.                           *)
MixedModules ==
  {Loads(<<P(U("mine"), <<W("short")>>, Own)>>),
   Loads(<<P(W("short"), <<>>, {}), P(W("assistant"), <<W("mine")>>, Own)>>),
   Loads(<<P(W("short"), <<U("team")>>, {})>>),
   Loads(<<P(W("other"), <<W("team"), W("mine"), W("short")>>, {})>>),
   Loads(<<P(W("team"), <<>>, Own), P(W("mine"), <<>>, {})>>),
   File("ok", <<Good(P(W("mine"), <<W("assistant")>>, {})), Junk>>),
   File("forbidden", <<>>)}

(* An alias; a preset that is refused for it, and leaves an alias of its   *)
(* own behind; and a preset that takes the refused one's name as an alias. *)
StaleModules ==
  {Loads(<<P(W("mine"), <<W("short")>>, {})>>),
   Loads(<<P(W("other"), <<W("third"), W("short")>>, {})>>),
   Loads(<<P(W("late"), <<W("other")>>, {})>>)}

AllModules == MixedModules \union StaleModules

Fn(name, callable) == [name |-> name, callable |-> callable]
NoFunctions == File("ok", <<>>)
AllFunctionModules ==
  {File("ok", <<Fn("route_dispatch", TRUE), Fn("own", TRUE), Fn("plan_execute", TRUE)>>),
   File("ok", <<Fn("plan_execute", FALSE), Fn("own", TRUE)>>)}
-----------------------------------------------------------------------------
(* A laptop on which nothing is set, and a file that says nothing but the  *)
(* use case.                                                               *)
NoCode(v) == [n \in CodeFields |-> v]
Bare ==
  [use_case |-> Unset, model |-> Unset, tools |-> Unset, iterations |-> Unset,
   specialists |-> Unset, code |-> NoCode(Unset), deployment |-> "local",
   issuer |-> FALSE, auth_disabled |-> TRUE, integration |-> FALSE, libraries |-> Managed]
Says(use_case) ==
  [use_case |-> use_case, provider |-> "google", model |-> Absent, enabled |-> Absent,
   nested |-> <<>>, iterations |-> Absent, require |-> Absent, specialists |-> Absent,
   code |-> NoCode(Empty), instructions |-> "value", schema |-> Absent,
   roles |-> <<>>, graph |-> NoGraph]
YAML(says) == [fault |-> "none", says |-> says]
Unreadable == [fault |-> "early", says |-> Says(W("team"))]
Malformed == [fault |-> "late", says |-> Says(W("team"))]

Deployment(e, files, modules, fns, daemons) ==
  [environ |-> e, files |-> files, modules |-> modules, functions |-> fns,
   daemons |-> daemons]

(* Modules come and go, the configuration stays.                           *)
GraphFile == YAML([Says(W("assistant")) EXCEPT !.graph = Own])
WithModules ==
  {Deployment([Bare EXCEPT !.use_case = u], files, MixedModules, fns, {FALSE}) :
     u \in {U("short"), W("team")}, files \in {{NoFile}, {GraphFile}},
     fns \in AllFunctionModules}
  \union {Deployment([Bare EXCEPT !.use_case = W("third")], {NoFile}, StaleModules, NoFunctions,
                     {FALSE})}

(* The configuration varies: first where code runs, then the other options.*)
CodeTools == {"search", "code_execution"}
Code(named, image, vertex) ==
  [NoCode(Unset) EXCEPT !["strategy"] = named, !["docker_image"] = image,
                        !["vertex_ai"] = vertex]
CodeEnvirons ==
  {[Bare EXCEPT !.tools = tools, !.model = model, !.deployment = d, !.issuer = TRUE,
                !.auth_disabled = FALSE, !.code = Code(named, image, vertex)] :
     tools \in {Unset, CodeTools}, model \in {Unset, "openai/gpt"}, d \in {"local", "production", Unset},
     named \in {Unset, "docker_container", "gemini_built_in", "unsafe_local", "typo"},
     image \in {Unset, "floating"}, vertex \in {Unset, "id"}}
FileCode == [NoCode(Empty) EXCEPT !["strategy"] = "unsafe_local", !["gke"] = "kubeconfig",
                                  !["docker_image"] = "floating"]
CodeFile == YAML([Says(W("assistant")) EXCEPT !.code = FileCode, !.model = "default"])
OtherFile == YAML([Says(U("team")) EXCEPT !.provider = "openai", !.model = Empty,
                                          !.code = [FileCode EXCEPT !["strategy"] = Empty]])
BrokenGraph == YAML([Says(W("assistant")) EXCEPT !.graph = Own, !.enabled = {"code_execution"}])
CodeFiles == {{NoFile}, {CodeFile, OtherFile, BrokenGraph}}

OptionEnvirons ==
  {[Bare EXCEPT !.use_case = u, !.tools = tools, !.iterations = times, !.specialists = names,
                !.model = model] :
     u \in {Unset, Empty, W("team")}, tools \in {Unset, Empty, {"runtime"}, {"typo"}},
     times \in {Unset, 3, 4}, names \in {Unset, Empty, {"billing"}},
     model \in {Unset, Empty, "gemini-1"}}
RichFile ==
  YAML([Says(W("assistant")) EXCEPT
          !.schema = "GenericAgentResponse", !.nested = [n \in {"mcp", "skills"} |-> n = "skills"],
          !.require = TRUE, !.iterations = 4, !.instructions = "file",
          !.roles = [r \in {"billing", "risk"} |->
                       [model |-> Absent, tools |-> IF r = "risk" THEN Absent ELSE {"knowledge"}]]])
RolesFile ==
  YAML([Says(W("assistant")) EXCEPT !.enabled = {"code_execution"}, !.iterations = 3,
          !.roles = [r \in {"risk"} |-> [model |-> "openai/gpt", tools |-> {"typo"}]]])
OtherSchema == YAML([Says(U("assistant")) EXCEPT !.schema = "other"])
OptionFiles == {{NoFile}, {RichFile, RolesFile, Malformed, Unreadable, OtherSchema}}

AllDeployments ==
  WithModules
  \union {Deployment(e, files, {}, NoFunctions, BOOLEAN) : e \in CodeEnvirons, files \in CodeFiles}
  \union {Deployment(e, files, {}, NoFunctions, {TRUE}) : e \in OptionEnvirons, files \in OptionFiles}

(* What operators have written in so many words: a variable that compose   *)
(* passes on empty, a bound that happens to be the usual one.              *)
ExplicitDeployments ==
  {Deployment([Bare EXCEPT !.tools = CodeTools, !.code = Code(Empty, Unset, Unset)],
              {CodeFile}, {}, NoFunctions, {TRUE}),
   Deployment([Bare EXCEPT !.use_case = W("team"), !.iterations = 3],
              {YAML(Says(W("team")))}, {}, NoFunctions, {TRUE})}
=============================================================================

----------------------------- MODULE RootAgent ------------------------------
(***************************************************************************)
(* The agent entry point (agent.py): get_root_agent resolves the            *)
(* configuration, builds the runtime and the root it names, and keeps it.   *)
(* An exception leaves the root unset, and the next request for it starts   *)
(* again: with the registry, the file and the Docker daemon as they then    *)
(* are, and with what the failed attempt has left in the module's globals.  *)
(* The environment does not change while the process runs.                  *)
(***************************************************************************)
EXTENDS UseCaseRegistry, Configuration

CONSTANTS Deployments,  \* an environment, and what may change around it
          NoFile,       \* no AGENT_CONFIG_FILE
          NoRoot,
          NoStrategy    \* _code_execution_resolution = None

BuiltinFunctions == {"route_dispatch", "aggregate_perspectives"}
Reserved == BuiltinFunctions \union {"plan_execute"}

(* What a file may say: the fields of an AgentConfig.  "Not set" is what   *)
(* variables are, not what files say.                                      *)
Fields == {"use_case", "provider", "model", "enabled", "nested", "iterations", "require",
           "specialists", "code", "instructions", "schema", "roles", "graph"}
Sayable(says) ==
  Fields \subseteq DOMAIN says /\ says.use_case \in Name /\ says.model # Unset

ASSUME RootAssumption ==
  /\ Assistant \in Name
  /\ NoStrategy \notin Strategies \union {"unavailable"}
  /\ \A d \in Deployments :
       /\ d.modules \subseteq Modules /\ d.environ.use_case \in Name \union {Unset, Empty}
       /\ \A f \in d.files \ {NoFile} : Sayable(f.says)

VARIABLES
  deployment, \* environ; modules, files and daemon states to come; functions (fixed)
  file,       \* the configuration file as it is now, or NoFile
  daemon,     \* does the Docker daemon answer?
  pc,         \* where get_root_agent is
  config,     \* the AgentConfig it works on
  strategy,   \* what the probes have found
  resolution, \* _code_execution_resolution
  recorded,   \* _resolved_runtime_snapshot
  root        \* _root_agent

around == <<deployment, file, daemon>>
building == <<pc, config, strategy>>
reported == <<resolution, recorded>>
allvars == <<vars, around, building, reported, root>>

environ == deployment.environ
functions == deployment.functions

Nothing == [use_case |-> NoRoot, model |-> NoRoot, tools |-> {}]

RootInit ==
  /\ Init
  /\ deployment \in Deployments
  /\ Imports(environ)
  /\ env \in deployment.modules \union {NoModule}
  /\ file \in deployment.files
  /\ daemon \in deployment.daemons
  /\ pc = "idle"
  /\ config = NoRoot
  /\ strategy = NoStrategy
  /\ resolution = NoStrategy
  /\ recorded = Nothing
  /\ root = NoRoot
-----------------------------------------------------------------------------
(* custom_function_registry: the built-in functions and the entries before *)
(* the first that is not a named callable, unless their names are reserved.*)
(* The failure itself is swallowed.                                        *)
Usables ==
  {i \in DOMAIN functions.entries :
     functions.file = "ok" /\ \A j \in 1..i : functions.entries[j].callable}
Custom == {functions.entries[i].name : i \in Usables} \ Reserved

(* _resolve_function: plan_execute and the loop counter are bound by the   *)
(* compiler, all others must be in the registry.                           *)
Compiles(needs) == needs \subseteq Custom \union Reserved
-----------------------------------------------------------------------------
(* What changes around the process; nothing of it is read once the root is *)
(* there.                                                                  *)
EditFile ==
  /\ pc = "idle" /\ root = NoRoot
  /\ file' \in deployment.files \ {file}
  /\ UNCHANGED <<vars, deployment, daemon, building, reported, root>>

DaemonTurns ==
  /\ root = NoRoot
  /\ daemon' \in deployment.daemons \ {daemon}
  /\ UNCHANGED <<vars, deployment, file, building, reported, root>>

(* Somebody loads a module by hand.                                        *)
LoadByHand(m) ==
  /\ pc = "idle" /\ m \in deployment.modules
  /\ LoadModule(m)
  /\ UNCHANGED <<around, building, reported, root>>

RegistryProceeds == Proceeds /\ UNCHANGED <<around, building, reported, root>>
-----------------------------------------------------------------------------
Fails == pc' = "idle" /\ UNCHANGED <<config, strategy, root>>
Goes(next) == pc' = next /\ UNCHANGED <<config, strategy, root>>

(* A request for the root agent ends at once if there is one, or if the    *)
(* file is missing, is no YAML or has unresolved placeholders or unknown   *)
(* sections; otherwise the file's use case is looked up.                   *)
GetAtOnce ==
  /\ pc = "idle" /\ call = Idle
  /\ root = NoRoot => file # NoFile /\ file.fault = "early"
  /\ UNCHANGED allvars

GetRootAgent ==
  /\ pc = "idle" /\ root = NoRoot
  /\ file # NoFile => file.fault # "early"
  /\ Ask(NoModule)
  /\ pc' = "config"
  /\ UNCHANGED <<around, config, strategy, reported, root>>

RegistryRaises == Raises /\ Fails /\ UNCHANGED <<around, reported>>

(* _resolve_use_case_key: unknown names pass, for the build to refuse.     *)
KeyRaises(name) == Has(name) /\ ~Resolves(name)
KeyOf(name) == IF Has(name) THEN Canonical(name) ELSE Lower(name)

(* resolve_agent_config: without a file it all comes from the environment; *)
(* a file's use case is resolved before the variable that overrides it.    *)
Stated == IF file = NoFile THEN FromEnv(environ) ELSE Overridden(environ, file.says)
TheConfig == [Stated EXCEPT !.use_case = KeyOf(@)]

ConfigRaises ==
  \/ file # NoFile /\ file.fault = "late"
  \/ file # NoFile /\ (KeyRaises(file.says.use_case) \/ OverrideRefused(environ, file.says))
  \/ file = NoFile /\ KeyRaises(FromEnv(environ).use_case)
  \/ Given(environ.use_case) /\ KeyRaises(environ.use_case)

Configure ==
  /\ pc = "config" /\ call = Idle
  /\ \/ ~ConfigRaises /\ config' = TheConfig /\ pc' = "tools" /\ UNCHANGED <<strategy, root>>
     \/ ConfigRaises /\ Fails
  /\ UNCHANGED <<vars, around, reported>>

(* An unknown tool, or one that is not available.                          *)
ToolsRefused ==
  /\ pc = "tools"
  /\ \/ ~Available(environ, ToolsOf(environ, config))
     \/ "mcp" \in ToolsOf(environ, config)
  /\ Fails
  /\ UNCHANGED <<vars, around, reported>>

(* The resolution of an earlier attempt is forgotten.                      *)
ToolsBuilt ==
  /\ pc = "tools" /\ Available(environ, ToolsOf(environ, config))
  /\ resolution' = NoStrategy
  /\ Goes(IF "code_execution" \in ToolsOf(environ, config) THEN "probe" ELSE "context")
  /\ UNCHANGED <<vars, around, recorded>>

(* resolve_code_executor: a strategy that is named must be usable, or the  *)
(* first usable one is taken, or none is available.                        *)
Finds(s) == Takes(s, environ, config, daemon)
ProbeFinds ==
  /\ pc = "probe"
  /\ strategy' \in Strategies /\ Finds(strategy')
  /\ pc' = "start"
  /\ UNCHANGED <<vars, around, config, reported, root>>
ProbeFindsNone ==
  /\ pc = "probe" /\ ~\E s \in Strategies : Finds(s)
  /\ IF Explicit(environ, config) THEN Fails /\ UNCHANGED resolution
     ELSE Goes("context") /\ resolution' = "unavailable"
  /\ UNCHANGED <<vars, around, recorded>>

(* The executor is built; the daemon may have gone since it was probed.    *)
Starts ==
  /\ pc = "start" /\ (strategy = "docker_container" => daemon)
  /\ resolution' = strategy
  /\ Goes("context")
  /\ UNCHANGED <<vars, around, recorded>>
(* Variant: a failure to start counts as unavailable.                      *)
StartFailsQuietly ==
  /\ pc = "start" /\ strategy \notin {"gemini_built_in", "unsafe_local"}
  /\ resolution' = "unavailable"
  /\ Goes("context")
  /\ UNCHANGED <<vars, around, recorded>>
StartFails ==
  /\ pc = "start" /\ strategy \notin {"gemini_built_in", "unsafe_local"}
  /\ Fails
  /\ UNCHANGED <<vars, around, reported>>

(* instructions.file cannot be read, a role's tool is not available, the   *)
(* output's schema is another.                                             *)
SchemaKnown == config.schema \in {Absent, "GenericAgentResponse"}
ContextRefused ==
  /\ pc = "context"
  /\ config.instructions = "file" \/ ~RolesAvailable(environ, config) \/ ~SchemaKnown
  /\ Fails
  /\ UNCHANGED <<vars, around, reported>>

Snapshot ==
  [use_case |-> NoRoot,
   model    |-> IF config.model = Absent THEN Settings(environ).model ELSE config.model,
   tools    |-> ToolsOf(environ, config)]
(* Variant: a snapshot that is there already is kept.                      *)
ContextBuiltOnce ==
  /\ pc = "context" /\ RolesAvailable(environ, config) /\ SchemaKnown
  /\ recorded' = IF recorded = Nothing THEN Snapshot ELSE recorded
  /\ Goes("build")
  /\ UNCHANGED <<vars, around, resolution>>
ContextBuilt ==
  /\ pc = "context" /\ RolesAvailable(environ, config) /\ SchemaKnown
  /\ recorded' = Snapshot
  /\ Goes("build")
  /\ UNCHANGED <<vars, around, resolution>>
-----------------------------------------------------------------------------
Runtime == RuntimeOf(environ, config)

Serve(what, runtime) ==
  /\ root' = [what |-> what, runtime |-> runtime, strategy |-> resolution]
  /\ pc' = "idle"
  /\ UNCHANGED <<config, strategy>>
Records(name) == recorded' = [recorded EXCEPT !.use_case = name]

BuildGraph ==
  /\ pc = "build" /\ config.graph # NoGraph
  /\ \/ Compiles(config.graph) /\ Serve(NoGraph, Runtime) /\ Records(NoGraph)
     \/ ~Compiles(config.graph) /\ Fails /\ UNCHANGED recorded
  /\ UNCHANGED <<vars, around, resolution>>

(* Variant: an unknown use case falls back to the first preset.            *)
BuildPresetOrFirst ==
  /\ pc = "build" /\ config.graph = NoGraph
  /\ LET preset == IF Resolves(config.use_case) THEN Resolved(config.use_case) ELSE Builtins[1]
     IN  /\ Records(Canonical(config.use_case))
         /\ IF Compiles(preset.needs)
            THEN Serve(Lower(preset.key), WithDefaults(Runtime, preset.defaults)) ELSE Fails
  /\ UNCHANGED <<vars, around, resolution>>

(* The name is recorded before the preset is built.                        *)
BuildPreset ==
  /\ pc = "build" /\ config.graph = NoGraph /\ Resolves(config.use_case)
  /\ Records(Canonical(config.use_case))
  /\ LET preset == Resolved(config.use_case)
     IN  \/ /\ Compiles(preset.needs)
            /\ Serve(Lower(preset.key), WithDefaults(Runtime, preset.defaults))
         \/ ~Compiles(preset.needs) /\ Fails
  /\ UNCHANGED <<vars, around, resolution>>

BuildUnknown ==
  /\ pc = "build" /\ config.graph = NoGraph /\ ~Resolves(config.use_case)
  /\ Fails
  /\ UNCHANGED <<vars, around, reported>>

RootNext ==
  \/ EditFile \/ DaemonTurns \/ (\E m \in Modules : LoadByHand(m))
  \/ GetAtOnce \/ GetRootAgent \/ RegistryProceeds \/ RegistryRaises \/ Configure
  \/ ToolsRefused \/ ToolsBuilt \/ ProbeFinds \/ ProbeFindsNone \/ Starts \/ StartFails
  \/ ContextRefused \/ ContextBuilt \/ BuildGraph \/ BuildPreset \/ BuildUnknown

RootSpec == RootInit /\ [][RootNext]_allvars
-----------------------------------------------------------------------------
TypeOK ==
  /\ RegistryTypeOK
  /\ file \in deployment.files /\ daemon \in deployment.daemons
  /\ pc \in {"idle", "config", "tools", "probe", "start", "context", "build"}
  /\ pc \notin {"idle", "config"} => published /\ call = Idle /\ config.use_case \in Keys
  /\ strategy \in Strategies \union {NoStrategy}
  /\ resolution \in Strategies \union {NoStrategy, "unavailable"}
  /\ recorded.use_case \in Keys \union {NoGraph, NoRoot} /\ recorded.tools \subseteq KnownTools
  /\ root # NoRoot => pc = "idle" /\ root.what \in Keys \union {NoGraph}

(* Names that are both a preset's key and an alias of another preset.      *)
Hidden == {a \in DOMAIN aliases \intersect DOMAIN presets : aliases[a] # a}

(* Names that are aliases of no preset. *)
Dead == {a \in DOMAIN aliases : aliases[a] \notin DOMAIN presets}

(* What the file says, where it says anything.                             *)
InFile(says) == IF file = NoFile THEN Absent ELSE says
Wanted == Override(environ.use_case, IF file = NoFile THEN Assistant ELSE file.says.use_case)

(* Unless an alias hides a key, the agent that is served is the preset the *)
(* configured name resolves to, although the name was resolved twice,      *)
(* possibly after attempts that failed and with another file; and unless a *)
(* failed registration has left an alias that leads nowhere, which a later *)
(* preset may take as an alias of its own, that preset is reported too     *)
(* (agent.py, get_root_agent).                                             *)
ServesConfigured ==
  [][root = NoRoot /\ root' # NoRoot /\ config.graph = NoGraph /\ Hidden = {} =>
       /\ root'.what = Canonical(Canonical(Wanted))
       /\ Dead = {} => recorded'.use_case = root'.what]_allvars

(* What inspect_runtime and the spans report is what is served, whatever   *)
(* earlier attempts have recorded: the tools, the strategy, and the model, *)
(* unless the file has a model section without a name.                     *)
ReportedIsServed ==
  root # NoRoot =>
    /\ resolution = root.strategy
    /\ recorded.tools = root.runtime.tools
    /\ recorded.model # Empty => recorded.model = root.runtime.model.name

(* "Use exactly that provider", "rather than silently falling through":    *)
(* code runs where the environment, or else the file, says, although the   *)
(* daemon may go after it was probed and earlier attempts looked elsewhere.*)
(* The host itself is used only if it is named, an image without a digest  *)
(* in no production, and no executor is left to an agent that has none.    *)
CodeRunsWhereTold ==
  root # NoRoot =>
    LET told(n) == IF environ.code[n] # Unset THEN environ.code[n] ELSE InFile(file.says.code[n])
    IN  /\ (root.strategy = NoStrategy) = ("code_execution" \notin root.runtime.tools)
        /\ root.strategy # NoStrategy /\ Given(told("strategy")) =>
             root.strategy = told("strategy")
        /\ root.strategy = "unsafe_local" => told("strategy") = "unsafe_local"
        /\ root.strategy = "docker_container" /\ told("docker_image") = "floating" =>
             environ.deployment \notin {"production", "prod", "staging"}

(* Two ways to the same agent: what the environment gives by itself        *)
(* (load_config_from_env) it also gives over a file that only names the    *)
(* use case (apply_env_overrides), the preset's options and the sandbox    *)
(* included.  Only a preset with a roster of its own sees another one.     *)
BareFile ==
  [use_case |-> Wanted, provider |-> "google", model |-> Absent, enabled |-> Absent,
   nested |-> <<>>, iterations |-> Absent, require |-> Absent, specialists |-> Absent,
   code |-> [n \in CodeFields |-> Empty], instructions |-> "value", schema |-> Absent,
   roles |-> <<>>, graph |-> NoGraph]
PathsAgree ==
  root # NoRoot /\ file = NoFile =>
    LET bare     == Overridden(environ, BareFile)
        defaults == presets[root.what].defaults
        other    == WithDefaults(RuntimeOf(environ, bare), defaults)
    IN  /\ Merged(environ, bare) = Merged(environ, config)
        /\ [other EXCEPT !.specialists = root.runtime.specialists] = root.runtime
        /\ defaults.specialists = DefaultRoster => other = root.runtime

(* "Explicit env beats YAML", "any explicitly customized value wins": what *)
(* is set in so many words is what is served.                              *)
ExplicitSettingsServed ==
  root # NoRoot /\ file # NoFile =>
    LET named == Override(environ.code["strategy"], file.says.code["strategy"])
        times == Override(environ.iterations, file.says.iterations)
    IN  /\ Given(named) /\ root.strategy # NoStrategy => root.strategy = named
        /\ Given(times) => root.runtime.iterations = times
        /\ Given(file.says.require) => root.runtime.require = file.says.require
=============================================================================

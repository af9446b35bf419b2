--------------------------- MODULE Configuration ---------------------------
(***************************************************************************)
(* What the agent is configured to be: settings taken from the environment *)
(* at import (config/settings.py), a YAML file or, without one, the         *)
(* environment again (config/loader.py), and from these the runtime        *)
(* (agent.py), its model (models.py) and the code-execution strategy       *)
(* (execution/resolver.py).  All of it is operators on an environment e, a  *)
(* file f and a configuration c; a file is taken as it reads after the     *)
(* substitution of its placeholders, lists of names are sets.              *)
(***************************************************************************)
EXTENDS Naturals, Sequences

CONSTANTS Unset,           \* a variable that is not set
          Empty,           \* one that is set to nothing (or to blanks)
          Absent,          \* a key that the file does not have
          NoGraph,         \* no graph: section
          Assistant,       \* the use case that is served by default
          ProviderPrefixed, \* model names with a "/"
          Gemini2          \* native names that is_gemini_eap_or_2_or_above accepts

Given(v) == v \notin {Unset, Empty, Absent}
Override(v, old) == IF Given(v) THEN v ELSE old
Names(v) == IF v = Empty THEN {} ELSE v
-----------------------------------------------------------------------------
KnownTools == {"knowledge", "search", "code_execution", "approval", "skills", "mcp",
               "openapi", "application_integration", "runtime", "structured_output"}
DefaultTools == {"knowledge", "search", "mcp", "approval", "runtime", "structured_output"}
DefaultRoster == {"research", "solution", "risk"}
DefaultIterations == 3

(* What may be written is written otherwise than what is not. *)
ASSUME ConfigurationAssumption ==
  Given("floating") /\ Given("default") /\ Given(DefaultRoster)

(* An unset deployment counts as production, unlike for the image below.   *)
IsProduction(d) == d \notin {"docker-compose", "dev", "development", "test", "local"}

(* _env: the default stands in for a variable that is not set, not for an  *)
(* empty one.                                                              *)
Setting(v, default) == IF v = Unset THEN default ELSE v
Settings(e) ==
  [model       |-> Setting(e.model, "default"),
   tools       |-> Names(Setting(e.tools, DefaultTools)),
   iterations  |-> Setting(e.iterations, DefaultIterations),
   specialists |-> Names(Setting(e.specialists, DefaultRoster))]

(* load_settings raises, and there is no process.  Variant: a deployment   *)
(* that is not named is no production.                                     *)
ImportsUnnamed(e) ==
  /\ e.iterations # Empty
  /\ IsProduction(e.deployment) /\ e.deployment # Unset => e.issuer /\ ~e.auth_disabled
Imports(e) ==
  /\ e.iterations # Empty
  /\ IsProduction(e.deployment) => e.issuer /\ ~e.auth_disabled
-----------------------------------------------------------------------------
(* Names of the code_execution section, with CE_FIELD_ENV_MAP's variables. *)
Managed == {"vertex_ai", "agent_engine_sandbox", "gke"}
CodeFields == Managed \union {"strategy", "docker_image"}

FromEnv(e) ==
  [use_case     |-> Override(e.use_case, Assistant),
   provider     |-> "google",
   model        |-> Settings(e).model,
   enabled      |-> Settings(e).tools,
   nested       |-> [n \in {"mcp"} |-> n \in Settings(e).tools],
   iterations   |-> Override(e.iterations, Settings(e).iterations),
   require      |-> Absent,
   specialists  |-> IF Given(e.specialists) THEN Names(e.specialists) ELSE Settings(e).specialists,
   code         |-> [n \in CodeFields |-> Override(e.code[n], Empty)],
   instructions |-> "value",
   schema       |-> IF "structured_output" \in Settings(e).tools THEN "GenericAgentResponse" ELSE Absent,
   roles        |-> <<>>,
   graph        |-> NoGraph]

(* apply_env_overrides: a variable counts unless it is empty, AGENT_TOOLS  *)
(* even then.  Variant: iterations are left as they are.                   *)
OverriddenTools(e, f) == IF e.tools = Unset THEN f.enabled ELSE Names(e.tools)
OverriddenIterationsNever(e, f) == f.iterations
OverriddenIterations(e, f) == Override(e.iterations, f.iterations)

Overridden(e, f) ==
  [f EXCEPT !.use_case    = Override(e.use_case, @),
            !.provider    = IF f.model = Absent THEN "google" ELSE @,
            !.model       = Override(e.model, @),
            !.enabled     = OverriddenTools(e, f),
            !.iterations  = OverriddenIterations(e, f),
            !.specialists = Override(e.specialists, @)]

(* The overriding specialists must be roles of the file, if it has any.    *)
OverrideRefused(e, f) ==
  /\ Given(e.specialists)
  /\ DOMAIN f.roles # {} /\ ~ e.specialists \subseteq DOMAIN f.roles
-----------------------------------------------------------------------------
(* resolve_model: a native Gemini name, or LiteLLM.                        *)
ResolveModel(name, provider) ==
  [name   |-> name,
   native |-> name \notin ProviderPrefixed /\ provider \in {"google", "gemini", ""}]
ModelOf(e, c) ==
  ResolveModel(IF Given(c.model) THEN c.model ELSE Settings(e).model, c.provider)

Configured(e, c) ==
  LET base == IF c.enabled = Absent THEN Settings(e).tools ELSE c.enabled
      on   == {n \in DOMAIN c.nested : c.nested[n]}
  IN  (base \union on) \ (DOMAIN c.nested \ on)

(* The search tool is Gemini's own.                                        *)
ToolsOf(e, c) ==
  IF ModelOf(e, c).native THEN Configured(e, c) ELSE Configured(e, c) \ {"search"}

(* build_tool has nothing for the integration unless it is configured.     *)
Available(e, tools) ==
  tools \subseteq KnownTools /\ ("application_integration" \in tools => e.integration)

RolesAvailable(e, c) ==
  \A r \in DOMAIN c.roles : c.roles[r].tools # Absent => Available(e, c.roles[r].tools)

RuntimeOf(e, c) ==
  [model       |-> ModelOf(e, c),
   tools       |-> ToolsOf(e, c),
   iterations  |-> IF c.iterations = Absent THEN DefaultIterations ELSE c.iterations,
   require     |-> c.require = TRUE,
   specialists |-> IF c.specialists = Absent THEN {} ELSE c.specialists,
   structured  |-> c.schema # Absent \/ "structured_output" \in Configured(e, c),
   roles       |-> c.roles]

(* apply_defaults: a preset's defaults take the place of values that equal *)
(* the ones a RuntimeContext has by itself.                                *)
WithDefaults(rt, d) ==
  [rt EXCEPT !.iterations  = IF @ = DefaultIterations THEN Override(d.iterations, @) ELSE @,
             !.require     = IF ~@ THEN Override(d.require, @) ELSE @,
             !.specialists = IF @ = {} THEN Override(d.specialists, @) ELSE @]
-----------------------------------------------------------------------------
(* {**overlay, **os.environ}: what the file says of code execution counts  *)
(* where the environment has no variable, not even an empty one.           *)
Merged(e, c) ==
  [n \in CodeFields |->
     IF e.code[n] # Unset THEN e.code[n] ELSE Override(c.code[n], Unset)]

AutoDetectOrder ==
  <<"vertex_ai", "agent_engine_sandbox", "gke", "docker_container", "gemini_built_in">>
Strategies ==
  {AutoDetectOrder[i] : i \in DOMAIN AutoDetectOrder} \union {"unsafe_local"}

ImageAllowed(e, code) ==
  e.deployment \in {"production", "prod", "staging"} => code["docker_image"] # "floating"

(* The probes; daemon tells whether Docker answers.                        *)
DockerUsable(e, c, daemon) == ImageAllowed(e, Merged(e, c)) /\ daemon
GeminiUsable(e, c) == ModelOf(e, c).native /\ ModelOf(e, c).name \in Gemini2
Usable(s, e, c, daemon) ==
  CASE s \in Managed          -> Given(Merged(e, c)[s]) /\ s \in e.libraries
    [] s = "docker_container" -> DockerUsable(e, c, daemon)
    [] s = "gemini_built_in"  -> GeminiUsable(e, c)
    [] s = "unsafe_local"     -> TRUE

Explicit(e, c) == Given(Merged(e, c)["strategy"])
Named(e, c) == Merged(e, c)["strategy"]

(* resolve_code_executor asks the strategy that is named, or one after the *)
(* other, and takes the first that is known and usable.                    *)
Asked(e, c) == IF Explicit(e, c) THEN <<Named(e, c)>> ELSE AutoDetectOrder
Offers(s, e, c, daemon) == s \in Strategies /\ Usable(s, e, c, daemon)
Takes(s, e, c, daemon) ==
  \E i \in DOMAIN Asked(e, c) :
    /\ s = Asked(e, c)[i] /\ Offers(s, e, c, daemon)
    /\ \A j \in 1..(i - 1) : ~Offers(Asked(e, c)[j], e, c, daemon)
=============================================================================

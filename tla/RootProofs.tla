----------------------------- MODULE RootProofs -----------------------------
(***************************************************************************)
(* What RootAgent promises for any deployments, built-in presets and       *)
(* modules.                                                                *)
(***************************************************************************)
EXTENDS RootAgent, RegistryProofs

(* Behind the configuration, and behind a probe that is over. *)
Underway == pc \in {"tools", "probe", "start", "context", "build"}
Probed == pc \in {"context", "build"} \/ root # NoRoot

(* get_root_agent works on behalf of nobody once there is a root. *)
RootEndsWork ==
  /\ pc \in {"idle", "config", "tools", "probe", "start", "context", "build"}
  /\ root # NoRoot => pc = "idle"
  /\ pc # "idle" => published
  /\ Underway => call = Idle

(* The world around is one of the deployment's. *)
AroundOK ==
  deployment \in Deployments /\ file \in deployment.files /\ daemon \in deployment.daemons

(* What is built, and what was built last, is what environment and file    *)
(* say; the use case is a key as long as the registry stands still.        *)
ConfigAsStated ==
  /\ Underway \/ root # NoRoot =>
       config = [Stated EXCEPT !.use_case = config.use_case]
  /\ Underway => config.use_case = KeyOf(Stated.use_case)

Tools == ToolsOf(environ, config)

(* Unknown tools have been refused. *)
ToolsKnown == Underway /\ pc # "tools" => Tools \subseteq KnownTools

(* A strategy that resolve_code_executor may come to. *)
Choosable(s) ==
  /\ s \in Strategies
  /\ Explicit(environ, config) => s = Named(environ, config)
  /\ ~Explicit(environ, config) => s # "unsafe_local"
  /\ s = "docker_container" => ImageAllowed(environ, Merged(environ, config))

StrategyFits ==
  /\ strategy \in Strategies \union {NoStrategy}
  /\ pc \in {"probe", "start"} => "code_execution" \in Tools
  /\ pc = "start" => Choosable(strategy)

(* Nothing but the strategy found for the tools at hand is left behind. *)
ResolutionFits ==
  /\ resolution \in Strategies \union {NoStrategy, "unavailable"}
  /\ Probed =>
       /\ (resolution = NoStrategy) <=> "code_execution" \notin Tools
       /\ resolution \in Strategies => Choosable(resolution)
       /\ resolution = "unavailable" => ~Explicit(environ, config)

(* The snapshot has its fields; it is that of what is built or was built   *)
(* last.                                                                   *)
SnapshotFits ==
  /\ recorded = [use_case |-> recorded.use_case, model |-> recorded.model,
                 tools |-> recorded.tools]
  /\ recorded.use_case \in Keys \union {NoGraph, NoRoot}
  /\ recorded.tools \subseteq KnownTools
  /\ pc = "build" \/ root # NoRoot =>
       recorded.tools = Tools /\ recorded.model = Snapshot.model

(* The root was built from the configuration, with the preset's options if *)
(* it is a preset's; that preset is still there.                           *)
RootFits ==
  root # NoRoot =>
    /\ root.strategy = resolution
    /\ root.what \in Keys \union {NoGraph}
    /\ root.runtime.tools = Tools
    /\ root.runtime.model = ModelOf(environ, config)
    /\ config.graph = NoGraph =>
         /\ root.what \in DOMAIN presets
         /\ root.runtime = WithDefaults(Runtime, presets[root.what].defaults)

RootInv ==
  /\ RootEndsWork /\ AroundOK /\ ConfigAsStated /\ ToolsKnown /\ StrategyFits
  /\ ResolutionFits /\ SnapshotFits /\ RootFits

-----------------------------------------------------------------------------
(* Presets are never taken back. *)
LEMMA PresetsStay ==
  ASSUME RegistryInv, [RegistryNext]_vars
  PROVE  \A k \in DOMAIN presets : k \in DOMAIN presets' /\ presets'[k] = presets[k]
<1>1. CASE RegisterPreset
  BY <1>1 DEF RegisterPreset, Registers
<1>2. CASE ~RegisterPreset
  <2>1. UNCHANGED presets
    BY <1>2 DEF RegistryNext, Ask, LoadModule, Proceeds, Raises, Skip, Return, RefuseKey,
                RefuseAlias, RefuseEntry, Raise, registry, vars
  <2>. QED
    BY <2>1
<1>. QED
  BY <1>1, <1>2

(* Only a call at work goes on or raises. *)
LEMMA WorkIsCalled ==
  ASSUME RegistryInv, Proceeds \/ Raises
  PROVE  /\ call # Idle
         /\ published' = published
<1>1. CASE todo # <<>>
  BY <1>1, AtWork DEF Proceeds, Raises, Skip, RegisterPreset, Return, RefuseKey,
       RefuseAlias, RefuseEntry, Raise
<1>2. CASE todo = <<>>
  BY <1>2 DEF Proceeds, Raises, Skip, RegisterPreset, Registers, RegistersAnyKey, Return,
       RefuseKey, RefuseAlias, RefuseEntry
<1>. QED
  BY <1>1, <1>2

(* What is read off a configuration stays while it stays. *)
LEMMA SameConfig ==
  ASSUME UNCHANGED <<deployment, config>>
  PROVE  /\ Tools' = Tools /\ Snapshot' = Snapshot /\ Runtime' = Runtime
         /\ ModelOf(environ, config)' = ModelOf(environ, config)
         /\ Explicit(environ, config)' <=> Explicit(environ, config)
         /\ \A s : Choosable(s)' <=> Choosable(s)
BY DEF Tools, Snapshot, Runtime, Choosable, environ

(* Nothing is built, and nothing is known of a configuration. *)
LEMMA RootInitially == RootInit => RootInv
<1>. SUFFICES ASSUME RootInit PROVE RootInv
  OBVIOUS
<1>1. DOMAIN <<>> = {}
  OBVIOUS
<1>. QED
  BY <1>1 DEF RootInit, Init, RootInv, RootEndsWork, AroundOK, ConfigAsStated, ToolsKnown,
       StrategyFits, ResolutionFits, SnapshotFits, RootFits, Underway, Probed, Nothing

-----------------------------------------------------------------------------
(* Steps before there is a configuration, and steps that give up: nothing  *)
(* is known of a configuration then.                                       *)
LEMMA IdleStep ==
  ASSUME RootInv, root = NoRoot, UNCHANGED <<deployment, strategy, recorded, root>>,
         file' \in deployment.files, daemon' \in deployment.daemons,
         pc' \in {"idle", "config"}, pc' # "idle" => published',
         resolution' \in Strategies \union {NoStrategy, "unavailable"}
  PROVE  RootInv'
BY DEF RootInv, RootEndsWork, AroundOK, ConfigAsStated, ToolsKnown, StrategyFits,
       ResolutionFits, SnapshotFits, RootFits, Underway, Probed

(* The registry goes on, or somebody loads a module, while no root is      *)
(* built: a root that is there keeps its preset.                           *)
LEMMA RegistryMoves ==
  ASSUME RegistryInv, RootInv, [RegistryNext]_vars, pc \in {"idle", "config"},
         published => published',
         UNCHANGED <<around, building, reported, root>>
  PROVE  RootInv'
<1>1. UNCHANGED <<deployment, file, daemon, pc, config, strategy, resolution, recorded, root>>
  BY DEF around, building, reported
<1>2. /\ Tools' = Tools /\ Snapshot' = Snapshot /\ Runtime' = Runtime
      /\ ModelOf(environ, config)' = ModelOf(environ, config)
      /\ Explicit(environ, config)' <=> Explicit(environ, config)
      /\ \A s : Choosable(s)' <=> Choosable(s)
  BY <1>1, SameConfig
<1>3. ~Underway /\ ~Underway' /\ (Probed' <=> Probed) /\ Stated' = Stated
  BY <1>1 DEF Underway, Probed, Stated, environ
<1>4. RootEndsWork' /\ AroundOK' /\ ConfigAsStated' /\ ToolsKnown' /\ StrategyFits'
  BY <1>1, <1>2, <1>3 DEF RootInv, RootEndsWork, AroundOK, ConfigAsStated, ToolsKnown,
       StrategyFits
<1>5. ResolutionFits' /\ SnapshotFits'
  BY <1>1, <1>2, <1>3 DEF RootInv, ResolutionFits, SnapshotFits
<1>6. RootFits'
  BY <1>1, <1>2, PresetsStay DEF RootInv, RootFits
<1>. QED
  BY <1>4, <1>5, <1>6 DEF RootInv

(* The daemon comes or goes: nothing that was found depends on it.         *)
LEMMA DaemonStep ==
  ASSUME RootInv, DaemonTurns
  PROVE  RootInv'
<1>1. /\ UNCHANGED <<deployment, file, pc, config, strategy, resolution, recorded, root>>
      /\ UNCHANGED <<published, presets, aliases, call>>
      /\ daemon' \in deployment.daemons
  BY DEF DaemonTurns, building, reported, vars, registry
<1>2. /\ Tools' = Tools /\ Snapshot' = Snapshot /\ Runtime' = Runtime
      /\ ModelOf(environ, config)' = ModelOf(environ, config)
      /\ Explicit(environ, config)' <=> Explicit(environ, config)
      /\ \A s : Choosable(s)' <=> Choosable(s)
  BY <1>1, SameConfig
<1>3. (Underway' <=> Underway) /\ (Probed' <=> Probed) /\ Stated' = Stated
      /\ KeyOf(Stated.use_case)' = KeyOf(Stated.use_case)
  BY <1>1 DEF Underway, Probed, Stated, environ, KeyOf, Has, Canonical
<1>4. RootEndsWork' /\ AroundOK' /\ ConfigAsStated' /\ ToolsKnown' /\ StrategyFits'
  BY <1>1, <1>2, <1>3 DEF RootInv, RootEndsWork, AroundOK, ConfigAsStated, ToolsKnown,
       StrategyFits
<1>5. ResolutionFits' /\ SnapshotFits' /\ RootFits'
  BY <1>1, <1>2, <1>3 DEF RootInv, ResolutionFits, SnapshotFits, RootFits
<1>. QED
  BY <1>4, <1>5 DEF RootInv

(* What is stated has the fields of a configuration, its use case is a     *)
(* name.                                                                   *)
LEMMA StatedFields ==
  ASSUME AroundOK
  PROVE  /\ Fields \subseteq DOMAIN Stated
         /\ Stated.use_case = Wanted /\ Wanted \in Name
         /\ Stated.model # Unset
         /\ Stated.code = IF file = NoFile THEN [n \in CodeFields |-> Override(environ.code[n], Empty)]
                                           ELSE file.says.code
         /\ file = NoFile => Stated = FromEnv(environ)
<1>1. environ.use_case \in Name \union {Unset, Empty} /\ Assistant \in Name
      /\ (file # NoFile => Sayable(file.says))
  BY RootAssumption DEF AroundOK, environ
<1>2. Wanted \in Name
  BY <1>1 DEF Wanted, Override, Given, Sayable
<1>3. CASE file = NoFile
  <2>1. Stated = FromEnv(environ)
    BY <1>3 DEF Stated
  <2>2. Stated.model # Unset
    BY <2>1, ConfigurationAssumption DEF Given, FromEnv, Settings, Setting
  <2>. QED
    BY <1>2, <1>3, <2>1, <2>2 DEF FromEnv, Fields, Wanted
<1>4. CASE file # NoFile
  <2>1. Stated = Overridden(environ, file.says)
    BY <1>4 DEF Stated
  <2>2. Fields \subseteq DOMAIN file.says /\ file.says.model # Unset
    BY <1>1, <1>4 DEF Sayable
  <2>3. DOMAIN Stated = DOMAIN file.says
        /\ Stated.use_case = Override(environ.use_case, file.says.use_case)
        /\ Stated.model = Override(environ.model, file.says.model)
        /\ Stated.code = file.says.code
    BY <2>1, <2>2 DEF Overridden, Fields
  <2>4. Stated.model # Unset
    BY <2>2, <2>3 DEF Override, Given
  <2>. QED
    BY <1>2, <1>4, <2>2, <2>3, <2>4 DEF Wanted
<1>. QED
  BY <1>3, <1>4

(* A name is looked up to a key. *)
LEMMA KeyOfName ==
  ASSUME RegistryInv, NEW name \in Name
  PROVE  KeyOf(name) \in Keys /\ Canonical(name) \in Keys /\ Lower(name) \in Keys
BY LowerIsKey DEF RegistryInv, RegistryTypeOK, KeyOf, Canonical

(* The configuration that is kept is the one that is stated. *)
LEMMA ConfigureStep ==
  ASSUME RootInv, Configure
  PROVE  RootInv'
<1>1. /\ pc = "config" /\ call = Idle /\ root = NoRoot /\ published
      /\ UNCHANGED <<deployment, file, daemon, strategy, resolution, recorded, root>>
      /\ UNCHANGED <<published, presets, aliases, call>>
  BY DEF Configure, RootInv, RootEndsWork, Fails, around, reported, vars, registry
<1>2. CASE pc' = "idle"
  <2>1. published' /\ file' \in deployment.files /\ daemon' \in deployment.daemons
    BY <1>1 DEF RootInv, AroundOK, RootEndsWork
  <2>2. resolution' \in Strategies \union {NoStrategy, "unavailable"}
    BY <1>1 DEF RootInv, ResolutionFits
  <2>. QED
    BY <1>1, <1>2, <2>1, <2>2, IdleStep
<1>3. CASE pc' = "tools" /\ config' = TheConfig
  <2>1. AroundOK
    BY DEF RootInv
  <2>2. "use_case" \in DOMAIN Stated
    BY <2>1, StatedFields DEF Fields
  <2>3. config'.use_case = KeyOf(Stated.use_case)
        /\ config' = [Stated EXCEPT !.use_case = config'.use_case]
    BY <1>3, <2>2 DEF TheConfig
  <2>4. Stated' = Stated /\ KeyOf(Stated.use_case)' = KeyOf(Stated.use_case)
    BY <1>1 DEF Stated, environ, KeyOf, Has, Canonical
  <2>5. RootEndsWork' /\ AroundOK' /\ ConfigAsStated'
    BY <1>1, <1>3, <2>3, <2>4 DEF RootInv, RootEndsWork, AroundOK, ConfigAsStated, Underway
  <2>6. ToolsKnown' /\ StrategyFits' /\ ResolutionFits' /\ SnapshotFits' /\ RootFits'
    BY <1>1, <1>3 DEF RootInv, ToolsKnown, StrategyFits, ResolutionFits, SnapshotFits,
         RootFits, Underway, Probed
  <2>. QED
    BY <2>5, <2>6 DEF RootInv
<1>. QED
  BY <1>2, <1>3 DEF Configure, Fails

(* A step that gives up leaves no root.                                    *)
LEMMA GivesUp ==
  ASSUME RootInv, Underway, Fails, UNCHANGED <<vars, around, recorded>>,
         resolution' \in Strategies \union {NoStrategy, "unavailable"}
  PROVE  RootInv'
<1>1. root = NoRoot /\ pc' = "idle"
  BY DEF RootInv, RootEndsWork, Underway, Fails
<1>2. UNCHANGED <<deployment, strategy, recorded, root>>
  BY DEF around, Fails
<1>3. file' \in deployment.files /\ daemon' \in deployment.daemons
  BY DEF around, RootInv, AroundOK
<1>. QED
  BY <1>1, <1>2, <1>3, IdleStep

(* A step with a configuration that comes one further: what is to be shown *)
(* of it.                                                                  *)
LEMMA GoesOn ==
  ASSUME RootInv, Underway, UNCHANGED <<vars, around, config, root>>,
         pc' \in {"tools", "probe", "start", "context", "build"}
  PROVE  /\ RootEndsWork' /\ AroundOK' /\ ConfigAsStated' /\ RootFits'
         /\ Tools' = Tools /\ Snapshot' = Snapshot
         /\ Explicit(environ, config)' <=> Explicit(environ, config)
         /\ \A s : Choosable(s)' <=> Choosable(s)
         /\ root = NoRoot /\ root' = NoRoot
<1>1. /\ UNCHANGED <<deployment, file, daemon, config, root>>
      /\ UNCHANGED <<published, presets, aliases, call>>
  BY DEF around, vars, registry
<1>2. /\ Tools' = Tools /\ Snapshot' = Snapshot
      /\ Explicit(environ, config)' <=> Explicit(environ, config)
      /\ \A s : Choosable(s)' <=> Choosable(s)
  BY <1>1, SameConfig
<1>3. root = NoRoot /\ pc # "idle"
  BY DEF RootInv, RootEndsWork, Underway
<1>4. Underway' /\ Stated' = Stated /\ KeyOf(Stated.use_case)' = KeyOf(Stated.use_case)
  BY <1>1 DEF Underway, Stated, environ, KeyOf, Has, Canonical
<1>5. RootEndsWork' /\ AroundOK' /\ ConfigAsStated' /\ RootFits'
  BY <1>1, <1>3, <1>4 DEF RootInv, RootEndsWork, AroundOK, ConfigAsStated, RootFits
<1>. QED
  BY <1>1, <1>2, <1>3, <1>5

(* The tools are those of the configuration, and known; no strategy is    *)
(* left from an earlier attempt.                                           *)
LEMMA ToolsStep ==
  ASSUME RootInv, ToolsRefused \/ ToolsBuilt
  PROVE  RootInv'
<1>1. CASE ToolsRefused
  <2>1. Underway
    BY <1>1 DEF ToolsRefused, Underway
  <2>2. resolution' \in Strategies \union {NoStrategy, "unavailable"}
    BY <1>1 DEF ToolsRefused, reported, RootInv, ResolutionFits
  <2>. QED
    BY <1>1, <2>1, <2>2, GivesUp DEF ToolsRefused, reported
<1>2. CASE ToolsBuilt
  <2>1. /\ pc = "tools" /\ Tools \subseteq KnownTools /\ resolution' = NoStrategy
        /\ pc' = IF "code_execution" \in Tools THEN "probe" ELSE "context"
        /\ UNCHANGED <<vars, around, config, strategy, recorded, root>>
    BY <1>2 DEF ToolsBuilt, Available, Tools, Goes
  <2>2. Underway /\ pc' \in {"probe", "context"}
    BY <2>1 DEF Underway
  <2>3. /\ RootEndsWork' /\ AroundOK' /\ ConfigAsStated' /\ RootFits'
        /\ Tools' = Tools /\ root = NoRoot /\ root' = NoRoot
    BY <2>1, <2>2, GoesOn
  <2>4. ToolsKnown' /\ StrategyFits' /\ SnapshotFits'
    BY <2>1, <2>2, <2>3 DEF RootInv, ToolsKnown, StrategyFits, SnapshotFits
  <2>5. ResolutionFits'
    BY <2>1, <2>2, <2>3, RootAssumption DEF ResolutionFits, Probed
  <2>. QED
    BY <2>3, <2>4, <2>5 DEF RootInv
<1>. QED
  BY <1>1, <1>2

(* resolve_code_executor comes to no strategy but one that may be chosen.  *)
LEMMA TakesChoosable ==
  ASSUME NEW s, Finds(s)
  PROVE  Choosable(s)
<1>. DEFINE order == Asked(environ, config)
<1>1. PICK i \in DOMAIN order : s = order[i] /\ Offers(s, environ, config, daemon)
  BY DEF Finds, Takes
<1>2. s \in Strategies /\ Usable(s, environ, config, daemon)
  BY <1>1 DEF Offers
<1>3. s = "docker_container" => ImageAllowed(environ, Merged(environ, config))
  BY <1>2, Zenon DEF Usable, DockerUsable, Managed
<1>4. Explicit(environ, config) => s = Named(environ, config)
  BY <1>1 DEF Asked
<1>5. ~Explicit(environ, config) => s # "unsafe_local"
  BY <1>1 DEF Asked, AutoDetectOrder
<1>. QED
  BY <1>2, <1>3, <1>4, <1>5 DEF Choosable

(* A strategy that was found could be chosen; none is, only if none was     *)
(* named.                                                                  *)
LEMMA ProbeStep ==
  ASSUME RootInv, ProbeFinds \/ ProbeFindsNone
  PROVE  RootInv'
<1>1. pc = "probe" /\ Underway /\ "code_execution" \in Tools /\ Tools \subseteq KnownTools
  BY DEF ProbeFinds, ProbeFindsNone, Underway, RootInv, StrategyFits, ToolsKnown
<1>2. CASE ProbeFinds
  <2>1. /\ pc' = "start" /\ strategy' \in Strategies /\ Choosable(strategy')
        /\ UNCHANGED <<vars, around, config, resolution, recorded, root>>
    BY <1>2, TakesChoosable DEF ProbeFinds, reported
  <2>2. /\ RootEndsWork' /\ AroundOK' /\ ConfigAsStated' /\ RootFits'
        /\ Tools' = Tools /\ root = NoRoot /\ root' = NoRoot
        /\ \A s : Choosable(s)' <=> Choosable(s)
    BY <1>1, <2>1, GoesOn
  <2>3. Choosable(strategy)'
    <3>1. PICK s : s = strategy'
      OBVIOUS
    <3>2. Choosable(s)'
      BY <2>1, <2>2, <3>1
    <3>. QED
      BY <3>1, <3>2 DEF Choosable
  <2>4. ToolsKnown' /\ StrategyFits' /\ SnapshotFits' /\ ResolutionFits'
    BY <1>1, <2>1, <2>2, <2>3 DEF RootInv, ToolsKnown, StrategyFits, SnapshotFits,
         ResolutionFits, Probed
  <2>. QED
    BY <2>2, <2>4 DEF RootInv
<1>3. CASE ProbeFindsNone /\ Explicit(environ, config)
  <2>1. Fails /\ UNCHANGED <<vars, around, recorded, resolution>>
    BY <1>3 DEF ProbeFindsNone
  <2>2. resolution' \in Strategies \union {NoStrategy, "unavailable"}
    BY <2>1 DEF RootInv, ResolutionFits
  <2>. QED
    BY <1>1, <2>1, <2>2, GivesUp
<1>4. CASE ProbeFindsNone /\ ~Explicit(environ, config)
  <2>1. /\ pc' = "context" /\ resolution' = "unavailable"
        /\ UNCHANGED <<vars, around, config, strategy, recorded, root>>
    BY <1>4 DEF ProbeFindsNone, Goes
  <2>2. /\ RootEndsWork' /\ AroundOK' /\ ConfigAsStated' /\ RootFits'
        /\ Tools' = Tools /\ root = NoRoot /\ root' = NoRoot
        /\ Explicit(environ, config)' <=> Explicit(environ, config)
    BY <1>1, <2>1, GoesOn
  <2>3. "unavailable" \notin Strategies
    BY DEF Strategies, AutoDetectOrder
  <2>4. ToolsKnown' /\ StrategyFits' /\ SnapshotFits'
    BY <1>1, <2>1, <2>2 DEF RootInv, ToolsKnown, StrategyFits, SnapshotFits
  <2>5. ResolutionFits'
    BY <1>1, <1>4, <2>1, <2>2, <2>3, RootAssumption DEF ResolutionFits
  <2>. QED
    BY <2>2, <2>4, <2>5 DEF RootInv
<1>. QED
  BY <1>2, <1>3, <1>4

(* What has been started is what was found.                                *)
LEMMA StartStep ==
  ASSUME RootInv, Starts \/ StartFails
  PROVE  RootInv'
<1>1. /\ pc = "start" /\ Underway /\ "code_execution" \in Tools /\ Tools \subseteq KnownTools
      /\ strategy \in Strategies /\ Choosable(strategy)
  BY DEF Starts, StartFails, Underway, RootInv, StrategyFits, ToolsKnown, Choosable
<1>2. CASE Starts
  <2>1. /\ pc' = "context" /\ resolution' = strategy /\ strategy' = strategy
        /\ UNCHANGED <<vars, around, config, recorded, root>>
    BY <1>2 DEF Starts, Goes
  <2>2. /\ RootEndsWork' /\ AroundOK' /\ ConfigAsStated' /\ RootFits'
        /\ Tools' = Tools /\ root = NoRoot /\ root' = NoRoot
        /\ Explicit(environ, config)' <=> Explicit(environ, config)
        /\ \A s : Choosable(s)' <=> Choosable(s)
    BY <1>1, <2>1, GoesOn
  <2>3. Choosable(resolution)'
    <3>1. PICK s : s = strategy
      OBVIOUS
    <3>2. Choosable(s)'
      BY <1>1, <2>2, <3>1
    <3>. QED
      BY <2>1, <3>1, <3>2 DEF Choosable
  <2>4. "unavailable" \notin Strategies
    BY DEF Strategies, AutoDetectOrder
  <2>5. ToolsKnown' /\ StrategyFits' /\ SnapshotFits'
    BY <1>1, <2>1, <2>2 DEF RootInv, ToolsKnown, StrategyFits, SnapshotFits
  <2>6. ResolutionFits'
    BY <1>1, <2>1, <2>2, <2>3, <2>4, RootAssumption DEF ResolutionFits
  <2>. QED
    BY <2>2, <2>5, <2>6 DEF RootInv
<1>3. CASE StartFails
  <2>1. Fails /\ UNCHANGED <<vars, around, recorded, resolution>>
    BY <1>3 DEF StartFails, reported
  <2>2. resolution' \in Strategies \union {NoStrategy, "unavailable"}
    BY <2>1 DEF RootInv, ResolutionFits
  <2>. QED
    BY <1>1, <2>1, <2>2, GivesUp
<1>. QED
  BY <1>2, <1>3

(* The snapshot is that of the configuration, whatever was there before.   *)
LEMMA ContextStep ==
  ASSUME RootInv, ContextRefused \/ ContextBuilt
  PROVE  RootInv'
<1>1. pc = "context" /\ Underway /\ Probed /\ Tools \subseteq KnownTools
  BY DEF ContextRefused, ContextBuilt, Underway, Probed, RootInv, ToolsKnown
<1>2. CASE ContextRefused
  <2>1. Fails /\ UNCHANGED <<vars, around, recorded, resolution>>
    BY <1>2 DEF ContextRefused, reported
  <2>2. resolution' \in Strategies \union {NoStrategy, "unavailable"}
    BY <2>1 DEF RootInv, ResolutionFits
  <2>. QED
    BY <1>1, <2>1, <2>2, GivesUp
<1>3. CASE ContextBuilt
  <2>1. /\ pc' = "build" /\ recorded' = Snapshot
        /\ UNCHANGED <<vars, around, config, strategy, resolution, root>>
    BY <1>3 DEF ContextBuilt, Goes
  <2>2. /\ RootEndsWork' /\ AroundOK' /\ ConfigAsStated' /\ RootFits'
        /\ Tools' = Tools /\ Snapshot' = Snapshot /\ root = NoRoot /\ root' = NoRoot
        /\ Explicit(environ, config)' <=> Explicit(environ, config)
        /\ \A s : Choosable(s)' <=> Choosable(s)
    BY <1>1, <2>1, GoesOn
  <2>3. ToolsKnown' /\ StrategyFits'
    BY <1>1, <2>1, <2>2 DEF RootInv, ToolsKnown, StrategyFits
  <2>4. ResolutionFits'
    <3>1. /\ resolution \in Strategies \union {NoStrategy, "unavailable"}
          /\ (resolution = NoStrategy) <=> "code_execution" \notin Tools
          /\ resolution \in Strategies => Choosable(resolution)
          /\ resolution = "unavailable" => ~Explicit(environ, config)
      BY <1>1 DEF RootInv, ResolutionFits
    <3>2. resolution' \in Strategies => Choosable(resolution)'
      <4>1. PICK s : s = resolution
        OBVIOUS
      <4>2. s \in Strategies => Choosable(s)'
        BY <2>2, <3>1, <4>1
      <4>. QED
        BY <2>1, <4>1, <4>2 DEF Choosable
    <3>. QED
      BY <2>1, <2>2, <3>1, <3>2 DEF ResolutionFits
  <2>5. SnapshotFits'
    <3>1. Snapshot = [use_case |-> NoRoot, model |-> Snapshot.model, tools |-> Tools]
      BY DEF Snapshot, Tools
    <3>. QED
      BY <1>1, <2>1, <2>2, <3>1 DEF SnapshotFits
  <2>. QED
    BY <2>2, <2>3, <2>4, <2>5 DEF RootInv
<1>. QED
  BY <1>2, <1>3

(* A preset's options change neither the tools nor the model.              *)
LEMMA DefaultsKeep ==
  ASSUME NEW d
  PROVE  /\ WithDefaults(Runtime, d).tools = Tools
         /\ WithDefaults(Runtime, d).model = ModelOf(environ, config)
         /\ Runtime.tools = Tools /\ Runtime.model = ModelOf(environ, config)
BY DEF WithDefaults, Runtime, RuntimeOf, Tools

(* A preset that is found is filed under its key.                          *)
LEMMA ResolvedIsFiled ==
  ASSUME RegistryInv, NEW name \in Name, Resolves(name)
  PROVE  /\ Canonical(Canonical(name)) \in DOMAIN presets
         /\ Lower(Resolved(name).key) = Canonical(Canonical(name))
         /\ presets[Lower(Resolved(name).key)] = Resolved(name)
         /\ Canonical(Canonical(name)) \in Keys /\ Canonical(name) \in Keys
BY LowerIsKey DEF RegistryInv, RegistryTypeOK, Resolves, Resolved, Has, Canonical

(* A root is served that was built from what was resolved and recorded.    *)
LEMMA ServeStep ==
  ASSUME RootInv, pc = "build", UNCHANGED <<vars, around, resolution>>,
         NEW what \in Keys \union {NoGraph}, NEW runtime, Serve(what, runtime),
         NEW name \in Keys \union {NoGraph}, Records(name),
         runtime.tools = Tools, runtime.model = ModelOf(environ, config),
         config.graph = NoGraph =>
           /\ what \in DOMAIN presets
           /\ runtime = WithDefaults(Runtime, presets[what].defaults)
  PROVE  RootInv'
<1>1. /\ UNCHANGED <<deployment, file, daemon, config, strategy, resolution>>
      /\ UNCHANGED <<published, presets, aliases, call>>
      /\ pc' = "idle" /\ Underway /\ Probed /\ ~Underway'
      /\ root' = [what |-> what, runtime |-> runtime, strategy |-> resolution]
      /\ recorded' = [recorded EXCEPT !.use_case = name]
  BY DEF Serve, Records, around, vars, registry, Underway, Probed
<1>2. /\ Tools' = Tools /\ Snapshot' = Snapshot /\ Runtime' = Runtime
      /\ ModelOf(environ, config)' = ModelOf(environ, config)
      /\ Explicit(environ, config)' <=> Explicit(environ, config)
      /\ \A s : Choosable(s)' <=> Choosable(s)
  BY <1>1, SameConfig
<1>3. Stated' = Stated
  BY <1>1 DEF Stated, environ
<1>4. RootEndsWork' /\ AroundOK'
  BY <1>1 DEF RootInv, RootEndsWork, AroundOK
<1>5. ConfigAsStated' /\ ToolsKnown' /\ StrategyFits'
  BY <1>1, <1>3 DEF RootInv, ConfigAsStated, ToolsKnown, StrategyFits
<1>6. ResolutionFits'
  <2>1. /\ resolution \in Strategies \union {NoStrategy, "unavailable"}
        /\ (resolution = NoStrategy) <=> "code_execution" \notin Tools
        /\ resolution \in Strategies => Choosable(resolution)
        /\ resolution = "unavailable" => ~Explicit(environ, config)
    BY <1>1 DEF RootInv, ResolutionFits
  <2>2. resolution' \in Strategies => Choosable(resolution)'
    <3>1. PICK s : s = resolution
      OBVIOUS
    <3>2. s \in Strategies => Choosable(s)'
      BY <1>2, <2>1, <3>1
    <3>. QED
      BY <1>1, <3>1, <3>2 DEF Choosable
  <2>. QED
    BY <1>1, <1>2, <2>1, <2>2 DEF ResolutionFits
<1>7. SnapshotFits'
  <2>1. /\ recorded = [use_case |-> recorded.use_case, model |-> recorded.model,
                       tools |-> recorded.tools]
        /\ recorded.tools \subseteq KnownTools
        /\ recorded.tools = Tools /\ recorded.model = Snapshot.model
    BY DEF RootInv, SnapshotFits
  <2>2. recorded' = [use_case |-> name, model |-> recorded.model, tools |-> recorded.tools]
    BY <1>1, <2>1
  <2>3. recorded'.use_case = name /\ recorded'.model = recorded.model
        /\ recorded'.tools = recorded.tools
    BY <2>2
  <2>. QED
    BY <1>2, <2>1, <2>2, <2>3 DEF SnapshotFits
<1>8. RootFits'
  <2>1. /\ root'.what = what /\ root'.runtime = runtime /\ root'.strategy = resolution
    BY <1>1
  <2>. QED
    BY <1>1, <1>2, <2>1 DEF RootFits
<1>. QED
  BY <1>4, <1>5, <1>6, <1>7, <1>8 DEF RootInv

(* A root comes from the configuration, or there is none.                  *)
LEMMA BuildStep ==
  ASSUME RegistryInv, RootInv, BuildGraph \/ BuildPreset \/ BuildUnknown
  PROVE  RootInv'
<1>1. pc = "build" /\ Underway /\ UNCHANGED <<vars, around, resolution>>
  BY DEF BuildGraph, BuildPreset, BuildUnknown, Underway, reported
<1>2. resolution' \in Strategies \union {NoStrategy, "unavailable"}
  BY <1>1 DEF RootInv, ResolutionFits
<1>3. CASE BuildGraph
  <2>1. CASE Serve(NoGraph, Runtime) /\ Records(NoGraph)
    <3>1. config.graph # NoGraph
      BY <1>3 DEF BuildGraph
    <3>2. Runtime.tools = Tools /\ Runtime.model = ModelOf(environ, config)
      BY DefaultsKeep
    <3>. QED
      BY <1>1, <2>1, <3>1, <3>2, ServeStep
  <2>2. CASE Fails /\ UNCHANGED recorded
    BY <1>1, <1>2, <2>2, GivesUp
  <2>. QED
    BY <1>3, <2>1, <2>2 DEF BuildGraph
<1>4. CASE BuildPreset
  <2>. DEFINE found == Resolved(config.use_case)
  <2>1. config.use_case \in Name
    <3>1. AroundOK /\ config.use_case = KeyOf(Stated.use_case)
      BY <1>1 DEF RootInv, ConfigAsStated
    <3>2. config.use_case \in Keys
      BY <3>1, StatedFields, KeyOfName
    <3>. QED
      BY <3>2 DEF Keys
  <2>2. /\ Lower(found.key) \in DOMAIN presets /\ Lower(found.key) \in Keys
        /\ presets[Lower(found.key)] = found
        /\ Canonical(config.use_case) \in Keys
    BY <1>4, <2>1, ResolvedIsFiled DEF BuildPreset
  <2>3. /\ Records(Canonical(config.use_case))
        /\ Serve(Lower(found.key), WithDefaults(Runtime, found.defaults)) \/ Fails
    BY <1>4 DEF BuildPreset
  <2>. HIDE DEF found
  <2>4. CASE Serve(Lower(found.key), WithDefaults(Runtime, found.defaults))
    <3>1. /\ WithDefaults(Runtime, found.defaults).tools = Tools
          /\ WithDefaults(Runtime, found.defaults).model = ModelOf(environ, config)
      BY DefaultsKeep
    <3>. QED
      BY <1>1, <2>2, <2>3, <2>4, <3>1, ServeStep
  <2>5. CASE Fails
    <3>1. /\ UNCHANGED <<deployment, file, daemon, strategy, root, resolution>>
          /\ UNCHANGED published
          /\ pc' = "idle" /\ root = NoRoot /\ published
      BY <1>1, <2>5 DEF Fails, around, vars, RootInv, RootEndsWork
    <3>2. RootEndsWork' /\ AroundOK' /\ ConfigAsStated' /\ ToolsKnown' /\ StrategyFits'
          /\ ResolutionFits' /\ RootFits'
      BY <3>1, <1>2 DEF RootInv, RootEndsWork, AroundOK, ConfigAsStated, ToolsKnown,
           StrategyFits, ResolutionFits, RootFits, Underway, Probed
    <3>3. SnapshotFits'
      <4>1. recorded' = [recorded EXCEPT !.use_case = Canonical(config.use_case)]
        BY <2>3 DEF Records
      <4>2. recorded = [use_case |-> recorded.use_case, model |-> recorded.model,
                        tools |-> recorded.tools]
            /\ recorded.tools \subseteq KnownTools
        BY DEF RootInv, SnapshotFits
      <4>3. recorded' = [use_case |-> Canonical(config.use_case), model |-> recorded.model,
                         tools |-> recorded.tools]
        BY <4>1, <4>2
      <4>4. recorded'.use_case = Canonical(config.use_case) /\ recorded'.model = recorded.model
            /\ recorded'.tools = recorded.tools
        BY <4>3
      <4>. QED
        BY <2>2, <3>1, <4>2, <4>3, <4>4 DEF SnapshotFits
    <3>. QED
      BY <3>2, <3>3 DEF RootInv
  <2>. QED
    BY <2>3, <2>4, <2>5
<1>5. CASE BuildUnknown
  BY <1>1, <1>2, <1>5, GivesUp DEF BuildUnknown, reported
<1>. QED
  BY <1>3, <1>4, <1>5

(* Nothing happens. *)
LEMMA RootStutters ==
  ASSUME RootInv, UNCHANGED allvars
  PROVE  RootInv'
<1>1. /\ UNCHANGED <<deployment, file, daemon, pc, config, strategy, resolution, recorded, root>>
      /\ UNCHANGED <<published, presets, aliases, call>>
  BY DEF allvars, around, building, reported, vars, registry
<1>2. /\ Tools' = Tools /\ Snapshot' = Snapshot /\ Runtime' = Runtime
      /\ ModelOf(environ, config)' = ModelOf(environ, config)
      /\ Explicit(environ, config)' <=> Explicit(environ, config)
      /\ \A s : Choosable(s)' <=> Choosable(s)
  BY <1>1, SameConfig
<1>3. (Underway' <=> Underway) /\ (Probed' <=> Probed) /\ Stated' = Stated
      /\ KeyOf(Stated.use_case)' = KeyOf(Stated.use_case)
  BY <1>1 DEF Underway, Probed, Stated, environ, KeyOf, Has, Canonical
<1>4. RootEndsWork' /\ AroundOK' /\ ConfigAsStated' /\ ToolsKnown' /\ StrategyFits'
  BY <1>1, <1>2, <1>3 DEF RootInv, RootEndsWork, AroundOK, ConfigAsStated, ToolsKnown,
       StrategyFits
<1>5. ResolutionFits' /\ SnapshotFits' /\ RootFits'
  BY <1>1, <1>2, <1>3 DEF RootInv, ResolutionFits, SnapshotFits, RootFits
<1>. QED
  BY <1>4, <1>5 DEF RootInv

(* To the registry, each step of the process is one of its own or none. *)
LEMMA RootStepsRegistry == [RootNext]_allvars => [RegistryNext]_vars
<1>. SUFFICES ASSUME [RootNext]_allvars PROVE [RegistryNext]_vars
  OBVIOUS
<1>1. CASE EditFile \/ DaemonTurns \/ GetAtOnce \/ UNCHANGED allvars
  BY <1>1 DEF EditFile, DaemonTurns, GetAtOnce, allvars
<1>2. CASE \E m \in Modules : LoadByHand(m)
  BY <1>2 DEF LoadByHand, RegistryNext
<1>3. CASE GetRootAgent \/ RegistryProceeds \/ RegistryRaises
  BY <1>3 DEF GetRootAgent, RegistryProceeds, RegistryRaises, RegistryNext
<1>4. CASE Configure \/ ToolsRefused \/ ToolsBuilt \/ ProbeFinds \/ ProbeFindsNone
  BY <1>4 DEF Configure, ToolsRefused, ToolsBuilt, ProbeFinds, ProbeFindsNone
<1>5. CASE Starts \/ StartFails \/ ContextRefused \/ ContextBuilt
  BY <1>5 DEF Starts, StartFails, ContextRefused, ContextBuilt
<1>6. CASE BuildGraph \/ BuildPreset \/ BuildUnknown
  BY <1>6 DEF BuildGraph, BuildPreset, BuildUnknown
<1>. QED
  BY <1>1, <1>2, <1>3, <1>4, <1>5, <1>6 DEF RootNext

(* A step of the registry within the process keeps the invariant. *)
LEMMA RegistryWithin ==
  ASSUME RegistryInv, RootInv,
         (\E m \in Modules : LoadByHand(m)) \/ RegistryProceeds \/ RegistryRaises
  PROVE  RootInv'
<1>1. [RegistryNext]_vars
  BY RootStepsRegistry DEF RootNext
<1>2. CASE \E m \in Modules : LoadByHand(m)
  <2>1. pc = "idle" /\ published' /\ UNCHANGED <<around, building, reported, root>>
    BY <1>2 DEF LoadByHand, LoadModule, Ask
  <2>. QED
    BY <1>1, <2>1, RegistryMoves
<1>3. CASE RegistryProceeds
  <2>1. call # Idle /\ published' = published /\ UNCHANGED <<around, building, reported, root>>
    BY <1>3, WorkIsCalled DEF RegistryProceeds
  <2>2. pc \in {"idle", "config"}
    BY <2>1 DEF RootInv, RootEndsWork, Underway
  <2>. QED
    BY <1>1, <2>1, <2>2, RegistryMoves
<1>4. CASE RegistryRaises
  <2>1. /\ call # Idle /\ published' = published /\ pc' = "idle"
        /\ UNCHANGED <<around, reported, config, strategy, root>>
    BY <1>4, WorkIsCalled DEF RegistryRaises, Fails
  <2>2. pc \in {"idle", "config"}
    BY <2>1 DEF RootInv, RootEndsWork, Underway
  <2>3. CASE root = NoRoot
    <3>1. /\ UNCHANGED <<deployment, file, daemon, strategy, recorded, resolution, root>>
      BY <2>1 DEF around, reported
    <3>2. file' \in deployment.files /\ daemon' \in deployment.daemons
          /\ resolution' \in Strategies \union {NoStrategy, "unavailable"}
      BY <3>1 DEF RootInv, AroundOK, ResolutionFits
    <3>. QED
      BY <2>1, <2>3, <3>1, <3>2, IdleStep
  <2>4. CASE root # NoRoot
    <3>1. pc = "idle"
      BY <2>4 DEF RootInv, RootEndsWork
    <3>2. UNCHANGED building
      BY <2>1, <3>1 DEF building
    <3>. QED
      BY <1>1, <2>1, <2>2, <3>2, RegistryMoves
  <2>. QED
    BY <2>3, <2>4
<1>. QED
  BY <1>2, <1>3, <1>4

(* Every step keeps the invariant. *)
LEMMA RootStep == RegistryInv /\ RootInv /\ [RootNext]_allvars => RootInv'
<1>. SUFFICES ASSUME RegistryInv, RootInv, [RootNext]_allvars PROVE RootInv'
  OBVIOUS
<1>1. CASE EditFile
  <2>1. /\ root = NoRoot /\ pc' = "idle" /\ file' \in deployment.files
        /\ UNCHANGED <<deployment, daemon, strategy, recorded, resolution, root>>
    BY <1>1 DEF EditFile, building, reported
  <2>2. daemon' \in deployment.daemons
        /\ resolution' \in Strategies \union {NoStrategy, "unavailable"}
    BY <2>1 DEF RootInv, AroundOK, ResolutionFits
  <2>. QED
    BY <2>1, <2>2, IdleStep
<1>2. CASE GetRootAgent
  <2>1. /\ root = NoRoot /\ pc' = "config" /\ published'
        /\ UNCHANGED <<deployment, file, daemon, strategy, recorded, resolution, root>>
    BY <1>2 DEF GetRootAgent, Ask, around, reported
  <2>2. file' \in deployment.files /\ daemon' \in deployment.daemons
        /\ resolution' \in Strategies \union {NoStrategy, "unavailable"}
    BY <2>1 DEF RootInv, AroundOK, ResolutionFits
  <2>. QED
    BY <2>1, <2>2, IdleStep
<1>3. CASE (\E m \in Modules : LoadByHand(m)) \/ RegistryProceeds \/ RegistryRaises
  BY <1>3, RegistryWithin
<1>4. CASE DaemonTurns
  BY <1>4, DaemonStep
<1>5. CASE GetAtOnce \/ UNCHANGED allvars
  BY <1>5, RootStutters DEF GetAtOnce
<1>6. CASE Configure
  BY <1>6, ConfigureStep
<1>7. CASE ToolsRefused \/ ToolsBuilt
  BY <1>7, ToolsStep
<1>8. CASE ProbeFinds \/ ProbeFindsNone
  BY <1>8, ProbeStep
<1>9. CASE Starts \/ StartFails
  BY <1>9, StartStep
<1>10. CASE ContextRefused \/ ContextBuilt
  BY <1>10, ContextStep
<1>11. CASE BuildGraph \/ BuildPreset \/ BuildUnknown
  BY <1>11, BuildStep
<1>. QED
  BY <1>1, <1>2, <1>3, <1>4, <1>5, <1>6, <1>7, <1>8, <1>9, <1>10, <1>11 DEF RootNext

-----------------------------------------------------------------------------
(* The process uses the registry as the registry allows: whatever holds of *)
(* UseCaseRegistry by itself holds of it inside the agent's process.       *)
THEOREM RootUsesRegistry == RootSpec => RegistrySpec
<1>1. RootInit => Init
  BY DEF RootInit
<1>. QED
  BY <1>1, RootStepsRegistry, PTL DEF RootSpec, RegistrySpec

(* The strengthened invariant of the agent entry point. *)
THEOREM RootInvariance == RootSpec => [](RegistryInv /\ RootInv)
<1>1. RootSpec => []RegistryInv
  BY RootUsesRegistry, RegistryInvariance, PTL
<1>. QED
  BY <1>1, RootInitially, RootStep, PTL DEF RootSpec

(* The registry's promises, kept while root agents are asked for, built    *)
(* and refused.                                                            *)
THEOREM RegistryPromises ==
  RootSpec => /\ []NoDeadAlias /\ []BuiltinsStand /\ []LoadedIsServed
              /\ AliasesKeepMeaning
BY RootUsesRegistry, AliasesLead, BuiltinsRemain, LoadedServed, AliasesKept, PTL

(* Types of the agent entry point. *)
THEOREM RootTypeCorrect == RootSpec => []TypeOK
<1>1. RegistryInv /\ RootInv => TypeOK
  <2>. SUFFICES ASSUME RegistryInv, RootInv PROVE TypeOK
    OBVIOUS
  <2>1. RegistryTypeOK /\ AroundOK
    BY DEF RegistryInv, RootInv
  <2>2. pc \notin {"idle", "config"} => published /\ call = Idle /\ config.use_case \in Keys
    <3>. SUFFICES ASSUME pc \notin {"idle", "config"}
                  PROVE  published /\ call = Idle /\ config.use_case \in Keys
      OBVIOUS
    <3>1. Underway /\ published /\ call = Idle
      BY DEF RootInv, RootEndsWork, Underway
    <3>2. config.use_case = KeyOf(Stated.use_case)
      BY <3>1 DEF RootInv, ConfigAsStated
    <3>3. Stated.use_case \in Name
      BY <2>1, StatedFields
    <3>. QED
      BY <3>1, <3>2, <3>3, KeyOfName
  <2>. QED
    BY <2>1, <2>2 DEF TypeOK, RootInv, RootEndsWork, AroundOK, StrategyFits, ResolutionFits,
         SnapshotFits, RootFits
<1>. QED
  BY <1>1, RootInvariance, PTL

(* The tools, the model and the strategy that are reported are those of    *)
(* the root, after any number of attempts that failed.                     *)
THEOREM ReportedServed == RootSpec => []ReportedIsServed
<1>1. RootInv => ReportedIsServed
  <2>. SUFFICES ASSUME RootInv, root # NoRoot
                PROVE  /\ resolution = root.strategy
                       /\ recorded.tools = root.runtime.tools
                       /\ recorded.model # Empty => recorded.model = root.runtime.model.name
    BY DEF ReportedIsServed
  <2>1. /\ root.strategy = resolution /\ root.runtime.tools = Tools
        /\ root.runtime.model = ModelOf(environ, config)
        /\ recorded.tools = Tools /\ recorded.model = Snapshot.model
    BY DEF RootInv, RootFits, SnapshotFits
  <2>2. AroundOK /\ config = [Stated EXCEPT !.use_case = config.use_case]
    BY DEF RootInv, ConfigAsStated
  <2>3. Fields \subseteq DOMAIN Stated /\ Stated.model # Unset
    BY <2>2, StatedFields
  <2>4. config.model # Unset
    BY <2>2, <2>3 DEF Fields
  <2>5. recorded.model = IF config.model = Absent THEN Settings(environ).model ELSE config.model
    BY <2>1 DEF Snapshot
  <2>6. root.runtime.model.name =
          IF Given(config.model) THEN config.model ELSE Settings(environ).model
    <3>1. \A name, provider : ResolveModel(name, provider).name = name
      BY DEF ResolveModel
    <3>. QED
      BY <2>1, <3>1 DEF ModelOf
  <2>. QED
    BY <2>1, <2>4, <2>5, <2>6 DEF Given
<1>. QED
  BY <1>1, RootInvariance, PTL

(* What environment and file tell of where code runs, once a root is       *)
(* built: the variable, or else the file.                                  *)
Told(n) == IF environ.code[n] # Unset THEN environ.code[n] ELSE InFile(file.says.code[n])

(* What is told is what the strategies are chosen by. *)
LEMMA ToldIsMerged ==
  ASSUME RootInv, root # NoRoot, NEW n \in CodeFields
  PROVE  /\ Given(Told(n)) => Merged(environ, config)[n] = Told(n)
         /\ Given(Merged(environ, config)[n]) => Merged(environ, config)[n] = Told(n)
<1>1. AroundOK /\ config = [Stated EXCEPT !.use_case = config.use_case]
  BY DEF RootInv, ConfigAsStated
<1>2. config.code =
        IF file = NoFile THEN [f \in CodeFields |-> Override(environ.code[f], Empty)]
                         ELSE file.says.code
  BY <1>1, StatedFields DEF Fields
<1>3. Merged(environ, config)[n] =
        IF environ.code[n] # Unset THEN environ.code[n] ELSE Override(config.code[n], Unset)
  BY DEF Merged
<1>4. CASE environ.code[n] # Unset
  BY <1>3, <1>4 DEF Told
<1>5. CASE environ.code[n] = Unset /\ file = NoFile
  BY <1>2, <1>3, <1>5 DEF Told, InFile, Override, Given
<1>6. CASE environ.code[n] = Unset /\ file # NoFile
  BY <1>2, <1>3, <1>6 DEF Told, InFile, Override, Given
<1>. QED
  BY <1>4, <1>5, <1>6

(* Code runs where environment and file tell it to, for any configuration  *)
(* of the two and whatever became of the daemon and of earlier attempts.   *)
THEOREM CodeRunsAsTold == RootSpec => []CodeRunsWhereTold
<1>1. RootInv => CodeRunsWhereTold
  <2>. SUFFICES ASSUME RootInv, root # NoRoot
       PROVE  /\ (root.strategy = NoStrategy) = ("code_execution" \notin root.runtime.tools)
              /\ root.strategy # NoStrategy /\ Given(Told("strategy")) =>
                   root.strategy = Told("strategy")
              /\ root.strategy = "unsafe_local" => Told("strategy") = "unsafe_local"
              /\ root.strategy = "docker_container" /\ Told("docker_image") = "floating" =>
                   environ.deployment \notin {"production", "prod", "staging"}
    BY DEF CodeRunsWhereTold, Told
  <2>1. /\ root.strategy = resolution /\ root.runtime.tools = Tools
        /\ resolution \in Strategies \union {NoStrategy, "unavailable"}
        /\ (resolution = NoStrategy) <=> "code_execution" \notin Tools
        /\ resolution \in Strategies => Choosable(resolution)
        /\ resolution = "unavailable" => ~Explicit(environ, config)
    BY DEF RootInv, RootFits, ResolutionFits, Probed
  <2>2. "strategy" \in CodeFields /\ "docker_image" \in CodeFields
    BY DEF CodeFields
  <2>3. "unsafe_local" \in Strategies /\ "docker_container" \in Strategies
    BY DEF Strategies, AutoDetectOrder
  <2>4. ASSUME root.strategy # NoStrategy, Given(Told("strategy"))
        PROVE  root.strategy = Told("strategy")
    <3>1. Merged(environ, config)["strategy"] = Told("strategy")
      BY <2>2, <2>4, ToldIsMerged
    <3>2. Explicit(environ, config) /\ Named(environ, config) = Told("strategy")
      BY <2>4, <3>1 DEF Explicit, Named
    <3>. QED
      BY <2>1, <2>4, <3>2 DEF Choosable
  <2>5. ASSUME root.strategy = "unsafe_local"
        PROVE  Told("strategy") = "unsafe_local"
    <3>1. Choosable("unsafe_local")
      BY <2>1, <2>3, <2>5
    <3>2. Explicit(environ, config) /\ Named(environ, config) = "unsafe_local"
      BY <3>1 DEF Choosable
    <3>3. Given(Merged(environ, config)["strategy"])
          /\ Merged(environ, config)["strategy"] = "unsafe_local"
      BY <3>2 DEF Explicit, Named
    <3>. QED
      BY <2>2, <3>3, ToldIsMerged
  <2>6. ASSUME root.strategy = "docker_container", Told("docker_image") = "floating"
        PROVE  environ.deployment \notin {"production", "prod", "staging"}
    <3>1. ImageAllowed(environ, Merged(environ, config))
      BY <2>1, <2>3, <2>6 DEF Choosable
    <3>2. Given("floating")
      BY ConfigurationAssumption
    <3>3. Merged(environ, config)["docker_image"] = "floating"
      BY <2>2, <2>6, <3>2, ToldIsMerged
    <3>. QED
      BY <3>1, <3>3 DEF ImageAllowed
  <2>7. (root.strategy = NoStrategy) = ("code_execution" \notin root.runtime.tools)
    BY <2>1
  <2>. QED
    BY <2>4, <2>5, <2>6, <2>7
<1>. QED
  BY <1>1, RootInvariance, PTL

(* The preset that is served is the one the configured name leads to, for  *)
(* any history of loads, edits of the file and attempts that failed.       *)
THEOREM ConfiguredIsServed == RootSpec => ServesConfigured
<1>1. ASSUME RegistryInv, RootInv, [RootNext]_allvars,
             root = NoRoot, root' # NoRoot, config.graph = NoGraph, Hidden = {}
      PROVE  /\ root'.what = Canonical(Canonical(Wanted))
             /\ Dead = {} => recorded'.use_case = root'.what
  <2>. DEFINE name == config.use_case
              key  == Canonical(Wanted)
  <2>1. BuildPreset
    BY <1>1 DEF RootNext, EditFile, DaemonTurns, LoadByHand, GetAtOnce, GetRootAgent,
         RegistryProceeds, RegistryRaises, Configure, ToolsRefused, ToolsBuilt, ProbeFinds,
         ProbeFindsNone, Starts, StartFails, ContextRefused, ContextBuilt, BuildGraph,
         BuildUnknown, Fails, Goes, reported, allvars
  <2>2. /\ pc = "build" /\ Resolves(name)
        /\ Records(Canonical(name)) /\ root'.what = Lower(Resolved(name).key)
    BY <1>1, <2>1 DEF BuildPreset, Serve, Fails
  <2>3. recorded'.use_case = Canonical(name)
    <3>1. recorded = [use_case |-> recorded.use_case, model |-> recorded.model,
                      tools |-> recorded.tools]
      BY <1>1 DEF RootInv, SnapshotFits
    <3>2. recorded' = [recorded EXCEPT !.use_case = Canonical(name)]
      BY <2>2 DEF Records
    <3>. QED
      BY <3>1, <3>2
  <2>4. Wanted \in Name /\ name = KeyOf(Wanted)
    <3>1. AroundOK /\ Underway
      BY <1>1, <2>2 DEF RootInv, Underway
    <3>. QED
      BY <1>1, <3>1, StatedFields DEF RootInv, ConfigAsStated
  <2>5. name \in Keys /\ name \in Name /\ key \in Keys /\ key \in Name
        /\ Lower(key) = key /\ Lower(Lower(Wanted)) = Lower(Wanted)
    <3>1. name \in Keys /\ key \in Keys /\ Lower(Lower(Wanted)) = Lower(Wanted)
      BY <1>1, <2>4, KeyOfName, LowerIsKey
    <3>. QED
      BY <3>1 DEF Keys, Name, Lower
  <2>6. root'.what = Canonical(Canonical(name))
        /\ Canonical(Canonical(name)) \in DOMAIN presets
    BY <1>1, <2>2, <2>5, ResolvedIsFiled
  <2>. HIDE DEF name
  <2>7. CASE Has(Wanted)
    <3>1. name = key /\ key \in DOMAIN presets
      BY <2>4, <2>7 DEF KeyOf, Has
    <3>2. Canonical(key) = key
      BY <1>1, <2>5, <3>1 DEF Canonical, Hidden
    <3>. QED
      BY <2>3, <2>6, <3>1, <3>2
  <2>8. CASE ~Has(Wanted)
    <3>1. name = Lower(Wanted) /\ Canonical(name) = key /\ key \notin DOMAIN presets
      BY <2>4, <2>5, <2>8 DEF KeyOf, Has, Canonical
    <3>2. Lower(Wanted) \in DOMAIN aliases => Dead # {}
      BY <3>1 DEF Dead, Canonical
    <3>3. Lower(Wanted) \notin DOMAIN aliases => Canonical(key) = key
      BY <2>5 DEF Canonical
    <3>. QED
      BY <2>3, <2>6, <3>1, <3>2, <3>3
  <2>. QED
    BY <2>7, <2>8
<1>2. RegistryInv /\ RootInv /\ [RootNext]_allvars =>
        [root = NoRoot /\ root' # NoRoot /\ config.graph = NoGraph /\ Hidden = {} =>
           /\ root'.what = Canonical(Canonical(Wanted))
           /\ Dead = {} => recorded'.use_case = root'.what]_allvars
  BY <1>1
<1>. QED
  BY <1>2, RootInvariance, PTL DEF RootSpec, ServesConfigured

(* The settings that were read at import stay. *)
LEMMA Imported == RootSpec => []Imports(environ)
<1>1. RootInit => Imports(environ)
  BY DEF RootInit
<1>2. Imports(environ) /\ [RootNext]_allvars => Imports(environ)'
  <2>. SUFFICES ASSUME Imports(environ), [RootNext]_allvars PROVE Imports(environ)'
    OBVIOUS
  <2>1. deployment' = deployment
    BY DEF RootNext, EditFile, DaemonTurns, LoadByHand, GetAtOnce, GetRootAgent,
       RegistryProceeds, RegistryRaises, Configure, ToolsRefused, ToolsBuilt, ProbeFinds,
       ProbeFindsNone, Starts, StartFails, ContextRefused, ContextBuilt, BuildGraph,
       BuildPreset, BuildUnknown, allvars, around
  <2>. QED
    BY <2>1 DEF environ, Imports
<1>. QED
  BY <1>1, <1>2, PTL DEF RootSpec

(* The configuration of the environment, and that of the environment over  *)
(* a file that names the use case: the same model, tools and options.      *)
LEMMA TwoWays ==
  ASSUME NEW c, NEW use_case, NEW e, Imports(e),
         c = [FromEnv(e) EXCEPT !.use_case = use_case]
  PROVE  LET bare == Overridden(e, BareFile)
         IN  /\ Merged(e, bare) = Merged(e, c)
             /\ ModelOf(e, bare) = ModelOf(e, c)
             /\ Configured(e, bare) = Configured(e, c)
             /\ RuntimeOf(e, bare).iterations = RuntimeOf(e, c).iterations
             /\ RuntimeOf(e, bare).require = RuntimeOf(e, c).require
             /\ RuntimeOf(e, bare).structured = RuntimeOf(e, c).structured
             /\ RuntimeOf(e, bare).roles = RuntimeOf(e, c).roles
             /\ RuntimeOf(e, bare).specialists # RuntimeOf(e, c).specialists =>
                  /\ RuntimeOf(e, bare).specialists = {}
                  /\ RuntimeOf(e, c).specialists = DefaultRoster
<1>. DEFINE bare == Overridden(e, BareFile)
<1>1. /\ bare.provider = "google" /\ bare.model = Override(e.model, Absent)
      /\ bare.enabled = OverriddenTools(e, BareFile) /\ bare.nested = <<>>
      /\ bare.iterations = OverriddenIterations(e, BareFile)
      /\ bare.specialists = Override(e.specialists, Absent)
      /\ bare.require = Absent /\ bare.code = [n \in CodeFields |-> Empty]
      /\ bare.schema = Absent /\ bare.roles = <<>>
  BY DEF Overridden, BareFile
<1>2. /\ c.provider = "google" /\ c.model = Settings(e).model
      /\ c.enabled = Settings(e).tools
      /\ c.nested = [n \in {"mcp"} |-> n \in Settings(e).tools]
      /\ c.iterations = Override(e.iterations, Settings(e).iterations)
      /\ c.specialists = IF Given(e.specialists) THEN Names(e.specialists) ELSE Settings(e).specialists
      /\ c.require = Absent /\ c.code = [n \in CodeFields |-> Override(e.code[n], Empty)]
      /\ c.schema = IF "structured_output" \in Settings(e).tools THEN "GenericAgentResponse" ELSE Absent
      /\ c.roles = <<>>
  BY DEF FromEnv
<1>3. /\ Settings(e).model = Setting(e.model, "default")
      /\ Settings(e).tools = Names(Setting(e.tools, DefaultTools))
      /\ Settings(e).iterations = Setting(e.iterations, DefaultIterations)
      /\ Settings(e).specialists = Names(Setting(e.specialists, DefaultRoster))
  BY DEF Settings
<1>4. Merged(e, bare) = Merged(e, c)
  <2>1. ASSUME NEW n \in CodeFields
        PROVE  /\ Override(bare.code[n], Unset) = Unset
               /\ e.code[n] = Unset => Override(c.code[n], Unset) = Unset
    BY <1>1, <1>2 DEF Override, Given
  <2>. HIDE DEF bare
  <2>2. \A n \in CodeFields :
          (IF e.code[n] # Unset THEN e.code[n] ELSE Override(bare.code[n], Unset)) =
          (IF e.code[n] # Unset THEN e.code[n] ELSE Override(c.code[n], Unset))
    BY <2>1
  <2>. QED
    BY <2>2 DEF Merged
<1>. HIDE DEF bare
<1>5. ModelOf(e, bare) = ModelOf(e, c)
  <2>1. (IF Given(bare.model) THEN bare.model ELSE Settings(e).model) = Settings(e).model
    BY <1>1, <1>3 DEF Override, Given, Setting
  <2>2. (IF Given(c.model) THEN c.model ELSE Settings(e).model) = Settings(e).model
    BY <1>2
  <2>. QED
    BY <1>1, <1>2, <2>1, <2>2 DEF ModelOf
<1>6. Configured(e, bare) = Settings(e).tools
  <2>1. (IF bare.enabled = Absent THEN Settings(e).tools ELSE bare.enabled) = Settings(e).tools
    BY <1>1, <1>3 DEF OverriddenTools, BareFile, Setting, Names
  <2>2. DOMAIN bare.nested = {}
    BY <1>1
  <2>. QED
    BY <2>1, <2>2 DEF Configured
<1>7. Configured(e, c) = Settings(e).tools
  <2>1. (IF c.enabled = Absent THEN Settings(e).tools ELSE c.enabled) = Settings(e).tools
    BY <1>2
  <2>2. DOMAIN c.nested = {"mcp"} /\ c.nested["mcp"] = ("mcp" \in Settings(e).tools)
    BY <1>2
  <2>. QED
    BY <2>1, <2>2 DEF Configured
<1>8. RuntimeOf(e, bare).iterations = RuntimeOf(e, c).iterations
  <2>1. e.iterations # Empty
    BY DEF Imports
  <2>2. (IF bare.iterations = Absent THEN DefaultIterations ELSE bare.iterations)
          = IF c.iterations = Absent THEN DefaultIterations ELSE c.iterations
    BY <1>1, <1>2, <1>3, <2>1 DEF OverriddenIterations, BareFile, Override, Given, Setting
  <2>. QED
    BY <2>2 DEF RuntimeOf
<1>9. RuntimeOf(e, bare).structured = RuntimeOf(e, c).structured
  BY <1>1, <1>2, <1>6, <1>7 DEF RuntimeOf
<1>10. RuntimeOf(e, bare).require = RuntimeOf(e, c).require
       /\ RuntimeOf(e, bare).roles = RuntimeOf(e, c).roles
  BY <1>1, <1>2 DEF RuntimeOf
<1>11. RuntimeOf(e, bare).specialists # RuntimeOf(e, c).specialists =>
         /\ RuntimeOf(e, bare).specialists = {}
         /\ RuntimeOf(e, c).specialists = DefaultRoster
  <2>1. RuntimeOf(e, bare).specialists =
          IF bare.specialists = Absent THEN {} ELSE bare.specialists
    BY DEF RuntimeOf
  <2>2. RuntimeOf(e, c).specialists = IF c.specialists = Absent THEN {} ELSE c.specialists
    BY DEF RuntimeOf
  <2>. QED
    BY <1>1, <1>2, <1>3, <2>1, <2>2 DEF Override, Given, Names, Setting
<1>. QED
  BY <1>4, <1>5, <1>6, <1>7, <1>8, <1>9, <1>10, <1>11 DEF bare

(* A runtime, field by field. *)
Fielded(model, tools, times, req, names, structured, roles) ==
  [model |-> model, tools |-> tools, iterations |-> times, require |-> req,
   specialists |-> names, structured |-> structured, roles |-> roles]

(* A preset's options fill the three fields that may be left to them. *)
LEMMA WithDefaultsFields ==
  ASSUME NEW model, NEW tools, NEW times, NEW req, NEW names, NEW structured, NEW roles, NEW d
  PROVE  WithDefaults(Fielded(model, tools, times, req, names, structured, roles), d) =
           Fielded(model, tools,
                   IF times = DefaultIterations THEN Override(d.iterations, times) ELSE times,
                   IF ~req THEN Override(d.require, req) ELSE req,
                   IF names = {} THEN Override(d.specialists, names) ELSE names,
                   structured, roles)
<1>. DEFINE F(t, r, n) == Fielded(model, tools, t, r, n, structured, roles)
            t1 == IF times = DefaultIterations THEN Override(d.iterations, times) ELSE times
            r1 == IF ~req THEN Override(d.require, req) ELSE req
            n1 == IF names = {} THEN Override(d.specialists, names) ELSE names
<1>1. \A t, r, n, v : /\ [F(t, r, n) EXCEPT !.iterations = v] = F(v, r, n)
                      /\ [F(t, r, n) EXCEPT !.require = v] = F(t, v, n)
                      /\ [F(t, r, n) EXCEPT !.specialists = v] = F(t, r, v)
  BY DEF Fielded
<1>2. \A t, r, n : F(t, r, n).iterations = t /\ F(t, r, n).require = r /\ F(t, r, n).specialists = n
  BY DEF Fielded
<1>. HIDE DEF F
<1>3. PICK rt : rt = F(times, req, names)
  OBVIOUS
<1>4. rt.iterations = times /\ rt.require = req /\ rt.specialists = names
  BY <1>2, <1>3
<1>5. WithDefaults(rt, d) =
        [rt EXCEPT !.iterations = IF rt.iterations = DefaultIterations
                                  THEN Override(d.iterations, rt.iterations) ELSE rt.iterations,
                   !.require = IF ~rt.require THEN Override(d.require, rt.require) ELSE rt.require,
                   !.specialists = IF rt.specialists = {}
                                   THEN Override(d.specialists, rt.specialists) ELSE rt.specialists]
  BY DEF WithDefaults
<1>6. WithDefaults(rt, d) = [rt EXCEPT !.iterations = t1, !.require = r1, !.specialists = n1]
  BY <1>4, <1>5
<1>. HIDE DEF t1, r1, n1
<1>7. WithDefaults(rt, d) =
        [[[rt EXCEPT !.iterations = t1] EXCEPT !.require = r1] EXCEPT !.specialists = n1]
  BY <1>6
<1>8. [rt EXCEPT !.iterations = t1] = F(t1, req, names)
  BY <1>1, <1>3
<1>9. [F(t1, req, names) EXCEPT !.require = r1] = F(t1, r1, names)
  BY <1>1
<1>10. [F(t1, r1, names) EXCEPT !.specialists = n1] = F(t1, r1, n1)
  BY <1>1
<1>11. WithDefaults(F(times, req, names), d) = F(t1, r1, n1)
  BY <1>3, <1>7, <1>8, <1>9, <1>10
<1>. QED
  BY <1>11 DEF F, t1, r1, n1

(* The environment by itself and the environment over a file that names    *)
(* nothing but the use case come to the same agent, for any environment    *)
(* and any preset.                                                         *)
THEOREM PathsComeTogether == RootSpec => []PathsAgree
<1>1. RootInv /\ Imports(environ) => PathsAgree
  <2>. DEFINE bare     == Overridden(environ, BareFile)
              defaults == presets[root.what].defaults
              rt       == RuntimeOf(environ, bare)
              other    == WithDefaults(rt, defaults)
  <2>. SUFFICES ASSUME RootInv, Imports(environ), root # NoRoot, file = NoFile
                PROVE  /\ Merged(environ, bare) = Merged(environ, config)
                       /\ [other EXCEPT !.specialists = root.runtime.specialists] = root.runtime
                       /\ defaults.specialists = DefaultRoster => other = root.runtime
    BY DEF PathsAgree
  <2>1. config = [FromEnv(environ) EXCEPT !.use_case = config.use_case]
    BY StatedFields DEF RootInv, ConfigAsStated
  <2>2. /\ Merged(environ, bare) = Merged(environ, config)
        /\ ModelOf(environ, bare) = ModelOf(environ, config)
        /\ Configured(environ, bare) = Configured(environ, config)
        /\ rt.iterations = Runtime.iterations /\ rt.require = Runtime.require
        /\ rt.structured = Runtime.structured /\ rt.roles = Runtime.roles
        /\ rt.specialists # Runtime.specialists =>
             rt.specialists = {} /\ Runtime.specialists = DefaultRoster
    BY <2>1, TwoWays DEF Runtime
  <2>3. rt.model = Runtime.model /\ rt.tools = Runtime.tools
    BY <2>2 DEF RuntimeOf, Runtime, ToolsOf
  <2>4. config.graph = NoGraph
    BY <2>1 DEF FromEnv
  <2>5. root.runtime = WithDefaults(Runtime, defaults)
    BY <2>4 DEF RootInv, RootFits
  <2>. DEFINE sp(names) == IF names = {} THEN Override(defaults.specialists, names) ELSE names
              it  == IF Runtime.iterations = DefaultIterations
                     THEN Override(defaults.iterations, Runtime.iterations)
                     ELSE Runtime.iterations
              req == IF ~Runtime.require THEN Override(defaults.require, Runtime.require)
                                         ELSE Runtime.require
              filled(names) == Fielded(Runtime.model, Runtime.tools, it, req, names,
                                       Runtime.structured, Runtime.roles)
  <2>6. /\ rt = Fielded(rt.model, rt.tools, rt.iterations, rt.require, rt.specialists,
                        rt.structured, rt.roles)
        /\ Runtime = Fielded(Runtime.model, Runtime.tools, Runtime.iterations, Runtime.require,
                             Runtime.specialists, Runtime.structured, Runtime.roles)
    BY DEF RuntimeOf, Runtime, Fielded
  <2>7. rt = Fielded(Runtime.model, Runtime.tools, Runtime.iterations, Runtime.require,
                     rt.specialists, Runtime.structured, Runtime.roles)
    BY <2>2, <2>3, <2>6
  <2>. HIDE DEF bare, rt, defaults
  <2>8. root.runtime = filled(sp(Runtime.specialists))
    BY <2>5, <2>6, WithDefaultsFields
  <2>9. other = filled(sp(rt.specialists))
    BY <2>7, WithDefaultsFields
  <2>10. [other EXCEPT !.specialists = root.runtime.specialists] = root.runtime
    <3>. HIDE DEF sp, it, req
    <3>1. root.runtime.specialists = sp(Runtime.specialists)
      BY <2>8 DEF Fielded
    <3>2. \A m, n : [filled(m) EXCEPT !.specialists = n] = filled(n)
      BY DEF Fielded
    <3>. HIDE DEF filled, other
    <3>. QED
      BY <2>8, <2>9, <3>1, <3>2
  <2>11. ASSUME defaults.specialists = DefaultRoster PROVE other = root.runtime
    <3>1. DefaultRoster # {} /\ Given(DefaultRoster)
      BY ConfigurationAssumption DEF DefaultRoster
    <3>2. sp(rt.specialists) = sp(Runtime.specialists)
      BY <2>2, <2>11, <3>1 DEF Override
    <3>. QED
      BY <2>8, <2>9, <3>2
  <2>. QED
    BY <2>2, <2>10, <2>11
<1>. QED
  BY <1>1, Imported, RootInvariance, PTL
=============================================================================

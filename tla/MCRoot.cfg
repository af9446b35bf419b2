\* One process: requests for the root agent, and what changes around it between them.
CONSTANTS
  Words <- AllWords
  Needs <- AllNeeds
  Defaults <- AllDefaults
  Builtins <- TwoBuiltins
  Modules <- AllModules
  NoModule = NoModule
  Idle = Idle
  Unset = Unset
  Empty = Empty
  Absent = Absent
  NoGraph = NoGraph
  Assistant <- AssistantName
  ProviderPrefixed = {"openai/gpt"}
  Gemini2 = {"default"}
  Deployments <- AllDeployments
  NoFile = NoFile
  NoRoot = NoRoot
  NoStrategy = NoStrategy
SPECIFICATION RootSpec
INVARIANTS TypeOK NoDeadAlias BuiltinsStand LoadedIsServed ReportedIsServed CodeRunsWhereTold PathsAgree
PROPERTIES AliasesKeepMeaning ServesConfigured

\* Settings that were written out, and what is served.
CONSTANTS
  Words <- AllWords
  Needs <- AllNeeds
  Defaults <- AllDefaults
  Builtins <- TwoBuiltins
  Modules <- AllModules
  NoModule = NoModule
  Idle = Idle
  Unset = Unset
  Empty = Empty
  Absent = Absent
  NoGraph = NoGraph
  Assistant <- AssistantName
  ProviderPrefixed = {"openai/gpt"}
  Gemini2 = {"default"}
  Deployments <- ExplicitDeployments
  NoFile = NoFile
  NoRoot = NoRoot
  NoStrategy = NoStrategy
SPECIFICATION RootSpec
INVARIANT ExplicitSettingsServed

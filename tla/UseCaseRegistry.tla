-------------------------- MODULE UseCaseRegistry --------------------------
(***************************************************************************)
(* The use-case registry (use_cases/registry.py): presets by key, aliases   *)
(* by name, both in lower case; the default registry, which is published    *)
(* before it is filled; and custom modules, whose presets are registered    *)
(* one by one.  Whatever raises leaves what was registered before it.       *)
(***************************************************************************)
EXTENDS Naturals, Sequences

CONSTANTS Words,      \* names but for their case
          Needs,      \* what a preset's graph may need, and
          Defaults,   \* what it configures by default, both opaque here
          Builtins,   \* the built-in presets, in order
          Modules,    \* files AGENT_USE_CASE_MODULE, or a caller, may name
          NoModule,
          Idle        \* no call is at work

Name == [word : Words, upper : BOOLEAN]
PresetType == [key : Name, aliases : Seq(Name), needs : Needs, defaults : Defaults]

(* A file outside the allowlist, one that cannot be imported, or a module; *)
(* its entries, in order, are presets or something else.                   *)
ModuleType == [file : {"forbidden", "broken", "ok"},
               entries : Seq([kind : {"custom", "fault"}, preset : PresetType])]

(* What is registered in turn: a built-in, or an entry of a module. *)
EntryType == [kind : {"builtin", "custom", "fault"}, preset : PresetType]

ASSUME RegistryAssumption ==
  /\ Builtins \in Seq(PresetType) /\ Builtins # <<>>
  /\ Modules \subseteq ModuleType
  /\ NoModule \notin Modules
  /\ \A ms \in SUBSET Modules : ms # Idle

VARIABLES
  env,        \* AGENT_USE_CASE_MODULE (fixed)
  published,  \* is _default_registry set?
  presets,    \* _presets
  aliases,    \* _preset_alias_to_key
  todo,       \* what the call at work has yet to register
  call,       \* the modules it loads, or Idle
  loaded,     \* modules whose loading has returned (history)
  refused     \* keys whose registration has raised (history)

registry == <<presets, aliases>>
vars == <<env, published, registry, todo, call, loaded, refused>>

Init ==
  /\ env \in Modules \union {NoModule}
  /\ published = FALSE
  /\ presets = <<>>
  /\ aliases = <<>>
  /\ todo = <<>>
  /\ call = Idle
  /\ loaded = {}
  /\ refused = {}

Lower(name) == [name EXCEPT !.upper = FALSE]

(* The eight built-ins have keys of their own, and share no alias (the     *)
(* catalog gives them none).                                               *)
ASSUME BuiltinsAssumption ==
  \A i, j \in DOMAIN Builtins : i # j =>
    /\ Lower(Builtins[i].key) # Lower(Builtins[j].key)
    /\ \A a \in DOMAIN Builtins[i].aliases, b \in DOMAIN Builtins[j].aliases :
         Lower(Builtins[i].aliases[a]) # Lower(Builtins[j].aliases[b])

Canonical(name) ==
  IF Lower(name) \in DOMAIN aliases THEN aliases[Lower(name)] ELSE Lower(name)
Has(name) == Canonical(name) \in DOMAIN presets

(* resolve: the canonical key, and the preset that get finds for that key, *)
(* which goes through the aliases once more.                               *)
Resolves(name) == Has(Canonical(name))
Resolved(name) == presets[Canonical(Canonical(name))]
-----------------------------------------------------------------------------
Entry(kind, preset) == [kind |-> kind, preset |-> preset]
Registrations == [i \in DOMAIN Builtins |-> Entry("builtin", Builtins[i])]

(* What loading a file comes to; any error before its first preset is one  *)
(* fault.                                                                  *)
Contents(m) ==
  IF m = NoModule THEN <<>>
  ELSE IF m.file = "ok" THEN m.entries
  ELSE <<Entry("fault", Builtins[1])>>

(* get_default_registry, and then the presets of m.                        *)
Ask(m) ==
  /\ call = Idle
  /\ published' = TRUE
  /\ todo' = (IF published THEN <<>> ELSE Registrations \o Contents(env)) \o Contents(m)
  /\ call' = ((IF published THEN {} ELSE {env}) \union {m}) \ {NoModule}
  /\ UNCHANGED <<env, registry, loaded, refused>>

(* load_custom_use_cases; a forbidden file raises before all of this.      *)
LoadModule(m) == m.file # "forbidden" /\ Ask(m)

Preset == Head(todo).preset
(* Variant: a preset is filed under the key as it is written.              *)
KeyRaw == Preset.key
Key == Lower(Preset.key)

(* A module's presets are skipped if their key resolves to something.      *)
Skipped == Head(todo).kind = "custom" /\ Has(Preset.key)

(* Variant: the rest of the module is skipped too.                         *)
SkipRest ==
  /\ todo # <<>> /\ Skipped
  /\ todo' = <<>>
  /\ UNCHANGED <<env, published, registry, call, loaded, refused>>
Skip ==
  /\ todo # <<>> /\ Skipped
  /\ todo' = Tail(todo)
  /\ UNCHANGED <<env, published, registry, call, loaded, refused>>

(* Aliases are taken in order, up to the first that leads elsewhere; a key *)
(* that is hidden by an alias is not noticed.  Variants: aliases are not   *)
(* checked; they lead to the key as it is written.                         *)
TakenNever(i) == FALSE
Taken(i) ==
  LET alias == Lower(Preset.aliases[i])
  IN  alias \in DOMAIN aliases /\ aliases[alias] # Key
Conflicts == {i \in DOMAIN Preset.aliases : Taken(i)}
Accepted ==
  {Lower(Preset.aliases[i]) : i \in {j \in DOMAIN Preset.aliases : \A c \in Conflicts : j < c}}
AliasesToRaw ==
  [a \in DOMAIN aliases \union Accepted |-> IF a \in Accepted THEN KeyRaw ELSE aliases[a]]
AliasesAccepted ==
  [a \in DOMAIN aliases \union Accepted |-> IF a \in Accepted THEN Key ELSE aliases[a]]

(* Variant: no check of the key.                                           *)
RegistersAnyKey == todo # <<>> /\ Head(todo).kind # "fault" /\ ~Skipped
Registers == RegistersAnyKey /\ Key \notin DOMAIN presets

Free == Conflicts = {}

RegisterPreset ==
  /\ Registers /\ Free
  /\ aliases' = AliasesAccepted
  /\ presets' = [k \in DOMAIN presets \union {Key} |-> IF k = Key THEN Preset ELSE presets[k]]
  /\ todo' = Tail(todo)
  /\ UNCHANGED <<env, published, call, loaded, refused>>

Raise ==
  /\ todo' = <<>>
  /\ call' = Idle
  /\ refused' = refused \union {Key}
  /\ UNCHANGED <<env, published, presets, loaded>>

RefuseKey ==
  /\ todo # <<>> /\ Head(todo).kind # "fault" /\ ~Skipped
  /\ Key \in DOMAIN presets
  /\ Raise /\ UNCHANGED aliases

(* The aliases before the one that is taken stay.                          *)
RefuseAlias ==
  /\ Registers /\ ~Free
  /\ Raise /\ aliases' = AliasesAccepted

RefuseEntry ==
  /\ todo # <<>> /\ Head(todo).kind = "fault"
  /\ Raise /\ UNCHANGED aliases

Return ==
  /\ call # Idle /\ todo = <<>>
  /\ call' = Idle
  /\ loaded' = loaded \union call
  /\ UNCHANGED <<env, published, registry, todo, refused>>

Proceeds == Skip \/ RegisterPreset \/ Return
Raises == RefuseKey \/ RefuseAlias \/ RefuseEntry

RegistryNext == Ask(NoModule) \/ (\E m \in Modules : LoadModule(m)) \/ Proceeds \/ Raises

RegistrySpec == Init /\ [][RegistryNext]_vars
-----------------------------------------------------------------------------
Keys == {n \in Name : ~n.upper}

RegistryTypeOK ==
  /\ env \in Modules \union {NoModule}
  /\ published \in BOOLEAN
  /\ DOMAIN presets \subseteq Keys
  /\ \A k \in DOMAIN presets : presets[k] \in PresetType /\ Lower(presets[k].key) = k
  /\ DOMAIN aliases \subseteq Keys
  /\ \A a \in DOMAIN aliases : aliases[a] \in Keys
  /\ todo \in Seq(EntryType)
  /\ (call = Idle => todo = <<>>)
  /\ call = Idle \/ call \subseteq Modules
  /\ loaded \subseteq Modules
  /\ refused \subseteq Keys

(* An alias that leads nowhere is what a registration that raised has left *)
(* behind (register files aliases before the preset).                      *)
NoDeadAlias ==
  \A a \in DOMAIN aliases : aliases[a] \in DOMAIN presets \union refused

(* No module replaces a built-in preset, whatever failed before and        *)
(* whatever aliases hide it ("already registered": register and the skip   *)
(* of load_custom_use_cases).                                              *)
BuiltinsStand ==
  published /\ call = Idle =>
    \A i \in DOMAIN Builtins :
      LET key == Lower(Builtins[i].key)
      IN  key \in DOMAIN presets /\ presets[key] = Builtins[i]

(* While nothing has been refused, every preset of every module that was   *)
(* loaded resolves to a preset, by its key and by each of its aliases (the *)
(* ones that were skipped by their key only).                              *)
LoadedIsServed ==
  refused = {} => \A m \in loaded : \A i \in DOMAIN m.entries :
    LET p == m.entries[i].preset
    IN  /\ Has(p.key)
        /\ Lower(p.key) \in DOMAIN presets /\ presets[Lower(p.key)] = p =>
             \A j \in DOMAIN p.aliases : Has(p.aliases[j])

(* What an alias stands for never changes: a later module cannot take over *)
(* the aliases of an earlier one (register's check of the aliases).        *)
AliasesKeepMeaning ==
  [][\A a \in DOMAIN aliases : a \in DOMAIN aliases' /\ aliases'[a] = aliases[a]]_vars
=============================================================================

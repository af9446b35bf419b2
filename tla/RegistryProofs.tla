--------------------------- MODULE RegistryProofs ---------------------------
(***************************************************************************)
(* What UseCaseRegistry promises for any built-in presets, any modules and *)
(* any order of calls.                                                     *)
(***************************************************************************)
EXTENDS UseCaseRegistry, SequenceTheorems, TLAPS

(* A call has published the registry first. *)
CallsPublish == call # Idle => published

(* Aliases are filed for their presets. *)
PresetsNamed ==
  refused = {} => \A k \in DOMAIN presets : \A j \in DOMAIN presets[k].aliases :
    Has(presets[k].aliases[j])

(* What has become of an entry of a module that was not refused. *)
Served(e) == e.kind = "custom" /\ Has(e.preset.key)

(* The entries of a module are served when its loading has returned, and   *)
(* served or still to come while it goes on.                               *)
EntriesServed ==
  refused = {} =>
    /\ \A m \in loaded : \A i \in DOMAIN Contents(m) : Served(Contents(m)[i])
    /\ call # Idle => \A m \in call : \A i \in DOMAIN Contents(m) :
         Served(Contents(m)[i]) \/ \E j \in DOMAIN todo : todo[j] = Contents(m)[i]

(* n built-ins have been registered, the others come next; before the last *)
(* of them is there, there is nothing else that could be in its way.       *)
BuiltinsDone(n) ==
  /\ \A i \in 1..n :
       LET key == Lower(Builtins[i].key)
       IN  key \in DOMAIN presets /\ presets[key] = Builtins[i]
  /\ Len(Builtins) - n <= Len(todo)
  /\ \A j \in DOMAIN todo :
       IF j <= Len(Builtins) - n THEN todo[j] = Entry("builtin", Builtins[n + j])
                                 ELSE todo[j].kind # "builtin"
  /\ n # Len(Builtins) =>
       /\ \A k \in DOMAIN presets : \E i \in 1..n : k = Lower(Builtins[i].key)
       /\ \A a \in DOMAIN aliases : \E i \in 1..n : \E x \in DOMAIN Builtins[i].aliases :
            a = Lower(Builtins[i].aliases[x])

BuiltinsFirst ==
  IF published THEN \E n \in 0..Len(Builtins) : BuiltinsDone(n)
               ELSE todo = <<>> /\ DOMAIN presets = {} /\ DOMAIN aliases = {}

RegistryInv ==
  /\ RegistryTypeOK /\ CallsPublish /\ NoDeadAlias /\ PresetsNamed /\ EntriesServed
  /\ BuiltinsFirst

-----------------------------------------------------------------------------
(* A name in lower case is a key, and stays as it is. *)
LEMMA LowerIsKey ==
  ASSUME NEW name \in Name
  PROVE  /\ Lower(name) \in Keys /\ Lower(name) \in Name
         /\ Lower(Lower(name)) = Lower(name)
BY DEF Name, Lower, Keys

(* A sequence over a set is one over a wider set, and has its elements in both. *)
LEMMA SeqWidens ==
  ASSUME NEW S, NEW T, S \subseteq T, NEW s \in Seq(S)
  PROVE  s \in Seq(T) /\ \A i \in DOMAIN s : s[i] \in S
<1>1. Len(s) \in Nat /\ DOMAIN s = 1..Len(s) /\ s \in [1..Len(s) -> S]
  BY LenProperties
<1>. QED
  BY <1>1

(* What loading a module comes to is a sequence of its entries, or a fault. *)
LEMMA ContentsType ==
  ASSUME NEW m \in Modules \union {NoModule}
  PROVE  /\ Contents(m) \in Seq(EntryType)
         /\ \A i \in DOMAIN Contents(m) : Contents(m)[i].kind # "builtin"
         /\ m \in Modules /\ m.file = "ok" => Contents(m) = m.entries
         /\ m \in Modules /\ m.file # "ok" =>
              Contents(m) = <<Entry("fault", Builtins[1])>>
<1>1. CASE m = NoModule
  <2>1. Contents(m) = <<>>
    BY <1>1 DEF Contents
  <2>2. m \notin Modules
    BY <1>1, RegistryAssumption
  <2>. QED
    BY <2>1, <2>2
<1>2. CASE m # NoModule /\ m.file = "ok"
  <2>1. Contents(m) = m.entries
    BY <1>2 DEF Contents
  <2>2. m.entries \in Seq([kind : {"custom", "fault"}, preset : PresetType])
    BY <1>2, RegistryAssumption DEF ModuleType
  <2>3. [kind : {"custom", "fault"}, preset : PresetType] \subseteq EntryType
    BY DEF EntryType
  <2>4. m.entries \in Seq(EntryType)
        /\ \A i \in DOMAIN m.entries :
             m.entries[i] \in [kind : {"custom", "fault"}, preset : PresetType]
    BY <2>2, <2>3, SeqWidens
  <2>5. \A i \in DOMAIN m.entries : m.entries[i].kind # "builtin"
    BY <2>4
  <2>. QED
    BY <1>2, <2>1, <2>4, <2>5
<1>3. CASE m # NoModule /\ m.file # "ok"
  <2>1. Contents(m) = <<Entry("fault", Builtins[1])>>
    BY <1>3 DEF Contents
  <2>2. Builtins[1] \in PresetType
    BY RegistryAssumption
  <2>3. Entry("fault", Builtins[1]) \in EntryType
        /\ Entry("fault", Builtins[1]).kind = "fault"
    BY <2>2 DEF Entry, EntryType
  <2>. HIDE DEF Entry
  <2>. QED
    BY <1>3, <2>1, <2>3
<1>. QED
  BY <1>1, <1>2, <1>3

(* The built-ins, as entries. *)
LEMMA RegistrationsType ==
  /\ Registrations \in Seq(EntryType) /\ Len(Registrations) = Len(Builtins)
  /\ \A i \in 1..Len(Builtins) : Registrations[i] = Entry("builtin", Builtins[i])
<1>1. Len(Builtins) \in Nat /\ DOMAIN Builtins = 1..Len(Builtins)
      /\ \A i \in 1..Len(Builtins) : Builtins[i] \in PresetType
  BY RegistryAssumption
<1>2. \A i \in 1..Len(Builtins) : Entry("builtin", Builtins[i]) \in EntryType
  BY <1>1 DEF Entry, EntryType
<1>. QED
  BY <1>1, <1>2 DEF Registrations

(* Names that resolve go on resolving when aliases are added to presets    *)
(* that are there.                                                         *)
LEMMA HasGrows ==
  ASSUME NEW name, Has(name),
         \A a \in DOMAIN aliases : a \in DOMAIN aliases' /\ aliases'[a] = aliases[a],
         \A a \in DOMAIN aliases' : a \in DOMAIN aliases \/ aliases'[a] \in DOMAIN presets',
         DOMAIN presets \subseteq DOMAIN presets'
  PROVE  Has(name)'
BY DEF Has, Canonical

(* A registry starts empty. *)
LEMMA RegistryInitially == Init => RegistryInv
<1>. SUFFICES ASSUME Init PROVE RegistryInv
  OBVIOUS
<1>1. <<>> \in Seq(EntryType) /\ DOMAIN <<>> = {}
  BY EmptySeq
<1>2. RegistryTypeOK
  BY <1>1 DEF Init, RegistryTypeOK
<1>. QED
  BY <1>1, <1>2 DEF Init, RegistryInv, CallsPublish, NoDeadAlias, PresetsNamed, EntriesServed,
              BuiltinsFirst

-----------------------------------------------------------------------------
(* What a call has to register: the built-ins if it is the first, and the  *)
(* entries of the modules it loads.                                        *)
LEMMA AskQueue ==
  ASSUME RegistryTypeOK, NEW m \in Modules \union {NoModule}, Ask(m)
  PROVE  /\ todo' \in Seq(EntryType)
         /\ call' \subseteq Modules
         /\ \A x \in call' : \A i \in DOMAIN Contents(x) :
              \E j \in DOMAIN todo' : todo'[j] = Contents(x)[i]
         /\ published => \A j \in DOMAIN todo' : todo'[j].kind # "builtin"
         /\ ~published => Len(Builtins) <= Len(todo')
         /\ ~published => \A j \in DOMAIN todo' :
              IF j <= Len(Builtins) THEN todo'[j] = Entry("builtin", Builtins[j])
                                    ELSE todo'[j].kind # "builtin"
<1>1. env \in Modules \union {NoModule} /\ Len(Builtins) \in Nat
  BY RegistryAssumption DEF RegistryTypeOK
<1>2. /\ Contents(m) \in Seq(EntryType)
      /\ \A i \in DOMAIN Contents(m) : Contents(m)[i].kind # "builtin"
  BY ContentsType
<1>3. /\ Contents(env) \in Seq(EntryType)
      /\ \A i \in DOMAIN Contents(env) : Contents(env)[i].kind # "builtin"
  BY <1>1, ContentsType
<1>4. call' = ((IF published THEN {} ELSE {env}) \union {m}) \ {NoModule}
  BY DEF Ask
<1>. DEFINE C == Contents(m)
            E == Contents(env)
            R == Registrations
<1>5. CASE published
  <2>1. todo' = C
    BY <1>2, <1>5, ConcatEmptySeq DEF Ask
  <2>. HIDE DEF C, E, R
  <2>. QED
    BY <1>2, <1>4, <1>5, <2>1 DEF C
<1>6. CASE ~published
  <2>1. todo' = (R \o E) \o C
    BY <1>6 DEF Ask
  <2>2. R \in Seq(EntryType) /\ Len(R) = Len(Builtins)
        /\ \A i \in 1..Len(R) : R[i] = Entry("builtin", Builtins[i])
    BY RegistrationsType
  <2>3. /\ C \in Seq(EntryType) /\ E \in Seq(EntryType)
        /\ \A i \in 1..Len(C) : C[i].kind # "builtin"
        /\ \A i \in 1..Len(E) : E[i].kind # "builtin"
    BY <1>2, <1>3
  <2>. HIDE DEF C, E, R
  <2>4. /\ R \o E \in Seq(EntryType) /\ Len(R \o E) = Len(R) + Len(E)
        /\ \A i \in 1..(Len(R) + Len(E)) :
             (R \o E)[i] = IF i <= Len(R) THEN R[i] ELSE E[i - Len(R)]
    BY <2>2, <2>3, ConcatProperties
  <2>5. /\ todo' \in Seq(EntryType) /\ Len(todo') = Len(R) + Len(E) + Len(C)
        /\ \A i \in 1..(Len(R) + Len(E) + Len(C)) :
             todo'[i] = IF i <= Len(R) + Len(E) THEN (R \o E)[i]
                                                ELSE C[i - (Len(R) + Len(E))]
    BY <2>1, <2>3, <2>4, ConcatProperties
  <2>6. Len(R) \in Nat /\ Len(E) \in Nat /\ Len(C) \in Nat
        /\ DOMAIN todo' = 1..(Len(R) + Len(E) + Len(C))
        /\ DOMAIN C = 1..Len(C) /\ DOMAIN E = 1..Len(E)
    BY <2>2, <2>3, <2>5
  <2>7. \A i \in 1..Len(C) : \E j \in DOMAIN todo' : todo'[j] = C[i]
    <3>1. \A i \in 1..Len(C) : i + (Len(R) + Len(E)) \in DOMAIN todo'
                               /\ todo'[i + (Len(R) + Len(E))] = C[i]
      BY <2>5, <2>6
    <3>. QED
      BY <3>1
  <2>8. \A i \in 1..Len(E) : \E j \in DOMAIN todo' : todo'[j] = E[i]
    <3>1. \A i \in 1..Len(E) : i + Len(R) \in DOMAIN todo' /\ todo'[i + Len(R)] = E[i]
      BY <2>4, <2>5, <2>6
    <3>. QED
      BY <3>1
  <2>9. \A j \in DOMAIN todo' :
          IF j <= Len(R) THEN todo'[j] = R[j]
          ELSE \/ \E i \in 1..Len(E) : todo'[j] = E[i]
               \/ \E i \in 1..Len(C) : todo'[j] = C[i]
    <3>. SUFFICES ASSUME NEW j \in DOMAIN todo'
                  PROVE  IF j <= Len(R) THEN todo'[j] = R[j]
                         ELSE \/ \E i \in 1..Len(E) : todo'[j] = E[i]
                              \/ \E i \in 1..Len(C) : todo'[j] = C[i]
      OBVIOUS
    <3>1. CASE j <= Len(R)
      BY <2>4, <2>5, <2>6, <3>1
    <3>2. CASE j > Len(R) /\ j <= Len(R) + Len(E)
      <4>1. j - Len(R) \in 1..Len(E) /\ todo'[j] = E[j - Len(R)]
        BY <2>4, <2>5, <2>6, <3>2
      <4>. QED
        BY <4>1, <2>6, <3>2
    <3>3. CASE j > Len(R) + Len(E)
      <4>1. j - (Len(R) + Len(E)) \in 1..Len(C) /\ todo'[j] = C[j - (Len(R) + Len(E))]
        BY <2>5, <2>6, <3>3
      <4>. QED
        BY <4>1, <2>6, <3>3
    <3>. QED
      BY <3>1, <3>2, <3>3, <2>6
  <2>10. call' \subseteq {env, m} /\ call' \subseteq Modules
    BY <1>1, <1>4
  <2>11. \A x \in call' : \A i \in DOMAIN Contents(x) :
           \E j \in DOMAIN todo' : todo'[j] = Contents(x)[i]
    BY <2>6, <2>7, <2>8, <2>10 DEF C, E
  <2>12. Len(Builtins) <= Len(todo')
    BY <2>2, <2>5, <2>6
  <2>13. \A j \in DOMAIN todo' :
           IF j <= Len(Builtins) THEN todo'[j] = Entry("builtin", Builtins[j])
                                 ELSE todo'[j].kind # "builtin"
    BY <2>2, <2>3, <2>6, <2>9
  <2>. QED
    BY <1>6, <2>5, <2>10, <2>11, <2>12, <2>13
<1>. QED
  BY <1>5, <1>6

(* A call starts: what is there stays, and nothing it loads is served yet. *)
LEMMA AskStep ==
  ASSUME RegistryInv, NEW m \in Modules \union {NoModule}, Ask(m)
  PROVE  RegistryInv'
<1>1. /\ todo' \in Seq(EntryType)
      /\ call' \subseteq Modules
      /\ \A x \in call' : \A i \in DOMAIN Contents(x) :
           \E j \in DOMAIN todo' : todo'[j] = Contents(x)[i]
      /\ published => \A j \in DOMAIN todo' : todo'[j].kind # "builtin"
      /\ ~published => Len(Builtins) <= Len(todo')
      /\ ~published => \A j \in DOMAIN todo' :
           IF j <= Len(Builtins) THEN todo'[j] = Entry("builtin", Builtins[j])
                                 ELSE todo'[j].kind # "builtin"
  BY AskQueue DEF RegistryInv
<1>2. call' # Idle
  BY <1>1, RegistryAssumption
<1>3. RegistryTypeOK'
  BY <1>1, <1>2 DEF Ask, RegistryInv, RegistryTypeOK, registry
<1>4. CallsPublish' /\ NoDeadAlias' /\ PresetsNamed'
  BY DEF Ask, RegistryInv, CallsPublish, NoDeadAlias, PresetsNamed, Has, Canonical, registry
<1>5. EntriesServed'
  BY <1>1 DEF Ask, RegistryInv, EntriesServed, Served, Has, Canonical, registry
<1>6. BuiltinsFirst'
  <2>1. Len(Builtins) \in Nat /\ Len(todo') \in Nat /\ DOMAIN todo' = 1..Len(todo')
    BY <1>1, RegistryAssumption
  <2>2. CASE published
    <3>1. PICK n \in 0..Len(Builtins) : BuiltinsDone(n)
      BY <2>2 DEF RegistryInv, BuiltinsFirst
    <3>2. todo = <<>>
      BY DEF Ask, RegistryInv, RegistryTypeOK
    <3>3. n = Len(Builtins)
      BY <2>1, <3>1, <3>2 DEF BuiltinsDone
    <3>4. BuiltinsDone(n)'
      BY <1>1, <2>1, <2>2, <3>1, <3>3 DEF BuiltinsDone, Ask, registry
    <3>. QED
      BY <3>4 DEF BuiltinsFirst, Ask
  <2>3. CASE ~published
    <3>1. DOMAIN presets = {} /\ DOMAIN aliases = {}
      BY <2>3 DEF RegistryInv, BuiltinsFirst
    <3>2. BuiltinsDone(0)'
      BY <1>1, <2>1, <2>3, <3>1 DEF BuiltinsDone, Ask, registry
    <3>. QED
      BY <2>1, <3>2 DEF BuiltinsFirst, Ask
  <2>. QED
    BY <2>2, <2>3
<1>. QED
  BY <1>3, <1>4, <1>5, <1>6 DEF RegistryInv

-----------------------------------------------------------------------------
(* The entry at work, and those after it. *)
LEMMA AtWork ==
  ASSUME RegistryInv, todo # <<>>
  PROVE  /\ Len(todo) \in Nat \ {0} /\ DOMAIN todo = 1..Len(todo)
         /\ Head(todo) = todo[1] /\ Head(todo) \in EntryType
         /\ Tail(todo) \in Seq(EntryType) /\ Len(Tail(todo)) = Len(todo) - 1
         /\ DOMAIN Tail(todo) = 1..(Len(todo) - 1)
         /\ \A i \in 1..(Len(todo) - 1) : Tail(todo)[i] = todo[i + 1]
         /\ Preset \in PresetType /\ Key \in Keys /\ Key = Lower(Preset.key)
         /\ published /\ call # Idle
<1>1. todo \in Seq(EntryType)
  BY DEF RegistryInv, RegistryTypeOK
<1>2. Head(todo) \in EntryType
  BY <1>1, HeadTailProperties
<1>3. Preset \in PresetType
  BY <1>2 DEF Preset, EntryType
<1>4. Key \in Keys
  BY <1>3, LowerIsKey DEF Key, PresetType
<1>5. call # Idle /\ published
  BY DEF RegistryInv, RegistryTypeOK, CallsPublish
<1>6. Len(Tail(todo)) = Len(todo) - 1 /\ Tail(todo) \in Seq(EntryType)
      /\ \A i \in 1 .. Len(Tail(todo)) : Tail(todo)[i] = todo[i+1]
  BY <1>1, HeadTailProperties
<1>7. Len(todo) \in Nat \ {0} /\ DOMAIN todo = 1..Len(todo) /\ Head(todo) = todo[1]
  BY <1>1, EmptySeq, LenProperties
<1>8. DOMAIN Tail(todo) = 1..(Len(todo) - 1)
  BY <1>6, LenProperties
<1>. QED
  BY <1>2, <1>3, <1>4, <1>5, <1>6, <1>7, <1>8 DEF Key

(* While built-ins are missing, the entry at work is the next of them; it  *)
(* is not skipped, and nothing stands in its way.                          *)
LEMMA BuiltinAtWork ==
  ASSUME RegistryInv, todo # <<>>, NEW n \in 0..Len(Builtins), BuiltinsDone(n),
         n # Len(Builtins)
  PROVE  /\ n + 1 \in 1..Len(Builtins) /\ Head(todo).kind = "builtin"
         /\ Preset = Builtins[n + 1]
         /\ Key \notin DOMAIN presets /\ Free
<1>1. Len(Builtins) \in Nat
  BY RegistryAssumption
<1>2. n + 1 \in 1..Len(Builtins) /\ 1 <= Len(Builtins) - n
  BY <1>1
<1>3. n + 1 \in DOMAIN Builtins /\ \A i \in 1..n : i \in DOMAIN Builtins /\ i # n + 1
  BY <1>1, <1>2, RegistryAssumption
<1>4. Head(todo) = todo[1] /\ 1 \in DOMAIN todo
  BY AtWork
<1>5. todo[1] = Entry("builtin", Builtins[n + 1])
  BY <1>2, <1>4 DEF BuiltinsDone
<1>6. Preset = Builtins[n + 1] /\ Head(todo).kind = "builtin"
  BY <1>4, <1>5 DEF Preset, Entry
<1>7. Key \notin DOMAIN presets
  <2>1. Key = Lower(Builtins[n + 1].key)
    BY <1>6 DEF Key
  <2>2. \A k \in DOMAIN presets : \E i \in 1..n : k = Lower(Builtins[i].key)
    BY DEF BuiltinsDone
  <2>. QED
    BY <1>3, <2>1, <2>2, BuiltinsAssumption
<1>8. Free
  <2>1. \A j \in DOMAIN Preset.aliases : Lower(Preset.aliases[j]) \notin DOMAIN aliases
    <3>1. \A a \in DOMAIN aliases : \E i \in 1..n : \E x \in DOMAIN Builtins[i].aliases :
            a = Lower(Builtins[i].aliases[x])
      BY DEF BuiltinsDone
    <3>. QED
      BY <1>6, <1>3, <3>1, BuiltinsAssumption
  <2>. QED
    BY <2>1 DEF Free, Conflicts, Taken
<1>. QED
  BY <1>2, <1>6, <1>7, <1>8

(* A preset is skipped because its key resolves: it is served. *)
LEMMA SkipStep ==
  ASSUME RegistryInv, Skip
  PROVE  RegistryInv'
<1>1. todo # <<>> /\ Head(todo).kind = "custom" /\ Has(Preset.key)
  BY DEF Skip, Skipped
<1>2. todo' = Tail(todo) /\ UNCHANGED <<env, published, registry, call, loaded, refused>>
  BY DEF Skip
<1>3. Len(todo) \in Nat \ {0} /\ DOMAIN todo = 1..Len(todo) /\ Head(todo) = todo[1]
      /\ todo' \in Seq(EntryType) /\ Len(todo') = Len(todo) - 1
      /\ DOMAIN todo' = 1..(Len(todo) - 1)
      /\ \A i \in 1..(Len(todo) - 1) : todo'[i] = todo[i + 1]
  BY <1>1, <1>2, AtWork
<1>8. published /\ call # Idle
  BY <1>1, AtWork
<1>4. RegistryTypeOK'
  BY <1>2, <1>3, <1>8 DEF RegistryInv, RegistryTypeOK, registry
<1>5. CallsPublish' /\ NoDeadAlias' /\ PresetsNamed'
  BY <1>2 DEF RegistryInv, CallsPublish, NoDeadAlias, PresetsNamed, Has, Canonical, registry
<1>6. EntriesServed'
  <2>1. \A e : Served(e)' <=> Served(e)
    BY <1>2 DEF Served, Has, Canonical, registry
  <2>2. Served(todo[1])
    BY <1>1, <1>3 DEF Served, Preset
  <2>3. ASSUME NEW e, Served(e) \/ \E j \in DOMAIN todo : todo[j] = e
        PROVE  Served(e) \/ \E j \in DOMAIN todo' : todo'[j] = e
    <3>1. ASSUME NEW j \in DOMAIN todo, j # 1
          PROVE  j - 1 \in DOMAIN todo' /\ todo'[j - 1] = todo[j]
      BY <1>3, <3>1
    <3>. QED
      BY <2>2, <2>3, <3>1
  <2>. QED
    BY <1>2, <2>1, <2>3 DEF RegistryInv, EntriesServed
<1>7. BuiltinsFirst'
  <2>1. PICK n \in 0..Len(Builtins) : BuiltinsDone(n)
    BY <1>8 DEF RegistryInv, BuiltinsFirst
  <2>2. n = Len(Builtins)
    BY <1>1, <2>1, BuiltinAtWork
  <2>3. BuiltinsDone(n)'
    BY <1>2, <1>3, <2>1, <2>2, RegistryAssumption DEF BuiltinsDone, registry
  <2>4. published'
    BY <1>2, <1>8 DEF RegistryInv, RegistryTypeOK
  <2>. QED
    BY <2>3, <2>4 DEF BuiltinsFirst
<1>. QED
  BY <1>4, <1>5, <1>6, <1>7 DEF RegistryInv

(* What the aliases come to: those accepted lead to the key, the others    *)
(* where they led before.                                                  *)
LEMMA AliasesGrow ==
  ASSUME RegistryInv, todo # <<>>, aliases' = AliasesAccepted
  PROVE  /\ DOMAIN aliases' = DOMAIN aliases \union Accepted
         /\ \A a \in DOMAIN aliases : a \in DOMAIN aliases' /\ aliases'[a] = aliases[a]
         /\ \A a \in Accepted : a \in Keys /\ aliases'[a] = Key
         /\ \A a \in DOMAIN aliases' : a \in DOMAIN aliases \/ aliases'[a] = Key
<1>1. Preset \in PresetType
  BY AtWork
<1>2. ASSUME NEW i \in DOMAIN Preset.aliases
      PROVE  Preset.aliases[i] \in Name /\ i \in Nat
  BY <1>1 DEF PresetType
<1>3. Accepted \subseteq Keys
  BY <1>2, LowerIsKey DEF Accepted
<1>4. DOMAIN aliases' = DOMAIN aliases \union Accepted
      /\ \A a \in DOMAIN aliases \union Accepted :
           aliases'[a] = IF a \in Accepted THEN Key ELSE aliases[a]
  BY DEF AliasesAccepted
<1>5. ASSUME NEW a \in Accepted, a \in DOMAIN aliases
      PROVE  aliases[a] = Key
  <2>1. PICK i \in DOMAIN Preset.aliases :
          a = Lower(Preset.aliases[i]) /\ \A c \in Conflicts : i < c
    BY DEF Accepted
  <2>2. i \notin Conflicts
    BY <1>2, <2>1
  <2>. QED
    BY <1>5, <2>1, <2>2 DEF Conflicts, Taken
<1>. QED
  BY <1>3, <1>4, <1>5

(* A preset is registered: its key and its aliases resolve, and whatever   *)
(* resolved before still does.                                             *)
LEMMA RegisterStep ==
  ASSUME RegistryInv, RegisterPreset
  PROVE  RegistryInv'
<1>1. todo # <<>> /\ Head(todo).kind # "fault" /\ Key \notin DOMAIN presets
      /\ Conflicts = {}
  BY DEF RegisterPreset, Registers, RegistersAnyKey, Free
<1>2. todo' = Tail(todo) /\ UNCHANGED <<env, published, call, loaded, refused>>
  BY DEF RegisterPreset
<1>3. Len(todo) \in Nat \ {0} /\ DOMAIN todo = 1..Len(todo) /\ Head(todo) = todo[1]
      /\ todo' \in Seq(EntryType) /\ Len(todo') = Len(todo) - 1
      /\ DOMAIN todo' = 1..(Len(todo) - 1)
      /\ \A i \in 1..(Len(todo) - 1) : todo'[i] = todo[i + 1]
  BY <1>1, <1>2, AtWork
<1>20. published /\ call # Idle
  BY <1>1, AtWork
<1>21. Preset \in PresetType /\ Key \in Keys /\ Key = Lower(Preset.key)
  BY <1>1, AtWork
<1>4. /\ DOMAIN presets' = DOMAIN presets \union {Key}
      /\ presets'[Key] = Preset
      /\ \A k \in DOMAIN presets : k # Key /\ presets'[k] = presets[k]
  BY <1>1 DEF RegisterPreset
<1>5. /\ DOMAIN aliases' = DOMAIN aliases \union Accepted
      /\ \A a \in DOMAIN aliases : a \in DOMAIN aliases' /\ aliases'[a] = aliases[a]
      /\ \A a \in Accepted : a \in Keys /\ aliases'[a] = Key
      /\ \A a \in DOMAIN aliases' : a \in DOMAIN aliases \/ aliases'[a] = Key
  BY <1>1, AliasesGrow DEF RegisterPreset
<1>6. \A j \in DOMAIN Preset.aliases : Lower(Preset.aliases[j]) \in Accepted
  BY <1>1 DEF Accepted
<1>7. ASSUME NEW name, Has(name) PROVE Has(name)'
  BY <1>4, <1>5, <1>7, HasGrows
<1>8. RegistryTypeOK'
  <2>1. DOMAIN presets' \subseteq Keys
        /\ \A k \in DOMAIN presets' : presets'[k] \in PresetType
                                      /\ Lower(presets'[k].key) = k
    BY <1>4, <1>21 DEF RegistryInv, RegistryTypeOK
  <2>2. DOMAIN aliases' \subseteq Keys /\ \A a \in DOMAIN aliases' : aliases'[a] \in Keys
    BY <1>5, <1>21 DEF RegistryInv, RegistryTypeOK
  <2>. QED
    BY <1>2, <1>3, <1>20, <2>1, <2>2 DEF RegistryInv, RegistryTypeOK
<1>9. CallsPublish' /\ NoDeadAlias'
  BY <1>2, <1>4, <1>5 DEF RegistryInv, CallsPublish, NoDeadAlias
<1>10. PresetsNamed'
  <2>. SUFFICES ASSUME refused = {}, NEW k \in DOMAIN presets',
                       NEW j \in DOMAIN presets'[k].aliases
                PROVE  Has(presets[k].aliases[j])'
    BY <1>2 DEF PresetsNamed
  <2>1. CASE k = Key
    <3>1. PICK name : name = Preset.aliases[j] /\ Lower(name) \in Accepted
      BY <1>4, <1>6, <2>1
    <3>2. Has(name)'
      BY <1>4, <1>5, <3>1 DEF Has, Canonical
    <3>3. presets'[k].aliases[j] = name
      BY <1>4, <2>1, <3>1
    <3>. QED
      BY <3>2, <3>3 DEF Has, Canonical
  <2>2. CASE k # Key
    <3>1. PICK name : name = presets[k].aliases[j] /\ Has(name)
      BY <1>4, <2>2 DEF RegistryInv, PresetsNamed
    <3>2. Has(name)'
      BY <1>7, <3>1
    <3>3. presets'[k].aliases[j] = name
      BY <1>4, <2>2, <3>1
    <3>. QED
      BY <3>2, <3>3 DEF Has, Canonical
  <2>. QED
    BY <2>1, <2>2
<1>11. EntriesServed'
  <2>. SUFFICES ASSUME refused = {} PROVE EntriesServed'
    BY <1>2 DEF EntriesServed
  <2>1. ASSUME NEW e, Served(e) PROVE Served(e)'
    BY <1>7, <2>1 DEF Served
  <2>2. ASSUME NEW e, e = todo[1], e.kind = "custom" PROVE Served(e)'
    <3>1. Head(todo) = todo[1]
      BY <1>3
    <3>2. Lower(e.preset.key) = Key
      BY <1>21, <2>2, <3>1 DEF Preset
    <3>3. /\ Key \in DOMAIN presets'
          /\ Key \in DOMAIN aliases' => aliases'[Key] \in DOMAIN presets'
      BY <1>4, <1>5 DEF RegistryInv, NoDeadAlias
    <3>. QED
      BY <2>2, <3>2, <3>3 DEF Served, Has, Canonical
  <2>3. ASSUME NEW e, e.kind # "builtin", Served(e) \/ \E j \in DOMAIN todo : todo[j] = e
        PROVE  Served(e)' \/ \E j \in DOMAIN todo' : todo'[j] = e
    <3>1. ASSUME NEW j \in DOMAIN todo, j # 1
          PROVE  j - 1 \in DOMAIN todo' /\ todo'[j - 1] = todo[j]
      BY <1>3, <3>1
    <3>2. todo[1].kind \in {"builtin", "custom"}
      <4>1. Head(todo) \in EntryType
        BY <1>1, AtWork
      <4>. QED
        BY <1>1, <1>3, <4>1 DEF EntryType
    <3>. QED
      BY <2>1, <2>2, <2>3, <3>1, <3>2
  <2>4. \A m \in Modules : \A i \in DOMAIN Contents(m) : Contents(m)[i].kind # "builtin"
    BY ContentsType
  <2>5. call \subseteq Modules /\ loaded \subseteq Modules
    BY <1>20 DEF RegistryInv, RegistryTypeOK
  <2>. QED
    BY <1>2, <2>1, <2>3, <2>4, <2>5 DEF RegistryInv, EntriesServed
<1>12. BuiltinsFirst'
  <2>1. PICK n \in 0..Len(Builtins) : BuiltinsDone(n)
    BY <1>20 DEF RegistryInv, BuiltinsFirst
  <2>2. published'
    BY <1>2, <1>20 DEF RegistryInv, RegistryTypeOK
  <2>3. CASE n = Len(Builtins)
    <3>1. \A j \in DOMAIN todo : todo[j].kind # "builtin"
      BY <1>3, <2>1, <2>3, RegistryAssumption DEF BuiltinsDone
    <3>2. \A j \in DOMAIN todo' : todo'[j].kind # "builtin" /\ j \in Nat \ {0}
      BY <1>3, <3>1
    <3>3. \A i \in 1..n :
            LET key == Lower(Builtins[i].key)
            IN  key \in DOMAIN presets' /\ presets'[key] = Builtins[i]
      BY <1>4, <2>1 DEF BuiltinsDone
    <3>4. BuiltinsDone(n)'
      BY <1>3, <2>3, <3>2, <3>3, RegistryAssumption DEF BuiltinsDone
    <3>. QED
      BY <2>2, <3>4 DEF BuiltinsFirst
  <2>4. CASE n # Len(Builtins)
    <3>1. /\ n + 1 \in 0..Len(Builtins) /\ n + 1 \in 1..Len(Builtins)
          /\ Preset = Builtins[n + 1]
      BY <1>1, <2>1, <2>4, BuiltinAtWork
    <3>2. \A i \in 1..(n + 1) :
            LET key == Lower(Builtins[i].key)
            IN  key \in DOMAIN presets' /\ presets'[key] = Builtins[i]
      <4>1. \A i \in 1..n : Lower(Builtins[i].key) \in DOMAIN presets
                           /\ presets[Lower(Builtins[i].key)] = Builtins[i]
        BY <2>1 DEF BuiltinsDone
      <4>2. ASSUME NEW i \in 1..(n + 1)
            PROVE  Lower(Builtins[i].key) \in DOMAIN presets'
                   /\ presets'[Lower(Builtins[i].key)] = Builtins[i]
        <5>1. CASE i = n + 1
          BY <1>4, <1>21, <3>1, <5>1
        <5>2. CASE i # n + 1
          <6>1. i \in 1..n
            BY <5>2
          <6>. QED
            BY <1>4, <4>1, <6>1
        <5>. QED
          BY <5>1, <5>2
      <4>. QED
        BY <4>2
    <3>3. \A j \in DOMAIN todo' :
            IF j <= Len(Builtins) - (n + 1) THEN todo'[j] = Entry("builtin", Builtins[n + 1 + j])
                                            ELSE todo'[j].kind # "builtin"
      <4>1. \A j \in DOMAIN todo :
              IF j <= Len(Builtins) - n THEN todo[j] = Entry("builtin", Builtins[n + j])
                                        ELSE todo[j].kind # "builtin"
        BY <2>1 DEF BuiltinsDone
      <4>2. \A j \in DOMAIN todo' :
              /\ j \in Nat /\ j + 1 \in DOMAIN todo /\ todo'[j] = todo[j + 1]
              /\ j + 1 <= Len(Builtins) - n <=> j <= Len(Builtins) - (n + 1)
              /\ n + (j + 1) = n + 1 + j
        <5>1. Len(Builtins) \in Nat /\ n \in Nat
          BY RegistryAssumption
        <5>2. ASSUME NEW j \in DOMAIN todo'
              PROVE  /\ j \in Nat /\ j + 1 \in DOMAIN todo /\ todo'[j] = todo[j + 1]
          BY <1>3, <5>2
        <5>. QED
          BY <5>1, <5>2
      <4>. QED
        BY <4>1, <4>2
    <3>4. Len(Builtins) - (n + 1) <= Len(todo')
      BY <1>3, <2>1, <3>1 DEF BuiltinsDone
    <3>5. \A k \in DOMAIN presets' : \E i \in 1..(n + 1) : k = Lower(Builtins[i].key)
      BY <1>4, <1>21, <2>1, <2>4, <3>1 DEF BuiltinsDone
    <3>6. \A a \in DOMAIN aliases' : \E i \in 1..(n + 1) : \E x \in DOMAIN Builtins[i].aliases :
            a = Lower(Builtins[i].aliases[x])
      BY <1>5, <2>1, <2>4, <3>1 DEF BuiltinsDone, Accepted
    <3>7. BuiltinsDone(n + 1)'
      BY <3>2, <3>3, <3>4, <3>5, <3>6 DEF BuiltinsDone
    <3>. QED
      BY <2>2, <3>1, <3>7 DEF BuiltinsFirst
  <2>. QED
    BY <2>3, <2>4
<1>. QED
  BY <1>8, <1>9, <1>10, <1>11, <1>12 DEF RegistryInv

(* Whatever raises leaves the presets, and what was refused is remembered: *)
(* the aliases it has left behind lead there.  It is never a built-in.     *)
LEMMA RaiseStep ==
  ASSUME RegistryInv, RefuseKey \/ RefuseAlias \/ RefuseEntry
  PROVE  RegistryInv'
<1>1. /\ todo # <<>> /\ Raise
      /\ aliases' = aliases \/ (~Free /\ aliases' = AliasesAccepted)
      /\ Head(todo).kind = "fault" \/ Key \in DOMAIN presets \/ ~Free
  BY DEF RefuseKey, RefuseAlias, RefuseEntry, Registers, RegistersAnyKey
<1>2. /\ todo' = <<>> /\ call' = Idle /\ refused' = refused \union {Key}
      /\ UNCHANGED <<env, published, presets, loaded>>
  BY <1>1 DEF Raise
<1>3. Key \in Keys /\ Key = Lower(Preset.key)
  BY <1>1, AtWork
<1>4. published /\ call # Idle
  BY <1>1, AtWork
<1>5. /\ DOMAIN aliases' \subseteq Keys
      /\ \A a \in DOMAIN aliases' : aliases'[a] \in Keys
      /\ \A a \in DOMAIN aliases' :
           (a \in DOMAIN aliases /\ aliases'[a] = aliases[a]) \/ aliases'[a] = Key
  <2>1. CASE aliases' = aliases
    BY <2>1 DEF RegistryInv, RegistryTypeOK
  <2>2. CASE aliases' = AliasesAccepted
    BY <1>1, <1>3, <2>2, AliasesGrow DEF RegistryInv, RegistryTypeOK
  <2>. QED
    BY <1>1, <2>1, <2>2
<1>6. RegistryTypeOK'
  <2>1. <<>> \in Seq(EntryType)
    BY EmptySeq
  <2>. QED
    BY <1>2, <1>3, <1>5, <2>1 DEF RegistryInv, RegistryTypeOK
<1>7. CallsPublish' /\ NoDeadAlias' /\ PresetsNamed' /\ EntriesServed'
  BY <1>2, <1>5 DEF RegistryInv, CallsPublish, NoDeadAlias, PresetsNamed, EntriesServed
<1>8. BuiltinsFirst'
  <2>1. PICK n \in 0..Len(Builtins) : BuiltinsDone(n)
    BY <1>4 DEF RegistryInv, BuiltinsFirst
  <2>2. n = Len(Builtins)
    <3>1. CASE n # Len(Builtins)
      <4>1. Head(todo).kind = "builtin" /\ Key \notin DOMAIN presets /\ Free
        BY <1>1, <2>1, <3>1, BuiltinAtWork
      <4>. QED
        BY <1>1, <4>1
    <3>. QED
      BY <3>1
  <2>3. published'
    BY <1>2, <1>4 DEF RegistryInv, RegistryTypeOK
  <2>4. Len(todo') = 0 /\ DOMAIN todo' = {}
    BY <1>2, EmptySeq
  <2>5. BuiltinsDone(n)'
    BY <1>2, <2>1, <2>2, <2>4, RegistryAssumption DEF BuiltinsDone
  <2>. QED
    BY <2>3, <2>5 DEF BuiltinsFirst
<1>. QED
  BY <1>6, <1>7, <1>8 DEF RegistryInv

(* A call returns when it has nothing left to register. *)
LEMMA ReturnStep ==
  ASSUME RegistryInv, Return
  PROVE  RegistryInv'
<1>1. /\ call # Idle /\ todo = <<>> /\ call' = Idle /\ loaded' = loaded \union call
      /\ UNCHANGED <<env, published, presets, aliases, todo, refused>>
  BY DEF Return, registry
<1>2. RegistryTypeOK'
  BY <1>1 DEF RegistryInv, RegistryTypeOK
<1>3. CallsPublish' /\ NoDeadAlias' /\ PresetsNamed'
  BY <1>1 DEF RegistryInv, CallsPublish, NoDeadAlias, PresetsNamed, Has, Canonical
<1>4. EntriesServed'
  <2>1. DOMAIN todo = {}
    BY <1>1, EmptySeq
  <2>. QED
    BY <1>1, <2>1 DEF RegistryInv, EntriesServed, Served, Has, Canonical
<1>5. BuiltinsFirst'
  BY <1>1 DEF RegistryInv, BuiltinsFirst, BuiltinsDone
<1>. QED
  BY <1>2, <1>3, <1>4, <1>5 DEF RegistryInv

(* A step of somebody else. *)
LEMMA RegistryStutters ==
  ASSUME RegistryInv, UNCHANGED vars
  PROVE  RegistryInv'
BY DEF vars, registry, RegistryInv, RegistryTypeOK, CallsPublish, NoDeadAlias, PresetsNamed,
       EntriesServed, BuiltinsFirst, BuiltinsDone, Served, Has, Canonical

(* Every step keeps the invariant. *)
LEMMA RegistryStep == RegistryInv /\ [RegistryNext]_vars => RegistryInv'
<1>. SUFFICES ASSUME RegistryInv, [RegistryNext]_vars PROVE RegistryInv'
  OBVIOUS
<1>1. CASE Ask(NoModule)
  BY <1>1, AskStep
<1>2. ASSUME NEW m \in Modules, LoadModule(m) PROVE RegistryInv'
  BY <1>2, AskStep DEF LoadModule
<1>3. CASE Proceeds
  BY <1>3, SkipStep, RegisterStep, ReturnStep DEF Proceeds
<1>4. CASE Raises
  BY <1>4, RaiseStep DEF Raises
<1>5. CASE UNCHANGED vars
  BY <1>5, RegistryStutters
<1>. QED
  BY <1>1, <1>2, <1>3, <1>4, <1>5 DEF RegistryNext

(* The strengthened invariant of the registry. *)
THEOREM RegistryInvariance == RegistrySpec => []RegistryInv
BY RegistryInitially, RegistryStep, PTL DEF RegistrySpec

(* An alias leads to a preset, unless the registration that filed it was   *)
(* refused.                                                                *)
THEOREM AliasesLead == RegistrySpec => []NoDeadAlias
<1>1. RegistryInv => NoDeadAlias
  BY DEF RegistryInv
<1>. QED
  BY <1>1, RegistryInvariance, PTL

(* Once the registry is published and no call is at work, every built-in   *)
(* is there under its key: no module and no failure has been in its way.   *)
THEOREM BuiltinsRemain == RegistrySpec => []BuiltinsStand
<1>1. RegistryInv => BuiltinsStand
  <2>. SUFFICES ASSUME RegistryInv, published, call = Idle PROVE BuiltinsStand
    BY DEF BuiltinsStand
  <2>1. PICK n \in 0..Len(Builtins) : BuiltinsDone(n)
    BY DEF RegistryInv, BuiltinsFirst
  <2>2. Len(Builtins) \in Nat
    BY RegistryAssumption
  <2>3. Len(todo) = 0
    BY EmptySeq DEF RegistryInv, RegistryTypeOK
  <2>4. Len(Builtins) - n <= Len(todo)
    BY <2>1 DEF BuiltinsDone
  <2>5. n = Len(Builtins)
    BY <2>2, <2>3, <2>4
  <2>6. DOMAIN Builtins = 1..n
    BY <2>5, RegistryAssumption
  <2>. QED
    BY <2>1, <2>6 DEF BuiltinsStand, BuiltinsDone
<1>. QED
  BY <1>1, RegistryInvariance, PTL

(* As long as nothing was refused, what was loaded can be asked for, under *)
(* its key and, if it was not skipped, under each of its aliases.          *)
THEOREM LoadedServed == RegistrySpec => []LoadedIsServed
<1>1. RegistryInv => LoadedIsServed
  <2>. SUFFICES ASSUME RegistryInv, refused = {}, NEW m \in loaded,
                       NEW i \in DOMAIN m.entries
                PROVE  LET p == m.entries[i].preset
                       IN  /\ Has(p.key)
                           /\ Lower(p.key) \in DOMAIN presets /\ presets[Lower(p.key)] = p =>
                                \A j \in DOMAIN p.aliases : Has(p.aliases[j])
    BY DEF LoadedIsServed
  <2>1. m \in Modules
    BY DEF RegistryInv, RegistryTypeOK
  <2>2. \A k \in DOMAIN Contents(m) : Served(Contents(m)[k])
    BY DEF RegistryInv, EntriesServed
  <2>3. m.file = "ok"
    <3>1. CASE m.file # "ok"
      <4>1. Contents(m) = <<Entry("fault", Builtins[1])>>
        BY <2>1, <3>1, ContentsType
      <4>2. 1 \in DOMAIN Contents(m) /\ Contents(m)[1] = Entry("fault", Builtins[1])
        BY <4>1
      <4>. QED
        BY <2>2, <4>2 DEF Served, Entry
    <3>. QED
      BY <3>1
  <2>4. Contents(m) = m.entries
    BY <2>1, <2>3, ContentsType
  <2>. QED
    BY <2>2, <2>4 DEF Served, RegistryInv, PresetsNamed
<1>. QED
  BY <1>1, RegistryInvariance, PTL

(* What an alias stands for never changes, not even in a registration that *)
(* is refused half way.                                                    *)
THEOREM AliasesKept == RegistrySpec => AliasesKeepMeaning
<1>1. ASSUME RegistryInv, RegistryNext, NEW a \in DOMAIN aliases
      PROVE  a \in DOMAIN aliases' /\ aliases'[a] = aliases[a]
  <2>1. CASE aliases' = aliases
    BY <1>1, <2>1
  <2>2. CASE todo # <<>> /\ aliases' = AliasesAccepted
    BY <1>1, <2>2, AliasesGrow
  <2>3. aliases' = aliases \/ (todo # <<>> /\ aliases' = AliasesAccepted)
    BY <1>1 DEF RegistryNext, Ask, LoadModule, Proceeds, Raises, Skip, RegisterPreset,
         Registers, RegistersAnyKey, Return, RefuseKey, RefuseAlias, RefuseEntry, registry
  <2>. QED
    BY <2>1, <2>2, <2>3
<1>2. RegistryInv /\ [RegistryNext]_vars =>
        [\A a \in DOMAIN aliases : a \in DOMAIN aliases' /\ aliases'[a] = aliases[a]]_vars
  BY <1>1
<1>. QED
  BY <1>2, RegistryInvariance, PTL DEF RegistrySpec, AliasesKeepMeaning
=============================================================================

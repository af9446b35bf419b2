--------------------------- MODULE ApprovalProofs ---------------------------
(***************************************************************************)
(* What ApprovalGate promises for every tree of agents, every              *)
(* configuration, any tools and any number of calls.                       *)
(***************************************************************************)
EXTENDS ApprovalGate, SequenceTheorems, TLAPS

Linked(n, l) == \E i \in DOMAIN chain[n] : chain[n][i] = l

(* Every agent has the runtime's callback. *)
RuntimeLinked == \A n \in tree.llm : Linked(n, "runtime")

(* Hooks are linked only where they are wired. *)
HookOnlyWired == \A n \in Nodes : Linked(n, "hook") => Wires("hook")

(* The walk has lost no node: the root, and what is below a node it has    *)
(* been at, it has been at or will be; and it has linked what it was at.   *)
WalkComplete ==
  /\ tree.root \in walked \cup pending
  /\ \A m \in walked :
       /\ tree.below[m] \subseteq walked \cup pending
       /\ m \in tree.llm => Linked(m, phase)

Before(l, p) ==
  \/ l = "require" /\ p \in {"policy", "serving"}
  \/ l = "policy" /\ p = "serving"

(* The policies whose walk is over are linked to all agents of the tree. *)
PoliciesLinked ==
  \A l \in {"require", "policy"} : Wires(l) /\ Before(l, phase) =>
    \A n \in Reached \cap tree.llm : Linked(n, l)

(* A walk comes to a node once: what it has been at is not pending, and it *)
(* found every node but the root below one it has been at.  A layer that   *)
(* is not wired is not walked for.                                         *)
WalkOnce ==
  /\ walked \cap pending = {}
  /\ \A k \in (walked \cup pending) \ {tree.root} :
       \E m \in walked : k \in tree.below[m]
  /\ walked # {} => Wires(phase)

(* The chain of an agent of the tree before a layer's walk. *)
ChainBefore ==
  [hook |-> <<"runtime">>,
   require |-> <<"runtime">> \o Link("hook"),
   policy |-> <<"runtime">> \o Link("hook") \o Link("require"),
   serving |-> <<"runtime">> \o Link("hook") \o Link("require") \o Link("policy")]

(* The chains while a layer is walked for: it is the last link of those    *)
(* the walk has been at, and missing in the others.                        *)
ChainsExact ==
  \A n \in Reached \cap tree.llm :
    chain[n] = IF n \in walked THEN Append(ChainBefore[phase], phase)
                              ELSE ChainBefore[phase]

(* Calls are issued by agents of the tree, once it is served. *)
CallsAreServed ==
  \A c \in Calls : call[c].stage # "unissued" =>
    phase = "serving" /\ call[c].agent \in tree.llm

Inv ==
  /\ TypeOK /\ RuntimeLinked /\ HookOnlyWired /\ WalkComplete /\ WalkOnce
  /\ PoliciesLinked /\ ChainsExact /\ CallsAreServed /\ MutatingCallsConfirmed

-----------------------------------------------------------------------------
(* Appending a link keeps the links there are, and adds the one. *)
LEMMA AppendLinks ==
  ASSUME NEW S, NEW s \in Seq(S), NEW e \in S
  PROVE  /\ Append(s, e) \in Seq(S)
         /\ \A x : (\E i \in DOMAIN Append(s, e) : Append(s, e)[i] = x)
                     <=> x = e \/ \E i \in DOMAIN s : s[i] = x
<1>1. Append(s, e) \in Seq(S) /\ Len(Append(s, e)) = Len(s) + 1
  OBVIOUS
<1>2. Append(s, e)[Len(s) + 1] = e /\ \A i \in 1..Len(s) : Append(s, e)[i] = s[i]
  OBVIOUS
<1>3. DOMAIN s = 1..Len(s) /\ DOMAIN Append(s, e) = 1..(Len(s) + 1) /\ Len(s) \in Nat
  BY <1>1
<1>. QED
  BY <1>1, <1>2, <1>3

(* A layer's walk, if there is one, adds its link to the chains. *)
LEMMA ChainGrows ==
  /\ \A p \in DOMAIN ChainBefore : ChainBefore[p] \in Seq(Layers)
  /\ \A p \in DOMAIN NextPhase :
       ChainBefore[NextPhase[p]] = IF Wires(p) THEN Append(ChainBefore[p], p)
                                              ELSE ChainBefore[p]
<1>1. <<"runtime">> \in Seq(Layers)
  BY DEF Layers
<1>2. ASSUME NEW s \in Seq(Layers), NEW l \in Layers
      PROVE  /\ s \o Link(l) \in Seq(Layers)
             /\ s \o Link(l) = IF Wires(l) THEN Append(s, l) ELSE s
  <2>1. s \o <<>> = s /\ Append(s, l) = s \o <<l>> /\ Append(s, l) \in Seq(Layers)
    BY ConcatEmptySeq, AppendIsConcat
  <2>. QED
    BY <2>1 DEF Link
<1>. DEFINE h == <<"runtime">> \o Link("hook")
            r == h \o Link("require")
            s == r \o Link("policy")
<1>3. h \in Seq(Layers) /\ h = IF Wires("hook") THEN Append(<<"runtime">>, "hook")
                                             ELSE <<"runtime">>
  BY <1>1, <1>2 DEF Layers
<1>4. r \in Seq(Layers) /\ r = IF Wires("require") THEN Append(h, "require") ELSE h
  <2>. HIDE DEF h
  <2>. QED
    BY <1>2, <1>3 DEF Layers
<1>5. s \in Seq(Layers) /\ s = IF Wires("policy") THEN Append(r, "policy") ELSE r
  <2>. HIDE DEF r
  <2>. QED
    BY <1>2, <1>4 DEF Layers
<1>6. ChainBefore = [hook |-> <<"runtime">>, require |-> h, policy |-> r, serving |-> s]
  BY DEF ChainBefore
<1>7. DOMAIN ChainBefore = {"hook", "require", "policy", "serving"}
      /\ ChainBefore["hook"] = <<"runtime">> /\ ChainBefore["require"] = h
      /\ ChainBefore["policy"] = r /\ ChainBefore["serving"] = s
  BY <1>6
<1>8. DOMAIN NextPhase = {"hook", "require", "policy"}
      /\ NextPhase["hook"] = "require" /\ NextPhase["require"] = "policy"
      /\ NextPhase["policy"] = "serving"
  BY DEF NextPhase
<1>. HIDE DEF h, r, s
<1>. QED
  BY <1>1, <1>3, <1>4, <1>5, <1>7, <1>8

(* Every chain starts with the runtime's callback. *)
LEMMA Initially == Init => Inv
<1>. SUFFICES ASSUME Init PROVE Inv
  OBVIOUS
<1>1. tree \in TreeType /\ config \in ConfigType
  BY ApprovalAssumption DEF Init
<1>2. <<"runtime">> \in Seq(Layers) /\ <<>> \in Seq(Layers)
      /\ DOMAIN <<"runtime">> = {1} /\ <<"runtime">>[1] = "runtime"
  BY DEF Layers
<1>3. TypeOK
  BY <1>1, <1>2 DEF Init, TypeOK, TreeType, CallType
<1>4. RuntimeLinked /\ HookOnlyWired
  BY <1>1, <1>2 DEF Init, RuntimeLinked, HookOnlyWired, Linked, TreeType
<1>5. WalkComplete /\ PoliciesLinked /\ CallsAreServed /\ MutatingCallsConfirmed
  BY DEF Init, WalkComplete, PoliciesLinked, Before, CallsAreServed,
         MutatingCallsConfirmed, Unissued
<1>6. WalkOnce /\ ChainsExact
  BY <1>1 DEF Init, WalkOnce, ChainsExact, ChainBefore, TreeType
<1>. QED
  BY <1>3, <1>4, <1>5, <1>6 DEF Inv

-----------------------------------------------------------------------------
(* One step of a walk links its agent and forgets no node. *)
LEMMA VisitStep ==
  ASSUME Inv, NEW n \in Nodes, Visit(n)
  PROVE  Inv'
<1>1. tree \in TreeType /\ config \in ConfigType
  BY ApprovalAssumption DEF Inv, TypeOK
<1>2. phase \in Layers /\ phase # "serving" /\ phase # "runtime"
  BY DEF Inv, TypeOK, Visit, Wires, Layers
<1>3. /\ \A m \in Nodes \ {n} : chain'[m] = chain[m]
      /\ n \in tree.llm => chain'[n] = Append(chain[n], phase)
      /\ n \notin tree.llm => chain'[n] = chain[n]
  BY DEF Visit, Inv, TypeOK
<1>4. chain \in [Nodes -> Seq(Layers)]
  BY DEF Inv, TypeOK
<1>5. \A m \in Nodes : \A x :
        (\E i \in DOMAIN chain'[m] : chain'[m][i] = x)
          <=> Linked(m, x) \/ (m = n /\ m \in tree.llm /\ x = phase)
  <2>1. CASE n \in tree.llm
    <3>1. \A x : (\E i \in DOMAIN chain'[n] : chain'[n][i] = x)
                   <=> x = phase \/ Linked(n, x)
      BY <1>2, <1>3, <1>4, <2>1, AppendLinks DEF Linked
    <3>. QED
      BY <1>3, <2>1, <3>1 DEF Linked
  <2>2. CASE n \notin tree.llm
    BY <1>3, <2>2 DEF Linked
  <2>. QED
    BY <2>1, <2>2
<1>6. \A m \in Nodes : chain'[m] \in Seq(Layers)
  <2>1. n \in tree.llm => chain'[n] \in Seq(Layers)
    BY <1>2, <1>3, <1>4, AppendLinks
  <2>. QED
    BY <1>3, <1>4, <2>1
<1>7. TypeOK'
  <2>1. chain' \in [Nodes -> Seq(Layers)]
    BY <1>6 DEF Visit, Inv, TypeOK
  <2>2. pending' \subseteq Nodes /\ walked' \subseteq Nodes
    BY <1>1 DEF Visit, Inv, TypeOK, TreeType
  <2>. QED
    BY <2>1, <2>2 DEF Visit, Inv, TypeOK, fixed
<1>8. RuntimeLinked' /\ HookOnlyWired'
  BY <1>1, <1>5 DEF Visit, Inv, RuntimeLinked, HookOnlyWired, Linked, TreeType, Wires,
                    RequiresApproval, fixed
<1>9. WalkComplete'
  <2>1. tree.root \in walked' \cup pending'
    BY DEF Visit, Inv, WalkComplete
  <2>2. \A m \in walked' : tree.below[m] \subseteq walked' \cup pending'
    BY DEF Visit, Inv, WalkComplete
  <2>3. \A m \in walked' : m \in tree.llm =>
          \E i \in DOMAIN chain'[m] : chain'[m][i] = phase
    BY <1>1, <1>5 DEF Visit, Inv, WalkComplete, TreeType
  <2>. QED
    BY <2>1, <2>2, <2>3 DEF Visit, WalkComplete, Linked, fixed
<1>10. PoliciesLinked'
  <2>1. Reached' = Reached /\ \A k : Wires(k)' <=> Wires(k)
    BY DEF Visit, Reached, Wires, RequiresApproval, fixed
  <2>2. \A k \in {"require", "policy"} : Wires(k) /\ Before(k, phase) =>
          \A m \in Reached \cap tree.llm :
            \E i \in DOMAIN chain'[m] : chain'[m][i] = k
    BY <1>5 DEF Inv, PoliciesLinked, Reached
  <2>. QED
    BY <2>1, <2>2 DEF Visit, PoliciesLinked, Linked, fixed
<1>11. CallsAreServed' /\ MutatingCallsConfirmed'
  BY DEF Visit, Inv, CallsAreServed, MutatingCallsConfirmed, Mutating, fixed
<1>12. WalkOnce'
  <2>1. OnePath(tree) /\ tree.root \in Nodes /\ walked \subseteq Nodes
    BY <1>1, ApprovalAssumption DEF Inv, TypeOK, TreeType
  <2>2. n \in pending /\ n \notin walked
    BY DEF Visit, Inv, WalkOnce
  <2>3. n \notin tree.below[n] /\ tree.below[n] \cap walked = {}
    <3>. SUFFICES ASSUME NEW k \in tree.below[n], k = n \/ k \in walked PROVE FALSE
      OBVIOUS
    <3>1. k # tree.root
      BY <2>1 DEF OnePath
    <3>2. PICK m \in walked : k \in tree.below[m]
      BY <2>2, <3>1 DEF Inv, WalkOnce
    <3>. QED
      BY <2>1, <2>2, <3>2 DEF OnePath
  <2>4. walked' \cap pending' = {}
    BY <2>2, <2>3 DEF Visit, Inv, WalkOnce
  <2>5. \A k \in (walked' \cup pending') \ {tree.root} :
          \E m \in walked' : k \in tree.below[m]
    BY DEF Visit, Inv, WalkOnce
  <2>. QED
    BY <2>4, <2>5 DEF Visit, WalkOnce, Wires, RequiresApproval, fixed
<1>13. ChainsExact'
  <2>1. Reached' = Reached /\ ChainBefore' = ChainBefore
    BY DEF Visit, Reached, ChainBefore, Link, Wires, RequiresApproval, fixed
  <2>2. n \notin walked
    BY DEF Visit, Inv, WalkOnce
  <2>3. \A m \in Reached \cap tree.llm :
          chain'[m] = IF m \in walked' THEN Append(ChainBefore[phase], phase)
                                      ELSE ChainBefore[phase]
    BY <1>3, <2>2 DEF Visit, Inv, ChainsExact, Reached
  <2>. QED
    BY <2>1, <2>3 DEF Visit, ChainsExact, fixed
<1>. QED
  BY <1>7, <1>8, <1>9, <1>10, <1>11, <1>12, <1>13 DEF Inv

(* A walk that has nothing pending has been at every node of the tree. *)
LEMMA WalkReaches ==
  ASSUME TypeOK, WalkComplete, pending = {}
  PROVE  Reached \subseteq walked
BY DEF TypeOK, WalkComplete, Reached

(* Going on to the next phase of the wiring keeps the invariant. *)
LEMMA AdvanceStep ==
  ASSUME Inv, Advance
  PROVE  Inv'
<1>1. tree \in TreeType /\ config \in ConfigType
  BY ApprovalAssumption DEF Inv, TypeOK
<1>2. phase' \in {"require", "policy", "serving"}
      /\ (phase' = "require" => phase = "hook")
      /\ (phase' = "policy" => phase = "require")
      /\ (phase' = "serving" => phase = "policy")
  BY DEF Inv, TypeOK, Advance, NextPhase
<1>3. TypeOK'
  BY <1>1, <1>2 DEF Inv, TypeOK, Advance, fixed, TreeType
<1>4. \A k : Wires(k)' <=> Wires(k)
  BY DEF Advance, Wires, RequiresApproval, fixed
<1>5. RuntimeLinked' /\ HookOnlyWired'
  BY <1>4 DEF Inv, RuntimeLinked, HookOnlyWired, Linked, Advance, fixed
<1>6. WalkComplete'
  BY DEF WalkComplete, Advance, fixed
<1>7. PoliciesLinked'
  <2>1. Reached' = Reached
    BY DEF Advance, Reached, fixed
  <2>2. ASSUME NEW l \in {"require", "policy"}, Wires(l), Before(l, phase'),
               NEW n \in Reached \cap tree.llm
        PROVE  Linked(n, l)
    <3>1. CASE Before(l, phase)
      BY <2>2, <3>1 DEF Inv, PoliciesLinked
    <3>2. CASE ~Before(l, phase)
      <4>1. phase = l
        BY <1>2, <2>2, <3>2 DEF Before
      <4>2. pending = {}
        BY <2>2, <4>1 DEF Advance
      <4>3. n \in walked
        BY <4>2, WalkReaches DEF Inv
      <4>. QED
        BY <4>1, <4>3 DEF Inv, WalkComplete
    <3>. QED
      BY <3>1, <3>2
  <2>. QED
    BY <1>4, <2>1, <2>2 DEF PoliciesLinked, Linked, Advance, fixed
<1>8. CallsAreServed' /\ MutatingCallsConfirmed'
  BY DEF Advance, Inv, CallsAreServed, MutatingCallsConfirmed, Mutating, fixed
<1>9. WalkOnce'
  BY DEF WalkOnce, Advance, fixed
<1>10. ChainsExact'
  <2>1. Reached' = Reached /\ ChainBefore' = ChainBefore
    BY <1>4 DEF Advance, Reached, ChainBefore, Link, fixed
  <2>2. \A n \in Reached \cap tree.llm : chain[n] = ChainBefore[phase']
    <3>1. phase \in DOMAIN NextPhase /\ phase' = NextPhase[phase]
      BY DEF Inv, TypeOK, Advance, NextPhase
    <3>2. CASE Wires(phase)
      <4>1. Reached \subseteq walked
        BY <3>2, WalkReaches DEF Inv, Advance
      <4>. QED
        BY <3>1, <3>2, <4>1, ChainGrows DEF Inv, ChainsExact
    <3>3. CASE ~Wires(phase)
      BY <3>1, <3>3, ChainGrows DEF Inv, ChainsExact, WalkOnce
    <3>. QED
      BY <3>2, <3>3
  <2>. QED
    BY <2>1, <2>2 DEF ChainsExact, Advance, fixed
<1>. QED
  BY <1>3, <1>5, <1>6, <1>7, <1>8, <1>9, <1>10 DEF Inv

-----------------------------------------------------------------------------
(* An attempt leaves a well-formed call, and a call that ran passed the    *)
(* whole chain, a confirmation the tool itself wants included.             *)
LEMMA AttemptType ==
  ASSUME TypeOK, NEW c \in Calls, NEW a \in Nodes, NEW t \in Tools,
         NEW r \in {"none", "confirmed", "rejected"}, Attempt(c, a, t, r)
  PROVE  /\ call' \in [Calls -> CallType]
         /\ \A d \in Calls \ {c} : call'[d] = call[d]
         /\ call'[c].agent = a /\ call'[c].tool = t
         /\ call'[c].stage \in {"ran", "asking", "refused"}
         /\ call'[c].stage = "ran" =>
              /\ call'[c].answer = r
              /\ t.confirms => r = "confirmed"
              /\ \E h \in BOOLEAN : Passes(a, t, r, h)
<1>1. PICK h \in BOOLEAN, stage \in {"ran", "asking", "refused"} :
        /\ stage = "ran" => Passes(a, t, r, h) /\ (t.confirms => r = "confirmed")
        /\ call' = [call EXCEPT ![c] =
             Attempted(a, t, stage, IF stage = "asking" THEN "none" ELSE r)]
  BY DEF Attempt
<1>2. Attempted(a, t, stage, IF stage = "asking" THEN "none" ELSE r) \in CallType
  BY DEF Attempted, CallType
<1>3. call \in [Calls -> CallType]
  BY DEF TypeOK
<1>4. call'[c] = Attempted(a, t, stage, IF stage = "asking" THEN "none" ELSE r)
  BY <1>1, <1>3
<1>. QED
  BY <1>1, <1>2, <1>3, <1>4 DEF Attempted

(* Calls do not touch the chains, nor what a walk has left to do. *)
LEMMA BuildStands ==
  ASSUME WalkOnce, ChainsExact, UNCHANGED <<fixed, build>>
  PROVE  WalkOnce' /\ ChainsExact'
<1>1. Reached' = Reached /\ ChainBefore' = ChainBefore /\ \A k : Wires(k)' <=> Wires(k)
  BY DEF Reached, ChainBefore, Link, Wires, RequiresApproval, fixed
<1>. QED
  BY <1>1 DEF WalkOnce, ChainsExact, fixed, build

(* The calls of the others stay as they are. *)
LEMMA AttemptStep ==
  ASSUME Inv, NEW c \in Calls, NEW a \in tree.llm, NEW t \in Tools,
         NEW r \in {"none", "confirmed", "rejected"}, Attempt(c, a, t, r),
         phase = "serving", UNCHANGED <<fixed, build, approved>>
  PROVE  Inv'
<1>1. a \in Nodes
  BY ApprovalAssumption DEF Inv, TypeOK, TreeType
<1>2. /\ call' \in [Calls -> CallType]
      /\ \A d \in Calls \ {c} : call'[d] = call[d]
      /\ call'[c].tool = t /\ call'[c].agent = a
      /\ call'[c].stage = "ran" =>
           /\ call'[c].answer = r
           /\ t.confirms => r = "confirmed"
           /\ \E h \in BOOLEAN : Passes(a, t, r, h)
  BY <1>1, AttemptType DEF Inv
<1>3. TypeOK'
  BY <1>2 DEF Inv, TypeOK, fixed, build
<1>4. RuntimeLinked' /\ HookOnlyWired' /\ WalkComplete' /\ PoliciesLinked'
  BY DEF Inv, RuntimeLinked, HookOnlyWired, WalkComplete, PoliciesLinked, Linked,
         Reached, Wires, RequiresApproval, fixed, build
<1>5. CallsAreServed'
  BY <1>2 DEF Inv, CallsAreServed, fixed, build
<1>6. MutatingCallsConfirmed'
  <2>1. Linked(a, "runtime")
    BY DEF Inv, RuntimeLinked
  <2>2. call'[c].stage = "ran" /\ Mutating(t) => r = "confirmed"
    BY <1>2, <2>1 DEF Linked, Passes, Vetoes
  <2>3. ASSUME NEW d \in Calls,
               call'[d].stage = "ran",
               Mutating(call'[d].tool) \/ call'[d].tool.confirms
        PROVE  call'[d].answer = "confirmed"
    <3>1. CASE d = c
      BY <1>2, <2>2, <2>3, <3>1
    <3>2. CASE d # c
      BY <1>2, <2>3, <3>2 DEF Inv, MutatingCallsConfirmed
    <3>. QED
      BY <3>1, <3>2
  <2>. QED
    BY <2>3 DEF MutatingCallsConfirmed, Mutating
<1>7. WalkOnce' /\ ChainsExact'
  BY BuildStands DEF Inv
<1>. QED
  BY <1>3, <1>4, <1>5, <1>6, <1>7 DEF Inv

(* An answer changes the stage and the answer of its call only. *)
LEMMA AnswerStep ==
  ASSUME Inv, NEW c \in Calls, Answer(c)
  PROVE  Inv'
<1>1. PICK r \in {"confirmed", "rejected"} :
        call' = [call EXCEPT ![c].stage = "answered", ![c].answer = r]
  BY DEF Answer
<1>2. call[c] \in [agent : Nodes, tool : Tools,
                   stage : {"asking", "answered", "ran", "refused"},
                   answer : {"none", "confirmed", "rejected"}]
  BY DEF Answer, Inv, TypeOK, CallType, Unissued
<1>3. call'[c] = [call[c] EXCEPT !.stage = "answered", !.answer = r]
      /\ \A d \in Calls \ {c} : call'[d] = call[d]
  BY <1>1 DEF Inv, TypeOK
<1>4. call'[c] \in CallType /\ call'[c].stage = "answered"
      /\ call'[c].agent = call[c].agent
  BY <1>2, <1>3 DEF CallType
<1>5. TypeOK'
  BY <1>1, <1>3, <1>4 DEF Answer, Inv, TypeOK, fixed, build
<1>6. RuntimeLinked' /\ HookOnlyWired' /\ WalkComplete' /\ PoliciesLinked'
  BY DEF Answer, Inv, RuntimeLinked, HookOnlyWired, WalkComplete, PoliciesLinked,
         Linked, Reached, Wires, RequiresApproval, fixed, build
<1>7. CallsAreServed'
  <2>1. call[c].stage # "unissued"
    BY DEF Answer
  <2>. QED
    BY <1>3, <1>4, <2>1 DEF Answer, Inv, CallsAreServed, fixed, build
<1>8. MutatingCallsConfirmed'
  BY <1>3, <1>4 DEF Inv, MutatingCallsConfirmed, Mutating
<1>9. WalkOnce' /\ ChainsExact'
  BY BuildStands DEF Answer, Inv
<1>. QED
  BY <1>5, <1>6, <1>7, <1>8, <1>9 DEF Inv

(* A call that is tried again after its answer keeps the invariant. *)
LEMMA ResumeStep ==
  ASSUME Inv, NEW c \in Calls, Resume(c)
  PROVE  Inv'
<1>1. call[c].agent \in tree.llm /\ phase = "serving"
  BY DEF Resume, Inv, CallsAreServed
<1>2. call[c].tool \in Tools /\ call[c].answer \in {"none", "confirmed", "rejected"}
  BY DEF Resume, Inv, TypeOK, CallType, Unissued
<1>. QED
  BY <1>1, <1>2, AttemptStep DEF Resume

(* What the session state is given is no matter to the wiring. *)
LEMMA WriteStep ==
  ASSUME Inv, WriteState \/ UNCHANGED vars
  PROVE  Inv'
<1>1. TypeOK'
  BY ApprovalAssumption DEF Inv, TypeOK, WriteState, vars, fixed, build
<1>2. RuntimeLinked' /\ HookOnlyWired' /\ WalkComplete' /\ PoliciesLinked'
  BY DEF WriteState, vars, Inv, RuntimeLinked, HookOnlyWired, WalkComplete,
         PoliciesLinked, Linked, Reached, Wires, RequiresApproval, fixed, build
<1>3. CallsAreServed' /\ MutatingCallsConfirmed'
  BY DEF WriteState, vars, Inv, CallsAreServed, MutatingCallsConfirmed, Mutating,
         fixed, build
<1>4. WalkOnce' /\ ChainsExact'
  BY BuildStands DEF WriteState, vars, Inv
<1>. QED
  BY <1>1, <1>2, <1>3, <1>4 DEF Inv

(* Every step of the wiring and of the calls keeps the invariant. *)
LEMMA InvStep == Inv /\ [Next]_vars => Inv'
<1>. SUFFICES ASSUME Inv, [Next]_vars PROVE Inv'
  OBVIOUS
<1>1. CASE \E n \in Nodes : Visit(n)
  BY <1>1, VisitStep
<1>2. CASE Advance
  BY <1>2, AdvanceStep
<1>3. ASSUME NEW c \in Calls, Issue(c) PROVE Inv'
  BY <1>3, AttemptStep DEF Issue
<1>4. ASSUME NEW c \in Calls, Answer(c) PROVE Inv'
  BY <1>4, AnswerStep
<1>5. ASSUME NEW c \in Calls, Resume(c) PROVE Inv'
  BY <1>5, ResumeStep
<1>6. CASE WriteState \/ UNCHANGED vars
  BY <1>6, WriteStep
<1>. QED
  BY <1>1, <1>2, <1>3, <1>4, <1>5, <1>6 DEF Next

(* The strengthened invariant of the approval flow. *)
THEOREM Invariance == Spec => []Inv
BY Initially, InvStep, PTL DEF Spec

(* The types hold for every instance. *)
THEOREM TypeCorrect == Spec => []TypeOK
<1>1. Inv => TypeOK
  BY DEF Inv
<1>. QED
  BY <1>1, Invariance, PTL

(* The chains are complete once the agent is served: each link once, in    *)
(* the order of the layers, at every agent the walks can reach.            *)
THEOREM ChainsAreComplete == Spec => []ChainsComplete
<1>1. ASSUME Inv, phase = "serving", NEW n \in Reached \cap tree.llm
      PROVE  chain[n] = ChainBefore.serving
  <2>1. walked = {}
    BY <1>1 DEF Inv, WalkOnce, Wires
  <2>. QED
    BY <1>1, <2>1 DEF Inv, ChainsExact, ChainBefore
<1>2. Inv => ChainsComplete
  BY <1>1 DEF ChainsComplete, ChainBefore
<1>. QED
  BY <1>2, Invariance, PTL

(* No mutating call ever runs unconfirmed: protect_and_audit_tool is in    *)
(* every chain, executors included.                                        *)
THEOREM MutatingConfirmed == Spec => []MutatingCallsConfirmed
<1>1. Inv => MutatingCallsConfirmed
  BY DEF Inv
<1>. QED
  BY <1>1, Invariance, PTL

-----------------------------------------------------------------------------
(* A step in which a call comes to run is an attempt of that call. *)
LEMMA RunsIsAttempt ==
  ASSUME Inv, [Next]_vars, NEW c \in Calls, Runs(c)
  PROVE  /\ phase = "serving"
         /\ UNCHANGED <<fixed, build, approved>>
         /\ call'[c].agent \in tree.llm
         /\ \E r \in {"none", "confirmed", "rejected"}, h \in BOOLEAN :
              Passes(call'[c].agent, call'[c].tool, r, h)
<1>1. ASSUME NEW d \in Calls, NEW a \in tree.llm, NEW t \in Tools,
             NEW r \in {"none", "confirmed", "rejected"}, Attempt(d, a, t, r)
      PROVE  /\ call'[c].agent \in tree.llm
             /\ \E h \in BOOLEAN : Passes(call'[c].agent, call'[c].tool, r, h)
  <2>1. a \in Nodes
    BY ApprovalAssumption DEF Inv, TypeOK, TreeType
  <2>2. /\ \A e \in Calls \ {d} : call'[e] = call[e]
        /\ call'[d].agent = a /\ call'[d].tool = t
        /\ call'[d].stage = "ran" => \E h \in BOOLEAN : Passes(a, t, r, h)
    BY <1>1, <2>1, AttemptType DEF Inv
  <2>3. d = c
    BY <2>2 DEF Runs
  <2>. QED
    BY <2>2, <2>3 DEF Runs
<1>2. CASE \E n \in Nodes : Visit(n)
  BY <1>2 DEF Runs, Visit
<1>3. CASE Advance \/ WriteState \/ UNCHANGED vars
  BY <1>3 DEF Runs, Advance, WriteState, vars
<1>4. ASSUME NEW d \in Calls, Issue(d)
      PROVE  /\ phase = "serving" /\ UNCHANGED <<fixed, build, approved>>
             /\ call'[c].agent \in tree.llm
             /\ \E r \in {"none", "confirmed", "rejected"}, h \in BOOLEAN :
                  Passes(call'[c].agent, call'[c].tool, r, h)
  BY <1>1, <1>4 DEF Issue
<1>5. ASSUME NEW d \in Calls, Answer(d) PROVE FALSE
  <2>1. call[d].stage = "asking" /\ call'[d].stage = "answered"
        /\ \A e \in Calls \ {d} : call'[e] = call[e]
    BY <1>5 DEF Answer, Inv, TypeOK, CallType, Unissued
  <2>. QED
    BY <2>1 DEF Runs
<1>6. ASSUME NEW d \in Calls, Resume(d)
      PROVE  /\ phase = "serving" /\ UNCHANGED <<fixed, build, approved>>
             /\ call'[c].agent \in tree.llm
             /\ \E r \in {"none", "confirmed", "rejected"}, h \in BOOLEAN :
                  Passes(call'[c].agent, call'[c].tool, r, h)
  <2>1. call[d].agent \in tree.llm /\ phase = "serving"
    BY <1>6 DEF Resume, Inv, CallsAreServed
  <2>2. call[d].tool \in Tools
        /\ call[d].answer \in {"none", "confirmed", "rejected"}
    BY <1>6 DEF Resume, Inv, TypeOK, CallType, Unissued
  <2>. QED
    BY <1>1, <1>6, <2>1, <2>2 DEF Resume
<1>. QED
  BY <1>2, <1>3, <1>4, <1>5, <1>6 DEF Next

(* Under a configured approval policy no gated tool runs at any agent of   *)
(* the tree unless the session is human_approved.                          *)
THEOREM GatesHold == Spec => GatedRunsApproved
<1>1. ASSUME Inv, [Next]_vars, NEW c \in Calls, NEW l \in {"require", "policy"},
             Runs(c), Wires(l), Gated(l, call'[c].tool), call'[c].agent \in Reached
      PROVE  approved
  <2>. DEFINE a == call'[c].agent
  <2>1. phase = "serving" /\ a \in tree.llm
        /\ \E r \in {"none", "confirmed", "rejected"}, h \in BOOLEAN :
             Passes(a, call'[c].tool, r, h)
    BY <1>1, RunsIsAttempt
  <2>2. Linked(a, l)
    BY <1>1, <2>1 DEF Inv, PoliciesLinked, Before
  <2>. QED
    BY <1>1, <2>1, <2>2 DEF Linked, Passes, Vetoes
<1>2. Inv /\ [Next]_vars =>
        [\A c \in Calls : \A l \in {"require", "policy"} :
           /\ Runs(c)
           /\ Wires(l) /\ Gated(l, call'[c].tool)
           /\ call'[c].agent \in Reached
           => approved]_vars
  BY <1>1
<1>. QED
  BY <1>2, Invariance, PTL DEF Spec, GatedRunsApproved

(* A confirmed call of an unconditional tool runs when it is resumed: no   *)
(* policy stands in the way of the confirmation flow.                      *)
THEOREM FlowOpen == Spec => ConfirmationFlowOpen
<1>1. ASSUME Inv, [Next]_vars, NEW c \in Calls,
             call[c].stage = "answered", call'[c].stage # "answered",
             call[c].answer = "confirmed",
             Unconditional(call[c].tool), ~Wires("hook")
      PROVE  Runs(c)
  <2>1. ~(\E n \in Nodes : Visit(n)) /\ ~Advance /\ ~WriteState /\ ~(UNCHANGED vars)
    BY <1>1 DEF Visit, Advance, WriteState, vars
  <2>2. PICK d \in Calls : Issue(d) \/ Answer(d) \/ Resume(d)
    BY <2>1, <1>1 DEF Next
  <2>3. ASSUME NEW e \in Calls, NEW a \in Nodes, NEW t \in Tools,
               NEW r \in {"none", "confirmed", "rejected"}, Attempt(e, a, t, r)
        PROVE  \A f \in Calls \ {e} : call'[f] = call[f]
    BY <1>1, <2>3, AttemptType DEF Inv
  <2>4. tree.llm \subseteq Nodes
    BY <1>1, ApprovalAssumption DEF Inv, TypeOK, TreeType
  <2>5. CASE Issue(d)
    BY <1>1, <2>3, <2>4, <2>5 DEF Issue
  <2>6. CASE Answer(d)
    BY <1>1, <2>6 DEF Answer, Inv, TypeOK
  <2>7. CASE Resume(d)
    <3>1. call[d].tool \in Tools /\ call[d].agent \in Nodes
          /\ call[d].answer \in {"none", "confirmed", "rejected"}
      BY <2>7, <1>1 DEF Resume, Inv, TypeOK, CallType, Unissued
    <3>2. Attempt(d, call[d].agent, call[d].tool, call[d].answer)
      BY <2>7 DEF Resume
    <3>3. d = c
      BY <1>1, <2>3, <3>1, <3>2
    <3>4. /\ Passes(call[c].agent, call[c].tool, "confirmed", FALSE)
          /\ \A h \in BOOLEAN, l \in Layers :
               ~VetoedBy(call[c].agent, l, call[c].tool, "confirmed", h)
          /\ \A h \in BOOLEAN : Passes(call[c].agent, call[c].tool, "confirmed", h)
      BY <1>1, <3>1, <3>3 DEF Passes, VetoedBy, Vetoes, Gated, Inv, HookOnlyWired, Linked
    <3>5. \E stage \in {"ran", "asking", "refused"} :
            /\ stage = "ran"
            /\ call' = [call EXCEPT ![c] =
                 Attempted(call[c].agent, call[c].tool, stage,
                           IF stage = "asking" THEN "none" ELSE call[c].answer)]
      BY <1>1, <3>2, <3>3, <3>4 DEF Attempt, Layers
    <3>. QED
      BY <1>1, <3>5 DEF Runs, Attempted, Inv, TypeOK
  <2>. QED
    BY <2>2, <2>5, <2>6, <2>7
<1>2. Inv /\ [Next]_vars =>
        [\A c \in Calls :
           /\ call[c].stage = "answered" /\ call'[c].stage # "answered"
           /\ call[c].answer = "confirmed"
           /\ Unconditional(call[c].tool) /\ ~Wires("hook")
           => Runs(c)]_vars
  BY <1>1
<1>. QED
  BY <1>2, Invariance, PTL DEF Spec, ConfirmationFlowOpen
=============================================================================

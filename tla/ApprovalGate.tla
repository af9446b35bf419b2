---------------------------- MODULE ApprovalGate ----------------------------
(***************************************************************************)
(* Human approval of tool calls: how the callbacks that may veto a call    *)
(* get onto the agents of a freshly built tree (compile/llm_node.py,       *)
(* presets/catalog.py, policies/approval.py, agent.py), and what they then *)
(* do to the calls of one session (tools.py, policies/approval.py).        *)
(*                                                                         *)
(* The engine is external: it runs an agent's callback before each tool    *)
(* call, shows the user the confirmation a veto asked for, and tries the   *)
(* call again, callbacks included, when the user has answered.             *)
(***************************************************************************)
EXTENDS Naturals, Sequences, FiniteSets

CONSTANTS Nodes,      \* nodes of agent trees
          Trees,      \* the trees the builders may produce
          Configs,    \* the configurations
          Tools,      \* tools, as what the callbacks can tell about them
          Calls,      \* tool calls of one session
          Writes      \* subset of BOOLEAN: what a client may write to
                      \* state["human_approved"]; no code under src/ writes it

(* root: a declared graph, the approval_gate preset, or another preset;    *)
(* require: execution.require_approval; hook: the preset has a before-tool *)
(* callback of its own; policy: the policies.approval section; detects:    *)
(* can _TaskAgentTool be imported?                                         *)
ConfigType == [root : {"graph", "approval_gate", "preset"}, require : BOOLEAN,
               hook : BOOLEAN, policy : {"off", "lists", "all"},
               detects : BOOLEAN]

(* below: sub_agents of an LlmAgent, graph.nodes of a Workflow             *)
TreeType == [root : Nodes, llm : SUBSET Nodes, below : [Nodes -> SUBSET Nodes]]

(* listed, marker: the tool policy's sets and basic_agent_mutating; gated: *)
(* its name is in gated_tools or gated_prefixes; confirms: built with      *)
(* require_confirmation=True.                                              *)
ToolType == [name : {"request_approval", "finish_task", "other"},
             delegation : BOOLEAN,
             listed : {"read_only", "mutating", "no"},
             marker : {"mutating", "harmless", "none"},
             gated : BOOLEAN, confirms : BOOLEAN]

(* There is one path to a node: compile_llm_node builds an agent for each  *)
(* sub-agent of a spec, compile_graph a node for each of its graph.        *)
OnePath(t) ==
  \A m \in Nodes :
    /\ t.root \notin t.below[m]
    /\ \A n \in Nodes \ {m} : t.below[m] \cap t.below[n] = {}

ASSUME ApprovalAssumption ==
  /\ Trees \subseteq TreeType
  /\ \A t \in Trees : OnePath(t)
  /\ Configs \subseteq ConfigType
  /\ Tools \subseteq ToolType
  /\ Writes \subseteq BOOLEAN

VARIABLES
  tree, config,   \* what is served (fixed)
  phase,          \* the callback being wired, then "serving"
  pending,        \* nodes iter_llm_agents has on its stack
  walked,         \* nodes it has popped (history)
  chain,          \* before_tool_callback of each node, as its links
  approved,       \* state["human_approved"] is truthy
  call            \* the tool calls

build == <<phase, pending, walked, chain>>
fixed == <<tree, config>>
vars == <<fixed, build, approved, call>>

Layers == {"runtime", "hook", "require", "policy"}
NextPhase == [hook |-> "require", require |-> "policy", policy |-> "serving"]

-----------------------------------------------------------------------------
(* A preset resolves require_approval; an explicit false is the dataclass  *)
(* default and gives way to the preset's.  A graph root never looks at it. *)
RequiresApproval ==
  \/ config.root = "preset" /\ config.require
  \/ config.root = "approval_gate"

(* The layers that get wired. *)
Wires(layer) ==
  \/ layer = "hook" /\ config.root # "graph" /\ config.hook
  \/ layer = "require" /\ RequiresApproval
  \/ layer = "policy" /\ config.policy # "off"

Unissued == [stage |-> "unissued", answer |-> "none"]

(* Every LlmAgent is compiled with the runtime's callback. *)
Init ==
  /\ tree \in Trees
  /\ config \in Configs
  /\ phase = "hook"
  /\ pending = {tree.root}
  /\ walked = {}
  /\ chain = [n \in Nodes |-> IF n \in tree.llm THEN <<"runtime">> ELSE <<>>]
  /\ approved = FALSE
  /\ call = [c \in Calls |-> Unissued]

(* Variants: the walk visits the root only; it replaces the callback of an *)
(* agent instead of chaining it; it chains it before the others.           *)
VisitRoot(n) ==
  /\ Wires(phase) /\ n \in pending
  /\ pending' = pending \ {n}
  /\ walked' = walked \cup {n}
  /\ chain' = [chain EXCEPT ![n] = IF n \in tree.llm THEN Append(@, phase) ELSE @]
  /\ UNCHANGED <<fixed, phase, approved, call>>

VisitReplacing(n) ==
  /\ Wires(phase) /\ n \in pending
  /\ pending' = (pending \ {n}) \cup tree.below[n]
  /\ walked' = walked \cup {n}
  /\ chain' = [chain EXCEPT ![n] = IF n \in tree.llm THEN <<phase>> ELSE @]
  /\ UNCHANGED <<fixed, phase, approved, call>>

VisitPrepending(n) ==
  /\ Wires(phase) /\ n \in pending
  /\ pending' = (pending \ {n}) \cup tree.below[n]
  /\ walked' = walked \cup {n}
  /\ chain' = [chain EXCEPT ![n] = IF n \in tree.llm THEN <<phase>> \o @ ELSE @]
  /\ UNCHANGED <<fixed, phase, approved, call>>

(* iter_llm_agents pops a node and pushes what is below it; its caller     *)
(* chains the new callback after those an LlmAgent has.  OnePath: a set    *)
(* does for the stack, and there is no need to remember where one was.     *)
Visit(n) ==
  /\ Wires(phase) /\ n \in pending
  /\ pending' = (pending \ {n}) \cup tree.below[n]
  /\ walked' = walked \cup {n}
  /\ chain' = [chain EXCEPT ![n] = IF n \in tree.llm THEN Append(@, phase) ELSE @]
  /\ UNCHANGED <<fixed, phase, approved, call>>

(* The walk is over, or this configuration has none: the next one starts.  *)
Advance ==
  /\ phase # "serving"
  /\ Wires(phase) => pending = {}
  /\ phase' = NextPhase[phase]
  /\ pending' = {tree.root}
  /\ walked' = {}
  /\ UNCHANGED <<fixed, chain, approved, call>>

-----------------------------------------------------------------------------
(* The name lists decide first, then the marker; unknown tools mutate.     *)
Mutating(t) ==
  \/ t.listed = "mutating"
  \/ t.listed = "no" /\ t.marker # "harmless"

(* is_unconditional_tool: fails closed if the delegation class is unknown. *)
Unconditional(t) ==
  \/ t.name \in {"request_approval", "finish_task"}
  \/ t.delegation /\ config.detects

(* Variant: the approval policies gate every tool they name. *)
GatedAlways(layer, t) ==
  /\ layer \in {"require", "policy"}
  /\ layer = "policy" => config.policy = "all" \/ t.gated

(* What the approval policies ask approval for. *)
Gated(layer, t) ==
  /\ layer \in {"require", "policy"} /\ ~Unconditional(t)
  /\ layer = "policy" => config.policy = "all" \/ t.gated

(* Does a link veto the call?  The policies know nothing of the answer,    *)
(* only of the session's state; h is what the preset's hook thinks.        *)
Vetoes(layer, t, answer, h) ==
  \/ layer = "runtime" /\ Mutating(t) /\ answer # "confirmed"
  \/ layer = "hook" /\ h
  \/ Gated(layer, t) /\ ~approved

(* The first veto of the chain wins. *)
VetoedBy(a, layer, t, answer, h) ==
  \E i \in DOMAIN chain[a] :
    /\ chain[a][i] = layer /\ Vetoes(layer, t, answer, h)
    /\ \A j \in 1..(i - 1) : ~Vetoes(chain[a][j], t, answer, h)

Passes(a, t, answer, h) ==
  \A i \in DOMAIN chain[a] : ~Vetoes(chain[a][i], t, answer, h)

Attempted(a, t, stage, answer) ==
  [agent |-> a, tool |-> t, stage |-> stage, answer |-> answer]

(* A call goes through the chain and, if nothing vetoes it, to the tool,   *)
(* which may want to be confirmed itself.  A veto by the runtime or a      *)
(* policy requests a confirmation; one by a hook does not.                 *)
Attempt(c, a, t, answer) ==
  \E h \in BOOLEAN, stage \in {"ran", "asking", "refused"} :
    /\ stage = "ran" =>
         Passes(a, t, answer, h) /\ (t.confirms => answer = "confirmed")
    /\ stage = "asking" =>
         \/ \E l \in Layers \ {"hook"} : VetoedBy(a, l, t, answer, h)
         \/ Passes(a, t, answer, h) /\ t.confirms /\ answer = "none"
    /\ stage = "refused" =>
         \/ VetoedBy(a, "hook", t, answer, h)
         \/ Passes(a, t, answer, h) /\ t.confirms /\ answer = "rejected"
    /\ call' = [call EXCEPT ![c] =
         Attempted(a, t, stage, IF stage = "asking" THEN "none" ELSE answer)]

(* An agent's model calls a tool. *)
Issue(c) ==
  /\ phase = "serving" /\ call[c].stage = "unissued"
  /\ \E a \in tree.llm, t \in Tools : Attempt(c, a, t, "none")
  /\ UNCHANGED <<fixed, build, approved>>

(* Variant: the answer is recorded as it came. *)
AnswerRaw(c) ==
  /\ call[c].stage = "asking"
  /\ \E r \in {"confirmed", "yes"} :
       call' = [call EXCEPT ![c].stage = "answered", ![c].answer = r]
  /\ UNCHANGED <<fixed, build, approved>>

(* The user answers the confirmation request. *)
Answer(c) ==
  /\ call[c].stage = "asking"
  /\ \E r \in {"confirmed", "rejected"} :
       call' = [call EXCEPT ![c].stage = "answered", ![c].answer = r]
  /\ UNCHANGED <<fixed, build, approved>>

(* The engine tries the answered call again. *)
Resume(c) ==
  /\ call[c].stage = "answered"
  /\ Attempt(c, call[c].agent, call[c].tool, call[c].answer)
  /\ UNCHANGED <<fixed, build, approved>>

(* A client writes human_approved into the session state. *)
WriteState ==
  /\ phase = "serving"
  /\ approved' \in Writes
  /\ UNCHANGED <<fixed, build, call>>

Next ==
  \/ \E n \in Nodes : Visit(n)
  \/ Advance
  \/ \E c \in Calls : Issue(c) \/ Answer(c) \/ Resume(c)
  \/ WriteState

Spec == Init /\ [][Next]_vars

-----------------------------------------------------------------------------
CallType ==
  {Unissued} \cup
  [agent : Nodes, tool : Tools, stage : {"asking", "answered", "ran", "refused"},
   answer : {"none", "confirmed", "rejected"}]

TypeOK ==
  /\ tree \in Trees
  /\ config \in Configs
  /\ phase \in {"hook", "require", "policy", "serving"}
  /\ pending \subseteq Nodes
  /\ walked \subseteq Nodes
  /\ chain \in [Nodes -> Seq(Layers)]
  /\ approved \in BOOLEAN
  /\ call \in [Calls -> CallType]

(* The nodes of the tree: those in every set that has the root and, with a *)
(* node, what is below it.                                                 *)
Reached ==
  {n \in Nodes : \A S \in SUBSET Nodes :
     tree.root \in S /\ (\A m \in S : tree.below[m] \subseteq S) => n \in S}

Runs(c) == call[c].stage # "ran" /\ call'[c].stage = "ran"

(* "The mutating tool never runs before approval": a call of a tool that   *)
(* is not known to be read-only, or that wants confirmation, has run only  *)
(* if the user confirmed that very call; whatever other calls were         *)
(* confirmed, whatever the state says, at whatever agent, the executor of  *)
(* plan_and_execute included.                                              *)
MutatingCallsConfirmed ==
  \A c \in Calls :
    call[c].stage = "ran" /\ (Mutating(call[c].tool) \/ call[c].tool.confirms)
      => call[c].answer = "confirmed"

(* An approval policy that is configured binds every agent of the tree,    *)
(* however nested: a tool it gates runs only while the session is          *)
(* human_approved.                                                         *)
GatedRunsApproved ==
  [][\A c \in Calls : \A l \in {"require", "policy"} :
       /\ Runs(c)
       /\ Wires(l) /\ Gated(l, call'[c].tool)
       /\ call'[c].agent \in Reached
       => approved]_vars

(* "NEVER gate request_approval": gates do not stand in the way of the     *)
(* confirmation flow itself.  A confirmed call of an unconditional tool    *)
(* runs, whichever policies are wired.                                     *)
ConfirmationFlowOpen ==
  [][\A c \in Calls :
       /\ call[c].stage = "answered" /\ call'[c].stage # "answered"
       /\ call[c].answer = "confirmed"
       /\ Unconditional(call[c].tool) /\ ~Wires("hook")
       => Runs(c)]_vars

(* The link a layer adds to a chain. *)
Link(l) == IF Wires(l) THEN <<l>> ELSE <<>>

(* Once an agent is served, every callback that applies is in its chain    *)
(* once and in order, the runtime's first: "its veto wins".                *)
ChainsComplete ==
  phase = "serving" =>
    \A n \in Reached \cap tree.llm :
      chain[n] = <<"runtime">> \o Link("hook") \o Link("require") \o Link("policy")

(* "After the human confirms, the tool proceeds". *)
ConfirmedProceeds ==
  [][\A c \in Calls :
       /\ call[c].stage = "answered" /\ call'[c].stage # "answered"
       /\ call[c].answer = "confirmed"
       => Runs(c)]_vars

(* "The same gate is applied automatically when execution.require_approval *)
(* is true", "applied across the tree": it binds every agent that was      *)
(* compiled, whatever the root is.                                         *)
RequireApprovalHonoured ==
  [][\A c \in Calls :
       Runs(c) /\ config.require /\ ~Unconditional(call'[c].tool) => approved]_vars
=============================================================================

----------------------------- MODULE MCApproval -----------------------------
(* Small instances of ApprovalGate. *)
EXTENDS ApprovalGate, TLC

CONSTANTS r, w, a, b    \* a root, an inner workflow, two agents

Symmetry == Permutations(Calls)

Below(f) == [n \in Nodes |-> IF n \in DOMAIN f THEN f[n] ELSE {}]

(* The shapes of the presets: a sequence (the root is a Workflow), a graph *)
(* nested in a graph, a coordinator with sub-agents.                       *)
Sequence == [root |-> r, llm |-> {a, b}, below |-> Below(r :> {a, b})]
Nested == [root |-> r, llm |-> {a, b}, below |-> Below(r :> {w, b} @@ w :> {a})]
Team == [root |-> r, llm |-> {r, a}, below |-> Below(r :> {a})]

(* plan_and_execute: w is the planner, a function node; the executor a is  *)
(* compiled, but no edge leads to it.                                      *)
PlanExecute == [root |-> r, llm |-> {a}, below |-> Below(r :> {w})]

AllTrees == {Sequence, Nested, Team, PlanExecute}
SequenceOrPlan == {Sequence, PlanExecute}
SequenceOnly == {Sequence}

Tool(name, listed, marker, gated) ==
  [name |-> name, delegation |-> FALSE, listed |-> listed, marker |-> marker,
   gated |-> gated, confirms |-> FALSE]

(* The tools build_tool makes, the ones the engine adds, and a toolset's.  *)
RequestApproval ==
  [Tool("request_approval", "read_only", "harmless", TRUE) EXCEPT !.confirms = TRUE]
Delegation == [Tool("other", "no", "none", TRUE) EXCEPT !.delegation = TRUE]
FinishTask == Tool("finish_task", "no", "none", TRUE)
Lookup == Tool("other", "read_only", "harmless", FALSE)
Publish == Tool("other", "no", "none", TRUE)
Annotated == Tool("other", "no", "harmless", TRUE)
Overruled == Tool("other", "mutating", "harmless", FALSE)

AllTools == {RequestApproval, Delegation, FinishTask, Lookup, Publish, Annotated,
             Overruled}
TwoTools == {Annotated, Publish}

(* A hook is a custom preset's. *)
AllConfigs == {c \in ConfigType : c.hook => c.root = "preset"}
PolicyAlone == {[root |-> "graph", require |-> FALSE, hook |-> FALSE,
                 policy |-> "all", detects |-> TRUE]}
RequireAlone == {[root |-> root, require |-> TRUE, hook |-> FALSE, policy |-> "off",
                  detects |-> TRUE] : root \in {"preset", "graph"}}
=============================================================================

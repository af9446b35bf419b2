----------------------------- MODULE MCWorkflow -----------------------------
(* Workflows to model-check: every sugar form and nesting, every preset    *)
(* with a graph, the two example graphs, with and without synthesis.       *)
EXTENDS WorkflowRun

CONSTANT LoopSize

A == <<"a">>
B == <<"b">>
C == <<"c">>
D == <<"d">>
Abcd == [n \in {A, B, C, D} |-> Llm(n)]

All(ns) == Stage("all", ns, 0)

NoForm == Plain(START)
Sugar(form) == [given |-> NoGraph, form |-> form, by_name |-> Abcd,
                synthesis |-> FALSE, stages |-> FormStages(form)]
SynthesizedSugar(form) == [Sugar(form) EXCEPT !.synthesis = TRUE]
Given(spec, stages) == [given |-> spec, form |-> NoForm, by_name |-> <<>>,
                        synthesis |-> FALSE, stages |-> stages]

Nested == SequenceSugar(<<Plain(A), [ParallelSugar(<<B, C>>) EXCEPT !.as = <<"both">>], Plain(D)>>)
LoopThenBoth == SequenceSugar(<<LoopSugar(A, LoopSize), ParallelSugar(<<B, C>>)>>)
TwoLoops == SequenceSugar(<<LoopSugar(A, LoopSize), LoopSugar(B, 2)>>)

Forms == {SequenceSugar(<<Plain(A), Plain(B), Plain(C)>>), ParallelSugar(<<A, B, C>>),
          LoopSugar(A, LoopSize), Nested, LoopThenBoth, TwoLoops}
ASSUME OrdinaryForms ==
  /\ \A f \in Forms : Ordinary(f, Abcd)
  /\ Ordinary(MultiPerspectiveForm(3), MultiPerspectiveNodes(3))
Bad == {ParallelSugar(<<A>>), LoopSugar(A, 0), SequenceSugar(<<>>),
        SequenceSugar(<<Plain(A), ParallelSugar(<<B, <<"unknown">>>>)>>)}

Roster == <<"research", "solution", "risk">>
AllReplies == {[text |-> "risk", names |-> {"risk"}],
               [text |-> "both", names |-> {"risk", "solution"}],
               [text |-> "other", names |-> {}]}

Presets ==
  {Given(AssistantSpec, <<All({Direct})>>),
   Given(PipelineSpec(3), [i \in 1..3 |-> All({Step(i - 1)})]),
   [SynthesizedSugar(MultiPerspectiveForm(3)) EXCEPT !.by_name = MultiPerspectiveNodes(3)],
   Given(RefineSpec(LoopSize), <<Stage("loop", {RefineBody}, LoopSize)>>),
   Given(ApprovalGateSpec, <<All({Proposer}), All({Completer})>>),
   Given(PlanExecuteSpec, <<All({Planner})>>),
   Given(ExpertDispatchSpec(Roster),
         <<All({Classifier}), Stage("one", {Specialist(s) : s \in Range(Roster)}, 0)>>)}

ASSUME PresetsUnstaged ==
  {Executor, Router, Append(RefineBody, "loop_counter"), Append(Worker(0), "join")}
    \intersect StageNames = {}

(* A fan-out without a join: examples/graph-nested.yaml has one inside.    *)
FanOut == [nodes |-> {[Llm(A) EXCEPT !.key = Perspective(0)],
                      [Llm(B) EXCEPT !.key = Perspective(1)]},
           edges |-> {Edge(START, A, NoRoute), Edge(START, B, NoRoute)}]
Gather == <<"gather">>
Research == [nodes |-> {[Llm(B) EXCEPT !.key = Perspective(0)],
                        [Llm(C) EXCEPT !.key = Perspective(1)], Llm(D), Node(Gather, "join")},
             edges |-> {Edge(START, B, NoRoute), Edge(START, C, NoRoute), Edge(B, Gather, NoRoute),
                        Edge(C, Gather, NoRoute), Edge(Gather, D, NoRoute)}]
NestedExample ==
  [Sugar(SequenceSugar(<<Plain(A), Plain(<<"research">>)>>)) EXCEPT
     !.by_name = A :> Llm(A) @@ <<"research">> :> [Node(<<"research">>, "graph") EXCEPT !.graph = Research],
     !.stages = <<All({A}), All({B, C}), All({D})>>]
RoutedExample ==
  Given([nodes |-> {[Node(Router, "function") EXCEPT !.does = "route_dispatch"],
                    Llm(Specialist("research")), Llm(Specialist("risk"))},
         edges |-> {Edge(START, Router, NoRoute),
                    Edge(Router, Specialist("research"), "research"),
                    Edge(Router, Specialist("risk"), "risk")}],
        <<Stage("one", {Specialist("research"), Specialist("risk")}, 0)>>)

(* The join before its synthesizer waits for both specialists, of which    *)
(* one runs: the run ends without it.                                      *)
RoutedSynthesized == [RoutedExample EXCEPT !.synthesis = TRUE]

(* A loop that is given as nodes and edges, with no bound: not compiled.   *)
Unbounded == Given(RefineSpec(0), <<>>)

AllSources ==
  {Sugar(f) : f \in Forms \union Bad} \union Presets \union {Unbounded}
  \union {SynthesizedSugar(ParallelSugar(<<A, B>>)), SynthesizedSugar(LoopSugar(A, 2)),
          [Given(FanOut, <<All({A, B})>>) EXCEPT !.synthesis = TRUE], NestedExample, RoutedExample,
          RoutedSynthesized}
LoopSources == {Given(RefineSpec(LoopSize), <<Stage("loop", {RefineBody}, LoopSize)>>)}
=============================================================================

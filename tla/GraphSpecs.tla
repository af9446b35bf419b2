----------------------------- MODULE GraphSpecs -----------------------------
(***************************************************************************)
(* Graph specifications: the data model (config/graph.py), the sugar forms *)
(* expanded into it (config/sugar.py), the synthesis policy                *)
(* (policies/synthesis.py) and the graphs of the presets                   *)
(* (presets/catalog.py).                                                   *)
(*                                                                         *)
(* A name is a tuple: <<"a">> is one the user chose, <<"a", "join">> stands *)
(* for a_join.  Lists of nodes and edges are sets, as no code here depends *)
(* on their order; origin tells a node that an expansion adds from one the *)
(* user wrote, so that two nodes with one name stay two.  An edge with a   *)
(* list of targets is one edge per target.                                 *)
(***************************************************************************)
EXTENDS Integers, FiniteSetsExt, SequencesExt, TLC

START == <<"START">>
NoRoute == "None"
AGAIN_ROUTE == "again"
DEFAULT_ROUTE == "__DEFAULT__"
NODE_KINDS == {"llm", "function", "graph", "join"}

-----------------------------------------------------------------------------
(* The data model.                                                         *)

Edge(s, t, r) == [source |-> s, target |-> t, route |-> r]
NoGraph == [nodes |-> {}, edges |-> {}]

(* does: the function of a function node; max: max_iterations of a loop    *)
(* counter; routes and default: a router's options, routes <<>> if it has  *)
(* none; key: the state key an llm node's output_key names.                *)
Node(n, k) == [name |-> n, kind |-> k, origin |-> "given", does |-> "-",
               max |-> 0, routes |-> <<>>, default |-> "research",
               key |-> <<"last_response">>, graph |-> NoGraph]
Llm(n) == Node(n, "llm")
Added(node) == [node EXCEPT !.origin = "added"]

Names(spec) == {node.name : node \in spec.nodes}
Inbound(spec, n) == {e \in spec.edges : e.target = n}
Outgoing(spec, n) == {e \in spec.edges : e.source = n}

(* GraphSpec.validate.                                                     *)
NoDuplicates(spec) == Cardinality(Names(spec)) = Cardinality(spec.nodes)
EndpointsExist(spec) ==
  \A e \in spec.edges : e.source \in Names(spec) \union {START} /\ e.target \in Names(spec)
Valid(spec) ==
  /\ NoDuplicates(spec)
  /\ \A node \in spec.nodes : /\ node.kind \in NODE_KINDS
                              /\ node.kind = "graph" <=> node.graph # NoGraph
  /\ EndpointsExist(spec)
  /\ Outgoing(spec, START) # {}
  /\ \A node \in spec.nodes :
       node.kind = "join" => Cardinality(Inbound(spec, node.name)) >= 2

-----------------------------------------------------------------------------
(* Sugar.  An item of a sequence is itself a form: a plain node, a parallel *)
(* or a loop; as: the name given to a nested form.                         *)

Form(f, items, names, max) ==
  [form |-> f, items |-> items, names |-> names, max |-> max, as |-> <<>>]
Plain(n) == Form("node", <<>>, <<n>>, 0)
ParallelSugar(names) == Form("parallel", <<>>, names, 0)
LoopSugar(body, max) == Form("loop", <<>>, <<body>>, max)
SequenceSugar(items) == Form("sequence", items, <<>>, 0)

(* What __post_init__ accepts.                                             *)
WellFormed(sugar) ==
  CASE sugar.form = "parallel" -> Len(sugar.names) >= 2
    [] sugar.form = "loop"     -> sugar.max >= 1
    [] sugar.form = "sequence" -> Len(sugar.items) >= 1
    [] OTHER                   -> TRUE

ExpandParallel(sugar) ==
  LET join == Added(Node(Append(sugar.names[1], "join"), "join"))
  IN  [nodes |-> {join},
       edges |-> {Edge(START, n, NoRoute) : n \in Range(sugar.names)}
                 \union {Edge(n, join.name, NoRoute) : n \in Range(sugar.names)}]

ExpandLoop(sugar) ==
  LET body == sugar.names[1]
      counter == [Added(Node(Append(body, "loop_counter"), "function"))
                    EXCEPT !.does = "loop_counter", !.max = sugar.max]
  IN  [nodes |-> {counter},
       edges |-> {Edge(START, body, NoRoute), Edge(body, counter.name, NoRoute),
                  Edge(counter.name, body, AGAIN_ROUTE)}]

(* The outer spec keeps only the nodes its own edges touch.                *)
Touched(edges) == {e.source : e \in edges} \union {e.target : e \in edges}
Enclose(fragment, by_name) ==
  [nodes |-> {by_name[n] : n \in Touched(fragment.edges) \intersect DOMAIN by_name}
             \union fragment.nodes,
   edges |-> fragment.edges]

ExpandNested(sugar, by_name) ==
  Enclose(IF sugar.form = "parallel" THEN ExpandParallel(sugar) ELSE ExpandLoop(sugar),
          [n \in Range(sugar.names) \intersect DOMAIN by_name |-> by_name[n]])

(* A nested form becomes a subgraph, named by its place if it has no name. *)
ItemNode(item, index, by_name) ==
  IF item.form = "node" THEN by_name[item.names[1]]
  ELSE [Added(Node(IF item.as # <<>> THEN item.as ELSE <<"sub", ToString(index)>>, "graph"))
          EXCEPT !.graph = ExpandNested(item, by_name)]

ExpandSequence(sugar, by_name) ==
  LET node == [i \in DOMAIN sugar.items |-> ItemNode(sugar.items[i], i - 1, by_name)]
  IN  [nodes |-> {n \in Range(node) : n.name \notin DOMAIN by_name},
       edges |-> {Edge(IF i = 1 THEN START ELSE node[i - 1].name, node[i].name, NoRoute) :
                    i \in DOMAIN node}]

ExpandSugar(sugar, by_name) ==
  IF sugar.form = "sequence" THEN Enclose(ExpandSequence(sugar, by_name), by_name)
  ELSE ExpandNested(sugar, by_name)

(* Does parsing and expanding a form raise?                                *)
ItemExpands(item, by_name) ==
  /\ WellFormed(item)
  /\ Range(item.names) \subseteq DOMAIN by_name
  /\ item.form # "node" => Valid(ExpandNested(item, by_name))
Expands(sugar, by_name) ==
  /\ WellFormed(sugar)
  /\ IF sugar.form = "sequence"
     THEN \A i \in DOMAIN sugar.items : ItemExpands(sugar.items[i], by_name)
     ELSE ItemExpands(sugar, by_name)

-----------------------------------------------------------------------------
(* Synthesis: a synthesizer after the terminals, joined if there are        *)
(* several, and the aggregation of the perspectives after it.              *)

Synthesizer == <<"perspective_synthesizer">>
SynthesisJoin == <<"synthesis_join">>
Aggregator == <<"synthesis_aggregate">>
SynthesizerNode == Added(Llm(Synthesizer))
JoinNode == Added(Node(SynthesisJoin, "join"))
AggregatorNode == [Added(Node(Aggregator, "function")) EXCEPT !.does = "aggregate_perspectives"]

Terminals(spec) == {n \in Names(spec) : Outgoing(spec, n) = {}}

(* Several terminals are joined first; so are none, which validate refuses. *)
Single(spec) == Cardinality(Terminals(spec)) = 1
LastNode(spec) == IF Single(spec) THEN CHOOSE t \in Terminals(spec) : TRUE ELSE SynthesisJoin
Joined(spec) ==
  IF Single(spec) THEN spec
  ELSE [nodes |-> spec.nodes \union {JoinNode},
        edges |-> spec.edges \union {Edge(t, SynthesisJoin, NoRoute) : t \in Terminals(spec)}]

(* Variants: only one of the terminals leads on; the aggregation starts at  *)
(* once.                                                                   *)
WithSynthesisUnjoined(spec) ==
  [nodes |-> spec.nodes \union {SynthesizerNode, AggregatorNode},
   edges |-> spec.edges
             \union {Edge(IF Terminals(spec) = {} THEN START ELSE CHOOSE t \in Terminals(spec) : TRUE,
                           Synthesizer, NoRoute),
                      Edge(Synthesizer, Aggregator, NoRoute)}]
WithSynthesisEager(spec) ==
  [nodes |-> Joined(spec).nodes \union {SynthesizerNode, AggregatorNode},
   edges |-> Joined(spec).edges \union {Edge(LastNode(spec), Synthesizer, NoRoute),
                                        Edge(START, Aggregator, NoRoute)}]
WithSynthesis(spec) ==
  [nodes |-> Joined(spec).nodes \union {SynthesizerNode, AggregatorNode},
   edges |-> Joined(spec).edges \union {Edge(LastNode(spec), Synthesizer, NoRoute),
                                        Edge(Synthesizer, Aggregator, NoRoute)}]

-----------------------------------------------------------------------------
(* The graphs of the presets; size is the preset's count of steps, workers *)
(* or iterations.                                                          *)

ByName(nodes) == [n \in {node.name : node \in nodes} |->
                    CHOOSE node \in nodes : node.name = n]

Direct == <<"direct_agent">>
AssistantSpec == ExpandSugar(SequenceSugar(<<Plain(Direct)>>), ByName({Llm(Direct)}))

Step(i) == <<"sequential_step", ToString(i)>>
PipelineSpec(size) ==
  ExpandSugar(SequenceSugar([i \in 1..size |-> Plain(Step(i - 1))]),
              ByName({Llm(Step(i - 1)) : i \in 1..size}))

(* This one is a form with synthesis after it. *)
Perspective(i) == <<"perspective", i>>
Worker(i) == <<"parallel_worker", ToString(i)>>
WorkerNode(i) == [Llm(Worker(i)) EXCEPT !.key = Perspective(i)]
MultiPerspectiveForm(size) == ParallelSugar([i \in 1..size |-> Worker(i - 1)])
MultiPerspectiveNodes(size) == ByName({WorkerNode(i) : i \in 0..(size - 1)})

RefineBody == <<"evaluator_optimizer_worker">>
RefineSpec(size) == ExpandSugar(LoopSugar(RefineBody, size), ByName({Llm(RefineBody)}))

Proposer == <<"human_in_loop_proposer">>
Completer == <<"human_in_loop_completer">>
ApprovalGateSpec ==
  ExpandSugar(SequenceSugar(<<Plain(Proposer), Plain(Completer)>>),
              ByName({Llm(Proposer), Llm(Completer)}))

Planner == <<"planner_agent">>
Executor == <<"executor_agent">>
PlanExecuteSpec ==
  [nodes |-> {[Node(Planner, "function") EXCEPT !.does = "plan_execute"], Llm(Executor)},
   edges |-> {Edge(START, Planner, NoRoute)}]

Classifier == <<"router_classifier">>
Router == <<"router_agent">>
Specialist(s) == <<"router_specialist", s>>
ExpertDispatchSpec(specialists) ==
  [nodes |-> {[Llm(Classifier) EXCEPT !.key = <<"routed_to">>],
              [Node(Router, "function") EXCEPT !.does = "route_dispatch",
                                               !.routes = specialists,
                                               !.default = specialists[1]]}
             \union {Llm(Specialist(s)) : s \in Range(specialists)},
   edges |-> {Edge(START, Classifier, NoRoute), Edge(Classifier, Router, NoRoute)}
             \union {Edge(Router, Specialist(s), s) : s \in Range(specialists)}]
=============================================================================

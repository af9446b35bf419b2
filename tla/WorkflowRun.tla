---------------------------- MODULE WorkflowRun -----------------------------
(***************************************************************************)
(* A served workflow: its graph is expanded, validated and compiled from   *)
(* the configuration, and then run, once per message of a session.         *)
(*                                                                         *)
(* From the source: the expansion (GraphSpecs), what compile_graph refuses, *)
(* and the functions it binds to function nodes: the loop counter, the     *)
(* router, the aggregation and the planner (compile/workflow.py).  The     *)
(* engine is external: it runs the targets of START; when a node is done,  *)
(* those of its edges without a route or with the route it emitted, or the *)
(* default edge if none matches; a join once all its predecessors are      *)
(* done; a nested graph until nothing runs in it.  The session's state     *)
(* outlives the run.                                                       *)
(***************************************************************************)
EXTENDS GraphSpecs

CONSTANTS Sources,        \* the configurations
          Replies,        \* what a classifier may answer: text, the name it
                          \* equals, and names, those that occur in it
          Steps,          \* number of plan steps
          MaxRuns,        \* bound: messages of the session
          MaxWaits,       \* bound: times a run waits for the user
          MaxTimes        \* bound: completions of a place that are counted


Top == <<>>

(* A configuration: given, explicit nodes and edges, NoGraph if there are   *)
(* none; form and by_name, a sugar form and the nodes it names; synthesis, *)
(* does the policy, or the preset, add it?; stages, what it promises, for  *)
(* StagedRun.                                                              *)
Explicit(src) == src.given # NoGraph
Parsed(src) == IF Explicit(src) THEN src.given ELSE ExpandSugar(src.form, src.by_name)
Parses(src) == (Explicit(src) \/ Expands(src.form, src.by_name)) /\ Valid(Parsed(src))
Served(src) == IF src.synthesis THEN WithSynthesis(Parsed(src)) ELSE Parsed(src)

(* A graph and the graphs nested in it, by the names of their nodes.       *)
Levels(spec) == {Top} \union {n.name : n \in {m \in spec.nodes : m.kind = "graph"}}
Level(spec, g) == IF g = Top THEN spec ELSE (CHOOSE n \in spec.nodes : n.name = g).graph

(* compile_graph, and again for nested graphs: _resolve_function needs the *)
(* executor of a planner among the nodes, and a bound for a loop counter.  *)
Compiles(spec) ==
  \A g \in Levels(spec) :
    /\ Valid(Level(spec, g))
    /\ \A n \in Level(spec, g).nodes :
         /\ n.does = "plan_execute" => Executor \in Names(Level(spec, g))
         /\ n.does = "loop_counter" => n.max >= 1

Accepted(src) == Parses(src) /\ Compiles(Served(src))

-----------------------------------------------------------------------------
(* How the graphs are wired that this specification is about: those of the *)
(* sugar forms, the presets and the examples.                              *)

(* Nodes are told apart by their names, function nodes alone have           *)
(* functions, perspectives have numbers, and what is nested nests nothing. *)
Writes(node) == node.kind = "llm" /\ node.key[1] = "perspective"
Named(spec) ==
  \A g \in Levels(spec) :
    /\ IsFiniteSet(Level(spec, g).nodes)
    /\ START \notin Names(Level(spec, g)) /\ Top \notin Names(Level(spec, g))
    /\ \A m, n \in Level(spec, g).nodes :
         /\ m.name = n.name => m = n
         /\ m.does # "-" => m.kind = "function"
         /\ g # Top => m.kind # "graph"
         /\ Writes(m) => m.key[2] \in Nat

(* In a graph that streams only joins are entered from several places, and *)
(* no part goes in circles.  It flows if, besides, no edge waits for a     *)
(* route, and no node is left out.                                         *)
Streams(spec) ==
  /\ \A n \in spec.nodes :
       IF n.kind = "join" THEN \A e \in Inbound(spec, n.name) : e.source # START
                          ELSE \A e, f \in Inbound(spec, n.name) : e = f
  /\ \A part \in SUBSET Names(spec) : part # {} =>
       \E n \in part : \A e \in Inbound(spec, n) : e.source \notin part
Flows(spec) ==
  /\ Streams(spec)
  /\ \A e \in spec.edges : e.route = NoRoute
  /\ \A n \in Names(spec) : Inbound(spec, n) # {}

(* A loop is a graph of its own, which is served as it is or nested in one *)
(* that flows; no two loops have their counters of the same name.          *)
Loops(spec, g) == {n \in Level(spec, g).nodes : n.does = "loop_counter"}
Looped(level, body, counter) ==
  /\ body # counter
  /\ level.edges = {Edge(START, body, NoRoute), Edge(body, counter, NoRoute),
                    Edge(counter, body, AGAIN_ROUTE)}
  /\ Names(level) = {body, counter}
  /\ \A n \in level.nodes : n.kind # "join"
LoopsApart(spec) ==
  \A g \in Levels(spec) : \A n \in Loops(spec, g) :
    /\ n.max \in 1..MaxTimes
    /\ \E body \in Names(Level(spec, g)) : Looped(Level(spec, g), body, n.name)
    /\ g # Top => Flows(spec)
    /\ \A h \in Levels(spec) : \A m \in Loops(spec, h) : m.name = n.name => g = h

(* A roster is reached from its router alone, and the router only from the *)
(* one node that says where to go, which runs but once.                    *)
Tells(node) == node.kind = "llm" /\ node.key = <<"routed_to">>
Dispatches(spec) ==
  \A n \in spec.nodes : n.does = "route_dispatch" /\ n.routes # <<>> =>
    /\ DOMAIN n.routes = 1..Len(n.routes)
    /\ {NoRoute, DEFAULT_ROUTE} \intersect Range(n.routes) = {}
    /\ \A s \in Range(n.routes) : \A e \in Inbound(spec, Specialist(s)) :
         e.source = n.name /\ e.route = s
    /\ \A g \in Levels(spec) : \A m \in Level(spec, g).nodes : Tells(m) =>
         /\ g = Top
         /\ \A e \in Inbound(spec, m.name) : e.source = START
         /\ \A e \in Inbound(spec, n.name) : e.source = m.name

(* A plan is made first. *)
Planned(spec) ==
  Executor \in Names(spec) =>
    /\ \E n \in spec.nodes : n.name = Planner /\ n.does = "plan_execute"
    /\ \E e \in Outgoing(spec, START) : e.target = Planner

(* Where perspectives are written and aggregated, all of the graph leads   *)
(* to the aggregation.                                                     *)
Perspectives(spec) == \E g \in Levels(spec) : \E n \in Level(spec, g).nodes : Writes(n)
Gathers(spec) ==
  Aggregator \in Names(spec) /\ Perspectives(spec) =>
    /\ Flows(spec)
    /\ \A n \in Names(spec) \ {Aggregator} : Outgoing(spec, n) # {}
    /\ \E n \in spec.nodes : n.name = Aggregator /\ n.does = "aggregate_perspectives"

Wired(spec) ==
  Named(spec) /\ LoopsApart(spec) /\ Dispatches(spec) /\ Planned(spec) /\ Gathers(spec)

(* What synthesis is added to has no part of it yet, and flows if it has   *)
(* perspectives to aggregate.                                              *)
Synthesizable(spec) ==
  /\ {SynthesizerNode, JoinNode, AggregatorNode} \intersect spec.nodes = {}
  /\ Perspectives(spec) => Flows(spec)

-----------------------------------------------------------------------------
(* What StagedRun is implemented by: graphs that have the order, the loops  *)
(* and the routers for their stages.                                       *)

(* A sugar form has a stage for each of its items, or is one.              *)
Stage(kind, names, max) == [kind |-> kind, names |-> names, max |-> max]
StageOf(item) == IF item.form = "loop" THEN Stage("loop", Range(item.names), item.max)
                 ELSE Stage("all", Range(item.names), 0)
FormStages(form) == IF form.form = "sequence"
                    THEN [i \in DOMAIN form.items |-> StageOf(form.items[i])]
                    ELSE <<StageOf(form)>>

(* The synthesizer is a stage of its own, after all others, where nothing   *)
(* but its turn keeps a node from running.                                 *)
SynthesisStage == Stage("all", {Synthesizer}, 0)
StagesOf(src) ==
  IF src.synthesis /\ Flows(Parsed(src)) THEN Append(src.stages, SynthesisStage) ELSE src.stages
StageNames == UNION {UNION {StagesOf(s)[i].names : i \in DOMAIN StagesOf(s)} : s \in Sources}

(* k is before n if what n waits for, and what that waits for, includes k; *)
(* n is certain to run if none of it waits for a route.                    *)
Closed(level, part) ==
  \A n \in part : \A e \in Inbound(level, n) : e.source \in part \union {START}
Before(level, k, n) ==
  k # n /\ \A part \in SUBSET Names(level) : n \in part /\ Closed(level, part) => k \in part
Certain(level, n) ==
  \E part \in SUBSET Names(level) :
    /\ n \in part /\ Closed(level, part)
    /\ \A m \in part : Inbound(level, m) # {} /\ \A e \in Inbound(level, m) : e.route = NoRoute

(* A router selects one of what follows it, whatever has been replied.     *)
Selects(spec, r, names) ==
  LET out == Outgoing(spec, r.name)
      routes == {e.route : e \in out}
  IN  /\ r.does = "route_dispatch" /\ Streams(spec) /\ Certain(spec, r.name)
      /\ names = {e.target : e \in out}
      /\ \A e \in out : Inbound(spec, e.target) = {e}
      /\ \A e, f \in out : e.route = f.route => e = f
      /\ {NoRoute, DEFAULT_ROUTE} \intersect routes = {} /\ r.default \in routes
      /\ IF r.routes = <<>> THEN \A g \in Levels(spec) : \A m \in Level(spec, g).nodes : ~Tells(m)
         ELSE Range(r.routes) \subseteq routes

Entry(spec, g) == g # Top => Streams(spec) /\ Certain(spec, g)
Placed(spec, stage) ==
  CASE stage.kind = "all" ->
         \A n \in stage.names : \E g \in Levels(spec) :
           /\ Entry(spec, g) /\ n \in Names(Level(spec, g))
           /\ Streams(Level(spec, g)) /\ Certain(Level(spec, g), n)
    [] stage.kind = "loop" ->
         \A n \in stage.names : \E g \in Levels(spec) :
           /\ Entry(spec, g) /\ n \in Names(Level(spec, g))
           /\ \E c \in Loops(spec, g) : Looped(Level(spec, g), n, c.name) /\ c.max = stage.max
    [] OTHER -> \E r \in spec.nodes : Selects(spec, r, stage.names)

Home(spec, n) == CHOOSE g \in Levels(spec) : n \in Names(Level(spec, g))
TopOf(spec, n) == IF Home(spec, n) = Top THEN n ELSE Home(spec, n)
Precedes(spec, k, n) ==
  IF Home(spec, k) = Home(spec, n) THEN Before(Level(spec, Home(spec, n)), k, n)
  ELSE Before(spec, TopOf(spec, k), TopOf(spec, n))

(* Of two that exclude each other it waits for both. *)
Skipped(spec, stages, n) ==
  \E i \in DOMAIN stages : \E a, b \in stages[i].names :
    stages[i].kind = "one" /\ a # b /\ Before(spec, a, n) /\ Before(spec, b, n)

Promised(spec, stages) ==
  /\ stages \in Seq(Range(stages))
  /\ \A i \in DOMAIN stages : stages[i].kind \in {"all", "loop", "one"} /\ Placed(spec, stages[i])
  /\ \A i, j \in DOMAIN stages : j < i =>
       /\ stages[j].kind # "one"
       /\ \A k \in stages[j].names : \A n \in stages[i].names : Precedes(spec, k, n)
  /\ \A n \in StageNames : \A g \in Levels(spec) : n \in Names(Level(spec, g)) =>
       /\ \A h \in Levels(spec) : n \in Names(Level(spec, h)) => g = h
       /\ \/ \E i \in DOMAIN stages : n \in stages[i].names
          \/ g = Top /\ Skipped(spec, stages, n)

SynthesisUnstaged == {SynthesisJoin, Aggregator} \intersect StageNames = {}

(* Synthesis follows all of the graph, or never, or there is none: a graph  *)
(* without a terminal is refused.                                          *)
Concludes(spec, stages) ==
  /\ \A g \in Levels(spec) : Synthesizer \notin Names(Level(spec, g))
  /\ SynthesisUnstaged
  /\ \/ Terminals(spec) = {} \/ Flows(spec)
     \/ \E i \in DOMAIN stages : stages[i].kind = "one" /\ \E a, b \in stages[i].names : a # b

(* An ordinary form names llm nodes and custom functions, each of them once, *)
(* and what is added to them has names of its own.                         *)
Reserved == {START, Top, Executor, Synthesizer, SynthesisJoin, Aggregator}
Fresh(name, by_name) == name \notin Reserved \union DOMAIN by_name \union StageNames
OrdinaryNodes(by_name) ==
  \A n \in DOMAIN by_name :
    /\ n \in Seq(Range(n)) /\ n \notin Reserved
    /\ by_name[n].name = n /\ by_name[n].kind \in {"llm", "function"}
    /\ by_name[n].does = "-" /\ by_name[n].graph = NoGraph
    /\ Writes(by_name[n]) => by_name[n].key[2] \in Nat
AddedName(item) == Append(item.names[1], IF item.form = "loop" THEN "loop_counter" ELSE "join")
OrdinaryItem(item, by_name) ==
  /\ item.form \in {"node", "parallel", "loop"}
  /\ item.names \in Seq(DOMAIN by_name)
  /\ item.form = "parallel" => \E i, j \in DOMAIN item.names : item.names[i] # item.names[j]
  /\ item.form # "parallel" => Len(item.names) = 1
  /\ item.form = "loop" => item.max \in 1..MaxTimes
  /\ item.form # "node" => Fresh(AddedName(item), by_name)
PlaceOf(form, by_name, i) == ItemNode(form.items[i], i - 1, by_name).name
Ordinary(form, by_name) ==
  /\ OrdinaryNodes(by_name)
  /\ IF form.form # "sequence" THEN form.form # "node" /\ OrdinaryItem(form, by_name)
     ELSE /\ form.items \in Seq(Range(form.items)) /\ form.items # <<>>
          /\ \A i \in DOMAIN form.items :
               /\ OrdinaryItem(form.items[i], by_name)
               /\ form.items[i].form # "node" => Fresh(PlaceOf(form, by_name, i), by_name)
          /\ \A i, j \in DOMAIN form.items : i # j =>
               /\ PlaceOf(form, by_name, i) # PlaceOf(form, by_name, j)
               /\ Range(form.items[i].names) \intersect Range(form.items[j].names) = {}

(* Of an ordinary form nothing else has to be known; of any other source,   *)
(* how its graph is wired and that it has the order for its stages.        *)
FromForm(src) ==
  /\ ~Explicit(src) /\ Ordinary(src.form, src.by_name)
  /\ src.stages = FormStages(src.form)
  /\ src.synthesis => SynthesisUnstaged
Known(src) ==
  /\ Wired(Parsed(src)) /\ Promised(Parsed(src), src.stages)
  /\ src.synthesis => Synthesizable(Parsed(src)) /\ Concludes(Parsed(src), src.stages)

ASSUME SourcesAssumption == \A s \in Sources : Accepted(s) => FromForm(s) \/ Known(s)

-----------------------------------------------------------------------------
ASSUME WorkflowAssumption ==
  Steps \in Nat /\ MaxRuns \in Nat /\ MaxWaits \in Nat /\ MaxTimes \in Nat \ {0}

VARIABLES
  source, phase, graph,
  active,      \* places that run; a nested graph runs while its nodes do
  waiting,     \* those of them that wait for the user
  arrived,     \* <<join, predecessor>> pairs the joins have seen
  ran,         \* completed runs of each place in this run (history)
  plan,        \* the planner's run_node calls, by run_id
  outputs,     \* the step whose output the engine holds, by run_id
  state,       \* the session's state
  fresh,       \* no loop had counted yet when the run began (history)
  run, waits   \* bound counters; run also stamps what is written to state

engine == <<active, waiting, arrived, ran, plan, outputs>>
config == <<source, graph>>
vars == <<config, phase, engine, state, fresh, run, waits>>

RunIdShared(i) == 1
RunId(i) == i                      \* f"plan_step_{index}"
RunIds == {RunId(i) : i \in 1..Steps}

(* Places: a node of the served graph, or of one of its nested graphs.     *)
SpecOf(g) == Level(graph, g)
Graphs == Levels(graph)
Places == UNION {{<<g, n>> : n \in Names(SpecOf(g))} : g \in Graphs}
NodeAt(p) == CHOOSE n \in SpecOf(p[1]).nodes : n.name = p[2]
Does(p, what) == NodeAt(p).does = what

-----------------------------------------------------------------------------
(* Building: the loader, the synthesis policy, compile_graph.              *)

Init ==
  /\ source \in Sources
  /\ phase = "config"
  /\ graph = NoGraph
  /\ active = {} /\ waiting = {} /\ arrived = {}
  /\ ran = <<>>
  /\ plan = [r \in RunIds |-> "idle"]
  /\ outputs = [r \in RunIds |-> 0]
  /\ state = [counts |-> <<>>, routed_to |-> <<>>, perspective |-> <<>>,
              aggregated |-> <<>>, plan_outputs |-> <<>>]
  /\ fresh = TRUE
  /\ run = 0 /\ waits = 0

Load ==
  /\ phase = "config"
  /\ IF Accepted(source)
     THEN graph' = Served(source) /\ phase' = "ready"
     ELSE phase' = "refused" /\ UNCHANGED graph
  /\ UNCHANGED <<source, engine, state, fresh, run, waits>>

-----------------------------------------------------------------------------
(* The engine.                                                             *)

Fired(p, route) ==
  LET out == Outgoing(SpecOf(p[1]), p[2])
      matched == {e \in out : e.route = route /\ route # NoRoute}
  IN  {e \in out : e.route = NoRoute} \union
      (IF matched # {} THEN matched ELSE {e \in out : e.route = DEFAULT_ROUTE})

(* A nested graph starts with the targets of its own START, a planner with *)
(* one run_node call per step.                                             *)
Started(ts) ==
  ts \union UNION {{<<t[2], e.target>> : e \in Outgoing(NodeAt(t).graph, START)} : t \in ts}
PlanStarted(ts, calls) ==
  IF \E t \in ts : Does(t, "plan_execute") THEN [r \in RunIds |-> "running"] ELSE calls

(* What starts when p is done: the targets that are no joins, and the joins *)
(* that have seen all their predecessors.                                  *)
Targets(p, route) == {<<p[1], e.target>> : e \in Fired(p, route)}
Joins(p, route) == {t \in Targets(p, route) : NodeAt(t).kind = "join"}
Seen(p, route) == arrived \union {<<t, p[2]>> : t \in Joins(p, route)}
Full(p, route) ==
  {t \in Joins(p, route) :
     \A e \in Inbound(SpecOf(t[1]), t[2]) : <<t, e.source>> \in Seen(p, route)}
StartedBy(p, route) ==
  Started((Targets(p, route) \ Joins(p, route)) \union Full(p, route))

Complete(p, route) ==
  /\ phase = "running"
  /\ p \in active \ waiting
  /\ active' = (active \ {p}) \union StartedBy(p, route)
  /\ arrived' = {a \in Seen(p, route) : a[1] \notin Full(p, route)}
  /\ ran' = [ran EXCEPT ![p] = IF @ < MaxTimes THEN @ + 1 ELSE @]
  /\ plan' = PlanStarted(StartedBy(p, route), plan)
  /\ UNCHANGED <<config, phase, waiting, outputs, fresh, run, waits>>

StartedAtOnce == Started({<<Top, e.target>> : e \in Outgoing(graph, START)})

Message ==
  /\ phase \in {"ready", "ended", "failed"}
  /\ run < MaxRuns
  /\ active' = StartedAtOnce
  /\ plan' = PlanStarted(StartedAtOnce, [r \in RunIds |-> "idle"])
  /\ phase' = "running"
  /\ waiting' = {} /\ arrived' = {}
  /\ ran' = [p \in Places |-> 0]
  /\ outputs' = [r \in RunIds |-> 0]
  /\ fresh' = (state.counts = <<>>)
  /\ run' = run + 1
  /\ waits' = 0
  /\ UNCHANGED <<config, state>>

PassJoin(p) == NodeAt(p).kind = "join" /\ Complete(p, NoRoute) /\ UNCHANGED state

PassGraph(p) ==
  /\ NodeAt(p).kind = "graph"
  /\ \A q \in active : q[1] # p[2]
  /\ Complete(p, NoRoute)
  /\ UNCHANGED state

End ==
  /\ phase = "running" /\ active = {}
  /\ phase' = "ended"
  /\ UNCHANGED <<config, engine, state, fresh, run, waits>>

(* An llm node may fail: the run fails with it and what still ran stops.   *)
Quit ==
  /\ phase' = "failed"
  /\ active' = {} /\ waiting' = {}
  /\ plan' = [r \in RunIds |-> "idle"]
  /\ UNCHANGED <<config, arrived, ran, outputs, state, fresh, run, waits>>

Fail(p) == phase = "running" /\ p \in active \ waiting /\ NodeAt(p).kind = "llm" /\ Quit

(* It may also wait for the user, who answers or sends something else.     *)
Wait(p) ==
  /\ phase = "running" /\ p \in active \ waiting /\ NodeAt(p).kind = "llm"
  /\ waits < MaxWaits
  /\ waiting' = waiting \union {p}
  /\ waits' = waits + 1
  /\ UNCHANGED <<config, phase, active, arrived, ran, plan, outputs, state, fresh, run>>

Pause ==
  /\ phase = "running" /\ waiting # {}
  /\ \A p \in active \ waiting : NodeAt(p).kind = "graph"
  /\ phase' = "paused"
  /\ UNCHANGED <<config, engine, state, fresh, run, waits>>

Resume ==
  /\ phase = "paused"
  /\ phase' = "running"
  /\ waiting' = {}
  /\ plan' = [r \in RunIds |-> IF plan[r] = "waiting" THEN "running" ELSE plan[r]]
  /\ UNCHANGED <<config, active, arrived, ran, outputs, state, fresh, run, waits>>

Abandon == phase = "paused" /\ Quit

-----------------------------------------------------------------------------
(* The nodes.                                                              *)

(* The session's state is a dictionary.                                    *)
Put(f, key, value) == [x \in DOMAIN f \union {key} |-> IF x = key THEN value ELSE f[x]]

(* An llm node writes its text, if it has any, to its output_key.          *)
Written(key) ==
  {state}
  \union {[state EXCEPT !.routed_to = <<r>>] : r \in {x \in Replies : key = <<"routed_to">>}}
  \union (IF key[1] # "perspective" THEN {}
          ELSE {[state EXCEPT !.perspective = Put(@, key[2], run)]})
FinishLlm(p) ==
  /\ NodeAt(p).kind = "llm"
  /\ state' \in Written(NodeAt(p).key)
  /\ Complete(p, NoRoute)

(* loop_counter: the key is the counter's name.                            *)
Count(c) == IF c \in DOMAIN state.counts THEN state.counts[c] ELSE 0
LoopCounterOver(p) ==
  LET count == Count(p[2]) + 1
  IN  /\ Does(p, "loop_counter")
      /\ state' = [state EXCEPT !.counts = Put(@, p[2], count)]
      /\ Complete(p, IF count <= NodeAt(p).max THEN AGAIN_ROUTE ELSE NoRoute)
LoopCounterShort(p) ==
  LET count == Count(p[2]) + 1
  IN  /\ Does(p, "loop_counter")
      /\ state' = [state EXCEPT !.counts = Put(@, p[2], count)]
      /\ Complete(p, IF count + 1 < NodeAt(p).max THEN AGAIN_ROUTE ELSE NoRoute)
LoopCounterForgets(p) ==
  LET count == Count(p[2]) + 1
  IN  /\ Does(p, "loop_counter")
      /\ state' = [state EXCEPT !.counts = @ @@ (p[2] :> count)]
      /\ Complete(p, IF count < NodeAt(p).max THEN AGAIN_ROUTE ELSE NoRoute)
LoopCounter(p) ==
  LET count == Count(p[2]) + 1
  IN  /\ Does(p, "loop_counter")
      /\ state' = [state EXCEPT !.counts = Put(@, p[2], count)]
      /\ Complete(p, IF count < NodeAt(p).max THEN AGAIN_ROUTE ELSE NoRoute)

(* default_route_dispatch: the first of the routes that occurs in the      *)
(* reply, the reply itself if no routes are bound, else the default.       *)
DispatchedExact(node) ==
  LET reply == state.routed_to[1]
  IN  IF state.routed_to # <<>> /\ reply.text \in Range(node.routes)
      THEN reply.text ELSE node.default
Dispatched(node) ==
  LET reply == state.routed_to[1]
      hits == {i \in DOMAIN node.routes : node.routes[i] \in reply.names}
  IN  IF state.routed_to = <<>> THEN node.default
      ELSE IF node.routes = <<>> THEN reply.text
      ELSE IF hits # {} THEN node.routes[Min(hits)] ELSE node.default
RouteDispatch(p) ==
  /\ Does(p, "route_dispatch")
  /\ Complete(p, Dispatched(NodeAt(p)))
  /\ UNCHANGED state

(* default_aggregate_perspectives: the perspectives by ascending index.    *)
Ascending(s) == \A i, j \in DOMAIN s : i < j => s[i] < s[j]
Sorted(S) == CHOOSE s \in [1..Cardinality(S) -> S] : Range(s) = S /\ Ascending(s)
Collected(perspective) ==
  LET keys == Sorted(DOMAIN perspective)
  IN  [i \in DOMAIN keys |-> [index |-> keys[i], at |-> perspective[keys[i]]]]
AggregatePerspectives(p) ==
  /\ Does(p, "aggregate_perspectives")
  /\ state' = [state EXCEPT !.aggregated = Collected(state.perspective)]
  /\ Complete(p, NoRoute)

(* plan_execute: asyncio.gather over one run_node call per step.  A call   *)
(* that waits raises at once, the others go on; resuming runs the function *)
(* again, and the engine answers the calls it has seen end by run_id.      *)
IsPlanner(p) == p \in active /\ Does(p, "plan_execute")
StepEnds(i) ==
  /\ phase \in {"running", "paused"}
  /\ plan[RunId(i)] = "running"
  /\ plan' = [plan EXCEPT ![RunId(i)] = "done"]
  /\ outputs' = [outputs EXCEPT ![RunId(i)] = i]
  /\ UNCHANGED <<config, phase, active, waiting, arrived, ran, state, fresh, run, waits>>
StepWaits(i) ==
  /\ phase = "running"
  /\ plan[RunId(i)] = "running"
  /\ waits < MaxWaits
  /\ plan' = [plan EXCEPT ![RunId(i)] = "waiting"]
  /\ waiting' = waiting \union {p \in Places : IsPlanner(p)}
  /\ waits' = waits + 1
  /\ UNCHANGED <<config, phase, active, arrived, ran, outputs, state, fresh, run>>
StepFails(i) == phase = "running" /\ plan[RunId(i)] = "running" /\ Quit
PlanExecute(p) ==
  /\ Does(p, "plan_execute")
  /\ \A r \in RunIds : plan[r] = "done"
  /\ state' = [state EXCEPT !.plan_outputs =
                 [i \in 1..Steps |-> [step |-> outputs[RunId(i)], at |-> run]]]
  /\ Complete(p, NoRoute)

-----------------------------------------------------------------------------
Finish(p) == \/ FinishLlm(p) \/ LoopCounter(p) \/ RouteDispatch(p)
             \/ AggregatePerspectives(p) \/ PlanExecute(p) \/ PassJoin(p) \/ PassGraph(p)

Next == \/ Load \/ Message \/ End \/ Pause \/ Resume \/ Abandon
        \/ \E p \in active : Finish(p) \/ Fail(p) \/ Wait(p)
        \/ \E i \in 1..Steps : StepEnds(i) \/ StepWaits(i) \/ StepFails(i)

(* Nodes and plan steps that run come to an end; the engine notices.       *)
Fairness == /\ WF_vars(\E p \in active : Finish(p))
            /\ WF_vars(\E i \in 1..Steps : StepEnds(i))
            /\ WF_vars(End \/ Pause)
Spec == Init /\ [][Next]_vars
FairSpec == Spec /\ Fairness

-----------------------------------------------------------------------------
(* Properties.                                                             *)

LoopsAt(g) == Loops(graph, g)

(* Types; only what runs can wait, and a counter exceeds its loop's bound  *)
(* only by the one iteration that each later run of the session makes.     *)
TypeOK ==
  /\ phase \in {"config", "refused", "ready", "running", "paused", "ended", "failed"}
  /\ active \subseteq Places /\ waiting \subseteq active
  /\ arrived \subseteq Places \X UNION {Names(SpecOf(g)) : g \in Graphs}
  /\ ran \in [DOMAIN ran -> 0..MaxTimes]
  /\ plan \in [RunIds -> {"idle", "running", "waiting", "done"}]
  /\ outputs \in [RunIds -> 0..Steps]
  /\ \A c \in DOMAIN state.counts : \E g \in Graphs : \E n \in LoopsAt(g) :
       n.name = c /\ state.counts[c] \in 1..(n.max + run - 1)
  /\ \A i \in DOMAIN state.perspective : state.perspective[i] \in 1..run
  /\ run \in 0..MaxRuns /\ waits \in 0..MaxWaits

(* The expanded graph does what its form promises: stages in order, every   *)
(* branch before the join, loops within their bound, one specialist, the   *)
(* synthesizer last; and no run ends with a stage left out.                *)
TimesRan(n) ==
  IF \E p \in DOMAIN ran : p[2] = n THEN ran[CHOOSE p \in DOMAIN ran : p[2] = n] ELSE 0
Staged == INSTANCE StagedRun WITH
  StageNodes <- StageNames,
  stages <- StagesOf(source),
  status <- CASE phase \in {"config", "refused", "ready"} -> "ready"
              [] phase \in {"running", "paused"} -> "running"
              [] OTHER -> phase,
  done <- [n \in StageNames |-> TimesRan(n)]
ImplementsStages == Staged!Spec

(* A loop runs its body exactly max_iterations times in a run that ends,   *)
(* the session's first one (no loop has counted before).                   *)
LoopsExact ==
  \A g \in Graphs : \A n \in LoopsAt(g) : ran[<<g, n.name>>] = n.max
FreshLoopExact == phase = "ended" /\ fresh => LoopsExact

(* The same of every run: what the loop's documentation says.              *)
LoopSpendsBudget == phase = "ended" => LoopsExact

(* A run that ends has aggregated every perspective in the session, in     *)
(* order, with the last value written to each.                             *)
AggregatesAll ==
  phase = "ended" /\ <<Top, Aggregator>> \in Places =>
    /\ {[index |-> i, at |-> state.perspective[i]] : i \in DOMAIN state.perspective}
         = Range(state.aggregated)
    /\ \A i, j \in DOMAIN state.aggregated :
         i < j => state.aggregated[i].index < state.aggregated[j].index

(* However the steps of a plan end, wait and are resumed, plan_outputs     *)
(* holds one output per step, of this run, in the plan's order.            *)
PlanOutputsInOrder ==
  phase = "ended" /\ Executor \in Names(graph) =>
    state.plan_outputs = [i \in 1..Steps |-> [step |-> i, at |-> run]]

(* A specialist that runs is one the last classification names, if it      *)
(* names any of the roster.                                                *)
RoutedAsReplied ==
  \A n \in graph.nodes : n.does = "route_dispatch" /\ n.routes # <<>> /\ state.routed_to # <<>> =>
    LET named == state.routed_to[1].names \intersect Range(n.routes)
    IN  \A s \in Range(n.routes) :
          <<Top, Specialist(s)>> \in active /\ named # {} => s \in named

(* A run never goes on for ever: it ends, fails or waits for the user.     *)
RunSettles == (phase = "running") ~> (phase # "running")
=============================================================================

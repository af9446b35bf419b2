--------------------------- MODULE WorkflowProofs ---------------------------
(***************************************************************************)
(* What WorkflowRun promises for any configurations whose graphs are wired *)
(* as those of the forms and presets are (Wired), any replies, any number  *)
(* of plan steps, of messages and of waits.                                *)
(***************************************************************************)
EXTENDS GraphProofs

(* The graph that is served has passed the loader and the compiler. *)
GraphServed ==
  /\ source \in Sources
  /\ phase \in {"config", "refused"} => graph = NoGraph
  /\ phase \notin {"config", "refused"} =>
       /\ Accepted(source) /\ graph = Served(source)
       /\ Wired(graph) /\ Compiles(graph)

(* Nothing runs between the runs. *)
Resting == phase \notin {"running", "paused"} => active = {}

(* The type invariant, but for the counters; and the fields it counts on.  *)
StateFields == {"counts", "routed_to", "perspective", "aggregated", "plan_outputs"}
RunTypes ==
  /\ phase \in {"config", "refused", "ready", "running", "paused", "ended", "failed"}
  /\ active \subseteq Places /\ waiting \subseteq active
  /\ arrived \subseteq Places \X UNION {Names(SpecOf(g)) : g \in Graphs}
  /\ ran \in [DOMAIN ran -> 0..MaxTimes]
  /\ phase \in {"running", "paused", "ended"} => DOMAIN ran = Places
  /\ plan \in [RunIds -> {"idle", "running", "waiting", "done"}]
  /\ outputs \in [RunIds -> 0..Steps]
  /\ DOMAIN state = StateFields
  /\ \A i \in DOMAIN state.perspective : state.perspective[i] \in 1..run
  /\ run \in 0..MaxRuns /\ waits \in 0..MaxWaits
  /\ phase \notin {"config", "refused", "ready"} => run >= 1

(* The engine holds the outputs of the steps that have ended; the planner  *)
(* comes first, and plan_outputs is of this run when it is done.           *)
InOrder == state.plan_outputs = [i \in 1..Steps |-> [step |-> i, at |-> run]]
PlanKept ==
  /\ \A i \in 1..Steps : plan[i] = "done" => outputs[i] = i
  /\ phase \in {"running", "paused", "ended"} /\ Executor \in Names(graph) =>
       <<Top, Planner>> \in active \/ InOrder

(* Nobody who could tell otherwise runs beside a router or its roster. *)
TellersAlone ==
  \A n, m \in graph.nodes :
    n.does = "route_dispatch" /\ n.routes # <<>> /\ Tells(m) /\ <<Top, m.name>> \in active =>
      /\ <<Top, n.name>> \notin active
      /\ \A s \in Range(n.routes) : <<Top, Specialist(s)>> \notin active

(* Where the graphs stream a node runs once, in a graph that is entered and *)
(* when all before it are done, at once if no edge waits for a route; a     *)
(* join that has not begun has seen those of them that are.                *)
Over(p) == ran[p] = 1
Open(p) == p \in active \/ Over(p)
Cleared(g, e) == e.source = START \/ Over(<<g, e.source>>)
Done(n) == ran[<<Top, n>>] = 1
Begun(n) == <<Top, n>> \in active \/ Done(n)
Ready(e) == e.source = START \/ Done(e.source)
Entered(g) == g = Top \/ <<Top, g>> \in active \/ Done(g)
StreamKept(g, n) ==
  LET p == <<g, n.name>>
      inbound == Inbound(SpecOf(g), n.name)
  IN  /\ ran[p] \in {0, 1}
      /\ p \in active => ran[p] = 0
      /\ Open(p) => Entered(g) /\ \A e \in inbound : Cleared(g, e)
      /\ Entered(g) /\ inbound # {} /\ (\A e \in inbound : Cleared(g, e) /\ e.route = NoRoute)
           => Open(p)
      /\ n.kind = "join" /\ ~Open(p) =>
           \A e \in inbound :
             /\ <<p, e.source>> \in arrived => Over(<<g, e.source>>)
             /\ Over(<<g, e.source>>) /\ e.route = NoRoute => <<p, e.source>> \in arrived
InStream ==
  phase \in {"running", "paused", "ended"} /\ Streams(graph) =>
    \A g \in Graphs : Streams(SpecOf(g)) => \A n \in SpecOf(g).nodes : StreamKept(g, n)

(* Nothing is told where nobody tells; so a router that selects, which is   *)
(* done, has selected one of those that follow it, and no other has begun. *)
Untold ==
  (\A g \in Graphs : \A m \in SpecOf(g).nodes : ~Tells(m)) => state.routed_to = <<>>
ChosenOne(r, names) ==
  /\ Done(r.name) => \E n \in names : Begun(n)
  /\ \A a, b \in names : Begun(a) /\ Begun(b) => a = b
Chosen ==
  phase \in {"running", "paused", "ended"} =>
    \A r \in graph.nodes : \A names \in SUBSET Names(graph) :
      Selects(graph, r, names) => ChosenOne(r, names)

(* A nested graph runs while its nodes do. *)
Nested == \A q \in active : q[1] # Top => <<Top, q[1]>> \in active

(* What has been aggregated is what is in the session, once the aggregation *)
(* is done; nothing is where nobody writes.                                *)
Gathered ==
  /\ IsFiniteSet(DOMAIN state.perspective) /\ DOMAIN state.perspective \subseteq Nat
  /\ ~Perspectives(graph) =>
       DOMAIN state.perspective = {} /\ DOMAIN state.aggregated = {}
  /\ (/\ phase \in {"running", "paused", "ended"}
      /\ Perspectives(graph) /\ Aggregator \in Names(graph) /\ Done(Aggregator))
     => state.aggregated = Collected(state.perspective)

(* A loop is entered once in a run.  Until it is left, its counter is      *)
(* below its bound or, in later runs, has been counted no more than once   *)
(* in each; in a fresh session it has been counted as often as it has run. *)
(* Body and counter take turns, and neither runs more often than the bound. *)
Left(g, body, n) ==
  Entered(g) /\ <<g, body>> \notin active /\ <<g, n.name>> \notin active
Counted(g, n, excess) ==
  n.name \in DOMAIN state.counts =>
    state.counts[n.name] \in 1..(n.max + run - excess)
LoopKept(g, body, n) ==
  /\ <<g, body>> \in active => <<g, n.name>> \notin active
  /\ g # Top /\ (<<g, body>> \in active \/ <<g, n.name>> \in active) => <<Top, g>> \in active
  /\ ~Left(g, body, n) =>
       /\ Count(n.name) < n.max \/ Counted(g, n, 2)
       /\ fresh => ran[<<g, n.name>>] = Count(n.name) /\ Count(n.name) < n.max
  /\ Left(g, body, n) /\ fresh => ran[<<g, n.name>>] = n.max
LoopPaced(g, body, n) ==
  LET b == <<g, body>>
      c == <<g, n.name>>
  IN  /\ ~Entered(g) => ran[b] = 0 /\ ran[c] = 0
      /\ b \in active => ran[b] = ran[c] /\ ran[c] < n.max
      /\ c \in active => ran[b] = ran[c] + 1 /\ ran[c] < n.max
      /\ Left(g, body, n) => ran[b] = ran[c] /\ ran[c] \in 1..n.max
      /\ ran[c] <= Count(n.name)
LoopsKept ==
  phase \in {"running", "paused", "ended"} =>
    \A g \in Graphs : \A n \in LoopsAt(g) : \A body \in Names(SpecOf(g)) :
      Looped(SpecOf(g), body, n.name) => LoopKept(g, body, n) /\ LoopPaced(g, body, n)

(* Only loops count, and no more than once in a run beyond their bounds.   *)
CountsBounded ==
  /\ \A c \in DOMAIN state.counts : \E g \in Graphs : \E n \in LoopsAt(g) : n.name = c
  /\ \A g \in Graphs : \A n \in LoopsAt(g) : Counted(g, n, 1)

WorkflowInv ==
  /\ GraphServed /\ Resting /\ RunTypes /\ PlanKept /\ TellersAlone /\ RoutedAsReplied
  /\ InStream /\ Untold /\ Chosen /\ Nested /\ Gathered /\ LoopsKept /\ CountsBounded

-----------------------------------------------------------------------------
(* A place is a node of a graph, and nothing else. *)
LEMMA PlaceParts ==
  ASSUME NEW p
  PROVE  p \in Places <=>
           \E g \in Graphs : \E n \in Names(SpecOf(g)) : p = <<g, n>>
BY DEF Places

(* A place has its node, and it is the only one of its name. *)
LEMMA NodeOfPlace ==
  ASSUME NEW p \in Places
  PROVE  /\ NodeAt(p) \in SpecOf(p[1]).nodes /\ NodeAt(p).name = p[2]
         /\ p[1] \in Graphs /\ p[2] \in Names(SpecOf(p[1])) /\ p = <<p[1], p[2]>>
<1>0. PICK g \in Graphs : \E n \in Names(SpecOf(g)) : p = <<g, n>>
  BY PlaceParts
<1>1. PICK n \in Names(SpecOf(g)) : p = <<g, n>>
  BY <1>0
<1>2. PICK m \in SpecOf(g).nodes : m.name = n
  BY <1>1 DEF Names
<1>3. p[1] = g /\ p[2] = n
  BY <1>1
<1>4. \E m2 \in SpecOf(p[1]).nodes : m2.name = p[2]
  BY <1>2, <1>3
<1>. QED
  BY <1>1, <1>3, <1>4 DEF NodeAt

(* A node of a graph has its place, and is the node there. *)
LEMMA PlaceOfNode ==
  ASSUME Wired(graph), NEW g \in Graphs, NEW n \in SpecOf(g).nodes
  PROVE  <<g, n.name>> \in Places /\ NodeAt(<<g, n.name>>) = n
<1>1. n.name \in Names(SpecOf(g))
  BY DEF Names
<1>2. <<g, n.name>> \in Places
  BY <1>1, PlaceParts
<1>3. PICK p : p = <<g, n.name>>
  OBVIOUS
<1>4. NodeAt(p) \in SpecOf(g).nodes /\ NodeAt(p).name = n.name
  BY <1>2, <1>3, NodeOfPlace
<1>5. \A m1, m2 \in SpecOf(g).nodes : m1.name = m2.name => m1 = m2
  BY DEF Wired, Named, SpecOf, Graphs
<1>. QED
  BY <1>2, <1>3, <1>4, <1>5

(* What starts with the start of places: their own graphs' first nodes, if *)
(* they have graphs.                                                       *)
LEMMA StartedParts ==
  ASSUME Wired(graph), Compiles(graph), NEW ts, ts \subseteq Places
  PROVE  /\ Started(ts) \subseteq Places /\ ts \subseteq Started(ts)
         /\ \A q \in Started(ts) : q \notin ts =>
              /\ q[1] # Top /\ <<Top, q[1]>> \in ts
              /\ \E e \in Outgoing(SpecOf(q[1]), START) : q = <<q[1], e.target>>
         /\ \A g \in Graphs : g # Top /\ <<Top, g>> \in ts =>
              \A e \in Outgoing(SpecOf(g), START) : <<g, e.target>> \in Started(ts)
<1>1. ASSUME NEW t \in ts
      PROVE  /\ NodeAt(t).graph # NoGraph => t = <<Top, t[2]>> /\ t[2] # Top /\ t[2] \in Graphs
             /\ t[1] = Top => NodeAt(t).graph = SpecOf(t[2]) \/ t[2] = Top
  <2>1. /\ NodeAt(t) \in SpecOf(t[1]).nodes /\ NodeAt(t).name = t[2] /\ t[1] \in Graphs
        /\ t = <<t[1], t[2]>>
    BY NodeOfPlace
  <2>2. Valid(SpecOf(t[1])) /\ t[1] \in Levels(graph)
    BY <2>1 DEF Compiles, SpecOf, Graphs
  <2>3. NodeAt(t).graph # NoGraph => NodeAt(t).kind = "graph"
    BY <2>1, <2>2 DEF Valid
  <2>4. NodeAt(t).kind = "graph" => t[1] = Top
    BY <2>1, <2>2 DEF Wired, Named, SpecOf
  <2>5. NodeAt(t).kind = "graph" => t[2] # Top /\ t[2] \in Graphs
    <3>. SUFFICES ASSUME NodeAt(t).kind = "graph" PROVE t[2] # Top /\ t[2] \in Graphs
      OBVIOUS
    <3>1. NodeAt(t) \in graph.nodes
      BY <2>1, <2>4 DEF SpecOf, Level
    <3>2. Top \notin Names(graph)
      BY <2>2, <2>4 DEF Wired, Named, Level
    <3>. QED
      BY <2>1, <3>1, <3>2 DEF Names, Graphs, Levels
  <2>6. t[1] = Top => NodeAt(t).graph = SpecOf(t[2]) \/ t[2] = Top
    BY DEF NodeAt, SpecOf, Level
  <2>. QED
    BY <2>1, <2>3, <2>4, <2>5, <2>6
<1>2. ASSUME NEW t \in ts, NEW e \in Outgoing(NodeAt(t).graph, START)
      PROVE  /\ t = <<Top, t[2]>> /\ t[2] # Top /\ t[2] \in Graphs
             /\ NodeAt(t).graph = SpecOf(t[2])
             /\ <<t[2], e.target>> \in Places
  <2>1. NodeAt(t).graph # NoGraph
    BY DEF Outgoing, NoGraph
  <2>2. t = <<Top, t[2]>> /\ t[2] # Top /\ t[2] \in Graphs
    BY <1>1, <2>1
  <2>3. NodeAt(t).graph = SpecOf(t[2])
    BY <1>1, <2>2
  <2>4. Valid(SpecOf(t[2]))
    BY <2>2 DEF Compiles, SpecOf, Graphs
  <2>5. e.target \in Names(SpecOf(t[2]))
    BY <2>3, <2>4 DEF Valid, EndpointsExist, Outgoing
  <2>. QED
    BY <2>2, <2>3, <2>5, PlaceParts
<1>3. \A q : q \in Started(ts) <=>
        q \in ts \/ \E t \in ts : \E e \in Outgoing(NodeAt(t).graph, START) : q = <<t[2], e.target>>
  BY DEF Started
<1>4. Started(ts) \subseteq Places /\ ts \subseteq Started(ts)
  BY <1>2, <1>3
<1>5. ASSUME NEW q \in Started(ts), q \notin ts
      PROVE  /\ q[1] # Top /\ <<Top, q[1]>> \in ts
             /\ \E e \in Outgoing(SpecOf(q[1]), START) : q = <<q[1], e.target>>
  <2>1. PICK t \in ts : \E e \in Outgoing(NodeAt(t).graph, START) : q = <<t[2], e.target>>
    BY <1>3, <1>5
  <2>2. PICK e \in Outgoing(NodeAt(t).graph, START) : q = <<t[2], e.target>>
    BY <2>1
  <2>3. q[1] = t[2]
    BY <2>2
  <2>. QED
    BY <1>2, <2>2, <2>3
<1>6. ASSUME NEW g \in Graphs, g # Top, <<Top, g>> \in ts,
             NEW e \in Outgoing(SpecOf(g), START)
      PROVE  <<g, e.target>> \in Started(ts)
  <2>1. PICK t : t = <<Top, g>>
    OBVIOUS
  <2>2. t \in ts /\ t[1] = Top /\ t[2] = g
    BY <1>6, <2>1
  <2>3. NodeAt(t).graph = SpecOf(g)
    BY <1>1, <1>6, <2>2
  <2>. QED
    BY <1>3, <2>2, <2>3
<1>. QED
  BY <1>4, <1>5, <1>6

(* The edges that are followed are edges of the node. *)
LEMMA FiredParts ==
  ASSUME NEW p, NEW route, NEW e \in Fired(p, route)
  PROVE  /\ e \in SpecOf(p[1]).edges /\ e.source = p[2]
         /\ e.route = NoRoute \/ e.route = DEFAULT_ROUTE \/ (e.route = route /\ route # NoRoute)
BY DEF Fired, Outgoing

(* What starts when a place is done: targets of its edges, and with them   *)
(* the first nodes of their own graphs.                                    *)
LEMMA StartedByParts ==
  ASSUME Wired(graph), Compiles(graph), NEW p \in Places, NEW route
  PROVE  /\ StartedBy(p, route) \subseteq Places
         /\ \A q \in StartedBy(p, route) : q[1] = p[1] =>
              \E e \in Fired(p, route) : q = <<p[1], e.target>>
         /\ \A q \in StartedBy(p, route) : q[1] # p[1] =>
              /\ p[1] = Top /\ <<Top, q[1]>> \in StartedBy(p, route)
              /\ \E e \in Outgoing(SpecOf(q[1]), START) : q = <<q[1], e.target>>
         /\ \A e \in Fired(p, route) :
              <<p[1], e.target>> \in StartedBy(p, route) <=>
                (NodeAt(<<p[1], e.target>>).kind = "join" => <<p[1], e.target>> \in Full(p, route))
         /\ \A g \in Graphs : g # Top /\ <<Top, g>> \in StartedBy(p, route) =>
              \A e \in Outgoing(SpecOf(g), START) : <<g, e.target>> \in StartedBy(p, route)
<1>. DEFINE ts == (Targets(p, route) \ Joins(p, route)) \union Full(p, route)
<1>1. p[1] \in Graphs /\ Valid(SpecOf(p[1]))
  BY NodeOfPlace DEF Compiles, SpecOf, Graphs
<1>2. ts \subseteq Targets(p, route)
  BY DEF Full, Joins
<1>3. ASSUME NEW e \in Fired(p, route) PROVE <<p[1], e.target>> \in Places
  <2>1. e.target \in Names(SpecOf(p[1]))
    BY <1>1, FiredParts DEF Valid, EndpointsExist
  <2>. QED
    BY <1>1, <2>1, PlaceParts
<1>4. ts \subseteq Places
  BY <1>2, <1>3 DEF Targets
<1>5. StartedBy(p, route) = Started(ts)
  BY DEF StartedBy
<1>. HIDE DEF ts
<1>6. /\ Started(ts) \subseteq Places /\ ts \subseteq Started(ts)
      /\ \A q \in Started(ts) : q \notin ts =>
           /\ q[1] # Top /\ <<Top, q[1]>> \in ts
           /\ \E e \in Outgoing(SpecOf(q[1]), START) : q = <<q[1], e.target>>
      /\ \A g \in Graphs : g # Top /\ <<Top, g>> \in ts =>
           \A e \in Outgoing(SpecOf(g), START) : <<g, e.target>> \in Started(ts)
  BY <1>4, StartedParts
<1>7. \A t \in ts : t[1] = p[1] /\ \E e \in Fired(p, route) : t = <<p[1], e.target>>
  BY <1>2 DEF Targets
<1>8. ASSUME NEW q \in Started(ts), q \notin ts
      PROVE  p[1] = Top /\ q[1] # Top /\ <<Top, q[1]>> \in Started(ts)
  <2>1. q[1] # Top /\ <<Top, q[1]>> \in ts
    BY <1>6, <1>8
  <2>2. PICK e \in Fired(p, route) : <<Top, q[1]>> = <<p[1], e.target>>
    BY <1>7, <2>1
  <2>. QED
    BY <1>6, <2>1, <2>2
<1>9. ASSUME NEW e \in Fired(p, route)
      PROVE  <<p[1], e.target>> \in Started(ts) <=>
               (NodeAt(<<p[1], e.target>>).kind = "join" => <<p[1], e.target>> \in Full(p, route))
  <2>1. PICK q : q = <<p[1], e.target>>
    OBVIOUS
  <2>2. q[1] = p[1] /\ q \in Targets(p, route)
    BY <2>1 DEF Targets
  <2>3. q \in Started(ts) <=> q \in ts
    BY <1>6, <1>8, <2>2
  <2>4. q \in ts <=> (NodeAt(q).kind = "join" => q \in Full(p, route))
    BY <2>2 DEF ts, Joins, Full
  <2>. QED
    BY <2>1, <2>3, <2>4
<1>10. ASSUME NEW g \in Graphs, g # Top, <<Top, g>> \in Started(ts) PROVE <<Top, g>> \in ts
  <2>1. PICK q : q = <<Top, g>>
    OBVIOUS
  <2>2. q[1] = Top /\ q \in Started(ts)
    BY <1>10, <2>1
  <2>. QED
    BY <1>6, <2>1, <2>2
<1>. QED
  <2>1. \A q \in Started(ts) : q[1] = p[1] => \E e \in Fired(p, route) : q = <<p[1], e.target>>
    BY <1>7, <1>8
  <2>2. \A q \in Started(ts) : q[1] # p[1] =>
          /\ p[1] = Top /\ <<Top, q[1]>> \in Started(ts)
          /\ \E e \in Outgoing(SpecOf(q[1]), START) : q = <<q[1], e.target>>
    BY <1>6, <1>7, <1>8
  <2>. QED
    BY <1>5, <1>6, <1>9, <1>10, <2>1, <2>2

(* What starts at once: the targets of START, likewise. *)
LEMMA AtOnceParts ==
  ASSUME Wired(graph), Compiles(graph)
  PROVE  /\ StartedAtOnce \subseteq Places
         /\ \A e \in Outgoing(graph, START) : <<Top, e.target>> \in StartedAtOnce
         /\ \A q \in StartedAtOnce : q[1] = Top =>
              \E e \in Outgoing(graph, START) : q = <<Top, e.target>>
         /\ \A q \in StartedAtOnce : q[1] # Top =>
              /\ <<Top, q[1]>> \in StartedAtOnce
              /\ \E e \in Outgoing(SpecOf(q[1]), START) : q = <<q[1], e.target>>
         /\ \A g \in Graphs : g # Top /\ <<Top, g>> \in StartedAtOnce =>
              \A e \in Outgoing(SpecOf(g), START) : <<g, e.target>> \in StartedAtOnce
<1>. DEFINE ts == {<<Top, e.target>> : e \in Outgoing(graph, START)}
<1>1. Top \in Graphs /\ SpecOf(Top) = graph /\ Valid(graph)
  BY DEF Graphs, Levels, SpecOf, Level, Compiles
<1>2. \A e \in Outgoing(graph, START) : e.target \in Names(graph)
  BY <1>1 DEF Valid, EndpointsExist, Outgoing
<1>3. ts \subseteq Places
  BY <1>1, <1>2, PlaceParts
<1>4. StartedAtOnce = Started(ts)
  BY DEF StartedAtOnce
<1>5. \A t : t \in ts <=> \E e \in Outgoing(graph, START) : t = <<Top, e.target>>
  OBVIOUS
<1>. HIDE DEF ts
<1>6. /\ Started(ts) \subseteq Places /\ ts \subseteq Started(ts)
      /\ \A q \in Started(ts) : q \notin ts =>
           /\ q[1] # Top /\ <<Top, q[1]>> \in ts
           /\ \E e \in Outgoing(SpecOf(q[1]), START) : q = <<q[1], e.target>>
      /\ \A g \in Graphs : g # Top /\ <<Top, g>> \in ts =>
           \A e \in Outgoing(SpecOf(g), START) : <<g, e.target>> \in Started(ts)
  BY <1>3, StartedParts
<1>7. \A t \in ts : t[1] = Top
  BY <1>5
<1>8. ASSUME NEW g \in Graphs, g # Top, <<Top, g>> \in Started(ts) PROVE <<Top, g>> \in ts
  <2>1. PICK q : q = <<Top, g>>
    OBVIOUS
  <2>2. q[1] = Top /\ q \in Started(ts)
    BY <1>8, <2>1
  <2>. QED
    BY <1>6, <2>1, <2>2
<1>. QED
  BY <1>4, <1>5, <1>6, <1>7, <1>8

-----------------------------------------------------------------------------
(* Before the configuration is loaded nothing is there to be kept. *)
LEMMA WorkflowInitially == Init => WorkflowInv
<1>. SUFFICES ASSUME Init PROVE WorkflowInv
  OBVIOUS
<1>1. DOMAIN <<>> = {}
  OBVIOUS
<1>2. Graphs = {Top} /\ SpecOf(Top).nodes = {}
  BY DEF Init, Graphs, Levels, SpecOf, Level, NoGraph
<1>3. RunTypes
  BY <1>1, <1>2, WorkflowAssumption DEF Init, RunTypes, RunIds, RunId, StateFields
<1>4. PlanKept
  BY DEF Init, PlanKept, RunIds, RunId
<1>7. TellersAlone /\ RoutedAsReplied
  <2>1. graph.nodes = {}
    BY DEF Init, NoGraph
  <2>. QED
    BY <2>1 DEF TellersAlone, RoutedAsReplied
<1>5. GraphServed /\ Resting /\ InStream /\ Untold /\ Chosen /\ Nested /\ LoopsKept
  BY DEF Init, GraphServed, Resting, InStream, Untold, Chosen, Nested, LoopsKept
<1>8. Gathered
  BY <1>1, FS_EmptySet DEF Init, Gathered
<1>6. CountsBounded
  BY <1>1, <1>2 DEF Init, CountsBounded, LoopsAt, Loops, SpecOf, Counted, Level
<1>. QED
  BY <1>3, <1>4, <1>5, <1>6, <1>7, <1>8 DEF WorkflowInv

-----------------------------------------------------------------------------
(* What is defined from the graph alone stays as long as the graph does. *)
LEMMA SameGraph ==
  ASSUME graph' = graph
  PROVE  /\ Graphs' = Graphs /\ Places' = Places
         /\ \A g : SpecOf(g)' = SpecOf(g) /\ LoopsAt(g)' = LoopsAt(g)
<1>1. Graphs' = Graphs
  BY DEF Graphs
<1>2. \A g : SpecOf(g)' = SpecOf(g)
  BY DEF SpecOf
<1>3. \A g : LoopsAt(g)' = LoopsAt(g)
  BY DEF LoopsAt
<1>4. Places' = Places
  BY <1>1, <1>2 DEF Places
<1>. QED
  BY <1>1, <1>2, <1>3, <1>4

(* What every completion of a place does to the engine. *)
LEMMA Completion ==
  ASSUME WorkflowInv, NEW p \in active, NEW route, Complete(p, route)
  PROVE  /\ phase = "running" /\ phase' = "running" /\ UNCHANGED <<source, graph, run, fresh>>
         /\ Wired(graph) /\ Compiles(graph)
         /\ p \in Places /\ p \notin waiting
         /\ active' = (active \ {p}) \union StartedBy(p, route)
         /\ DOMAIN ran = Places /\ DOMAIN ran' = Places
         /\ ran[p] \in 0..MaxTimes
         /\ ran'[p] = IF ran[p] < MaxTimes THEN ran[p] + 1 ELSE ran[p]
         /\ \A q \in Places : q # p => ran'[q] = ran[q]
<1>1. phase = "running" /\ phase' = "running" /\ UNCHANGED <<source, graph, run, fresh>> /\ p \notin waiting
  BY DEF Complete, config
<1>2. Wired(graph) /\ Compiles(graph)
  BY <1>1 DEF WorkflowInv, GraphServed
<1>3. p \in Places /\ DOMAIN ran = Places /\ ran \in [DOMAIN ran -> 0..MaxTimes]
  BY <1>1 DEF WorkflowInv, RunTypes
<1>4. ran' = [ran EXCEPT ![p] = IF @ < MaxTimes THEN @ + 1 ELSE @]
  BY DEF Complete
<1>5. active' = (active \ {p}) \union StartedBy(p, route)
  BY DEF Complete
<1>. QED
  BY <1>1, <1>2, <1>3, <1>4, <1>5

(* Which node finishes how, and what it leaves of the session's state. *)
LEMMA FinishParts ==
  ASSUME WorkflowInv, NEW p \in active, Finish(p)
  PROVE  /\ \E route : Complete(p, route)
         /\ DOMAIN state' = StateFields
         /\ Does(p, "loop_counter") => LoopCounter(p)
         /\ ~Does(p, "loop_counter") => state'.counts = state.counts
         /\ Tells(NodeAt(p)) \/ state'.routed_to = state.routed_to
         /\ PlanExecute(p) \/ state'.plan_outputs = state.plan_outputs
         /\ \/ state'.perspective = state.perspective
            \/ /\ Writes(NodeAt(p))
               /\ state'.perspective = Put(state.perspective, NodeAt(p).key[2], run)
         /\ AggregatePerspectives(p) \/ state'.aggregated = state.aggregated
         /\ AggregatePerspectives(p) =>
              /\ state'.aggregated = Collected(state.perspective)
              /\ state'.perspective = state.perspective
         /\ Does(p, "aggregate_perspectives") => AggregatePerspectives(p)
         /\ NodeAt(p).kind = "graph" => PassGraph(p)
         /\ Does(p, "route_dispatch") => RouteDispatch(p)
         /\ Does(p, "plan_execute") => PlanExecute(p)
<1>9. AggregatePerspectives(p) => Does(p, "aggregate_perspectives")
  BY DEF AggregatePerspectives
<1>0. DOMAIN state = StateFields /\ p \in Places
  BY DEF WorkflowInv, RunTypes
<1>1. \E route : Complete(p, route)
  BY DEF Finish, FinishLlm, LoopCounter, RouteDispatch, AggregatePerspectives, PlanExecute,
         PassJoin, PassGraph
<1>2. Wired(graph)
  BY <1>1 DEF Complete, WorkflowInv, GraphServed
<1>3. NodeAt(p).does # "-" => NodeAt(p).kind = "function"
  BY <1>0, <1>2, NodeOfPlace DEF Wired, Named, Graphs, SpecOf
<1>4. CASE FinishLlm(p)
  <2>1. NodeAt(p).kind = "llm" /\ state' \in Written(NodeAt(p).key)
    BY <1>4 DEF FinishLlm
  <2>2. CASE state' = state
    BY <1>0, <1>1, <1>3, <1>9, <2>1, <2>2 DEF Does
  <2>3. CASE \E r \in {x \in Replies : NodeAt(p).key = <<"routed_to">>} :
               state' = [state EXCEPT !.routed_to = <<r>>]
    <3>1. Tells(NodeAt(p))
      BY <2>1, <2>3 DEF Tells
    <3>. QED
      BY <1>0, <1>1, <1>3, <1>9, <2>1, <2>3, <3>1 DEF Does, StateFields
  <2>4. CASE /\ NodeAt(p).key[1] = "perspective"
             /\ state' = [state EXCEPT !.perspective = Put(@, NodeAt(p).key[2], run)]
    BY <1>0, <1>1, <1>3, <1>9, <2>1, <2>4 DEF Does, StateFields, Writes
  <2>. QED
    BY <2>1, <2>2, <2>3, <2>4 DEF Written
<1>5. CASE LoopCounter(p)
  <2>1. Does(p, "loop_counter")
    BY <1>5 DEF LoopCounter
  <2>2. \E c : state' = [state EXCEPT !.counts = c]
    BY <1>5 DEF LoopCounter
  <2>. QED
    BY <1>0, <1>1, <1>3, <1>9, <1>5, <2>1, <2>2 DEF Does, StateFields
<1>6. CASE RouteDispatch(p) \/ PassJoin(p) \/ PassGraph(p)
  BY <1>0, <1>1, <1>3, <1>9, <1>6 DEF RouteDispatch, PassJoin, PassGraph, Does
<1>7. CASE AggregatePerspectives(p)
  <2>1. state' = [state EXCEPT !.aggregated = Collected(state.perspective)]
    BY <1>7 DEF AggregatePerspectives
  <2>2. Does(p, "aggregate_perspectives")
    BY <1>7 DEF AggregatePerspectives
  <2>. QED
    BY <1>0, <1>1, <1>3, <1>7, <2>1, <2>2 DEF Does, StateFields
<1>8. CASE PlanExecute(p)
  <2>1. \E c : state' = [state EXCEPT !.plan_outputs = c]
    BY <1>8 DEF PlanExecute
  <2>2. Does(p, "plan_execute")
    BY <1>8 DEF PlanExecute
  <2>. QED
    BY <1>0, <1>1, <1>3, <1>9, <1>8, <2>1, <2>2 DEF Does, StateFields
<1>. QED
  BY <1>4, <1>5, <1>6, <1>7, <1>8 DEF Finish

-----------------------------------------------------------------------------
(* Steps that leave the graph, what runs and the session's state alone, and *)
(* steps that stop a run.                                                  *)
Idled ==
  /\ phase' = phase \/ {phase, phase'} = {"running", "paused"}
  /\ UNCHANGED <<source, graph, active, arrived, ran, state, fresh, run>>
Halted == phase \in {"running", "paused"} /\ Quit

(* Every step is of one of these kinds. *)
LEMMA StepKinds ==
  ASSUME [Next]_vars
  PROVE  \/ Load \/ Message \/ End \/ Halted \/ Idled
         \/ \E p \in active : Finish(p)
<1>1. CASE UNCHANGED vars
  BY <1>1 DEF vars, config, engine, Idled
<1>2. CASE Load \/ Message \/ End
  BY <1>2
<1>3. CASE Pause \/ Resume
  BY <1>3 DEF Pause, Resume, Idled, config, engine
<1>4. CASE Abandon
  BY <1>4 DEF Abandon, Halted
<1>5. CASE \E p \in active : Finish(p) \/ Fail(p) \/ Wait(p)
  BY <1>5 DEF Fail, Wait, Halted, Idled, config
<1>6. CASE \E i \in 1..Steps : StepEnds(i) \/ StepWaits(i) \/ StepFails(i)
  BY <1>6 DEF StepEnds, StepWaits, StepFails, Halted, Idled, config
<1>. QED
  BY <1>1, <1>2, <1>3, <1>4, <1>5, <1>6 DEF Next

(* Finishing keeps the graph and the run, but for what has been said. *)
LEMMA FinishRuns ==
  ASSUME WorkflowInv, NEW p \in active, Finish(p)
  PROVE  phase = "running" /\ phase' = "running" /\ UNCHANGED <<source, graph, run, fresh>>
BY FinishParts, Completion

(* The graph that is served stays the one that passed. *)
LEMMA ServedStep ==
  ASSUME WorkflowInv, [Next]_vars
  PROVE  GraphServed'
<1>1. CASE Load
  <2>1. CASE Accepted(source)
    <3>1. graph' = Served(source) /\ phase' = "ready" /\ source' = source /\ source \in Sources
      BY <1>1, <2>1 DEF Load, WorkflowInv, GraphServed
    <3>2. Compiles(Served(source)) /\ Valid(Parsed(source)) /\ Wired(Parsed(source))
          /\ (source.synthesis => Synthesizable(Parsed(source)))
      BY <2>1, <3>1, SourcesKnown DEF Known, Accepted, Parses
    <3>3. Wired(Served(source))
      BY <3>2, SynthesisWired DEF Served, Synthesized
    <3>. QED
      BY <2>1, <3>1, <3>2, <3>3 DEF GraphServed
  <2>2. CASE ~Accepted(source)
    BY <1>1, <2>2 DEF Load, WorkflowInv, GraphServed
  <2>. QED
    BY <2>1, <2>2
<1>2. CASE source' = source /\ graph' = graph /\ phase \notin {"config", "refused"} /\ phase' \notin {"config", "refused"}
  BY <1>2 DEF WorkflowInv, GraphServed
<1>3. CASE Idled
  BY <1>3 DEF Idled, WorkflowInv, GraphServed
<1>4. CASE Message \/ End \/ Halted
  BY <1>2, <1>4 DEF Message, End, Halted, Quit, config
<1>5. CASE \E p \in active : Finish(p)
  BY <1>2, <1>5, FinishRuns
<1>. QED
  BY <1>1, <1>3, <1>4, <1>5, StepKinds

(* Nothing is left running when a run is over. *)
LEMMA RestingStep ==
  ASSUME WorkflowInv, [Next]_vars
  PROVE  Resting'
<1>1. CASE Load \/ Message \/ End \/ Halted
  BY <1>1 DEF Load, Message, End, Halted, Quit, engine, WorkflowInv, Resting
<1>2. CASE Idled
  BY <1>2 DEF Idled, WorkflowInv, Resting
<1>3. CASE \E p \in active : Finish(p)
  BY <1>3, FinishRuns DEF Resting
<1>. QED
  BY <1>1, <1>2, <1>3, StepKinds

(* The types are kept when a place is done. *)
LEMMA TypesCompleted ==
  ASSUME WorkflowInv, NEW p \in active, Finish(p)
  PROVE  RunTypes'
<1>1. PICK route : Complete(p, route)
  BY FinishParts
<1>2. /\ phase = "running" /\ phase' = "running" /\ UNCHANGED <<source, graph, run, fresh>>
      /\ Wired(graph) /\ Compiles(graph) /\ p \in Places /\ p \notin waiting
      /\ active' = (active \ {p}) \union StartedBy(p, route)
      /\ DOMAIN ran = Places /\ DOMAIN ran' = Places /\ ran[p] \in 0..MaxTimes
      /\ ran'[p] = IF ran[p] < MaxTimes THEN ran[p] + 1 ELSE ran[p]
      /\ \A q \in Places : q # p => ran'[q] = ran[q]
  BY <1>1, Completion
<1>3. Graphs' = Graphs /\ Places' = Places /\ \A g : SpecOf(g)' = SpecOf(g)
  BY <1>2, SameGraph
<1>4. active \subseteq Places /\ waiting \subseteq active
  BY DEF WorkflowInv, RunTypes
<1>5. active' \subseteq Places' /\ waiting' \subseteq active'
  <2>1. StartedBy(p, route) \subseteq Places
    BY <1>2, StartedByParts
  <2>2. waiting' = waiting
    BY <1>1 DEF Complete
  <2>. QED
    BY <1>2, <1>3, <1>4, <2>1, <2>2
<1>6. arrived' \subseteq Places' \X UNION {Names(SpecOf(g)) : g \in Graphs}'
  <2>1. p[1] \in Graphs /\ p[2] \in Names(SpecOf(p[1])) /\ Valid(SpecOf(p[1]))
    BY <1>2, NodeOfPlace DEF Compiles, SpecOf, Graphs
  <2>2. ASSUME NEW e \in Fired(p, route) PROVE <<p[1], e.target>> \in Places
    BY <2>1, FiredParts, PlaceParts DEF Valid, EndpointsExist
  <2>3. Joins(p, route) \subseteq Places
    BY <2>2 DEF Joins, Targets
  <2>4. p[2] \in UNION {Names(SpecOf(g)) : g \in Graphs}
    BY <2>1
  <2>5. Seen(p, route) \subseteq Places \X UNION {Names(SpecOf(g)) : g \in Graphs}
    BY <2>3, <2>4 DEF Seen, WorkflowInv, RunTypes
  <2>6. arrived' \subseteq Seen(p, route)
    BY <1>1 DEF Complete
  <2>. QED
    BY <1>3, <2>5, <2>6
<1>7. ran' \in [DOMAIN ran' -> 0..MaxTimes]
  <2>1. ran \in [Places -> 0..MaxTimes]
    BY <1>2 DEF WorkflowInv, RunTypes
  <2>2. ran' = [ran EXCEPT ![p] = IF @ < MaxTimes THEN @ + 1 ELSE @]
    BY <1>1 DEF Complete
  <2>. QED
    BY <1>2, <2>1, <2>2, WorkflowAssumption
<1>8. plan' \in [RunIds' -> {"idle", "running", "waiting", "done"}] /\ outputs' \in [RunIds' -> 0..Steps]
  <2>1. plan' \in {plan, [r \in RunIds |-> "running"]} /\ outputs' = outputs
    BY <1>1 DEF Complete, PlanStarted
  <2>. QED
    BY <2>1 DEF WorkflowInv, RunTypes, RunIds
<1>9. run' \in 0..MaxRuns /\ waits' \in 0..MaxWaits /\ run' >= 1
  BY <1>1, <1>2 DEF Complete, WorkflowInv, RunTypes
<1>10. DOMAIN state' = StateFields
  BY FinishParts
<1>11. \A i \in DOMAIN state'.perspective : state'.perspective[i] \in 1..run'
  <2>1. \A i \in DOMAIN state.perspective : state.perspective[i] \in 1..run
    BY DEF WorkflowInv, RunTypes
  <2>2. run \in Nat /\ run >= 1 /\ run' = run
    BY <1>2, <1>9
  <2>3. CASE state'.perspective = state.perspective
    BY <2>1, <2>2, <2>3
  <2>4. ASSUME NEW k, state'.perspective = Put(state.perspective, k, run)
        PROVE  \A i \in DOMAIN state'.perspective : state'.perspective[i] \in 1..run'
    <3>1. /\ DOMAIN state'.perspective = {k} \union DOMAIN state.perspective
          /\ state'.perspective[k] = run
          /\ \A x \in DOMAIN state.perspective : x # k => state'.perspective[x] = state.perspective[x]
      BY <2>4 DEF Put
    <3>. QED
      BY <2>1, <2>2, <3>1
  <2>. QED
    BY <2>3, <2>4, FinishParts
<1>. QED
  BY <1>2, <1>3, <1>5, <1>6, <1>7, <1>8, <1>9, <1>10, <1>11 DEF RunTypes, StateFields

(* The types are kept when the graph is loaded. *)
LEMMA TypesLoaded ==
  ASSUME WorkflowInv, Load
  PROVE  RunTypes'
<1>1. /\ phase = "config" /\ phase' \in {"ready", "refused"}
      /\ UNCHANGED <<active, waiting, arrived, ran, plan, outputs, state, run, waits>>
  BY DEF Load, engine
<1>2. graph = NoGraph /\ active = {}
  BY <1>1 DEF WorkflowInv, GraphServed, Resting
<1>3. Places = {}
  BY <1>2, PlaceParts DEF Graphs, Levels, SpecOf, Level, NoGraph, Names
<1>4. arrived = {} /\ waiting = {}
  BY <1>2, <1>3 DEF WorkflowInv, RunTypes
<1>5. RunIds' = RunIds
  BY DEF RunIds
<1>. QED
  BY <1>1, <1>2, <1>4, <1>5 DEF WorkflowInv, RunTypes, StateFields

(* The types are kept when a message starts a run. *)
LEMMA TypesStarted ==
  ASSUME WorkflowInv, Message
  PROVE  RunTypes'
<1>1. /\ phase \in {"ready", "ended", "failed"} /\ run < MaxRuns
      /\ active' = StartedAtOnce 
      /\ phase' = "running" /\ waiting' = {} /\ arrived' = {}
      /\ ran' = [p \in Places |-> 0] /\ outputs' = [r \in RunIds |-> 0]
      /\ run' = run + 1 /\ waits' = 0 /\ UNCHANGED <<graph, state>>
  BY DEF Message, config
<1>2. Wired(graph) /\ Compiles(graph)
  BY <1>1 DEF WorkflowInv, GraphServed
<1>3. Graphs' = Graphs /\ Places' = Places /\ RunIds' = RunIds
  BY <1>1, SameGraph DEF RunIds
<1>4. active' \subseteq Places'
  BY <1>1, <1>2, <1>3, AtOnceParts
<1>5. plan' \in [RunIds' -> {"idle", "running", "waiting", "done"}] /\ outputs' \in [RunIds' -> 0..Steps]
  <2>1. plan' \in {[r \in RunIds |-> "idle"], [r \in RunIds |-> "running"]}
    BY DEF Message, PlanStarted
  <2>. QED
    BY <1>1, <1>3, <2>1, WorkflowAssumption DEF WorkflowInv, RunTypes
<1>6. run' \in 0..MaxRuns /\ waits' \in 0..MaxWaits /\ run' >= 1
  BY <1>1, WorkflowAssumption DEF WorkflowInv, RunTypes
<1>7. \A i \in DOMAIN state'.perspective : state'.perspective[i] \in 1..run'
  <2>1. \A i \in DOMAIN state.perspective : state.perspective[i] \in 1..run
    BY DEF WorkflowInv, RunTypes
  <2>2. run \in Int /\ run' = run + 1 /\ state' = state
    BY <1>1 DEF WorkflowInv, RunTypes
  <2>. QED
    BY <2>1, <2>2
<1>8. DOMAIN state' = StateFields
  BY <1>1 DEF WorkflowInv, RunTypes
<1>9. ran' \in [DOMAIN ran' -> 0..MaxTimes] /\ DOMAIN ran' = Places'
  BY <1>1, <1>3, WorkflowAssumption
<1>. QED
  BY <1>1, <1>3, <1>4, <1>5, <1>6, <1>7, <1>8, <1>9 DEF RunTypes, StateFields

(* A step that ends or waits, and one that stops the run, keep the types. *)
LEMMA TypesStep ==
  ASSUME WorkflowInv, [Next]_vars
  PROVE  RunTypes'
<1>0. RunTypes
  BY DEF WorkflowInv
<1>1. RunIds' = RunIds
  BY DEF RunIds
<1>2. CASE Load \/ Message \/ \E p \in active : Finish(p)
  BY <1>2, TypesLoaded, TypesStarted, TypesCompleted
<1>3. ASSUME graph' = graph, UNCHANGED <<arrived, ran, outputs, state, run, waits>>,
             active' \subseteq active, waiting' \subseteq active',
             plan' \in [RunIds -> {"idle", "running", "waiting", "done"}],
             phase' \in {"running", "paused", "ended", "failed"},
             phase \in {"running", "paused"}
      PROVE  RunTypes'
  <2>1. Graphs' = Graphs /\ Places' = Places /\ \A g : SpecOf(g)' = SpecOf(g)
    BY <1>3, SameGraph
  <2>2. {Names(SpecOf(g)) : g \in Graphs}' = {Names(SpecOf(g)) : g \in Graphs}
    BY <2>1
  <2>. QED
    BY <1>0, <1>1, <1>3, <2>1, <2>2 DEF RunTypes, StateFields
<1>4. CASE End \/ Pause
  BY <1>0, <1>3, <1>4 DEF End, Pause, config, engine, RunTypes
<1>5. CASE Resume
  <2>1. plan' \in [RunIds -> {"idle", "running", "waiting", "done"}]
    BY <1>0, <1>5 DEF Resume, RunTypes
  <2>. QED
    BY <1>0, <1>3, <1>5, <2>1 DEF Resume, config
<1>6. CASE Halted
  BY <1>0, <1>3, <1>6 DEF Halted, Quit, config, RunTypes
<1>7. ASSUME NEW i \in 1..Steps, StepEnds(i) PROVE RunTypes'
  <2>1. Graphs' = Graphs /\ Places' = Places /\ \A g : SpecOf(g)' = SpecOf(g)
    BY <1>7, SameGraph DEF StepEnds, config
  <2>2. {Names(SpecOf(g)) : g \in Graphs}' = {Names(SpecOf(g)) : g \in Graphs}
    BY <2>1
  <2>3. i \in RunIds
    BY DEF RunIds, RunId
  <2>4. plan' \in [RunIds -> {"idle", "running", "waiting", "done"}] /\ outputs' \in [RunIds -> 0..Steps]
    BY <1>0, <1>7, <2>3 DEF StepEnds, RunTypes, RunId
  <2>. QED
    BY <1>0, <1>1, <1>7, <2>1, <2>2, <2>4 DEF StepEnds, config, RunTypes, StateFields
<1>8. ASSUME NEW i \in 1..Steps, StepWaits(i) PROVE RunTypes'
  <2>1. Graphs' = Graphs /\ Places' = Places /\ \A g : SpecOf(g)' = SpecOf(g)
    BY <1>8, SameGraph DEF StepWaits, config
  <2>2. {Names(SpecOf(g)) : g \in Graphs}' = {Names(SpecOf(g)) : g \in Graphs}
    BY <2>1
  <2>3. plan' \in [RunIds -> {"idle", "running", "waiting", "done"}]
    BY <1>0, <1>8 DEF StepWaits, RunTypes
  <2>4. waiting' \subseteq active /\ waits' \in 0..MaxWaits
    BY <1>0, <1>8, WorkflowAssumption DEF StepWaits, RunTypes, IsPlanner
  <2>. QED
    BY <1>0, <1>1, <1>8, <2>1, <2>2, <2>3, <2>4 DEF StepWaits, config, RunTypes, StateFields
<1>9. ASSUME NEW p \in active, Wait(p) PROVE RunTypes'
  <2>1. Graphs' = Graphs /\ Places' = Places /\ \A g : SpecOf(g)' = SpecOf(g)
    BY <1>9, SameGraph DEF Wait, config
  <2>2. {Names(SpecOf(g)) : g \in Graphs}' = {Names(SpecOf(g)) : g \in Graphs}
    BY <2>1
  <2>3. waiting' \subseteq active /\ waits' \in 0..MaxWaits
    BY <1>0, <1>9, WorkflowAssumption DEF Wait, RunTypes
  <2>. QED
    BY <1>0, <1>1, <1>9, <2>1, <2>2, <2>3 DEF Wait, config, RunTypes, StateFields
<1>10. CASE UNCHANGED vars
  <2>1. Graphs' = Graphs /\ Places' = Places /\ \A g : SpecOf(g)' = SpecOf(g)
    BY <1>10, SameGraph DEF vars, config
  <2>2. {Names(SpecOf(g)) : g \in Graphs}' = {Names(SpecOf(g)) : g \in Graphs}
    BY <2>1
  <2>. QED
    BY <1>0, <1>1, <1>10, <2>1, <2>2 DEF vars, config, engine, RunTypes, StateFields
<1>11. CASE Abandon \/ (\E p \in active : Fail(p)) \/ \E i \in 1..Steps : StepFails(i)
  BY <1>6, <1>11 DEF Abandon, Fail, StepFails, Halted
<1>. QED
  BY <1>2, <1>4, <1>5, <1>7, <1>8, <1>9, <1>10, <1>11 DEF Next

-----------------------------------------------------------------------------
(* An output is held for every step that has ended, and the planner, which *)
(* starts at once, is done when they all have.                             *)
LEMMA PlanStep ==
  ASSUME WorkflowInv, [Next]_vars
  PROVE  PlanKept'
<1>0. PlanKept /\ RunTypes
  BY DEF WorkflowInv
<1>1. ASSUME plan' \in {plan, [r \in RunIds |-> "running"], [r \in RunIds |-> "idle"]},
             outputs' = outputs \/ plan' = [r \in RunIds |-> "idle"]
      PROVE  \A i \in 1..Steps : plan'[i] = "done" => outputs'[i] = i
  <2>1. \A i \in 1..Steps : i \in RunIds
    BY DEF RunIds, RunId
  <2>. QED
    BY <1>0, <1>1, <2>1 DEF PlanKept
<1>2. ASSUME UNCHANGED <<graph, active, state, run>>,
             phase \in {"running", "paused"} \/ phase' = phase,
             \A i \in 1..Steps : plan'[i] = "done" => outputs'[i] = i
      PROVE  PlanKept'
  BY <1>0, <1>2 DEF PlanKept, InOrder
<1>3. CASE Load
  <2>1. phase' \notin {"running", "paused", "ended"} /\ UNCHANGED <<plan, outputs>>
    BY <1>3 DEF Load, engine
  <2>. QED
    BY <1>1, <2>1 DEF PlanKept
<1>4. CASE Message
  <2>1. /\ plan' \in {[r \in RunIds |-> "idle"], [r \in RunIds |-> "running"]}
        /\ active' = StartedAtOnce /\ graph' = graph /\ phase \notin {"config", "refused"}
    BY <1>4 DEF Message, config, PlanStarted
  <2>2. Wired(graph) /\ Compiles(graph)
    BY <2>1 DEF WorkflowInv, GraphServed
  <2>3. ASSUME Executor \in Names(graph) PROVE <<Top, Planner>> \in active'
    <3>1. PICK e \in Outgoing(graph, START) : e.target = Planner
      BY <2>2, <2>3 DEF Wired, Planned
    <3>. QED
      BY <2>1, <2>2, <3>1, AtOnceParts
  <2>4. \A i \in 1..Steps : plan'[i] # "done"
    BY <2>1 DEF RunIds, RunId
  <2>. QED
    BY <2>1, <2>3, <2>4 DEF PlanKept
<1>5. CASE \E p \in active : Finish(p)
  <2>1. PICK p \in active : Finish(p)
    BY <1>5
  <2>2. PICK route : Complete(p, route)
    BY <2>1, FinishParts
  <2>3. /\ phase = "running" /\ phase' = "running" /\ UNCHANGED <<graph, run>>
        /\ Wired(graph) /\ Compiles(graph) /\ p \in Places
        /\ active' = (active \ {p}) \union StartedBy(p, route)
    BY <2>2, Completion
  <2>4. plan' \in {plan, [r \in RunIds |-> "running"]} /\ outputs' = outputs
    BY <2>2 DEF Complete, PlanStarted
  <2>5. PlanExecute(p) => InOrder'
    <3>. SUFFICES ASSUME PlanExecute(p) PROVE InOrder'
      OBVIOUS
    <3>1. \A i \in 1..Steps : i \in RunIds /\ RunId(i) = i
      BY DEF RunIds, RunId
    <3>2. \A i \in 1..Steps : outputs[RunId(i)] = i
      BY <1>0, <3>1 DEF PlanExecute, PlanKept
    <3>3. state'.plan_outputs = [i \in 1..Steps |-> [step |-> outputs[RunId(i)], at |-> run]]
      BY <1>0 DEF PlanExecute, RunTypes, StateFields
    <3>. QED
      BY <2>3, <3>2, <3>3 DEF InOrder
  <2>6. ~PlanExecute(p) => state'.plan_outputs = state.plan_outputs
    BY <2>1, FinishParts
  <2>7. ASSUME Executor \in Names(graph) PROVE <<Top, Planner>> \in active' \/ InOrder'
    <3>1. <<Top, Planner>> \in active \/ InOrder
      BY <1>0, <2>3, <2>7 DEF PlanKept
    <3>2. CASE p = <<Top, Planner>>
      <4>1. PICK n \in graph.nodes : n.name = Planner /\ n.does = "plan_execute"
        BY <2>3, <2>7 DEF Wired, Planned
      <4>2. Top \in Graphs /\ SpecOf(Top) = graph
        BY DEF Graphs, Levels, SpecOf, Level
      <4>3. NodeAt(<<Top, n.name>>) = n
        BY <2>3, <4>1, <4>2, PlaceOfNode
      <4>4. Does(p, "plan_execute")
        BY <3>2, <4>1, <4>3 DEF Does
      <4>. QED
        BY <2>1, <2>5, <4>4, FinishParts
    <3>3. CASE p # <<Top, Planner>> /\ <<Top, Planner>> \in active
      BY <2>3, <3>3
    <3>4. CASE InOrder
      BY <2>3, <2>5, <2>6, <3>4 DEF InOrder
    <3>. QED
      BY <3>1, <3>2, <3>3, <3>4
  <2>. QED
    BY <1>1, <2>3, <2>4, <2>7 DEF PlanKept
<1>6. CASE Halted
  BY <1>1, <1>6 DEF Halted, Quit, PlanKept
<1>7. CASE End \/ Pause \/ UNCHANGED vars
  BY <1>0, <1>2, <1>7 DEF End, Pause, vars, config, engine, PlanKept
<1>8. CASE Resume
  <2>1. \A i \in 1..Steps : i \in RunIds
    BY DEF RunIds, RunId
  <2>2. \A i \in 1..Steps : plan'[i] = "done" => plan[i] = "done"
    BY <1>8, <2>1 DEF Resume
  <2>. QED
    BY <1>0, <1>2, <1>8, <2>2 DEF Resume, config, PlanKept
<1>9. ASSUME NEW p \in active, Wait(p) PROVE PlanKept'
  BY <1>0, <1>2, <1>9 DEF Wait, config, PlanKept
<1>10. ASSUME NEW j \in 1..Steps, StepEnds(j) \/ StepWaits(j) PROVE PlanKept'
  <2>1. \A i \in 1..Steps : i \in RunIds /\ RunId(i) = i
    BY DEF RunIds, RunId
  <2>2. plan \in [RunIds -> {"idle", "running", "waiting", "done"}] /\ outputs \in [RunIds -> 0..Steps]
    BY <1>0 DEF RunTypes
  <2>3. \A i \in 1..Steps : plan'[i] = "done" => outputs'[i] = i
    BY <1>0, <1>10, <2>1, <2>2 DEF StepEnds, StepWaits, PlanKept
  <2>. QED
    BY <1>2, <1>10, <2>3 DEF StepEnds, StepWaits, config
<1>11. CASE Abandon \/ (\E p \in active : Fail(p)) \/ \E i \in 1..Steps : StepFails(i)
  BY <1>6, <1>11 DEF Abandon, Fail, StepFails, Halted
<1>. QED
  BY <1>3, <1>4, <1>5, <1>7, <1>8, <1>9, <1>10, <1>11 DEF Next

-----------------------------------------------------------------------------
(* The first of the options that occur in a reply is one of them. *)
LEMMA LeastIsOne ==
  ASSUME NEW S, S \subseteq Nat, S # {}
  PROVE  Min(S) \in S
<1>1. PICK x \in S : \A y \in S : x <= y
  BY LeastExists
<1>. QED
  BY <1>1 DEF Min

(* A router with options whose last reply names one emits one it names. *)
LEMMA DispatchedNamed ==
  ASSUME NEW n, n.routes # <<>>, DOMAIN n.routes = 1..Len(n.routes),
         state.routed_to # <<>>, state.routed_to[1].names \intersect Range(n.routes) # {}
  PROVE  Dispatched(n) \in state.routed_to[1].names
<1>. DEFINE hits == {i \in DOMAIN n.routes : n.routes[i] \in state.routed_to[1].names}
<1>1. hits # {}
  BY DEF Range
<1>2. hits \subseteq Nat
  OBVIOUS
<1>3. Min(hits) \in hits
  BY <1>1, <1>2, LeastIsOne
<1>4. Dispatched(n) = n.routes[Min(hits)]
  BY <1>1 DEF Dispatched
<1>. QED
  BY <1>3, <1>4

(* What is at the top level is started by an edge of the top level. *)
LEMMA TopStarted ==
  ASSUME Wired(graph), Compiles(graph), NEW p \in Places, NEW route, NEW x,
         <<Top, x>> \in StartedBy(p, route)
  PROVE  p = <<Top, p[2]>> /\ \E e \in Fired(p, route) : e.target = x /\ e.source = p[2]
           /\ e \in graph.edges
           /\ e.route \in {NoRoute, DEFAULT_ROUTE, route}
<1>1. PICK q : q = <<Top, x>>
  OBVIOUS
<1>2. q \in StartedBy(p, route) /\ q[1] = Top /\ q[2] = x
  BY <1>1
<1>3. p[1] = Top
  BY <1>2, StartedByParts
<1>4. PICK e \in Fired(p, route) : q = <<Top, e.target>>
  BY <1>2, <1>3, StartedByParts
<1>5. e.source = p[2] /\ e \in SpecOf(Top).edges /\ e.route \in {NoRoute, DEFAULT_ROUTE, route}
  BY <1>3, <1>4, FiredParts
<1>6. SpecOf(Top) = graph /\ p = <<p[1], p[2]>> /\ e.target = x
  BY <1>1, <1>4, NodeOfPlace DEF SpecOf, Level
<1>. QED
  BY <1>3, <1>5, <1>6

(* What the wiring says of a roster, by the names of its nodes. *)
LEMMA RosterWired ==
  ASSUME Wired(graph),
         NEW n \in graph.nodes, n.does = "route_dispatch", n.routes # <<>>
  PROVE  /\ DOMAIN n.routes = 1..Len(n.routes)
         /\ \A s \in Range(n.routes) : s # NoRoute /\ s # DEFAULT_ROUTE
         /\ \A s \in Range(n.routes) : \A e \in graph.edges :
              e.target = Specialist(s) => e.source = n.name /\ e.route = s
         /\ \A g \in Graphs : \A m \in SpecOf(g).nodes : Tells(m) => g = Top
         /\ \A m \in graph.nodes : Tells(m) => \A e \in graph.edges :
              /\ e.target = m.name => e.source = START
              /\ e.target = n.name => e.source = m.name
<1>1. SpecOf(Top) = graph /\ Top \in Graphs
  BY DEF SpecOf, Level, Graphs, Levels
<1>2. \A g \in Graphs : \A m \in SpecOf(g).nodes : Tells(m) =>
        /\ g = Top
        /\ \A e \in Inbound(graph, m.name) : e.source = START
        /\ \A e \in Inbound(graph, n.name) : e.source = m.name
  BY DEF Wired, Dispatches, SpecOf, Graphs
<1>. QED
  BY <1>1, <1>2 DEF Wired, Dispatches, Inbound

(* The one that tells runs alone, as it is started by the message only and *)
(* starts the others itself.                                               *)
LEMMA TellersStep ==
  ASSUME WorkflowInv, [Next]_vars
  PROVE  TellersAlone'
<1>0. TellersAlone
  BY DEF WorkflowInv
<1>1. ASSUME active' = {} PROVE TellersAlone'
  BY <1>1 DEF TellersAlone
<1>2. ASSUME UNCHANGED <<graph, active>> PROVE TellersAlone'
  BY <1>0, <1>2 DEF TellersAlone
<1>3. CASE Load
  BY <1>1, <1>3 DEF Load, engine, WorkflowInv, Resting
<1>4. CASE End \/ Halted \/ Idled
  BY <1>1, <1>2, <1>4 DEF End, Halted, Quit, Idled, config, engine
<1>5. CASE Message
  <2>1. active' = StartedAtOnce /\ graph' = graph /\ phase \notin {"config", "refused"}
    BY <1>5 DEF Message, config
  <2>2. Wired(graph) /\ Compiles(graph)
    BY <2>1 DEF WorkflowInv, GraphServed
  <2>3. START \notin Names(graph)
    BY <2>2 DEF Wired, Named, Levels, Level
  <2>4. ASSUME NEW x, <<Top, x>> \in active'
        PROVE  \E e \in graph.edges : e.target = x /\ e.source = START
    <3>1. PICK q : q = <<Top, x>>
      OBVIOUS
    <3>2. PICK e \in Outgoing(graph, START) : q = <<Top, e.target>>
      BY <2>1, <2>2, <2>4, <3>1, AtOnceParts
    <3>. QED
      BY <3>1, <3>2 DEF Outgoing
  <2>5. ASSUME NEW n \in graph.nodes, n.does = "route_dispatch", n.routes # <<>>,
               NEW m \in graph.nodes, Tells(m)
        PROVE  /\ <<Top, n.name>> \notin active'
               /\ \A s \in Range(n.routes) : <<Top, Specialist(s)>> \notin active'
    <3>1. n.name # START /\ m.name # START
      BY <2>3 DEF Names
    <3>. QED
      BY <2>2, <2>4, <2>5, <3>1, RosterWired
  <2>. QED
    BY <2>1, <2>5 DEF TellersAlone
<1>6. CASE \E p \in active : Finish(p)
  <2>1. PICK p \in active : Finish(p)
    BY <1>6
  <2>2. PICK route : Complete(p, route)
    BY <2>1, FinishParts
  <2>3. /\ graph' = graph /\ Wired(graph) /\ Compiles(graph) /\ p \in Places
        /\ active' = (active \ {p}) \union StartedBy(p, route)
    BY <2>2, Completion
  <2>4. ASSUME NEW x, <<Top, x>> \in active', <<Top, x>> \notin active \ {p}
        PROVE  p = <<Top, p[2]>> /\ \E e \in graph.edges : e.target = x /\ e.source = p[2]
    BY <2>3, <2>4, TopStarted
  <2>5. START \notin Names(graph)
    BY <2>3 DEF Wired, Named, Levels, Level
  <2>6. p[1] = Top => p[2] \in Names(graph)
    BY <2>3, NodeOfPlace DEF SpecOf, Level
  <2>7. ASSUME NEW n \in graph.nodes, n.does = "route_dispatch", n.routes # <<>>,
               NEW m \in graph.nodes, Tells(m), <<Top, m.name>> \in active'
        PROVE  /\ <<Top, n.name>> \notin active'
               /\ \A s \in Range(n.routes) : <<Top, Specialist(s)>> \notin active'
    <3>1. <<Top, m.name>> \in active \ {p}
      <4>. SUFFICES ASSUME <<Top, m.name>> \notin active \ {p} PROVE FALSE
        OBVIOUS
      <4>1. p = <<Top, p[2]>> /\ \E e \in graph.edges : e.target = m.name /\ e.source = p[2]
        BY <2>4, <2>7
      <4>2. p[2] = START
        BY <2>3, <2>7, <4>1, RosterWired
      <4>. QED
        BY <2>5, <2>6, <4>1, <4>2
    <3>2. /\ <<Top, n.name>> \notin active
          /\ \A s \in Range(n.routes) : <<Top, Specialist(s)>> \notin active
      BY <1>0, <2>7, <3>1 DEF TellersAlone
    <3>3. <<Top, n.name>> \notin active'
      <4>. SUFFICES ASSUME <<Top, n.name>> \in active' PROVE FALSE
        OBVIOUS
      <4>1. p = <<Top, p[2]>> /\ \E e \in graph.edges : e.target = n.name /\ e.source = p[2]
        BY <2>4, <3>2
      <4>2. p[2] = m.name
        BY <2>3, <2>7, <4>1, RosterWired
      <4>. QED
        BY <3>1, <4>1, <4>2
    <3>4. ASSUME NEW s \in Range(n.routes), <<Top, Specialist(s)>> \in active' PROVE FALSE
      <4>1. p = <<Top, p[2]>> /\ \E e \in graph.edges : e.target = Specialist(s) /\ e.source = p[2]
        BY <2>4, <3>2, <3>4
      <4>2. p[2] = n.name
        BY <2>3, <2>7, <4>1, RosterWired
      <4>. QED
        BY <3>2, <4>1, <4>2
    <3>. QED
      BY <3>3, <3>4
  <2>. QED
    BY <2>3, <2>7 DEF TellersAlone
<1>. QED
  BY <1>3, <1>4, <1>5, <1>6, StepKinds

(* A specialist is started by its router, with its own option. *)
LEMMA RoutedStep ==
  ASSUME WorkflowInv, [Next]_vars
  PROVE  RoutedAsReplied'
<1>0. RoutedAsReplied /\ TellersAlone
  BY DEF WorkflowInv
<1>1. ASSUME active' = {} PROVE RoutedAsReplied'
  BY <1>1 DEF RoutedAsReplied
<1>2. ASSUME UNCHANGED <<graph, active, state>> PROVE RoutedAsReplied'
  BY <1>0, <1>2 DEF RoutedAsReplied
<1>3. CASE Load
  BY <1>1, <1>3 DEF Load, engine, WorkflowInv, Resting
<1>4. CASE End \/ Halted \/ Idled
  BY <1>1, <1>2, <1>4 DEF End, Halted, Quit, Idled, config, engine
<1>5. CASE Message
  <2>1. active' = StartedAtOnce /\ graph' = graph /\ phase \notin {"config", "refused"}
    BY <1>5 DEF Message, config
  <2>2. Wired(graph) /\ Compiles(graph)
    BY <2>1 DEF WorkflowInv, GraphServed
  <2>3. START \notin Names(graph)
    BY <2>2 DEF Wired, Named, Levels, Level
  <2>4. ASSUME NEW n \in graph.nodes, n.does = "route_dispatch", n.routes # <<>>,
               NEW s \in Range(n.routes), <<Top, Specialist(s)>> \in active'
        PROVE  FALSE
    <3>1. PICK q : q = <<Top, Specialist(s)>>
      OBVIOUS
    <3>2. PICK e \in Outgoing(graph, START) : q = <<Top, e.target>>
      BY <2>1, <2>2, <2>4, <3>1, AtOnceParts
    <3>3. e \in graph.edges /\ e.source = START /\ e.target = Specialist(s)
      BY <3>1, <3>2 DEF Outgoing
    <3>4. e.source = n.name
      BY <2>2, <2>4, <3>3, RosterWired
    <3>. QED
      BY <2>3, <3>3, <3>4 DEF Names
  <2>. QED
    BY <2>1, <2>4 DEF RoutedAsReplied
<1>6. CASE \E p \in active : Finish(p)
  <2>1. PICK p \in active : Finish(p)
    BY <1>6
  <2>2. ASSUME NEW route, Complete(p, route),
               NEW n \in graph.nodes, n.does = "route_dispatch", n.routes # <<>>,
               NEW s \in Range(n.routes), <<Top, Specialist(s)>> \in active',
               <<Top, Specialist(s)>> \notin active
        PROVE  p = <<Top, n.name>> /\ route = s
    <3>1. /\ Wired(graph) /\ Compiles(graph) /\ p \in Places
          /\ active' = (active \ {p}) \union StartedBy(p, route)
      BY <2>1, <2>2, Completion
    <3>2. p = <<Top, p[2]>> /\ \E e \in graph.edges :
            /\ e.target = Specialist(s) /\ e.source = p[2]
            /\ e.route \in {NoRoute, DEFAULT_ROUTE, route}
      BY <2>2, <3>1, TopStarted
    <3>3. /\ s # NoRoute /\ s # DEFAULT_ROUTE
          /\ \A e \in graph.edges : e.target = Specialist(s) => e.source = n.name /\ e.route = s
      BY <2>2, <3>1, RosterWired
    <3>. QED
      BY <3>2, <3>3
  <2>3. PICK route : Complete(p, route)
    BY <2>1, FinishParts
  <2>4. graph' = graph /\ Wired(graph) /\ p \in Places
    BY <2>1, <2>3, Completion
  <2>5. ASSUME NEW n \in graph.nodes, n.does = "route_dispatch", n.routes # <<>>,
               NEW s \in Range(n.routes), <<Top, Specialist(s)>> \in active',
               state'.routed_to # <<>>, state'.routed_to[1].names \intersect Range(n.routes) # {}
        PROVE  s \in state'.routed_to[1].names
    <3>1. CASE Tells(NodeAt(p))
      <4>1. NodeAt(p) \in SpecOf(p[1]).nodes /\ NodeAt(p).name = p[2] /\ p[1] \in Graphs
            /\ p = <<p[1], p[2]>>
        BY <2>4, NodeOfPlace
      <4>2. p[1] = Top
        BY <2>4, <2>5, <3>1, <4>1, RosterWired
      <4>3. NodeAt(p) \in graph.nodes /\ p = <<Top, NodeAt(p).name>>
        BY <4>1, <4>2 DEF SpecOf, Level
      <4>4. <<Top, n.name>> \notin active /\ <<Top, Specialist(s)>> \notin active
        BY <1>0, <2>1, <2>5, <3>1, <4>3 DEF TellersAlone
      <4>. QED
        BY <2>1, <2>2, <2>3, <2>5, <4>4
    <3>2. CASE ~Tells(NodeAt(p)) /\ <<Top, Specialist(s)>> \in active
      <4>1. state'.routed_to = state.routed_to
        BY <2>1, <3>2, FinishParts
      <4>. QED
        BY <1>0, <2>5, <3>2, <4>1 DEF RoutedAsReplied
    <3>3. CASE ~Tells(NodeAt(p)) /\ <<Top, Specialist(s)>> \notin active
      <4>1. state'.routed_to = state.routed_to
        BY <2>1, <3>3, FinishParts
      <4>2. p = <<Top, n.name>>
        BY <2>2, <2>3, <2>5, <3>3
      <4>3. NodeAt(<<Top, n.name>>) = n
        BY <2>4, PlaceOfNode DEF Graphs, Levels, SpecOf, Level
      <4>4. NodeAt(p) = n
        BY <4>2, <4>3
      <4>5. RouteDispatch(p)
        BY <2>1, <2>5, <4>4, FinishParts DEF Does
      <4>6. Complete(p, Dispatched(n))
        BY <4>4, <4>5 DEF RouteDispatch
      <4>7. Dispatched(n) = s
        BY <2>2, <2>5, <3>3, <4>6
      <4>8. Dispatched(n) \in state.routed_to[1].names
        BY <2>4, <2>5, <4>1, RosterWired, DispatchedNamed
      <4>. QED
        BY <4>1, <4>7, <4>8
    <3>. QED
      BY <3>1, <3>2, <3>3
  <2>. QED
    BY <2>4, <2>5 DEF RoutedAsReplied
<1>. QED
  BY <1>3, <1>4, <1>5, <1>6, StepKinds

-----------------------------------------------------------------------------
(* The top level is a graph like any other. *)
LEMMA TopGraph == Top \in Graphs /\ SpecOf(Top) = graph
BY DEF Graphs, Levels, SpecOf, Level

(* Of a nested graph there is the node, which is the only one of its name.  *)
LEMMA NestedNode ==
  ASSUME Wired(graph), NEW g \in Graphs, g # Top
  PROVE  /\ g \in Names(graph) /\ <<Top, g>> \in Places
         /\ \E m \in graph.nodes : m.name = g /\ m.kind = "graph" /\ NodeAt(<<Top, g>>) = m
<1>1. PICK m \in graph.nodes : m.kind = "graph" /\ m.name = g
  BY DEF Graphs, Levels
<1>2. <<Top, m.name>> \in Places /\ NodeAt(<<Top, m.name>>) = m
  BY TopGraph, PlaceOfNode
<1>. QED
  BY <1>1, <1>2 DEF Names

(* The edges of a graph lead from its nodes, or START, to its nodes. *)
LEMMA EndpointsOf ==
  ASSUME Wired(graph), Compiles(graph), NEW g \in Graphs
  PROVE  /\ Valid(SpecOf(g)) /\ START \notin Names(SpecOf(g))
         /\ \A e \in SpecOf(g).edges :
              e.source \in Names(SpecOf(g)) \union {START} /\ e.target \in Names(SpecOf(g))
BY DEF Compiles, Wired, Named, SpecOf, Graphs, Valid, EndpointsExist

(* What a place completed in its own graph starts is what its edges lead    *)
(* to: at least by those without a route, and joins when they are full.    *)
LEMMA StreamFired ==
  ASSUME Wired(graph), Compiles(graph), NEW g \in Graphs, NEW n \in SpecOf(g).nodes,
         NEW p \in Places, p[1] = g, NEW route
  PROVE  /\ <<g, n.name>> \in StartedBy(p, route) =>
              /\ \E e \in Inbound(SpecOf(g), n.name) : e.source = p[2]
              /\ n.kind = "join" => <<g, n.name>> \in Full(p, route)
         /\ \A e \in Inbound(SpecOf(g), n.name) : e.source = p[2] /\ e.route = NoRoute =>
              /\ n.kind = "join" => <<<<g, n.name>>, p[2]>> \in Seen(p, route)
              /\ (n.kind = "join" => <<g, n.name>> \in Full(p, route))
                   => <<g, n.name>> \in StartedBy(p, route)
<1>. DEFINE t == <<g, n.name>>
<1>1. NodeAt(t) = n /\ t \in Places
  BY PlaceOfNode
<1>2. ASSUME t \in StartedBy(p, route) PROVE \E e \in Fired(p, route) : t = <<g, e.target>>
  <2>1. t[1] = p[1]
    OBVIOUS
  <2>. HIDE DEF t
  <2>. QED
    BY <1>2, <2>1, StartedByParts
<1>3. \A e \in Fired(p, route) : e.target = n.name =>
        /\ e \in Inbound(SpecOf(g), n.name) /\ e.source = p[2]
        /\ t \in StartedBy(p, route) <=> (n.kind = "join" => t \in Full(p, route))
  BY <1>1, FiredParts, StartedByParts DEF Inbound
<1>4. \A e \in Inbound(SpecOf(g), n.name) : e.source = p[2] /\ e.route = NoRoute =>
        e \in Fired(p, route) /\ e.target = n.name
  BY DEF Fired, Outgoing, Inbound
<1>5. \A e \in Fired(p, route) : e.target = n.name /\ n.kind = "join" =>
        <<t, p[2]>> \in Seen(p, route)
  BY <1>1 DEF Seen, Joins, Targets
<1>. QED
  BY <1>2, <1>3, <1>4, <1>5

(* What a join has seen when a place is done, and whether that is all. *)
LEMMA StreamSeen ==
  ASSUME Wired(graph), Compiles(graph), NEW g \in Graphs, NEW n \in SpecOf(g).nodes,
         NEW p \in Places, NEW route
  PROVE  /\ \A s : <<<<g, n.name>>, s>> \in Seen(p, route) =>
              <<<<g, n.name>>, s>> \in arrived \/ (p[1] = g /\ s = p[2])
         /\ arrived \subseteq Seen(p, route)
         /\ <<g, n.name>> \in Full(p, route) =>
              /\ p[1] = g
              /\ \A e \in Inbound(SpecOf(g), n.name) : <<<<g, n.name>>, e.source>> \in Seen(p, route)
              /\ <<g, n.name>> \in StartedBy(p, route)
         /\ \A s : /\ <<<<g, n.name>>, s>> \in Seen(p, route)
                   /\ <<<<g, n.name>>, s>> \notin arrived
                   /\ \A e \in Inbound(SpecOf(g), n.name) :
                        <<<<g, n.name>>, e.source>> \in Seen(p, route)
                   => <<g, n.name>> \in Full(p, route)
<1>. DEFINE t == <<g, n.name>>
<1>1. NodeAt(t) = n /\ t[1] = g /\ t[2] = n.name
  BY PlaceOfNode
<1>2. \A q \in Targets(p, route) : q[1] = p[1]
  BY DEF Targets
<1>. HIDE DEF t
<1>3. t \in Joins(p, route) => p[1] = g
  BY <1>1, <1>2 DEF Joins
<1>4. \A s : <<t, s>> \in Seen(p, route) <=> <<t, s>> \in arrived \/ (t \in Joins(p, route) /\ s = p[2])
  BY DEF Seen
<1>5. t \in Full(p, route) <=>
        t \in Joins(p, route) /\ \A e \in Inbound(SpecOf(g), n.name) : <<t, e.source>> \in Seen(p, route)
  BY <1>1 DEF Full
<1>6. ASSUME t \in Full(p, route) PROVE t \in StartedBy(p, route)
  <2>1. PICK e \in Fired(p, route) : t = <<p[1], e.target>>
    BY <1>5, <1>6 DEF Joins, Targets
  <2>. QED
    BY <1>6, <2>1, StartedByParts
<1>7. arrived \subseteq Seen(p, route)
  BY DEF Seen
<1>. QED
  BY <1>3, <1>4, <1>5, <1>6, <1>7 DEF t

(* What a place completed elsewhere starts is the beginning of its graph.  *)
LEMMA StreamEntered ==
  ASSUME Wired(graph), Compiles(graph), NEW g \in Graphs, NEW n \in SpecOf(g).nodes,
         NEW p \in Places, p[1] # g, NEW route
  PROVE  <<g, n.name>> \in StartedBy(p, route) <=>
           /\ p[1] = Top /\ g # Top /\ <<Top, g>> \in StartedBy(p, route)
           /\ \E e \in Inbound(SpecOf(g), n.name) : e.source = START
<1>. DEFINE t == <<g, n.name>>
<1>1. t[1] = g /\ \A x : t = <<g, x>> => x = n.name
  OBVIOUS
<1>2. \A e \in Outgoing(SpecOf(g), START) : e.target = n.name =>
        e \in Inbound(SpecOf(g), n.name) /\ e.source = START
  BY DEF Inbound, Outgoing
<1>3. \A e \in Inbound(SpecOf(g), n.name) : e.source = START =>
        e \in Outgoing(SpecOf(g), START) /\ t = <<g, e.target>>
  BY DEF Inbound, Outgoing
<1>. HIDE DEF t
<1>4. ASSUME t \in StartedBy(p, route)
      PROVE  /\ p[1] = Top /\ <<Top, g>> \in StartedBy(p, route)
             /\ \E e \in Outgoing(SpecOf(g), START) : t = <<g, e.target>>
  BY <1>1, <1>4, StartedByParts
<1>5. ASSUME g # Top, <<Top, g>> \in StartedBy(p, route), NEW e \in Outgoing(SpecOf(g), START)
      PROVE  <<g, e.target>> \in StartedBy(p, route)
  BY <1>5, StartedByParts
<1>. QED
  BY <1>1, <1>2, <1>3, <1>4, <1>5 DEF t

(* A nested graph is entered once: by what starts its node, and nothing     *)
(* does so again; when its node is done nothing runs in it.                *)
LEMMA EnteredOnce ==
  ASSUME WorkflowInv, NEW p \in active, Finish(p), NEW route, Complete(p, route), Streams(graph),
         NEW g \in Graphs, g # Top
  PROVE  /\ Entered(g)' <=> Entered(g) \/ <<Top, g>> \in StartedBy(p, route)
         /\ <<Top, g>> \in StartedBy(p, route) => ~Entered(g) /\ p[1] = Top /\ p # <<Top, g>>
         /\ p = <<Top, g>> => \A q \in active : q[1] # g
<1>. DEFINE t == <<Top, g>>
<1>1. /\ phase = "running" /\ graph' = graph /\ Wired(graph) /\ Compiles(graph) /\ p \in Places
      /\ active' = (active \ {p}) \union StartedBy(p, route)
      /\ ran[p] \in 0..MaxTimes
      /\ ran'[p] = IF ran[p] < MaxTimes THEN ran[p] + 1 ELSE ran[p]
      /\ \A q \in Places : q # p => ran'[q] = ran[q]
  BY Completion
<1>2. PICK m \in graph.nodes : m.name = g /\ m.kind = "graph" /\ NodeAt(t) = m
  BY <1>1, NestedNode
<1>3. t \in Places /\ t = <<Top, m.name>> /\ t[2] = g
  BY <1>1, <1>2, NestedNode
<1>4. \A k \in graph.nodes : StreamKept(Top, k)
  BY <1>1, TopGraph DEF WorkflowInv, InStream
<1>. HIDE DEF t
<1>5. Entered(g) <=> Open(t)
  BY DEF Entered, Open, Over, Done, t
<1>6. Entered(g)' <=> t \in active' \/ ran'[t] = 1
  BY DEF Entered, Done, t
<1>7. p = t => ran'[t] = 1
  <2>. SUFFICES ASSUME p = t PROVE ran'[t] = 1
    OBVIOUS
  <2>1. ran[t] = 0
    BY <1>2, <1>3, <1>4 DEF StreamKept
  <2>. QED
    BY <1>1, <2>1, WorkflowAssumption
<1>8. ASSUME t \in StartedBy(p, route) PROVE ~Open(t) /\ p[1] = Top /\ p # t
  <2>1. p = <<Top, p[2]>> /\ \E e \in graph.edges : e.target = g /\ e.source = p[2]
    BY <1>1, <1>8, TopStarted DEF t
  <2>2. PICK e \in Inbound(graph, g) : e.source = p[2]
    BY <2>1 DEF Inbound
  <2>3. PICK k \in graph.nodes : k.name = p[2]
    <3>1. p[1] = Top
      BY <2>1
    <3>. QED
      BY <1>1, <3>1, NodeOfPlace, TopGraph
  <2>4. ran[<<Top, p[2]>>] = 0
    BY <1>4, <2>1, <2>3 DEF StreamKept
  <2>5. p[2] # START
    BY <1>1, <2>3, TopGraph, EndpointsOf DEF Names
  <2>6. ~Cleared(Top, e)
    BY <2>2, <2>4, <2>5 DEF Cleared, Over
  <2>7. ~Open(<<Top, m.name>>)
    BY <1>2, <1>4, <2>2, <2>6, TopGraph DEF StreamKept
  <2>8. p[1] = Top /\ p \in active
    BY <2>1
  <2>. QED
    BY <1>3, <2>7, <2>8 DEF Open
<1>9. p = t => \A q \in active : q[1] # g
  BY <1>2, <1>3, FinishParts DEF PassGraph
<1>. QED
  BY <1>1, <1>3, <1>5, <1>6, <1>7, <1>8, <1>9 DEF Open, Over, t

(* The stream goes on from a place that is done. *)
LEMMA StreamCompleted ==
  ASSUME WorkflowInv, NEW p \in active, Finish(p), NEW route, Complete(p, route), Streams(graph),
         NEW g \in Graphs, Streams(SpecOf(g)), NEW n \in SpecOf(g).nodes
  PROVE  /\ StreamKept(g, n)'
         /\ Open(<<g, n.name>>)' <=> Open(<<g, n.name>>) \/ <<g, n.name>> \in StartedBy(p, route)
         /\ <<g, n.name>> \in StartedBy(p, route) => ~Open(<<g, n.name>>)
<1>. DEFINE t == <<g, n.name>>
            In == Inbound(SpecOf(g), n.name)
<1>1. /\ phase = "running" /\ graph' = graph /\ Wired(graph) /\ Compiles(graph) /\ p \in Places
      /\ active' = (active \ {p}) \union StartedBy(p, route)
      /\ ran[p] \in 0..MaxTimes
      /\ ran'[p] = IF ran[p] < MaxTimes THEN ran[p] + 1 ELSE ran[p]
      /\ \A q \in Places : q # p => ran'[q] = ran[q]
      /\ arrived' = {a \in Seen(p, route) : a[1] \notin Full(p, route)}
  BY Completion DEF Complete
<1>2. START \notin Names(SpecOf(g)) /\ \A e \in In : e.source \in Names(SpecOf(g)) \union {START}
  BY <1>1, EndpointsOf DEF Inbound
<1>3. \A x \in Names(SpecOf(g)) : <<g, x>> \in Places
  BY PlaceParts
<1>4. \A k \in SpecOf(g).nodes : StreamKept(g, k)
  BY <1>1 DEF WorkflowInv, InStream
<1>5. t \in Places /\ n.name \in Names(SpecOf(g)) /\ t[1] = g /\ t[2] = n.name
  BY <1>3 DEF Names
<1>6. /\ ran[t] \in {0, 1}
      /\ t \in active => ran[t] = 0
      /\ Open(t) => Entered(g) /\ \A e \in In : Cleared(g, e)
      /\ Entered(g) /\ In # {} /\ (\A e \in In : Cleared(g, e) /\ e.route = NoRoute) => Open(t)
      /\ n.kind = "join" /\ ~Open(t) =>
           \A e \in In :
             /\ <<t, e.source>> \in arrived => Over(<<g, e.source>>)
             /\ Over(<<g, e.source>>) /\ e.route = NoRoute => <<t, e.source>> \in arrived
  BY <1>4 DEF StreamKept
<1>7. SpecOf(g)' = SpecOf(g)
  BY <1>1, SameGraph
<1>8. n.kind = "join" => \A e \in In : e.source # START
  BY DEF Streams
<1>9. n.kind # "join" => \A e, f \in In : e = f
  BY DEF Streams
<1>10. \A s : <<t, s>> \in arrived' <=> <<t, s>> \in Seen(p, route) /\ t \notin Full(p, route)
  BY <1>1
<1>11. /\ \A s : <<t, s>> \in Seen(p, route) => <<t, s>> \in arrived \/ (p[1] = g /\ s = p[2])
       /\ arrived \subseteq Seen(p, route)
       /\ t \in Full(p, route) => /\ p[1] = g /\ t \in StartedBy(p, route)
                                  /\ \A e \in In : <<t, e.source>> \in Seen(p, route)
       /\ \A s : /\ <<t, s>> \in Seen(p, route) /\ <<t, s>> \notin arrived
                 /\ \A e \in In : <<t, e.source>> \in Seen(p, route)
                 => t \in Full(p, route)
  BY <1>1, StreamSeen
<1>. HIDE DEF t
<1>12. t \in active' <=> (t \in active /\ p # t) \/ t \in StartedBy(p, route)
  BY <1>1
<1>13. /\ Open(t) <=> t \in active \/ ran[t] = 1
       /\ Open(t)' <=> t \in active' \/ ran'[t] = 1
       /\ \A e \in In : Cleared(g, e) <=> e.source = START \/ ran[<<g, e.source>>] = 1
       /\ \A e \in In : Cleared(g, e)' <=> e.source = START \/ ran'[<<g, e.source>>] = 1
  BY DEF Open, Over, Cleared
<1>. DEFINE Kept ==
       /\ ran'[t] \in {0, 1}
       /\ t \in active' => ran'[t] = 0
       /\ Open(t)' => Entered(g)' /\ \A e \in In : Cleared(g, e)'
       /\ Entered(g)' /\ In # {} /\ (\A e \in In : Cleared(g, e)' /\ e.route = NoRoute) => Open(t)'
       /\ n.kind = "join" /\ ~Open(t)' =>
            \A e \in In :
              /\ <<t, e.source>> \in arrived' => ran'[<<g, e.source>>] = 1
              /\ ran'[<<g, e.source>>] = 1 /\ e.route = NoRoute => <<t, e.source>> \in arrived'
       /\ Open(t)' <=> Open(t) \/ t \in StartedBy(p, route)
       /\ t \in StartedBy(p, route) => ~Open(t)
<1>. SUFFICES Kept
  BY <1>7 DEF StreamKept, Over, t
<1>14. CASE p[1] # g
  <2>1. p # t /\ ran'[t] = ran[t]
    BY <1>1, <1>5, <1>14
  <2>2. \A e \in In : e.source # START => ran'[<<g, e.source>>] = ran[<<g, e.source>>]
    BY <1>1, <1>2, <1>3, <1>14
  <2>3. t \in StartedBy(p, route) <=>
          /\ p[1] = Top /\ g # Top /\ <<Top, g>> \in StartedBy(p, route)
          /\ \E e \in In : e.source = START
    BY <1>1, <1>14, StreamEntered DEF t
  <2>4. \A s : <<t, s>> \in arrived' <=> <<t, s>> \in arrived
    BY <1>10, <1>11, <1>14
  <2>5. CASE g = Top \/ <<Top, g>> \notin StartedBy(p, route)
    <3>1. Entered(g)' <=> Entered(g)
      BY <2>5, EnteredOnce DEF Entered
    <3>. QED
      BY <1>6, <1>8, <1>12, <1>13, <2>1, <2>2, <2>3, <2>4, <2>5, <3>1 DEF Over
  <2>6. CASE g # Top /\ <<Top, g>> \in StartedBy(p, route)
    <3>1. Entered(g)' /\ ~Entered(g) /\ p[1] = Top
      BY <2>6, EnteredOnce
    <3>2. ~Open(t) /\ ran[t] = 0 /\ t \notin active
      BY <1>6, <1>13, <3>1
    <3>3. ASSUME NEW x \in Names(SpecOf(g)) PROVE ran[<<g, x>>] # 1
      <4>1. PICK k \in SpecOf(g).nodes : k.name = x
        BY DEF Names
      <4>2. ~Open(<<g, k.name>>)
        BY <1>4, <3>1 DEF StreamKept
      <4>. QED
        BY <4>1, <4>2 DEF Open, Over
    <3>4. \A e \in In : Cleared(g, e)' <=> e.source = START
      BY <1>2, <1>13, <2>2, <3>3
    <3>5. \A e \in In : n.kind = "join" => <<t, e.source>> \notin arrived' /\ ran'[<<g, e.source>>] # 1
      BY <1>2, <1>6, <1>8, <2>2, <2>4, <3>2, <3>3 DEF Over
    <3>6. t \in active' <=> \E e \in In : e.source = START
      BY <1>12, <2>3, <2>6, <3>1, <3>2
    <3>7. Open(t)' <=> t \in active'
      BY <1>13, <2>1, <3>2
    <3>8. t \in active' => \A e \in In : e.source = START
      BY <1>8, <1>9, <3>6
    <3>. QED
      BY <1>12, <2>1, <3>1, <3>2, <3>4, <3>5, <3>6, <3>7, <3>8
  <2>. QED
    BY <2>5, <2>6
<1>15. CASE p[1] = g
  <2>. DEFINE m == p[2]
  <2>1. p = <<g, m>> /\ m \in Names(SpecOf(g)) /\ m # START
    BY <1>1, <1>2, <1>15, NodeOfPlace
  <2>2. m = p[2]
    OBVIOUS
  <2>. HIDE DEF m
  <2>3. ran[<<g, m>>] = 0 /\ ran'[<<g, m>>] = 1 /\ Entered(g) /\ Entered(g)'
    <3>1. PICK k \in SpecOf(g).nodes : k.name = m
      BY <2>1 DEF Names
    <3>2. <<g, m>> \in active
      BY <2>1
    <3>3. ran[<<g, m>>] = 0 /\ Entered(g)
      BY <1>4, <3>1, <3>2 DEF StreamKept, Open
    <3>4. ran'[<<g, m>>] = 1
      BY <1>1, <2>1, <3>3, WorkflowAssumption
    <3>5. g # Top => (Entered(g)' <=> Entered(g) \/ <<Top, g>> \in StartedBy(p, route))
      BY EnteredOnce
    <3>. QED
      BY <3>3, <3>4, <3>5 DEF Entered
  <2>4. \A x \in Names(SpecOf(g)) : x # m => ran'[<<g, x>>] = ran[<<g, x>>]
    BY <1>1, <1>3, <2>1
  <2>5. \A e \in In : /\ Cleared(g, e)' <=> Cleared(g, e) \/ e.source = m
                      /\ e.source = m => ~Cleared(g, e)
    <3>1. ASSUME NEW x \in Names(SpecOf(g)) \union {START}
          PROVE  /\ x = START \/ ran'[<<g, x>>] = 1 <=> (x = START \/ ran[<<g, x>>] = 1) \/ x = m
                 /\ x = m => ~(x = START \/ ran[<<g, x>>] = 1)
      BY <2>1, <2>3, <2>4
    <3>. QED
      BY <1>2, <1>13, <3>1
  <2>6. /\ t \in StartedBy(p, route) =>
             (\E e \in In : e.source = m) /\ (n.kind = "join" => t \in Full(p, route))
        /\ \A e \in In : e.source = m /\ e.route = NoRoute =>
             /\ n.kind = "join" => <<t, m>> \in Seen(p, route)
             /\ (n.kind = "join" => t \in Full(p, route)) => t \in StartedBy(p, route)
    BY <1>1, <1>15, <2>2, StreamFired DEF t
  <2>7. CASE Open(t)
    <3>1. \A e \in In : Cleared(g, e) /\ e.source # m
      BY <1>6, <2>5, <2>7
    <3>2. t \notin StartedBy(p, route)
      BY <2>6, <3>1
    <3>3. CASE n.name = m
      <4>1. p = t
        BY <2>1, <3>3 DEF t
      <4>2. t \notin active' /\ ran'[t] = 1
        BY <1>12, <2>1, <2>3, <3>2, <4>1
      <4>. QED
        BY <1>13, <2>3, <2>5, <2>7, <3>1, <3>2, <4>2
    <3>4. CASE n.name # m
      <4>1. p # t /\ ran'[t] = ran[t]
        BY <1>5, <2>1, <2>4, <3>4 DEF t
      <4>. QED
        BY <1>6, <1>12, <1>13, <2>3, <2>5, <2>7, <3>1, <3>2, <4>1
    <3>. QED
      BY <3>3, <3>4
  <2>8. ASSUME ~Open(t) PROVE n.name # m /\ p # t /\ ran'[t] = 0 /\ ran[t] = 0 /\ t \notin active
    <3>1. t \notin active /\ ran[t] = 0 /\ p # t
      BY <1>6, <1>13, <2>8
    <3>2. n.name # m
      BY <2>1, <3>1 DEF t
    <3>. QED
      BY <1>1, <1>5, <3>1, <3>2
  <2>9. CASE ~Open(t) /\ n.kind # "join"
    <3>1. Open(t)' <=> t \in StartedBy(p, route)
      BY <1>12, <1>13, <2>8, <2>9
    <3>2. t \in StartedBy(p, route) => \A e \in In : Cleared(g, e)'
      BY <1>9, <2>5, <2>6, <2>9
    <3>3. ASSUME In # {}, \A e \in In : Cleared(g, e)' /\ e.route = NoRoute
          PROVE  t \in StartedBy(p, route)
      <4>1. PICK e \in In : ~Cleared(g, e)
        BY <1>6, <2>3, <2>9, <3>3
      <4>. QED
        BY <2>5, <2>6, <2>9, <3>3, <4>1
    <3>. QED
      BY <2>3, <2>8, <2>9, <3>1, <3>2, <3>3
  <2>10. CASE ~Open(t) /\ n.kind = "join"
    <3>1. Open(t)' <=> t \in StartedBy(p, route)
      BY <1>12, <1>13, <2>8, <2>10
    <3>2. \A e \in In : <<t, e.source>> \in Seen(p, route) => ran'[<<g, e.source>>] = 1
      <4>. SUFFICES ASSUME NEW e \in In, <<t, e.source>> \in Seen(p, route), e.source # m
                    PROVE  ran'[<<g, e.source>>] = 1
        BY <2>3
      <4>1. <<t, e.source>> \in arrived
        BY <1>11, <2>2
      <4>2. ran[<<g, e.source>>] = 1
        BY <1>6, <2>10, <4>1 DEF Over
      <4>. QED
        BY <1>2, <1>8, <2>4, <2>10, <4>2
    <3>3. \A e \in In : ran'[<<g, e.source>>] = 1 /\ e.route = NoRoute => <<t, e.source>> \in Seen(p, route)
      <4>. SUFFICES ASSUME NEW e \in In, ran'[<<g, e.source>>] = 1, e.route = NoRoute
                    PROVE  <<t, e.source>> \in Seen(p, route)
        OBVIOUS
      <4>1. CASE e.source = m
        BY <2>6, <2>10, <4>1
      <4>2. CASE e.source # m
        <5>1. ran[<<g, e.source>>] = 1
          BY <1>2, <1>8, <2>4, <2>10, <4>2
        <5>. QED
          BY <1>6, <1>11, <2>10, <5>1 DEF Over
      <4>. QED
        BY <4>1, <4>2
    <3>4. t \in StartedBy(p, route) => \A e \in In : Cleared(g, e)'
      BY <1>11, <1>13, <2>6, <2>10, <3>2
    <3>5. ASSUME In # {}, \A e \in In : Cleared(g, e)' /\ e.route = NoRoute
          PROVE  t \in StartedBy(p, route)
      <4>1. PICK e \in In : ~Cleared(g, e)
        BY <1>6, <2>3, <2>10, <3>5
      <4>2. e.source = m /\ ran[<<g, m>>] # 1
        BY <1>13, <2>5, <3>5, <4>1
      <4>3. \A f \in In : <<t, f.source>> \in Seen(p, route)
        BY <1>8, <1>13, <2>10, <3>3, <3>5
      <4>4. <<t, m>> \in Seen(p, route) /\ <<t, m>> \notin arrived
        BY <1>6, <2>10, <4>2, <4>3 DEF Over
      <4>. QED
        BY <1>11, <4>3, <4>4
    <3>6. t \notin StartedBy(p, route) => t \notin Full(p, route)
      BY <1>11
    <3>. QED
      BY <1>10, <2>3, <2>8, <2>10, <3>1, <3>2, <3>3, <3>4, <3>5, <3>6
  <2>. QED
    BY <2>7, <2>9, <2>10
<1>. QED
  BY <1>14, <1>15

(* The stream begins with what START leads to. *)
LEMMA StreamBegins ==
  ASSUME WorkflowInv, Message, Streams(graph),
         NEW g \in Graphs, Streams(SpecOf(g)), NEW n \in SpecOf(g).nodes
  PROVE  StreamKept(g, n)'
<1>. DEFINE t == <<g, n.name>>
            In == Inbound(SpecOf(g), n.name)
<1>1. /\ active' = StartedAtOnce /\ graph' = graph /\ phase \notin {"config", "refused"}
      /\ ran' = [p \in Places |-> 0] /\ arrived' = {}
  BY DEF Message, config
<1>2. Wired(graph) /\ Compiles(graph)
  BY <1>1 DEF WorkflowInv, GraphServed
<1>3. SpecOf(g)' = SpecOf(g)
  BY <1>1, SameGraph
<1>4. \A x \in Names(SpecOf(g)) : ran'[<<g, x>>] = 0
  BY <1>1, PlaceParts
<1>5. \A e \in In : e.source \in Names(SpecOf(g)) \union {START}
  BY <1>2, EndpointsOf DEF Inbound
<1>6. ran'[t] = 0
  BY <1>4 DEF Names
<1>7. \A e \in In : Cleared(g, e)' <=> e.source = START
  BY <1>4, <1>5 DEF Cleared, Over
<1>8. Entered(g)' <=> g = Top \/ <<Top, g>> \in active'
  <2>1. g # Top => ~Done(g)'
    BY <1>1, <1>2, NestedNode DEF Done
  <2>. QED
    BY <2>1 DEF Entered
<1>9. \A e \in Outgoing(SpecOf(g), START) : e.target = n.name =>
        e \in Inbound(SpecOf(g), n.name) /\ e.source = START
  BY DEF Inbound, Outgoing
<1>10. \A e \in In : e.source = START => e \in Outgoing(SpecOf(g), START) /\ t = <<g, e.target>>
  BY DEF Inbound, Outgoing
<1>11. t[1] = g /\ \A x : t = <<g, x>> => x = n.name
  OBVIOUS
<1>12. t \in active' <=> Entered(g)' /\ \E e \in In : e.source = START
  <2>. HIDE DEF t
  <2>1. CASE g = Top
    <3>1. t \in active' => \E e \in Outgoing(graph, START) : t = <<Top, e.target>>
      BY <1>1, <1>2, <1>11, <2>1, AtOnceParts
    <3>2. \A e \in Outgoing(graph, START) : <<Top, e.target>> \in active'
      BY <1>1, <1>2, AtOnceParts
    <3>. QED
      BY <1>8, <1>9, <1>10, <1>11, <2>1, <3>1, <3>2, TopGraph
  <2>2. CASE g # Top
    <3>1. t \in active' => <<Top, g>> \in active' /\ \E e \in Outgoing(SpecOf(g), START) : t = <<g, e.target>>
      BY <1>1, <1>2, <1>11, <2>2, AtOnceParts
    <3>2. <<Top, g>> \in active' => \A e \in Outgoing(SpecOf(g), START) : <<g, e.target>> \in active'
      BY <1>1, <1>2, <2>2, AtOnceParts
    <3>. QED
      BY <1>8, <1>9, <1>10, <1>11, <2>2, <3>1, <3>2
  <2>. QED
    BY <2>1, <2>2
<1>13. (\E e \in In : e.source = START) => \A e \in In : e.source = START
  BY DEF Streams
<1>14. n.kind = "join" => \A e \in In : ~Over(<<g, e.source>>)'
  BY <1>4, <1>5 DEF Streams, Over
<1>15. Open(t)' <=> t \in active'
  BY <1>6 DEF Open, Over
<1>. QED
  BY <1>1, <1>3, <1>6, <1>7, <1>12, <1>13, <1>14, <1>15 DEF StreamKept

(* Every step keeps the streams. *)
LEMMA StreamStep ==
  ASSUME WorkflowInv, [Next]_vars
  PROVE  InStream'
<1>0. InStream
  BY DEF WorkflowInv
<1>1. ASSUME phase' \notin {"running", "paused", "ended"} PROVE InStream'
  BY <1>1 DEF InStream
<1>2. ASSUME UNCHANGED <<graph, active, arrived, ran>>,
             phase \in {"running", "paused", "ended"} \/ phase' = phase
      PROVE  InStream'
  <2>1. Graphs' = Graphs /\ \A g : SpecOf(g)' = SpecOf(g)
    BY <1>2, SameGraph
  <2>2. \A g, n : StreamKept(g, n) => StreamKept(g, n)'
    BY <1>2, <2>1 DEF StreamKept, Open, Over, Cleared, Entered, Done
  <2>. QED
    BY <1>0, <1>2, <2>1, <2>2 DEF InStream
<1>3. CASE Load \/ Halted
  BY <1>1, <1>3 DEF Load, Halted, Quit
<1>4. CASE End \/ Idled
  BY <1>2, <1>4 DEF End, Idled, config, engine
<1>5. CASE Message \/ \E p \in active : Finish(p)
  <2>1. graph' = graph
    BY <1>5, FinishRuns DEF Message, config
  <2>2. Graphs' = Graphs /\ \A g : SpecOf(g)' = SpecOf(g)
    BY <2>1, SameGraph
  <2>3. ASSUME Streams(graph), NEW g \in Graphs, Streams(SpecOf(g)), NEW n \in SpecOf(g).nodes
        PROVE  StreamKept(g, n)'
    BY <1>5, <2>3, StreamBegins, StreamCompleted, FinishParts
  <2>. QED
    BY <2>1, <2>2, <2>3 DEF InStream
<1>. QED
  BY <1>3, <1>4, <1>5, StepKinds

(* Where all of the graph flows a node has begun exactly if all before it   *)
(* are done.                                                               *)
LEMMA InFlow ==
  ASSUME WorkflowInv, phase \in {"running", "paused", "ended"}, Flows(graph), NEW n \in graph.nodes
  PROVE  /\ ran[<<Top, n.name>>] \in {0, 1}
         /\ <<Top, n.name>> \in active => ran[<<Top, n.name>>] = 0
         /\ Begun(n.name) <=> \A e \in Inbound(graph, n.name) : Ready(e)
<1>1. StreamKept(Top, n)
  BY TopGraph DEF WorkflowInv, InStream, Flows
<1>2. Inbound(graph, n.name) # {} /\ \A e \in Inbound(graph, n.name) : e.route = NoRoute
  BY DEF Flows, Names, Inbound
<1>. QED
  BY <1>1, <1>2, TopGraph DEF StreamKept, Begun, Ready, Open, Over, Cleared, Entered, Done

(* When nothing runs where the graph flows, all of it is done. *)
LEMMA AllDone ==
  ASSUME WorkflowInv, phase \in {"running", "paused", "ended"}, active = {}, Flows(graph),
         NEW n \in Names(graph)
  PROVE  Done(n)
<1>. SUFFICES ASSUME ~Done(n) PROVE FALSE
  OBVIOUS
<1>. DEFINE part == {x \in Names(graph) : ~Done(x)}
<1>1. part \in SUBSET Names(graph) /\ part # {}
  OBVIOUS
<1>2. PICK x \in part : \A e \in Inbound(graph, x) : e.source \notin part
  BY <1>1 DEF Flows, Streams
<1>3. Valid(graph)
  BY DEF WorkflowInv, GraphServed, Compiles, Levels, Level
<1>4. \A e \in Inbound(graph, x) : Ready(e)
  BY <1>2, <1>3 DEF Valid, EndpointsExist, Inbound, Ready
<1>5. PICK k \in graph.nodes : k.name = x
  BY DEF Names
<1>6. Begun(x)
  BY <1>4, <1>5, InFlow
<1>. QED
  BY <1>6 DEF Begun

-----------------------------------------------------------------------------
(* Without one who tells nothing comes to be told. *)
LEMMA UntoldStep ==
  ASSUME WorkflowInv, [Next]_vars
  PROVE  Untold'
<1>0. Untold
  BY DEF WorkflowInv
<1>1. CASE Load
  <2>1. graph = NoGraph /\ state' = state
    BY <1>1 DEF Load, WorkflowInv, GraphServed
  <2>2. state.routed_to = <<>>
    BY <1>0, <2>1 DEF Untold, Graphs, Levels, SpecOf, Level, NoGraph
  <2>. QED
    BY <2>1, <2>2 DEF Untold
<1>2. ASSUME graph' = graph, state'.routed_to = state.routed_to \/
               \E p \in Places : Tells(NodeAt(p))
      PROVE  Untold'
  <2>1. Graphs' = Graphs /\ \A g : SpecOf(g)' = SpecOf(g)
    BY <1>2, SameGraph
  <2>2. \A p \in Places : p[1] \in Graphs /\ NodeAt(p) \in SpecOf(p[1]).nodes
    BY NodeOfPlace
  <2>. QED
    BY <1>0, <1>2, <2>1, <2>2 DEF Untold
<1>3. CASE Message \/ End \/ Halted \/ Idled
  BY <1>2, <1>3 DEF Message, End, Halted, Quit, Idled, config
<1>4. CASE \E p \in active : Finish(p)
  <2>1. PICK p \in active : Finish(p)
    BY <1>4
  <2>2. graph' = graph /\ p \in Places
    BY <2>1, FinishParts, Completion
  <2>. QED
    BY <1>2, <2>1, <2>2, FinishParts
<1>. QED
  BY <1>1, <1>3, <1>4, StepKinds

(* A router that selects emits one of the routes that lead on from it.     *)
LEMMA SelectedRoute ==
  ASSUME WorkflowInv, phase \notin {"config", "refused"},
         NEW r \in graph.nodes, NEW names, Selects(graph, r, names)
  PROVE  \E e \in Outgoing(graph, r.name) : e.route = Dispatched(r)
<1>. DEFINE routes == {e.route : e \in Outgoing(graph, r.name)}
<1>1. r.default \in routes
  BY DEF Selects
<1>2. CASE r.routes = <<>>
  <2>1. state.routed_to = <<>>
    BY <1>2 DEF Selects, WorkflowInv, Untold, Graphs, SpecOf
  <2>. QED
    BY <1>1, <2>1 DEF Dispatched
<1>3. CASE r.routes # <<>>
  <2>1. Range(r.routes) \subseteq routes /\ r.does = "route_dispatch"
    BY <1>3 DEF Selects
  <2>2. DOMAIN r.routes = 1..Len(r.routes)
    BY <1>3, <2>1 DEF WorkflowInv, GraphServed, Wired, Dispatches
  <2>3. Dispatched(r) = r.default \/ Dispatched(r) \in Range(r.routes)
    <3>. DEFINE hits == {i \in DOMAIN r.routes : r.routes[i] \in state.routed_to[1].names}
    <3>1. hits # {} => Min(hits) \in DOMAIN r.routes
      <4>1. hits \subseteq Nat
        BY <2>2
      <4>. QED
        BY <4>1, LeastIsOne
    <3>. QED
      BY <1>3, <3>1 DEF Dispatched, Range
  <2>. QED
    BY <1>1, <2>1, <2>3
<1>. QED
  BY <1>2, <1>3

(* Of what follows a router that selects, the router starts one, and nothing *)
(* else starts any.                                                        *)
LEMMA ChosenCompleted ==
  ASSUME WorkflowInv, NEW p \in active, Finish(p),
         NEW r \in graph.nodes, NEW names \in SUBSET Names(graph), Selects(graph, r, names)
  PROVE  ChosenOne(r, names)'
<1>0. Top \in Graphs /\ SpecOf(Top) = graph
  BY TopGraph
<1>. DEFINE t == <<Top, r.name>>
<1>1. /\ Wired(graph) /\ t \in Places /\ NodeAt(t) = r /\ r.does = "route_dispatch"
      /\ phase = "running"
  BY <1>0, FinishParts, Completion, PlaceOfNode DEF Selects
<1>2. p = t => Complete(p, Dispatched(r))
  BY <1>1, FinishParts DEF Does, RouteDispatch
<1>. HIDE DEF t
<1>3. PICK route : Complete(p, route) /\ (p = t => route = Dispatched(r))
  BY <1>2, FinishParts
<1>4. /\ Compiles(graph) /\ p \in Places
      /\ ran[p] \in 0..MaxTimes
      /\ ran'[p] = IF ran[p] < MaxTimes THEN ran[p] + 1 ELSE ran[p]
      /\ \A q \in Places : q # p => ran'[q] = ran[q]
  BY <1>3, Completion
<1>. DEFINE Starts(x) == <<Top, x>> \in StartedBy(p, route)
<1>5. ASSUME NEW n \in graph.nodes
      PROVE  /\ StreamKept(Top, n)
             /\ Begun(n.name)' <=> Begun(n.name) \/ Starts(n.name)
             /\ Starts(n.name) => ~Begun(n.name)
  <2>1. Streams(graph)
    BY DEF Selects
  <2>2. /\ Open(<<Top, n.name>>)' <=> Open(<<Top, n.name>>) \/ Starts(n.name)
        /\ Starts(n.name) => ~Open(<<Top, n.name>>)
    BY <1>0, <1>3, <2>1, StreamCompleted
  <2>3. StreamKept(Top, n)
    BY <1>0, <1>1, <2>1 DEF WorkflowInv, InStream
  <2>. QED
    BY <2>2, <2>3 DEF Open, Over, Begun, Done
<1>6. ASSUME NEW a \in names
      PROVE  /\ \E n \in graph.nodes : n.name = a
             /\ \E e \in Outgoing(graph, r.name) : e.target = a /\ Inbound(graph, a) = {e}
  <2>1. \E n \in graph.nodes : n.name = a
    BY DEF Names
  <2>2. PICK e \in Outgoing(graph, r.name) : e.target = a
    BY DEF Selects
  <2>3. Inbound(graph, a) = {e}
    BY <2>2 DEF Selects
  <2>. QED
    BY <2>1, <2>2, <2>3
<1>7. \A a \in names : /\ Begun(a)' <=> Begun(a) \/ Starts(a)
                       /\ Starts(a) => ~Begun(a)
  BY <1>5, <1>6
<1>8. r.name # START
  BY <1>0, <1>1, <1>4, EndpointsOf DEF Names
<1>9. \A a \in names : Begun(a) => Done(r.name)
  <2>. SUFFICES ASSUME NEW a \in names, Begun(a) PROVE Done(r.name)
    OBVIOUS
  <2>1. PICK n \in graph.nodes : n.name = a
    BY <1>6
  <2>2. PICK e \in Inbound(graph, a) : e.source = r.name
    BY <1>6 DEF Outgoing
  <2>3. Open(<<Top, n.name>>)
    BY <2>1 DEF Begun, Open, Over, Done
  <2>4. Cleared(Top, e)
    BY <1>0, <1>5, <2>1, <2>2, <2>3 DEF StreamKept
  <2>. QED
    BY <1>8, <2>2, <2>4 DEF Cleared, Over, Done
<1>10. ASSUME NEW a \in names, Starts(a)
       PROVE  p = t /\ \E e \in Fired(p, route) : e.target = a
  <2>1. p = <<Top, p[2]>> /\ \E e \in Fired(p, route) : e.target = a /\ e.source = p[2] /\ e \in graph.edges
    BY <1>1, <1>4, <1>10, TopStarted
  <2>2. PICK e \in Fired(p, route) : e.target = a /\ e.source = p[2] /\ e \in graph.edges
    BY <2>1
  <2>3. e \in Inbound(graph, a)
    BY <2>2 DEF Inbound
  <2>4. p[2] = r.name
    BY <1>6, <2>2, <2>3 DEF Outgoing
  <2>. QED
    BY <2>1, <2>2, <2>4 DEF t
<1>11. CASE p # t
  <2>1. \A a \in names : Begun(a)' <=> Begun(a)
    BY <1>7, <1>10, <1>11
  <2>2. Done(r.name)' <=> Done(r.name)
    BY <1>1, <1>4, <1>11 DEF Done, t
  <2>3. ChosenOne(r, names)
    BY <1>1 DEF WorkflowInv, Chosen
  <2>. QED
    BY <2>1, <2>2, <2>3 DEF ChosenOne
<1>12. CASE p = t
  <2>1. ~Done(r.name)
    <3>1. ran[<<Top, r.name>>] = 0
      BY <1>5, <1>12 DEF StreamKept, t
    <3>. QED
      BY <3>1 DEF Done
  <2>2. \A a \in names : Begun(a)' <=> Starts(a)
    BY <1>7, <1>9, <2>1
  <2>3. p[1] = Top /\ p[2] = r.name
    BY <1>12 DEF t
  <2>4. Outgoing(SpecOf(p[1]), p[2]) = Outgoing(graph, r.name)
    BY <1>0, <2>3
  <2>5. \A e \in Outgoing(graph, r.name) : e.route # NoRoute /\ e.route # DEFAULT_ROUTE
    BY DEF Selects
  <2>6. PICK e \in Outgoing(graph, r.name) : e.route = Dispatched(r)
    BY <1>1, SelectedRoute
  <2>7. Fired(p, route) = {e}
    <3>1. \A f \in Outgoing(graph, r.name) : f.route = e.route => f = e
      BY DEF Selects
    <3>2. route = e.route /\ route # NoRoute
      BY <1>3, <1>12, <2>5, <2>6
    <3>. QED
      BY <2>4, <2>5, <2>6, <3>1, <3>2 DEF Fired
  <2>8. e.target \in names /\ Inbound(graph, e.target) = {e}
    BY <2>6 DEF Selects
  <2>9. Starts(e.target)
    <3>1. PICK n \in graph.nodes : n.name = e.target
      BY <1>6, <2>8
    <3>2. n.kind # "join"
      <4>1. Cardinality(Inbound(graph, n.name)) = 1
        BY <2>8, <3>1, FS_Singleton
      <4>2. Valid(graph)
        BY <1>0, <1>1, <1>4, EndpointsOf
      <4>. QED
        BY <4>1, <4>2 DEF Valid
    <3>3. NodeAt(<<p[1], e.target>>) = n
      BY <1>0, <1>1, <2>3, <3>1, PlaceOfNode
    <3>4. <<p[1], e.target>> \in StartedBy(p, route)
      BY <1>1, <1>4, <2>7, <3>2, <3>3, StartedByParts
    <3>. QED
      BY <2>3, <3>4
  <2>10. \A a \in names : Starts(a) => a = e.target
    BY <1>10, <2>7
  <2>. HIDE DEF Starts
  <2>. QED
    BY <2>2, <2>8, <2>9, <2>10 DEF ChosenOne
<1>. QED
  BY <1>11, <1>12

(* Every step keeps what has been chosen. *)
LEMMA ChosenStep ==
  ASSUME WorkflowInv, [Next]_vars
  PROVE  Chosen'
<1>0. Chosen
  BY DEF WorkflowInv
<1>1. ASSUME phase' \notin {"running", "paused", "ended"} PROVE Chosen'
  BY <1>1 DEF Chosen
<1>2. ASSUME UNCHANGED <<graph, active, ran>>,
             phase \in {"running", "paused", "ended"} \/ phase' = phase
      PROVE  Chosen'
  BY <1>0, <1>2 DEF Chosen, ChosenOne, Begun, Done
<1>3. CASE Load \/ Halted
  BY <1>1, <1>3 DEF Load, Halted, Quit
<1>4. CASE End \/ Idled
  BY <1>2, <1>4 DEF End, Idled, config, engine
<1>5. CASE Message
  <2>. SUFFICES ASSUME NEW r \in graph.nodes, NEW names \in SUBSET Names(graph),
                       Selects(graph, r, names)
                PROVE  ChosenOne(r, names)'
    <3>1. graph' = graph
      BY <1>5 DEF Message, config
    <3>. QED
      BY <3>1 DEF Chosen
  <2>1. Wired(graph) /\ Compiles(graph)
    BY <1>5 DEF Message, WorkflowInv, GraphServed
  <2>2. Top \in Graphs /\ SpecOf(Top) = graph
    BY TopGraph
  <2>3. ran' = [p \in Places |-> 0] /\ graph' = graph
    BY <1>5 DEF Message, config
  <2>4. \A x \in Names(graph) : ~Done(x)'
    BY <2>2, <2>3, PlaceParts DEF Done
  <2>5. r.name \in Names(graph) /\ r.name # START
    BY <2>1, <2>2, EndpointsOf DEF Names
  <2>6. ASSUME NEW a \in names, Begun(a)' PROVE FALSE
    <3>1. PICK n \in graph.nodes : n.name = a
      BY DEF Names
    <3>2. PICK e \in Inbound(graph, a) : e.source = r.name
      BY DEF Selects, Outgoing
    <3>3. StreamKept(Top, n)'
      BY <1>5, <2>2, StreamBegins DEF Selects
    <3>4. SpecOf(Top)' = graph
      BY <2>2, <2>3, SameGraph
    <3>5. Open(<<Top, n.name>>)'
      BY <2>6, <3>1 DEF Begun, Open, Over, Done
    <3>6. Cleared(Top, e)'
      BY <3>1, <3>2, <3>3, <3>4, <3>5 DEF StreamKept
    <3>. QED
      BY <2>4, <2>5, <3>2, <3>6 DEF Cleared, Over, Done
  <2>. QED
    BY <2>4, <2>5, <2>6 DEF ChosenOne
<1>6. CASE \E p \in active : Finish(p)
  <2>1. graph' = graph
    BY <1>6, FinishRuns
  <2>. QED
    BY <1>6, <2>1, ChosenCompleted DEF Chosen
<1>. QED
  BY <1>3, <1>4, <1>5, <1>6, StepKinds

-----------------------------------------------------------------------------
(* A nested graph is done when nothing runs in it, and starts with its own. *)
LEMMA NestedStep ==
  ASSUME WorkflowInv, [Next]_vars
  PROVE  Nested'
<1>0. Nested
  BY DEF WorkflowInv
<1>1. CASE Load \/ End \/ Halted \/ Idled
  BY <1>0, <1>1 DEF Load, End, Halted, Quit, Idled, config, engine, Nested
<1>2. CASE Message
  <2>1. active' = StartedAtOnce /\ Wired(graph) /\ Compiles(graph)
    BY <1>2 DEF Message, WorkflowInv, GraphServed
  <2>. QED
    BY <2>1, AtOnceParts DEF Nested
<1>3. CASE \E p \in active : Finish(p)
  <2>1. PICK p \in active : Finish(p)
    BY <1>3
  <2>2. PICK route : Complete(p, route)
    BY <2>1, FinishParts
  <2>3. /\ Wired(graph) /\ Compiles(graph) /\ p \in Places
        /\ active' = (active \ {p}) \union StartedBy(p, route)
    BY <2>1, <2>2, Completion
  <2>4. p = <<p[1], p[2]>> /\ NodeAt(p) \in SpecOf(p[1]).nodes /\ NodeAt(p).name = p[2]
    BY <2>3, NodeOfPlace
  <2>5. ASSUME NEW q \in active, q[1] # Top PROVE <<Top, q[1]>> \in active /\ p # <<Top, q[1]>>
    <3>1. <<Top, q[1]>> \in active
      BY <1>0, <2>5 DEF Nested
    <3>2. ASSUME p = <<Top, q[1]>> PROVE FALSE
      <4>1. p[1] = Top /\ p[2] = q[1] /\ q[1] \in Graphs
        BY <2>5, <3>2, NodeOfPlace DEF WorkflowInv, RunTypes
      <4>2. PICK m \in graph.nodes : m.kind = "graph" /\ m.name = q[1]
        BY <2>5, <4>1 DEF Graphs, Levels
      <4>3. NodeAt(<<Top, m.name>>) = m
        BY <2>3, <4>2, PlaceOfNode DEF Graphs, Levels, SpecOf, Level
      <4>4. NodeAt(p).kind = "graph"
        BY <3>2, <4>2, <4>3
      <4>5. \A r \in active : r[1] # p[2]
        BY <2>1, <4>4, FinishParts DEF PassGraph
      <4>. QED
        BY <4>1, <4>5
    <3>. QED
      BY <3>1, <3>2
  <2>6. ASSUME NEW q \in StartedBy(p, route), q[1] # Top PROVE <<Top, q[1]>> \in active'
    <3>1. CASE q[1] = p[1]
      BY <2>3, <2>5, <2>6, <3>1
    <3>2. CASE q[1] # p[1]
      BY <2>3, <3>2, StartedByParts
    <3>. QED
      BY <3>1, <3>2
  <2>. QED
    BY <2>3, <2>5, <2>6 DEF Nested
<1>. QED
  BY <1>1, <1>2, <1>3, StepKinds

(* When the aggregation has begun, all the rest is done. *)
LEMMA AggregatorLast ==
  ASSUME WorkflowInv, phase \in {"running", "paused", "ended"},
         Perspectives(graph), Aggregator \in Names(graph), Begun(Aggregator)
  PROVE  /\ \A x \in Names(graph) : x = Aggregator \/ Done(x)
         /\ \A q \in active : q = <<Top, Aggregator>>
<1>1. Wired(graph) /\ Valid(graph)
  BY DEF WorkflowInv, GraphServed, Compiles, Levels, Level
<1>2. /\ Flows(graph) /\ IsFiniteSet(graph.nodes) /\ START \notin Names(graph)
      /\ \A x \in Names(graph) : x = Aggregator \/ Outgoing(graph, x) # {}
  BY <1>1 DEF Wired, Named, Gathers, Levels, Level
<1>3. \A e \in graph.edges : e.target \in Names(graph)
  BY <1>1 DEF Valid, EndpointsExist
<1>4. \A e \in graph.edges : Begun(e.target) => Ready(e)
  <2>. SUFFICES ASSUME NEW e \in graph.edges, Begun(e.target) PROVE Ready(e)
    OBVIOUS
  <2>1. PICK m \in graph.nodes : m.name = e.target
    BY <1>3 DEF Names
  <2>2. Begun(m.name) => \A f \in Inbound(graph, m.name) : Ready(f)
    BY <1>2, <2>1, InFlow
  <2>. QED
    BY <2>1, <2>2 DEF Inbound
<1>5. ASSUME NEW x \in Names(graph), x # Aggregator, ~Done(x) PROVE FALSE
  <2>. DEFINE X == {y \in Names(graph) : y # Aggregator /\ ~Done(y)}
  <2>1. X \in SUBSET Names(graph) /\ X # {}
    BY <1>5
  <2>. HIDE DEF X
  <2>2. PICK y \in X : \A e \in graph.edges : e.source = y => e.target \notin X
    BY <1>2, <2>1, EndExists DEF Flows
  <2>3. PICK e \in graph.edges : e.source = y
    BY <1>2, <2>1, <2>2 DEF Outgoing, X
  <2>4. e.target = Aggregator \/ Done(e.target)
    BY <1>3, <2>2, <2>3 DEF X
  <2>5. Ready(e)
    BY <1>4, <2>4 DEF Begun
  <2>. QED
    BY <1>2, <2>2, <2>3, <2>5 DEF Ready, X
<1>6. ASSUME NEW x \in Names(graph), <<Top, x>> \in active PROVE x = Aggregator
  <2>1. PICK m \in graph.nodes : m.name = x
    BY DEF Names
  <2>2. ran[<<Top, x>>] = 0
    BY <1>2, <1>6, <2>1, InFlow
  <2>. QED
    BY <1>5, <2>2 DEF Done
<1>7. ASSUME NEW q \in active PROVE q = <<Top, Aggregator>>
  <2>1. q = <<q[1], q[2]>> /\ q[1] \in Graphs /\ q[2] \in Names(SpecOf(q[1]))
    BY NodeOfPlace DEF WorkflowInv, RunTypes
  <2>2. CASE q[1] = Top
    <3>1. q[2] \in Names(graph) /\ <<Top, q[2]>> \in active
      BY <2>1, <2>2 DEF SpecOf, Level
    <3>. QED
      BY <1>6, <2>1, <2>2, <3>1
  <2>3. CASE q[1] # Top
    <3>1. PICK m \in graph.nodes : m.kind = "graph" /\ m.name = q[1]
      BY <2>1, <2>3 DEF Graphs, Levels
    <3>2. <<Top, q[1]>> \in active /\ q[1] \in Names(graph)
      BY <2>3, <3>1 DEF WorkflowInv, Nested, Names
    <3>3. m.name = Aggregator
      BY <1>6, <3>1, <3>2
    <3>4. PICK k \in graph.nodes : k.name = Aggregator /\ k.does = "aggregate_perspectives"
      BY <1>1 DEF Wired, Gathers
    <3>5. k = m /\ k.kind = "function"
      BY <1>1, <3>1, <3>3, <3>4 DEF Wired, Named, Levels, Level
    <3>. QED
      BY <3>1, <3>5
  <2>. QED
    BY <2>2, <2>3
<1>. QED
  BY <1>5, <1>7

(* Nothing is written when the aggregation is done. *)
LEMMA GatheredStep ==
  ASSUME WorkflowInv, [Next]_vars
  PROVE  Gathered'
<1>0. Gathered /\ RunTypes
  BY DEF WorkflowInv
<1>1. ASSUME UNCHANGED <<graph, ran, state>>,
             phase \in {"running", "paused", "ended"} \/ phase' = phase
                \/ phase' \notin {"running", "paused", "ended"}
      PROVE  Gathered'
  BY <1>0, <1>1 DEF Gathered, Done
<1>2. CASE Load
  <2>1. graph = NoGraph /\ phase' \notin {"running", "paused", "ended"} /\ state' = state
    BY <1>2 DEF Load, WorkflowInv, GraphServed
  <2>2. ~Perspectives(graph)
    BY <2>1 DEF Perspectives, Levels, Level, NoGraph
  <2>. QED
    BY <1>0, <2>1, <2>2 DEF Gathered
<1>3. CASE End \/ Halted \/ Idled
  BY <1>1, <1>3 DEF End, Halted, Quit, Idled, config, engine
<1>4. CASE Message
  <2>1. graph' = graph /\ state' = state /\ ran' = [p \in Places |-> 0]
    BY <1>4 DEF Message, config
  <2>2. Aggregator \in Names(graph) => ~Done(Aggregator)'
    <3>1. Aggregator \in Names(graph) => <<Top, Aggregator>> \in Places
      BY PlaceParts DEF Graphs, Levels, SpecOf, Level
    <3>. QED
      BY <2>1, <3>1 DEF Done
  <2>. QED
    BY <1>0, <2>1, <2>2 DEF Gathered
<1>5. CASE \E p \in active : Finish(p)
  <2>1. PICK p \in active : Finish(p)
    BY <1>5
  <2>2. PICK route : Complete(p, route)
    BY <2>1, FinishParts
  <2>3. /\ phase = "running" /\ graph' = graph /\ Wired(graph) /\ Compiles(graph) /\ p \in Places
        /\ \A q \in Places : q # p => ran'[q] = ran[q]
    BY <2>1, <2>2, Completion
  <2>4. /\ \/ state'.perspective = state.perspective
           \/ /\ Writes(NodeAt(p))
              /\ state'.perspective = Put(state.perspective, NodeAt(p).key[2], run)
        /\ AggregatePerspectives(p) \/ state'.aggregated = state.aggregated
        /\ AggregatePerspectives(p) =>
             /\ state'.aggregated = Collected(state.perspective)
             /\ state'.perspective = state.perspective
        /\ Does(p, "aggregate_perspectives") => AggregatePerspectives(p)
    BY <2>1, FinishParts
  <2>5. NodeAt(p) \in SpecOf(p[1]).nodes /\ p[1] \in Graphs
    BY <2>3, NodeOfPlace
  <2>6. Writes(NodeAt(p)) => Perspectives(graph) /\ NodeAt(p).key[2] \in Nat
    BY <2>3, <2>5 DEF Perspectives, SpecOf, Graphs, Wired, Named
  <2>7. IsFiniteSet(DOMAIN state'.perspective) /\ DOMAIN state'.perspective \subseteq Nat
    <3>1. CASE state'.perspective = state.perspective
      BY <1>0, <3>1 DEF Gathered
    <3>2. CASE /\ Writes(NodeAt(p))
               /\ state'.perspective = Put(state.perspective, NodeAt(p).key[2], run)
      <4>1. DOMAIN state'.perspective = DOMAIN state.perspective \union {NodeAt(p).key[2]}
        BY <3>2 DEF Put
      <4>. QED
        BY <1>0, <2>6, <3>2, <4>1, FS_AddElement DEF Gathered
    <3>. QED
      BY <2>4, <3>1, <3>2
  <2>8. ASSUME ~Perspectives(graph)
        PROVE  DOMAIN state'.perspective = {} /\ DOMAIN state'.aggregated = {}
    <3>1. state'.perspective = state.perspective /\ DOMAIN state.perspective = {}
          /\ DOMAIN state.aggregated = {}
      BY <1>0, <2>4, <2>6, <2>8 DEF Gathered
    <3>2. DOMAIN Collected(state.perspective) = {}
      <4>1. Sorted({}) \in [1..Cardinality({}) -> {}]
        BY SortedInOrder, FS_EmptySet
      <4>2. DOMAIN Sorted({}) = {}
        BY <4>1, FS_EmptySet
      <4>. QED
        BY <3>1, <4>2 DEF Collected
    <3>. QED
      BY <2>4, <3>1, <3>2
  <2>9. ASSUME Perspectives(graph), Aggregator \in Names(graph), Done(Aggregator)'
        PROVE  state'.aggregated = Collected(state'.perspective)
    <3>1. CASE AggregatePerspectives(p)
      BY <2>4, <3>1
    <3>2. CASE ~AggregatePerspectives(p)
      <4>1. p # <<Top, Aggregator>>
        <5>. SUFFICES ASSUME p = <<Top, Aggregator>> PROVE FALSE
          OBVIOUS
        <5>1. PICK k \in graph.nodes : k.name = Aggregator /\ k.does = "aggregate_perspectives"
          BY <2>3, <2>9 DEF Wired, Gathers
        <5>2. NodeAt(<<Top, k.name>>) = k
          BY <2>3, <5>1, PlaceOfNode DEF Graphs, Levels, SpecOf, Level
        <5>. QED
          BY <2>4, <3>2, <5>1, <5>2 DEF Does
      <4>2. <<Top, Aggregator>> \in Places
        BY <2>9, PlaceParts DEF Graphs, Levels, SpecOf, Level
      <4>3. Done(Aggregator)
        BY <2>3, <2>9, <4>1, <4>2 DEF Done
      <4>4. p = <<Top, Aggregator>>
        BY <2>3, <2>9, <4>3, AggregatorLast DEF Begun
      <4>. QED
        BY <4>1, <4>4
    <3>. QED
      BY <3>1, <3>2
  <2>. QED
    BY <2>3, <2>7, <2>8, <2>9 DEF Gathered
<1>. QED
  BY <1>2, <1>3, <1>4, <1>5, StepKinds

-----------------------------------------------------------------------------
(* A graph is one loop at most. *)
LEMMA LoopUnique ==
  ASSUME NEW level, NEW b1, NEW c1, NEW b2, NEW c2, b2 # START,
         Looped(level, b1, c1), Looped(level, b2, c2)
  PROVE  b1 = b2 /\ c1 = c2
<1>1. Edge(START, b1, NoRoute) \in
        {Edge(START, b2, NoRoute), Edge(b2, c2, NoRoute), Edge(c2, b2, AGAIN_ROUTE)}
  BY DEF Looped
<1>2. Edge(c1, b1, AGAIN_ROUTE) \in
        {Edge(START, b2, NoRoute), Edge(b2, c2, NoRoute), Edge(c2, b2, AGAIN_ROUTE)}
  BY DEF Looped
<1>3. NoRoute # AGAIN_ROUTE
  BY DEF NoRoute, AGAIN_ROUTE
<1>. QED
  BY <1>1, <1>2, <1>3 DEF Edge

(* What the wiring says of a loop. *)
LEMMA LoopWired ==
  ASSUME Wired(graph), NEW g \in Graphs, NEW n \in LoopsAt(g),
         NEW body \in Names(SpecOf(g)), Looped(SpecOf(g), body, n.name)
  PROVE  /\ n \in SpecOf(g).nodes /\ n.does = "loop_counter" /\ n.max \in 1..MaxTimes
         /\ body # n.name /\ body # START /\ n.name # START
         /\ <<g, body>> \in Places /\ <<g, n.name>> \in Places /\ NodeAt(<<g, n.name>>) = n
         /\ \A m \in SpecOf(g).nodes : m.kind # "join"
         /\ g # Top => Flows(graph)
         /\ \A m \in LoopsAt(g) : m = n
         /\ \A h \in Graphs : \A m \in LoopsAt(h) : m.name = n.name => h = g
<1>1. /\ n \in SpecOf(g).nodes /\ n.does = "loop_counter" /\ n.max \in 1..MaxTimes
      /\ g # Top => Flows(graph)
      /\ \A h \in Graphs : \A m \in LoopsAt(h) : m.name = n.name => h = g
  BY DEF Wired, LoopsApart, LoopsAt, Loops, SpecOf, Graphs
<1>2. START \notin Names(SpecOf(g)) /\ \A k, m \in SpecOf(g).nodes : m.name = k.name => m = k
  BY DEF Wired, Named, SpecOf, Graphs
<1>3. n.name \in Names(SpecOf(g))
  BY <1>1 DEF Names
<1>4. <<g, body>> \in Places /\ <<g, n.name>> \in Places /\ NodeAt(<<g, n.name>>) = n
  BY <1>1, <1>3, PlaceParts, PlaceOfNode
<1>5. body # n.name /\ \A m \in SpecOf(g).nodes : m.kind # "join"
  BY DEF Looped
<1>6. ASSUME NEW m \in LoopsAt(g) PROVE m = n
  <2>1. m \in SpecOf(g).nodes /\ \E b \in Names(SpecOf(g)) : Looped(SpecOf(g), b, m.name)
    BY DEF Wired, LoopsApart, LoopsAt, Loops, SpecOf, Graphs
  <2>2. m.name = n.name
    BY <1>2, <2>1, LoopUnique
  <2>. QED
    BY <1>1, <1>2, <2>1, <2>2
<1>. QED
  BY <1>1, <1>2, <1>3, <1>4, <1>5, <1>6

(* What is done where for a node of a loop to start: the body for its       *)
(* counter, the counter for its body, and what comes before the loop.      *)
LEMMA LoopStarted ==
  ASSUME Wired(graph), Compiles(graph), NEW g \in Graphs, NEW n \in LoopsAt(g),
         NEW body \in Names(SpecOf(g)), Looped(SpecOf(g), body, n.name),
         NEW p \in Places, NEW route, NEW x
  PROVE  <<g, x>> \in StartedBy(p, route) <=>
           \/ p = <<g, body>> /\ x = n.name
           \/ p = <<g, n.name>> /\ x = body /\ route = AGAIN_ROUTE
           \/ p[1] # g /\ g # Top /\ x = body /\ <<Top, g>> \in StartedBy(p, route)
<1>0. /\ body # n.name /\ body # START /\ n.name # START
      /\ <<g, body>> \in Places /\ <<g, n.name>> \in Places
      /\ \A m \in SpecOf(g).nodes : m.kind # "join"
  BY LoopWired
<1>1. p = <<p[1], p[2]>> /\ p[2] # START
  BY NodeOfPlace DEF Wired, Named, SpecOf, Graphs
<1>2. SpecOf(g).edges = {Edge(START, body, NoRoute), Edge(body, n.name, NoRoute),
                         Edge(n.name, body, AGAIN_ROUTE)}
  BY DEF Looped
<1>3. \A q \in Places : q[1] = g => NodeAt(q).kind # "join"
  BY <1>0, NodeOfPlace
<1>4. CASE p[1] = g
  <2>1. ASSUME NEW e \in Fired(p, route)
        PROVE  \/ p[2] = body /\ e.target = n.name
               \/ p[2] = n.name /\ e.target = body /\ route = AGAIN_ROUTE
    <3>1. /\ e \in SpecOf(g).edges /\ e.source = p[2]
          /\ e.route = NoRoute \/ e.route = DEFAULT_ROUTE \/ e.route = route
      BY <1>4, FiredParts
    <3>. QED
      BY <1>1, <1>2, <3>1 DEF Edge, NoRoute, DEFAULT_ROUTE, AGAIN_ROUTE
  <2>2. p[2] = body => Edge(body, n.name, NoRoute) \in Fired(p, route)
    BY <1>2, <1>4 DEF Fired, Outgoing, Edge
  <2>3. p[2] = n.name /\ route = AGAIN_ROUTE => Edge(n.name, body, AGAIN_ROUTE) \in Fired(p, route)
    BY <1>2, <1>4 DEF Fired, Outgoing, Edge, AGAIN_ROUTE, NoRoute
  <2>4. \A e \in Fired(p, route) : <<p[1], e.target>> \in StartedBy(p, route)
    <3>. SUFFICES ASSUME NEW e \in Fired(p, route) PROVE <<p[1], e.target>> \in StartedBy(p, route)
      OBVIOUS
    <3>1. e.target \in {body, n.name}
      BY <2>1
    <3>2. PICK q : q = <<p[1], e.target>>
      OBVIOUS
    <3>3. q \in Places /\ q[1] = g
      BY <1>0, <1>4, <3>1, <3>2
    <3>. QED
      BY <1>3, <3>2, <3>3, StartedByParts
  <2>5. ASSUME <<g, x>> \in StartedBy(p, route)
        PROVE  \E e \in Fired(p, route) : e.target = x
    <3>1. PICK q : q = <<g, x>>
      OBVIOUS
    <3>2. \E e \in Fired(p, route) : q = <<p[1], e.target>>
      BY <1>4, <2>5, <3>1, StartedByParts
    <3>. QED
      BY <3>1, <3>2
  <2>6. Edge(body, n.name, NoRoute).target = n.name /\ Edge(n.name, body, AGAIN_ROUTE).target = body
    BY DEF Edge
  <2>7. CASE <<g, x>> \in StartedBy(p, route)
    BY <1>1, <1>4, <2>1, <2>5, <2>7
  <2>8. CASE p = <<g, body>> /\ x = n.name
    <3>1. p[2] = body
      BY <2>8
    <3>. QED
      BY <1>4, <2>2, <2>4, <2>6, <2>8, <3>1
  <2>9. CASE p = <<g, n.name>> /\ x = body /\ route = AGAIN_ROUTE
    <3>1. p[2] = n.name
      BY <2>9
    <3>. QED
      BY <1>4, <2>3, <2>4, <2>6, <2>9, <3>1
  <2>. QED
    BY <1>4, <2>7, <2>8, <2>9
<1>5. CASE p[1] # g
  <2>1. ASSUME <<g, x>> \in StartedBy(p, route)
        PROVE  g # Top /\ x = body /\ <<Top, g>> \in StartedBy(p, route)
    <3>1. PICK q : q = <<g, x>>
      OBVIOUS
    <3>2. q[1] = g /\ q[2] = x /\ q \in StartedBy(p, route) /\ q[1] # p[1]
      BY <1>5, <2>1, <3>1
    <3>3. p[1] = Top /\ <<Top, g>> \in StartedBy(p, route)
      BY <3>2, StartedByParts
    <3>4. PICK e \in Outgoing(SpecOf(g), START) : q = <<g, e.target>>
      BY <3>2, StartedByParts
    <3>5. e.target = body
      BY <1>0, <1>2, <3>4 DEF Outgoing, Edge
    <3>6. x = body
      BY <3>1, <3>4, <3>5
    <3>. QED
      BY <1>5, <3>3, <3>6
  <2>2. ASSUME g # Top, x = body, <<Top, g>> \in StartedBy(p, route)
        PROVE  <<g, x>> \in StartedBy(p, route)
    <3>1. Edge(START, body, NoRoute) \in Outgoing(SpecOf(g), START)
          /\ Edge(START, body, NoRoute).target = body
      BY <1>2 DEF Outgoing, Edge
    <3>. QED
      BY <2>2, <3>1, StartedByParts
  <2>3. p # <<g, body>> /\ p # <<g, n.name>>
    BY <1>5
  <2>. QED
    BY <1>5, <2>1, <2>2, <2>3
<1>. QED
  BY <1>4, <1>5

(* What a loop's counter counts, nothing else does. *)
LEMMA CountedApart ==
  ASSUME WorkflowInv, NEW p \in active, Finish(p), NEW g \in Graphs, NEW n \in LoopsAt(g),
         p # <<g, n.name>>
  PROVE  /\ n.name \in DOMAIN state'.counts <=> n.name \in DOMAIN state.counts
         /\ n.name \in DOMAIN state.counts => state'.counts[n.name] = state.counts[n.name]
<1>1. Wired(graph) /\ p \in Places
  BY FinishParts, Completion
<1>2. CASE ~Does(p, "loop_counter")
  BY <1>2, FinishParts
<1>3. CASE Does(p, "loop_counter")
  <2>1. NodeAt(p) \in LoopsAt(p[1]) /\ NodeAt(p).name = p[2] /\ p[1] \in Graphs /\ p = <<p[1], p[2]>>
    BY <1>1, <1>3, NodeOfPlace DEF LoopsAt, Loops, Does, SpecOf
  <2>2. p[2] # n.name
    <3>. SUFFICES ASSUME p[2] = n.name PROVE FALSE
      OBVIOUS
    <3>1. p[1] = g
      BY <1>1, <2>1 DEF Wired, LoopsApart, LoopsAt, SpecOf, Graphs
    <3>. QED
      BY <2>1, <3>1
  <2>3. \E c : state' = [state EXCEPT !.counts = Put(@, p[2], c)]
    BY <1>3, FinishParts DEF LoopCounter
  <2>4. "counts" \in DOMAIN state
    BY DEF WorkflowInv, RunTypes, StateFields
  <2>5. PICK c : state'.counts = Put(state.counts, p[2], c)
    BY <2>3, <2>4
  <2>. QED
    BY <2>2, <2>5 DEF Put
<1>. QED
  BY <1>2, <1>3

(* A loop's counter counts one more, and asks for another iteration below   *)
(* the bound.                                                              *)
LEMMA CountedOnce ==
  ASSUME WorkflowInv, NEW g \in Graphs, NEW n \in LoopsAt(g),
         <<g, n.name>> \in active, NodeAt(<<g, n.name>>) = n, Finish(<<g, n.name>>)
  PROVE  /\ n.name \in DOMAIN state'.counts
         /\ state'.counts[n.name] = Count(n.name) + 1
         /\ Complete(<<g, n.name>>, IF Count(n.name) + 1 < n.max THEN AGAIN_ROUTE ELSE NoRoute)
<1>. DEFINE p == <<g, n.name>>
<1>1. Does(p, "loop_counter") /\ p[2] = n.name /\ NodeAt(p) = n
  BY DEF LoopsAt, Loops, Does
<1>. HIDE DEF p
<1>2. LoopCounter(p)
  BY <1>1, FinishParts DEF p
<1>3. "counts" \in DOMAIN state
  BY DEF WorkflowInv, RunTypes, StateFields
<1>4. state' = [state EXCEPT !.counts = Put(@, n.name, Count(n.name) + 1)]
  BY <1>1, <1>2 DEF LoopCounter
<1>5. state'.counts = Put(state.counts, n.name, Count(n.name) + 1)
  BY <1>3, <1>4
<1>6. n.name \in DOMAIN state'.counts /\ state'.counts[n.name] = Count(n.name) + 1
  BY <1>5 DEF Put
<1>7. Complete(p, IF Count(n.name) + 1 < n.max THEN AGAIN_ROUTE ELSE NoRoute)
  BY <1>1, <1>2 DEF LoopCounter
<1>. QED
  BY <1>6, <1>7 DEF p

(* Counts are numbers. *)
LEMMA CountIsNat ==
  ASSUME WorkflowInv, NEW g \in Graphs, NEW n \in LoopsAt(g)
  PROVE  Count(n.name) \in Nat
BY DEF WorkflowInv, CountsBounded, Counted, Count

(* The loop's promise survives the end of any place. *)
LEMMA LoopCompleted ==
  ASSUME WorkflowInv, NEW p \in active, Finish(p), NEW g \in Graphs, NEW n \in LoopsAt(g),
         NEW body \in Names(SpecOf(g)), Looped(SpecOf(g), body, n.name)
  PROVE  LoopKept(g, body, n)'
<1>. DEFINE b == <<g, body>>
            c == <<g, n.name>>
            t == <<Top, g>>
<1>1. PICK route : Complete(p, route)
  BY FinishParts
<1>2. /\ phase = "running" /\ UNCHANGED <<graph, run, fresh>>
      /\ Wired(graph) /\ Compiles(graph) /\ p \in Places
      /\ active' = (active \ {p}) \union StartedBy(p, route)
      /\ ran[p] \in 0..MaxTimes
      /\ ran'[p] = IF ran[p] < MaxTimes THEN ran[p] + 1 ELSE ran[p]
      /\ \A q \in Places : q # p => ran'[q] = ran[q]
  BY <1>1, Completion
<1>3. /\ n \in SpecOf(g).nodes /\ n.max \in 1..MaxTimes
      /\ body # n.name /\ b \in Places /\ c \in Places /\ NodeAt(c) = n
      /\ g # Top => Flows(graph)
  BY <1>2, LoopWired
<1>4. /\ b \in active => c \notin active
      /\ g # Top /\ (b \in active \/ c \in active) => t \in active
      /\ ~Left(g, body, n) =>
           /\ Count(n.name) < n.max \/ Counted(g, n, 2)
           /\ fresh => ran[c] = Count(n.name) /\ Count(n.name) < n.max
      /\ Left(g, body, n) /\ fresh => ran[c] = n.max
  BY <1>2 DEF WorkflowInv, LoopsKept, LoopKept
<1>5. \A x : <<g, x>> \in StartedBy(p, route) <=>
           \/ p = b /\ x = n.name
           \/ p = c /\ x = body /\ route = AGAIN_ROUTE
           \/ p[1] # g /\ g # Top /\ x = body /\ t \in StartedBy(p, route)
  BY <1>2, LoopStarted
<1>6. Left(g, body, n) <=> (g = Top \/ t \in active \/ ran[t] = 1) /\ b \notin active /\ c \notin active
  BY DEF Left, Entered, Done
<1>7. Left(g, body, n)' <=> (g = Top \/ t \in active' \/ ran'[t] = 1) /\ b \notin active' /\ c \notin active'
  BY DEF Left, Entered, Done
<1>8. g # Top => t \in Places /\ t[1] = Top
  <2>. SUFFICES ASSUME g # Top PROVE t \in Places
    OBVIOUS
  <2>1. g \in Names(graph)
    BY DEF Graphs, Levels, Names
  <2>2. Top \in Graphs /\ SpecOf(Top) = graph
    BY DEF Graphs, Levels, SpecOf, Level
  <2>. QED
    BY <2>1, <2>2, PlaceParts
<1>9. b[1] = g /\ c[1] = g /\ b # c /\ t = <<Top, g>>
  BY <1>3
<1>10. Count(n.name) \in Nat
  BY CountIsNat
<1>11. p # c => /\ Count(n.name)' = Count(n.name)
                /\ Counted(g, n, 2)' <=> Counted(g, n, 2)
                /\ ran'[c] = ran[c]
  <2>. SUFFICES ASSUME p # c PROVE /\ Count(n.name)' = Count(n.name)
                                   /\ Counted(g, n, 2)' <=> Counted(g, n, 2)
                                   /\ ran'[c] = ran[c]
    OBVIOUS
  <2>1. /\ n.name \in DOMAIN state'.counts <=> n.name \in DOMAIN state.counts
        /\ n.name \in DOMAIN state.counts => state'.counts[n.name] = state.counts[n.name]
    BY CountedApart
  <2>2. Count(n.name)' = Count(n.name)
    BY <2>1 DEF Count
  <2>3. Counted(g, n, 2)' <=> Counted(g, n, 2)
    BY <1>2, <2>1 DEF Counted
  <2>. QED
    BY <1>2, <1>3, <2>2, <2>3
<1>. HIDE DEF b, c, t
<1>. SUFFICES /\ b \in active' => c \notin active'
              /\ g # Top /\ (b \in active' \/ c \in active') => t \in active'
              /\ ~Left(g, body, n)' =>
                   /\ Count(n.name)' < n.max \/ Counted(g, n, 2)'
                   /\ fresh => ran'[c] = Count(n.name)' /\ Count(n.name)' < n.max
              /\ Left(g, body, n)' /\ fresh => ran'[c] = n.max
  BY <1>2 DEF LoopKept, b, c, t
<1>12. b \in active' <=> \/ b \in active /\ p # b
                         \/ p = c /\ route = AGAIN_ROUTE
                         \/ p[1] # g /\ g # Top /\ t \in StartedBy(p, route)
  BY <1>2, <1>3, <1>5, <1>9 DEF b
<1>13. c \in active' <=> (c \in active /\ p # c) \/ p = b
  BY <1>2, <1>3, <1>5, <1>9 DEF c
<1>14. p[1] # Top => t \notin StartedBy(p, route)
  BY <1>2, TopStarted DEF t
<1>15. CASE p = b
  <2>1. c \notin active /\ p # c /\ p[1] = g /\ ~Left(g, body, n)
    BY <1>4, <1>6, <1>9, <1>15
  <2>2. g # Top => t \in active'
    BY <1>2, <1>4, <1>8, <1>9, <1>15, <2>1
  <2>. QED
    BY <1>2, <1>4, <1>7, <1>11, <1>12, <1>13, <1>15, <2>1, <2>2
<1>16. CASE p = c
  <2>1. b \notin active /\ p[1] = g /\ ~Left(g, body, n) /\ p # b
    BY <1>4, <1>6, <1>9, <1>16
  <2>2. /\ n.name \in DOMAIN state'.counts
        /\ state'.counts[n.name] = Count(n.name) + 1
        /\ Complete(p, IF Count(n.name) + 1 < n.max THEN AGAIN_ROUTE ELSE NoRoute)
    BY <1>3, <1>16, CountedOnce DEF c
  <2>3. Count(n.name)' = Count(n.name) + 1
    BY <2>2 DEF Count
  <2>4. c \notin active' /\ (g # Top => t \in active')
    BY <1>2, <1>4, <1>8, <1>9, <1>13, <1>16, <2>1
  <2>5. b \in active' <=> Count(n.name) + 1 < n.max
    <3>1. \E r : Complete(p, r) /\ r = IF Count(n.name) + 1 < n.max THEN AGAIN_ROUTE ELSE NoRoute
      BY <2>2
    <3>2. PICK r : Complete(p, r) /\ r = IF Count(n.name) + 1 < n.max THEN AGAIN_ROUTE ELSE NoRoute
      BY <3>1
    <3>3. active' = (active \ {p}) \union StartedBy(p, r)
      BY <3>2, Completion
    <3>4. b \in StartedBy(p, r) <=> r = AGAIN_ROUTE
      BY <1>2, <1>9, <1>16, <2>1, LoopStarted DEF b, c
    <3>. QED
      BY <2>1, <3>2, <3>3, <3>4 DEF AGAIN_ROUTE, NoRoute
  <2>6. fresh => ran'[c] = Count(n.name) + 1
    <3>. SUFFICES ASSUME fresh PROVE ran'[c] = Count(n.name) + 1
      OBVIOUS
    <3>1. ran[c] = Count(n.name) /\ Count(n.name) < n.max
      BY <1>4, <2>1
    <3>2. ran[c] < MaxTimes
      BY <1>3, <1>10, <3>1, WorkflowAssumption
    <3>3. ran'[c] = ran[c] + 1
      BY <1>2, <1>16, <3>2
    <3>. QED
      BY <3>1, <3>3
  <2>7. Counted(g, n, 2)' \/ Count(n.name)' < n.max \/ b \notin active'
    BY <2>3, <2>5
  <2>. QED
    BY <1>3, <1>4, <1>7, <1>10, <2>1, <2>3, <2>4, <2>5, <2>6, <2>7
<1>17. CASE p[1] = g /\ p # b /\ p # c
  <2>1. (b \in active' <=> b \in active) /\ (c \in active' <=> c \in active)
    BY <1>12, <1>13, <1>17
  <2>2. g # Top => (t \in active' <=> t \in active) /\ ran'[t] = ran[t]
    BY <1>2, <1>8, <1>14, <1>17
  <2>. QED
    BY <1>2, <1>4, <1>6, <1>7, <1>11, <1>17, <2>1, <2>2
<1>18. CASE p[1] # g /\ p = t
  <2>1. g # Top
    BY <1>18 DEF t
  <2>2. b \notin active /\ c \notin active /\ t \notin StartedBy(p, route)
    BY <1>1, <1>2, <1>3, <1>9, <1>18, <2>1, EnteredOnce DEF Flows, t
  <2>3. Entered(g) /\ Entered(g)'
    BY <1>1, <1>2, <1>3, <1>18, <2>1, EnteredOnce DEF Flows, Entered, t
  <2>4. b \notin active' /\ c \notin active' /\ p # b /\ p # c
    BY <1>9, <1>12, <1>13, <1>18, <2>2
  <2>. QED
    BY <1>2, <1>4, <1>11, <1>18, <2>2, <2>3, <2>4 DEF Left, b, c
<1>19. CASE p[1] # g /\ p # t
  <2>1. p # b /\ p # c
    BY <1>9, <1>19
  <2>2. g # Top => ran'[t] = ran[t] /\ (t \in active' <=> t \in active \/ t \in StartedBy(p, route))
    BY <1>2, <1>8, <1>19
  <2>3. CASE g = Top \/ t \notin StartedBy(p, route)
    <3>1. (b \in active' <=> b \in active) /\ (c \in active' <=> c \in active)
      BY <1>12, <1>13, <2>1, <2>3
    <3>. QED
      BY <1>2, <1>4, <1>6, <1>7, <1>11, <2>1, <2>2, <2>3, <3>1
  <2>4. CASE g # Top /\ t \in StartedBy(p, route)
    <3>1. t \notin active /\ ran[t] # 1
      BY <1>1, <1>2, <1>3, <2>4, EnteredOnce DEF Flows, Entered, Done, t
    <3>2. b \notin active /\ c \notin active /\ ~Left(g, body, n)
      BY <1>4, <1>6, <2>4, <3>1
    <3>3. t \in active' /\ b \in active' /\ c \notin active'
      BY <1>12, <1>13, <1>19, <2>1, <2>2, <2>4, <3>2
    <3>. QED
      BY <1>2, <1>4, <1>7, <1>11, <2>1, <3>2, <3>3
  <2>. QED
    BY <2>3, <2>4
<1>. QED
  BY <1>15, <1>16, <1>17, <1>18, <1>19

(* A place of another graph starts a nested one. *)
Entering(p, route, g) == p[1] # g /\ g # Top /\ <<Top, g>> \in StartedBy(p, route)

(* How the nodes of a loop start and stop when a place is done. *)
LEMMA LoopMoved ==
  ASSUME WorkflowInv, NEW p \in active, Finish(p), NEW route, Complete(p, route),
         NEW g \in Graphs, NEW n \in LoopsAt(g),
         NEW body \in Names(SpecOf(g)), Looped(SpecOf(g), body, n.name)
  PROVE  /\ <<g, body>> \in active' <=>
              \/ <<g, body>> \in active /\ p # <<g, body>>
              \/ p = <<g, n.name>> /\ route = AGAIN_ROUTE
              \/ Entering(p, route, g)
         /\ <<g, n.name>> \in active' <=>
              (<<g, n.name>> \in active /\ p # <<g, n.name>>) \/ p = <<g, body>>
         /\ Entered(g)' <=> Entered(g) \/ Entering(p, route, g)
         /\ Entering(p, route, g) => ~Entered(g)
<1>1. /\ Wired(graph) /\ Compiles(graph) /\ p \in Places
      /\ active' = (active \ {p}) \union StartedBy(p, route)
  BY Completion
<1>2. body # n.name /\ (g # Top => Streams(graph))
  BY <1>1, LoopWired DEF Flows
<1>3. \A x : <<g, x>> \in StartedBy(p, route) <=>
        \/ p = <<g, body>> /\ x = n.name
        \/ p = <<g, n.name>> /\ x = body /\ route = AGAIN_ROUTE
        \/ Entering(p, route, g) /\ x = body
  BY <1>1, LoopStarted DEF Entering
<1>4. g # Top => /\ Entered(g)' <=> Entered(g) \/ <<Top, g>> \in StartedBy(p, route)
                 /\ <<Top, g>> \in StartedBy(p, route) => ~Entered(g) /\ p[1] = Top
  BY <1>2, EnteredOnce
<1>5. g = Top => Entered(g) /\ Entered(g)'
  BY DEF Entered
<1>6. p[1] = Top => (Entering(p, route, g) <=> g # Top /\ <<Top, g>> \in StartedBy(p, route))
  BY DEF Entering
<1>7. p[1] # Top => ~Entering(p, route, g)
  BY <1>4 DEF Entering
<1>. QED
  BY <1>1, <1>2, <1>3, <1>4, <1>5, <1>6, <1>7

(* A loop keeps its pace when a place is done. *)
LEMMA PaceCompleted ==
  ASSUME WorkflowInv, NEW p \in active, Finish(p), NEW g \in Graphs, NEW n \in LoopsAt(g),
         NEW body \in Names(SpecOf(g)), Looped(SpecOf(g), body, n.name)
  PROVE  LoopPaced(g, body, n)'
<1>. DEFINE b == <<g, body>>
            c == <<g, n.name>>
<1>1. /\ phase = "running" /\ Wired(graph) /\ p \in Places
      /\ ran[p] \in 0..MaxTimes
      /\ ran'[p] = IF ran[p] < MaxTimes THEN ran[p] + 1 ELSE ran[p]
      /\ \A q \in Places : q # p => ran'[q] = ran[q]
  BY FinishParts, Completion
<1>2. n.max \in 1..MaxTimes /\ b # c /\ b \in Places /\ c \in Places /\ NodeAt(c) = n
  BY <1>1, LoopWired
<1>3. LoopKept(g, body, n) /\ LoopPaced(g, body, n)
  BY <1>1 DEF WorkflowInv, LoopsKept
<1>. HIDE DEF b, c
<1>4. PICK route : /\ Complete(p, route)
                   /\ p = c => route = IF Count(n.name) + 1 < n.max THEN AGAIN_ROUTE ELSE NoRoute
  <2>1. p = c => Complete(p, IF Count(n.name) + 1 < n.max THEN AGAIN_ROUTE ELSE NoRoute)
    BY <1>2, CountedOnce DEF c
  <2>. QED
    BY <2>1, FinishParts
<1>5. /\ b \in active' <=> \/ b \in active /\ p # b
                           \/ p = c /\ route = AGAIN_ROUTE
                           \/ Entering(p, route, g)
      /\ c \in active' <=> (c \in active /\ p # c) \/ p = b
      /\ Entered(g)' <=> Entered(g) \/ Entering(p, route, g)
      /\ Entering(p, route, g) => ~Entered(g)
  BY <1>4, LoopMoved DEF b, c
<1>6. Entering(p, route, g) => p # b /\ p # c
  BY DEF Entering, b, c
<1>7. Left(g, body, n) <=> Entered(g) /\ b \notin active /\ c \notin active
  BY DEF Left, b, c
<1>8. Left(g, body, n)' <=> Entered(g)' /\ b \notin active' /\ c \notin active'
  BY DEF Left, b, c
<1>9. /\ ~Entered(g) => ran[b] = 0 /\ ran[c] = 0
      /\ b \in active => ran[b] = ran[c] /\ ran[c] < n.max
      /\ c \in active => ran[b] = ran[c] + 1 /\ ran[c] < n.max
      /\ Left(g, body, n) => ran[b] = ran[c] /\ ran[c] \in 1..n.max
      /\ ran[c] <= Count(n.name)
  BY <1>3 DEF LoopPaced, b, c
<1>10. b \in active => c \notin active
  BY <1>3 DEF LoopKept, b, c
<1>11. Entered(g) \/ (b \notin active /\ c \notin active)
  BY <1>3 DEF LoopKept, Entered, b, c
<1>12. Count(n.name) \in Nat /\ ran[b] \in 0..MaxTimes /\ ran[c] \in 0..MaxTimes
  BY <1>1, <1>2, CountIsNat DEF WorkflowInv, RunTypes
<1>13. Count(n.name)' = IF p = c THEN Count(n.name) + 1 ELSE Count(n.name)
  <2>1. CASE p = c
    BY <1>2, <2>1, CountedOnce DEF Count, c
  <2>2. CASE p # c
    BY <2>2, CountedApart DEF Count, c
  <2>. QED
    BY <2>1, <2>2
<1>. DEFINE Paced ==
       /\ ~Entered(g)' => ran'[b] = 0 /\ ran'[c] = 0
       /\ b \in active' => ran'[b] = ran'[c] /\ ran'[c] < n.max
       /\ c \in active' => ran'[b] = ran'[c] + 1 /\ ran'[c] < n.max
       /\ Left(g, body, n)' => ran'[b] = ran'[c] /\ ran'[c] \in 1..n.max
       /\ ran'[c] <= Count(n.name)'
<1>. SUFFICES Paced
  BY DEF LoopPaced, b, c
<1>14. CASE p = b
  <2>1. ran'[b] = ran[b] + 1 /\ ran'[c] = ran[c] /\ c \notin active
    BY <1>1, <1>2, <1>9, <1>10, <1>12, <1>14, WorkflowAssumption
  <2>. QED
    BY <1>2, <1>5, <1>6, <1>8, <1>9, <1>11, <1>13, <1>14, <2>1
<1>15. CASE p = c
  <2>1. ran'[b] = ran[b] /\ ran'[c] = ran[c] + 1 /\ b \notin active /\ p # b
    BY <1>1, <1>2, <1>9, <1>10, <1>12, <1>15, WorkflowAssumption
  <2>2. b \in active' <=> Count(n.name) + 1 < n.max
    BY <1>4, <1>5, <1>6, <1>15, <2>1 DEF AGAIN_ROUTE, NoRoute
  <2>. QED
    BY <1>2, <1>5, <1>8, <1>9, <1>11, <1>12, <1>13, <1>15, <2>1, <2>2
<1>16. CASE p # b /\ p # c
  <2>1. ran'[b] = ran[b] /\ ran'[c] = ran[c]
    BY <1>1, <1>2, <1>16
  <2>. QED
    BY <1>2, <1>5, <1>7, <1>8, <1>9, <1>11, <1>12, <1>13, <1>16, <2>1
<1>. QED
  BY <1>14, <1>15, <1>16

(* A message enters no loop but those that start at once, with counters     *)
(* that no run has left more than its own count beyond their bounds.       *)
LEMMA LoopEntered ==
  ASSUME WorkflowInv, Message, NEW g \in Graphs, NEW n \in LoopsAt(g),
         NEW body \in Names(SpecOf(g)), Looped(SpecOf(g), body, n.name)
  PROVE  LoopKept(g, body, n)' /\ LoopPaced(g, body, n)'
<1>. DEFINE b == <<g, body>>
            c == <<g, n.name>>
            t == <<Top, g>>
<1>1. /\ phase \notin {"config", "refused"} /\ graph' = graph /\ state' = state
      /\ active' = StartedAtOnce /\ ran' = [q \in Places |-> 0]
      /\ fresh' = (state.counts = <<>>) /\ run' = run + 1
  BY DEF Message, config
<1>2. Wired(graph) /\ Compiles(graph)
  BY <1>1 DEF WorkflowInv, GraphServed
<1>3. /\ n.max \in 1..MaxTimes /\ body # n.name /\ body # START /\ n.name # START
      /\ b \in Places /\ c \in Places
  BY <1>2, LoopWired
<1>4. SpecOf(g).edges = {Edge(START, body, NoRoute), Edge(body, n.name, NoRoute),
                         Edge(n.name, body, AGAIN_ROUTE)}
  BY DEF Looped
<1>5. \A e \in Outgoing(SpecOf(g), START) : e.target = body
  BY <1>3, <1>4 DEF Outgoing, Edge
<1>6. Edge(START, body, NoRoute) \in Outgoing(SpecOf(g), START)
      /\ Edge(START, body, NoRoute).target = body
  BY <1>4 DEF Outgoing, Edge
<1>7. c \notin active'
  <2>. SUFFICES ASSUME c \in StartedAtOnce PROVE FALSE
    BY <1>1
  <2>1. PICK q : q = c
    OBVIOUS
  <2>2. q \in StartedAtOnce /\ q[1] = g /\ q[2] = n.name
    BY <2>1
  <2>3. PICK e \in Outgoing(SpecOf(g), START) : q = <<g, e.target>>
    <3>1. CASE g = Top
      BY <1>2, <2>2, <3>1, AtOnceParts DEF SpecOf, Level
    <3>2. CASE g # Top
      BY <1>2, <2>2, <3>2, AtOnceParts
    <3>. QED
      BY <3>1, <3>2
  <2>. QED
    BY <1>3, <1>5, <2>2, <2>3
<1>8. b \in active' <=> g = Top \/ t \in active'
  <2>1. CASE g = Top
    <3>1. SpecOf(g) = graph
      BY <2>1 DEF SpecOf, Level
    <3>. QED
      BY <1>1, <1>2, <1>6, <2>1, <3>1, AtOnceParts
  <2>2. CASE g # Top /\ t \in active'
    BY <1>1, <1>2, <1>6, <2>2, AtOnceParts
  <2>3. CASE g # Top /\ t \notin active'
    <3>1. PICK q : q = b
      OBVIOUS
    <3>2. q[1] = g
      BY <3>1
    <3>. QED
      BY <1>1, <1>2, <2>3, <3>1, <3>2, AtOnceParts
  <2>. QED
    BY <2>1, <2>2, <2>3
<1>9. g # Top => t \in Places
  <2>1. g # Top => g \in Names(graph)
    BY DEF Graphs, Levels, Names
  <2>2. Top \in Graphs /\ SpecOf(Top) = graph
    BY DEF Graphs, Levels, SpecOf, Level
  <2>. QED
    BY <2>1, <2>2, PlaceParts
<1>10. ~Left(g, body, n)'
  BY <1>1, <1>8, <1>9 DEF Left, Entered, Done
<1>11. Count(n.name)' < n.max \/ Counted(g, n, 2)'
  <2>1. Counted(g, n, 1)
    BY DEF WorkflowInv, CountsBounded
  <2>2. run \in Int
    BY DEF WorkflowInv, RunTypes
  <2>. QED
    BY <1>1, <1>3, <2>1, <2>2 DEF Counted
<1>12. fresh' => ran'[c] = Count(n.name)' /\ Count(n.name)' < n.max
  <2>. SUFFICES ASSUME fresh' PROVE ran'[c] = Count(n.name)' /\ Count(n.name)' < n.max
    OBVIOUS
  <2>a. state.counts = <<>>
    BY <1>1, Zenon
  <2>b. DOMAIN <<>> = {}
    OBVIOUS
  <2>1. DOMAIN state.counts = {}
    BY <2>a, <2>b
  <2>2. Count(n.name)' = 0
    BY <1>1, <2>1 DEF Count
  <2>. QED
    BY <1>1, <1>3, <2>2
<1>13. LoopKept(g, body, n)'
  BY <1>7, <1>8, <1>10, <1>11, <1>12 DEF LoopKept
<1>14. Count(n.name)' \in Nat /\ ran'[b] = 0 /\ ran'[c] = 0
  <2>1. Count(n.name)' = Count(n.name)
    BY <1>1 DEF Count
  <2>. QED
    BY <1>1, <1>3, <2>1, CountIsNat
<1>15. LoopPaced(g, body, n)'
  BY <1>3, <1>7, <1>10, <1>14 DEF LoopPaced
<1>. QED
  BY <1>13, <1>15

(* Every loop's promise is kept by every step. *)
LEMMA LoopsStep ==
  ASSUME WorkflowInv, [Next]_vars
  PROVE  LoopsKept'
<1>0. LoopsKept
  BY DEF WorkflowInv
<1>1. ASSUME phase' \notin {"running", "paused", "ended"} PROVE LoopsKept'
  BY <1>1 DEF LoopsKept
<1>2. CASE Load \/ Halted
  BY <1>1, <1>2 DEF Load, Halted, Quit
<1>3. CASE End \/ Idled
  <2>1. /\ UNCHANGED <<graph, active, ran, state, fresh, run>>
        /\ phase \in {"running", "paused", "ended"} \/ phase' = phase
    BY <1>3 DEF End, Idled, config, engine
  <2>2. Graphs' = Graphs /\ \A g : SpecOf(g)' = SpecOf(g) /\ LoopsAt(g)' = LoopsAt(g)
    BY <2>1, SameGraph
  <2>3. ASSUME NEW g, NEW n, NEW body, LoopKept(g, body, n) /\ LoopPaced(g, body, n)
        PROVE  (LoopKept(g, body, n) /\ LoopPaced(g, body, n))'
    BY <2>1, <2>3 DEF LoopKept, LoopPaced, Left, Entered, Done, Counted, Count
  <2>. QED
    BY <1>0, <2>1, <2>2, <2>3 DEF LoopsKept
<1>4. CASE Message \/ \E p \in active : Finish(p)
  <2>1. graph' = graph
    BY <1>4, FinishRuns DEF Message, config
  <2>2. Graphs' = Graphs /\ \A g : SpecOf(g)' = SpecOf(g) /\ LoopsAt(g)' = LoopsAt(g)
    BY <2>1, SameGraph
  <2>3. ASSUME NEW g \in Graphs, NEW n \in LoopsAt(g), NEW body \in Names(SpecOf(g)),
               Looped(SpecOf(g), body, n.name)
        PROVE  (LoopKept(g, body, n) /\ LoopPaced(g, body, n))'
    BY <1>4, <2>3, LoopEntered, LoopCompleted, PaceCompleted
  <2>. QED
    BY <2>2, <2>3 DEF LoopsKept
<1>. QED
  BY <1>2, <1>3, <1>4, StepKinds

(* No step counts but for a loop, and none beyond what its run may. *)
LEMMA CountsStep ==
  ASSUME WorkflowInv, [Next]_vars
  PROVE  CountsBounded'
<1>0. CountsBounded /\ RunTypes
  BY DEF WorkflowInv
<1>1. CASE Load
  <2>1. graph = NoGraph /\ UNCHANGED <<state, run>>
    BY <1>1 DEF Load, WorkflowInv, GraphServed
  <2>2. Graphs = {Top} /\ LoopsAt(Top) = {}
    BY <2>1 DEF Graphs, Levels, NoGraph, LoopsAt, Loops, Level
  <2>3. DOMAIN state.counts = {}
    BY <1>0, <2>2 DEF CountsBounded
  <2>. QED
    BY <2>1, <2>3 DEF CountsBounded, Counted
<1>2. ASSUME UNCHANGED <<graph, state>>, run' = run \/ run' = run + 1
      PROVE  CountsBounded'
  <2>1. Graphs' = Graphs /\ \A g : SpecOf(g)' = SpecOf(g) /\ LoopsAt(g)' = LoopsAt(g)
    BY <1>2, SameGraph
  <2>2. ASSUME NEW g \in Graphs, NEW n \in LoopsAt(g) PROVE Counted(g, n, 1)'
    <3>1. Counted(g, n, 1)
      BY <1>0 DEF CountsBounded
    <3>2. n.max \in Int
      <4>1. CASE phase \in {"config", "refused"}
        <5>1. graph = NoGraph
          BY <4>1 DEF WorkflowInv, GraphServed
        <5>. QED
          BY <5>1 DEF Graphs, Levels, NoGraph, LoopsAt, Loops, Level
      <4>2. CASE phase \notin {"config", "refused"}
        BY <4>2 DEF WorkflowInv, GraphServed, Wired, LoopsApart, LoopsAt, Graphs
      <4>. QED
        BY <4>1, <4>2
    <3>. QED
      BY <1>0, <1>2, <3>1, <3>2 DEF Counted, RunTypes
  <2>. QED
    BY <1>0, <1>2, <2>1, <2>2 DEF CountsBounded
<1>3. CASE Message \/ End \/ Halted \/ Idled
  BY <1>2, <1>3 DEF Message, End, Halted, Quit, Idled, config
<1>4. CASE \E p \in active : Finish(p)
  <2>1. PICK p \in active : Finish(p)
    BY <1>4
  <2>2. PICK route : Complete(p, route)
    BY <2>1, FinishParts
  <2>3. /\ phase = "running" /\ UNCHANGED <<graph, run>> /\ Wired(graph) /\ p \in Places
    BY <2>1, <2>2, Completion
  <2>4. Graphs' = Graphs /\ \A g : SpecOf(g)' = SpecOf(g) /\ LoopsAt(g)' = LoopsAt(g)
    BY <2>3, SameGraph
  <2>5. run >= 1 /\ run \in Int
    BY <1>0, <2>3 DEF RunTypes
  <2>6. ASSUME NEW g \in Graphs, NEW n \in LoopsAt(g) PROVE Counted(g, n, 1)'
    <3>1. CASE p # <<g, n.name>>
      BY <1>0, <2>1, <2>3, <3>1, CountedApart DEF CountsBounded, Counted
    <3>2. CASE p = <<g, n.name>>
      <4>1. PICK body \in Names(SpecOf(g)) : Looped(SpecOf(g), body, n.name)
        BY <2>3 DEF Wired, LoopsApart, LoopsAt, SpecOf, Graphs
      <4>2. LoopKept(g, body, n)
        BY <2>3, <4>1 DEF WorkflowInv, LoopsKept
      <4>3. NodeAt(<<g, n.name>>) = n /\ n.max \in 1..MaxTimes
        BY <2>3, <4>1, LoopWired
      <4>4. Count(n.name) < n.max \/ Counted(g, n, 2)
        BY <2>1, <3>2, <4>2 DEF LoopKept, Left
      <4>5. state'.counts[n.name] = Count(n.name) + 1
        BY <2>1, <3>2, <4>3, CountedOnce
      <4>6. Count(n.name) \in Nat
        BY CountIsNat
      <4>7. Count(n.name) + 1 \in 1..(n.max + run - 1)
        BY <2>5, <4>3, <4>4, <4>6, WorkflowAssumption DEF Counted, Count
      <4>. QED
        BY <2>3, <4>5, <4>7 DEF Counted
    <3>. QED
      BY <3>1, <3>2
  <2>7. ASSUME NEW x \in DOMAIN state'.counts
        PROVE  \E g \in Graphs : \E n \in LoopsAt(g) : n.name = x
    <3>1. CASE x \in DOMAIN state.counts
      BY <1>0, <3>1 DEF CountsBounded
    <3>2. CASE x \notin DOMAIN state.counts
      <4>1. Does(p, "loop_counter") /\ LoopCounter(p)
        BY <2>1, <2>7, <3>2, FinishParts
      <4>2. \E c : state' = [state EXCEPT !.counts = Put(@, p[2], c)]
        BY <4>1 DEF LoopCounter
      <4>3. PICK c : state'.counts = Put(state.counts, p[2], c)
        BY <1>0, <4>2 DEF RunTypes, StateFields
      <4>4. x = p[2]
        BY <2>7, <3>2, <4>3 DEF Put
      <4>5. NodeAt(p) \in LoopsAt(p[1]) /\ NodeAt(p).name = p[2] /\ p[1] \in Graphs
        BY <2>3, <4>1, NodeOfPlace DEF LoopsAt, Loops, Does, SpecOf
      <4>. QED
        BY <4>4, <4>5
    <3>. QED
      BY <3>1, <3>2
  <2>. QED
    BY <2>4, <2>6, <2>7 DEF CountsBounded
<1>. QED
  BY <1>1, <1>3, <1>4, StepKinds

-----------------------------------------------------------------------------
(* Of a node that has begun, all that is before it is done. *)
LEMMA AncestorDone ==
  ASSUME WorkflowInv, phase \in {"running", "paused", "ended"}, Streams(graph),
         NEW g \in Graphs, Streams(SpecOf(g)), NEW n \in Names(SpecOf(g)), Open(<<g, n>>),
         NEW k, Before(SpecOf(g), k, n)
  PROVE  k \in Names(SpecOf(g)) /\ Over(<<g, k>>)
<1>. DEFINE part == {m \in Names(SpecOf(g)) : Over(<<g, m>>) \/ m = n}
<1>1. Wired(graph) /\ Compiles(graph)
  BY DEF WorkflowInv, GraphServed
<1>2. ASSUME NEW m \in part, NEW e \in Inbound(SpecOf(g), m)
      PROVE  e.source \in part \union {START}
  <2>1. PICK x \in SpecOf(g).nodes : x.name = m
    BY DEF Names
  <2>2. Open(<<g, x.name>>)
    BY <2>1 DEF Open
  <2>3. Cleared(g, e)
    BY <2>1, <2>2 DEF WorkflowInv, InStream, StreamKept
  <2>4. e.source \in Names(SpecOf(g)) \union {START}
    BY <1>1, EndpointsOf DEF Inbound
  <2>. QED
    BY <2>3, <2>4 DEF Cleared
<1>3. part \in SUBSET Names(SpecOf(g)) /\ n \in part
  OBVIOUS
<1>4. Closed(SpecOf(g), part)
  BY <1>2 DEF Closed
<1>5. k \in part /\ k # n
  BY <1>3, <1>4 DEF Before
<1>. QED
  BY <1>5

(* When nothing runs in a graph that was entered, what was certain to run   *)
(* is done.                                                                *)
LEMMA CertainDone ==
  ASSUME WorkflowInv, phase \in {"running", "paused", "ended"}, Streams(graph),
         NEW g \in Graphs, Streams(SpecOf(g)), Entered(g), \A q \in active : q[1] # g,
         NEW n, Certain(SpecOf(g), n)
  PROVE  Over(<<g, n>>)
<1>1. PICK part \in SUBSET Names(SpecOf(g)) :
        /\ n \in part /\ Closed(SpecOf(g), part)
        /\ \A m \in part : /\ Inbound(SpecOf(g), m) # {}
                           /\ \A e \in Inbound(SpecOf(g), m) : e.route = NoRoute
  BY DEF Certain
<1>. DEFINE left == {m \in part : ~Over(<<g, m>>)}
<1>2. ASSUME left # {} PROVE FALSE
  <2>1. PICK m \in left : \A e \in Inbound(SpecOf(g), m) : e.source \notin left
    BY <1>2 DEF Streams
  <2>2. PICK x \in SpecOf(g).nodes : x.name = m
    BY DEF Names
  <2>3. \A e \in Inbound(SpecOf(g), m) : Cleared(g, e) /\ e.route = NoRoute
    BY <1>1, <2>1 DEF Closed, Cleared
  <2>4. Open(<<g, x.name>>)
    BY <1>1, <2>1, <2>2, <2>3 DEF WorkflowInv, InStream, StreamKept
  <2>5. <<g, m>>[1] = g
    OBVIOUS
  <2>. QED
    BY <2>1, <2>2, <2>4, <2>5 DEF Open
<1>. QED
  BY <1>1, <1>2

(* Nothing runs in a nested graph that is done. *)
LEMMA GraphOver ==
  ASSUME WorkflowInv, phase \in {"running", "paused", "ended"}, Streams(graph),
         NEW g \in Graphs, g # Top, Done(g)
  PROVE  \A q \in active : q[1] # g
<1>1. PICK m \in graph.nodes : m.name = g
  BY NestedNode DEF WorkflowInv, GraphServed
<1>2. StreamKept(Top, m)
  BY TopGraph DEF WorkflowInv, InStream
<1>3. <<Top, g>> \notin active
  BY <1>1, <1>2 DEF StreamKept, Done
<1>. QED
  BY <1>3 DEF WorkflowInv, Nested

(* A loop goes in a circle. *)
LEMMA LoopedNoStream ==
  ASSUME NEW level, NEW body, NEW counter, START \notin Names(level), Looped(level, body, counter)
  PROVE  ~Streams(level)
<1>1. \A s, t, r : Edge(s, t, r).source = s /\ Edge(s, t, r).target = t
  BY DEF Edge
<1>2. Edge(body, counter, NoRoute) \in Inbound(level, counter)
      /\ Edge(counter, body, AGAIN_ROUTE) \in Inbound(level, body)
  BY <1>1 DEF Looped, Inbound
<1>3. PICK part \in SUBSET Names(level) : part = {body, counter}
  BY DEF Looped
<1>4. ASSUME NEW m \in part PROVE \E e \in Inbound(level, m) : e.source \in part
  BY <1>1, <1>2, <1>3
<1>. QED
  BY <1>3, <1>4 DEF Streams

-----------------------------------------------------------------------------
(* The graph that is served keeps the promise of its stages. *)
LEMMA StagesPromised ==
  ASSUME WorkflowInv, phase \notin {"config", "refused"}
  PROVE  /\ Promised(graph, StagesOf(source))
         /\ \A i \in DOMAIN StagesOf(source) : StagesOf(source)[i].names \subseteq StageNames
<1>1. source \in Sources /\ Accepted(source) /\ graph = Served(source)
  BY DEF WorkflowInv, GraphServed
<1>2. /\ Promised(Parsed(source), source.stages)
      /\ source.synthesis => Concludes(Parsed(source), source.stages)
  BY <1>1, SourcesKnown DEF Known
<1>3. CASE ~source.synthesis
  BY <1>1, <1>2, <1>3 DEF Served, StagesOf, StageNames
<1>4. CASE source.synthesis
  <2>1. Synthesized(Parsed(source))
    BY <1>1, <1>4, SourcesKnown DEF Known, Synthesized, Accepted, Parses, Served
  <2>2. \A i \in DOMAIN source.stages : source.stages[i].names \subseteq StageNames
    <3>1. source.stages \in Seq(Range(source.stages))
      BY <1>2 DEF Promised
    <3>2. \A i \in DOMAIN source.stages :
            i \in DOMAIN StagesOf(source) /\ StagesOf(source)[i] = source.stages[i]
      <4>. DEFINE T == Range(source.stages) \union {SynthesisStage}
      <4>1. source.stages \in Seq(T)
        BY <3>1, SeqMonotonic
      <4>2. /\ Append(source.stages, SynthesisStage) \in Seq(T)
            /\ Len(Append(source.stages, SynthesisStage)) = Len(source.stages) + 1
            /\ \A i \in 1..Len(source.stages) :
                 Append(source.stages, SynthesisStage)[i] = source.stages[i]
        BY <4>1, AppendProperties
      <4>3. /\ DOMAIN source.stages = 1..Len(source.stages) /\ Len(source.stages) \in Nat
            /\ DOMAIN Append(source.stages, SynthesisStage) = 1..(Len(source.stages) + 1)
        BY <4>1, <4>2, LenProperties
      <4>. QED
        BY <4>2, <4>3 DEF StagesOf
    <3>. QED
      BY <1>1, <3>2 DEF StageNames
  <2>3. Promised(WithSynthesis(Parsed(source)), StagesOf(source))
    BY <1>2, <1>4, <2>1, <2>2, SynthesisPromised DEF StagesOf
  <2>. QED
    BY <1>1, <1>4, <2>3 DEF Served, StageNames
<1>. QED
  BY <1>3, <1>4

(* A node of a stage is in one graph only. *)
LEMMA StageHome ==
  ASSUME WorkflowInv, phase \notin {"config", "refused"}, NEW n \in StageNames,
         NEW g \in Graphs, n \in Names(SpecOf(g))
  PROVE  Home(graph, n) = g /\ \A h \in Graphs : n \in Names(SpecOf(h)) => h = g
<1>1. \A h \in Graphs : n \in Names(SpecOf(h)) => h = g
  BY StagesPromised DEF Promised, Graphs, SpecOf
<1>2. \A h \in Levels(graph) : n \in Names(Level(graph, h)) => h = g
  BY <1>1 DEF Graphs, SpecOf
<1>3. g \in Levels(graph) /\ n \in Names(Level(graph, g))
  BY DEF Graphs, SpecOf
<1>4. Home(graph, n) = g
  BY <1>2, <1>3 DEF Home
<1>. QED
  BY <1>1, <1>4

(* Where a node of a stage is, and what keeps it in its place. *)
LEMMA StagePlaced ==
  ASSUME WorkflowInv, phase \notin {"config", "refused"},
         NEW i \in DOMAIN StagesOf(source), NEW n \in StagesOf(source)[i].names
  PROVE  \E g \in Graphs :
           /\ n \in Names(SpecOf(g)) /\ n \in StageNames /\ Home(graph, n) = g
           /\ g # Top => Streams(graph) /\ Certain(graph, g)
           /\ StagesOf(source)[i].kind \in {"all", "loop", "one"}
           /\ StagesOf(source)[i].kind = "all" =>
                Streams(graph) /\ Streams(SpecOf(g)) /\ Certain(SpecOf(g), n)
           /\ StagesOf(source)[i].kind = "loop" =>
                \E c \in LoopsAt(g) : /\ Looped(SpecOf(g), n, c.name)
                                      /\ c.max = StagesOf(source)[i].max
           /\ StagesOf(source)[i].kind = "one" =>
                /\ g = Top /\ Streams(graph)
                /\ StagesOf(source)[i].names \in SUBSET Names(graph)
                /\ \E r \in graph.nodes : Selects(graph, r, StagesOf(source)[i].names)
<1>. DEFINE stage == StagesOf(source)[i]
<1>1. stage.kind \in {"all", "loop", "one"} /\ Placed(graph, stage) /\ n \in StageNames
  BY StagesPromised DEF Promised
<1>2. Wired(graph) /\ Compiles(graph) /\ Top \in Graphs /\ SpecOf(Top) = graph
  BY TopGraph DEF WorkflowInv, GraphServed
<1>3. \A g \in Graphs : n \in Names(SpecOf(g)) => Home(graph, n) = g
  BY <1>1, StageHome
<1>. HIDE DEF stage
<1>4. CASE stage.kind = "all"
  <2>1. PICK g \in Graphs : /\ Entry(graph, g) /\ n \in Names(SpecOf(g))
                            /\ Streams(SpecOf(g)) /\ Certain(SpecOf(g), n)
    BY <1>1, <1>4 DEF Placed, Graphs, SpecOf, stage
  <2>. QED
    BY <1>1, <1>2, <1>3, <1>4, <2>1 DEF Entry, stage
<1>5. CASE stage.kind = "loop"
  <2>1. PICK g \in Graphs : /\ Entry(graph, g) /\ n \in Names(SpecOf(g))
                            /\ \E c \in LoopsAt(g) : Looped(SpecOf(g), n, c.name) /\ c.max = stage.max
    BY <1>1, <1>5 DEF Placed, Graphs, SpecOf, LoopsAt, stage
  <2>. QED
    BY <1>1, <1>3, <1>5, <2>1 DEF Entry, stage
<1>6. CASE stage.kind = "one"
  <2>1. PICK r \in graph.nodes : Selects(graph, r, stage.names)
    BY <1>1, <1>6 DEF Placed
  <2>2. stage.names \subseteq Names(graph)
    BY <1>2, <2>1, EndpointsOf DEF Selects, Outgoing
  <2>3. n \in Names(SpecOf(Top)) /\ Streams(graph)
    BY <1>2, <2>1, <2>2 DEF Selects, stage
  <2>. QED
    BY <1>1, <1>2, <1>3, <1>6, <2>1, <2>2, <2>3 DEF stage
<1>. QED
  BY <1>1, <1>4, <1>5, <1>6

(* A node of a stage has been met when it runs or has run. *)
Met(g, n) == <<g, n>> \in active \/ ran[<<g, n>>] # 0

(* Its graph has been entered then, and the node has begun at the top. *)
LEMMA StageMet ==
  ASSUME WorkflowInv, phase \in {"running", "paused", "ended"},
         NEW i \in DOMAIN StagesOf(source), NEW n \in StagesOf(source)[i].names,
         NEW g \in Graphs, n \in Names(SpecOf(g)), Met(g, n)
  PROVE  /\ Entered(g)
         /\ Streams(graph) /\ Streams(SpecOf(g)) => Open(<<g, n>>)
         /\ Streams(graph) => TopOf(graph, n) \in Names(graph) /\ Open(<<Top, TopOf(graph, n)>>)
<1>. DEFINE stage == StagesOf(source)[i]
<1>1. /\ n \in StageNames /\ Home(graph, n) = g
      /\ stage.kind \in {"all", "loop", "one"}
      /\ stage.kind = "all" => Streams(graph) /\ Streams(SpecOf(g))
      /\ stage.kind = "loop" =>
           \E c \in LoopsAt(g) : Looped(SpecOf(g), n, c.name) /\ c.max = stage.max
      /\ stage.kind = "one" => g = Top /\ Streams(graph)
  BY StagePlaced, StageHome
<1>. HIDE DEF stage
<1>2. Top \in Graphs /\ SpecOf(Top) = graph /\ Wired(graph)
  BY TopGraph DEF WorkflowInv, GraphServed
<1>3. ASSUME Streams(graph), Streams(SpecOf(g)) PROVE Open(<<g, n>>) /\ Entered(g)
  <2>1. PICK x \in SpecOf(g).nodes : x.name = n
    BY DEF Names
  <2>2. StreamKept(g, x)
    BY <1>3 DEF WorkflowInv, InStream
  <2>. QED
    BY <2>1, <2>2 DEF StreamKept, Open, Over, Met
<1>4. ASSUME NEW c \in LoopsAt(g), Looped(SpecOf(g), n, c.name) PROVE Entered(g)
  <2>1. LoopKept(g, n, c) /\ LoopPaced(g, n, c)
    BY <1>4 DEF WorkflowInv, LoopsKept
  <2>. QED
    BY <2>1 DEF LoopKept, LoopPaced, Entered, Met
<1>5. Entered(g)
  BY <1>1, <1>2, <1>3, <1>4
<1>6. ASSUME Streams(graph) PROVE TopOf(graph, n) \in Names(graph) /\ Open(<<Top, TopOf(graph, n)>>)
  <2>1. CASE g = Top
    BY <1>1, <1>2, <1>3, <1>6, <2>1 DEF TopOf
  <2>2. CASE g # Top
    BY <1>1, <1>2, <1>5, <2>2, NestedNode DEF TopOf, Entered, Done, Open, Over
  <2>. QED
    BY <2>1, <2>2
<1>. QED
  BY <1>3, <1>5, <1>6

(* When a node of a stage has been met, those of the stages before are over. *)
Passed(stage, g, n) ==
  /\ <<g, n>> \notin active
  /\ stage.kind = "all" => Over(<<g, n>>)
  /\ stage.kind = "loop" => ran[<<g, n>>] \in 1..stage.max

(* So they are when nothing runs in their graph any more. *)
LEMMA StageLeft ==
  ASSUME WorkflowInv, phase \in {"running", "paused", "ended"},
         NEW i \in DOMAIN StagesOf(source), NEW n \in StagesOf(source)[i].names,
         NEW g \in Graphs, n \in Names(SpecOf(g)), Entered(g), \A q \in active : q[1] # g
  PROVE  Passed(StagesOf(source)[i], g, n)
<1>. DEFINE stage == StagesOf(source)[i]
<1>1. /\ n \in StageNames /\ Home(graph, n) = g
      /\ stage.kind = "all" => Streams(graph) /\ Streams(SpecOf(g)) /\ Certain(SpecOf(g), n)
      /\ stage.kind = "loop" =>
           \E c \in LoopsAt(g) : Looped(SpecOf(g), n, c.name) /\ c.max = stage.max
  BY StagePlaced, StageHome
<1>. HIDE DEF stage
<1>2. \A x : <<g, x>> \notin active
  <2>1. \A x : <<g, x>>[1] = g
    OBVIOUS
  <2>. QED
    BY <2>1
<1>3. stage.kind = "all" => Over(<<g, n>>)
  BY <1>1, CertainDone
<1>4. ASSUME NEW c \in LoopsAt(g), Looped(SpecOf(g), n, c.name)
      PROVE  ran[<<g, n>>] \in 1..c.max
  <2>1. LoopPaced(g, n, c)
    BY <1>4 DEF WorkflowInv, LoopsKept
  <2>2. Left(g, n, c)
    BY <1>2 DEF Left
  <2>. QED
    BY <2>1, <2>2 DEF LoopPaced
<1>. QED
  BY <1>1, <1>2, <1>3, <1>4 DEF Passed, stage

(* Before a node of a stage is met, those of the earlier stages are passed. *)
LEMMA StageBefore ==
  ASSUME WorkflowInv, phase \in {"running", "paused", "ended"},
         NEW i \in DOMAIN StagesOf(source), NEW j \in DOMAIN StagesOf(source), j < i,
         NEW n \in StagesOf(source)[i].names, NEW k \in StagesOf(source)[j].names,
         NEW g \in Graphs, n \in Names(SpecOf(g)), Met(g, n),
         NEW h \in Graphs, k \in Names(SpecOf(h))
  PROVE  Passed(StagesOf(source)[j], h, k) /\ StagesOf(source)[j].kind # "one"
<1>. DEFINE si == StagesOf(source)[i]
            sj == StagesOf(source)[j]
<1>1. sj.kind # "one" /\ Precedes(graph, k, n)
  BY StagesPromised DEF Promised
<1>2. /\ Home(graph, n) = g /\ n \in StageNames
      /\ g # Top => Streams(graph)
      /\ si.kind \in {"all", "loop", "one"}
      /\ si.kind = "all" => Streams(graph) /\ Streams(SpecOf(g))
      /\ si.kind = "loop" => \E c \in LoopsAt(g) : Looped(SpecOf(g), n, c.name)
      /\ si.kind = "one" => g = Top /\ Streams(graph)
  BY StagePlaced, StageHome
<1>3. /\ Home(graph, k) = h /\ k \in StageNames
      /\ h # Top => Streams(graph)
      /\ sj.kind \in {"all", "loop", "one"}
      /\ sj.kind = "all" => Streams(graph) /\ Streams(SpecOf(h))
      /\ sj.kind = "loop" => \E c \in LoopsAt(h) : Looped(SpecOf(h), k, c.name)
  BY StagePlaced, StageHome
<1>. HIDE DEF si, sj
<1>4. Top \in Graphs /\ SpecOf(Top) = graph /\ Wired(graph) /\ Compiles(graph)
  BY TopGraph DEF WorkflowInv, GraphServed
<1>5. \A f \in Graphs : START \notin Names(SpecOf(f))
  BY <1>4, EndpointsOf
<1>6. \A f \in Graphs : \A x, c : Looped(SpecOf(f), x, c) => ~Streams(SpecOf(f))
  BY <1>5, LoopedNoStream
<1>7. ASSUME NEW f \in Graphs, Streams(graph), Streams(SpecOf(f)), NEW x \in Names(SpecOf(f)),
             Over(<<f, x>>)
      PROVE  <<f, x>> \notin active
  <2>1. PICK m \in SpecOf(f).nodes : m.name = x
    BY DEF Names
  <2>2. StreamKept(f, m)
    BY <1>7 DEF WorkflowInv, InStream
  <2>. QED
    BY <1>7, <2>1, <2>2 DEF StreamKept, Over
<1>8. CASE g = h
  <2>1. Before(SpecOf(g), k, n)
    BY <1>1, <1>2, <1>3, <1>8 DEF Precedes, SpecOf
  <2>2. sj.kind = "all"
    <3>. SUFFICES ASSUME sj.kind = "loop" PROVE FALSE
      BY <1>1, <1>3
    <3>1. PICK c \in LoopsAt(g) : Looped(SpecOf(g), k, c.name)
      BY <1>3, <1>8
    <3>2. ~Streams(SpecOf(g))
      BY <1>6, <3>1
    <3>3. PICK d \in LoopsAt(g) : Looped(SpecOf(g), n, d.name)
      BY <1>2, <1>4, <3>2
    <3>4. k = n
      BY <1>5, <3>1, <3>3, LoopUnique
    <3>. QED
      BY <2>1, <3>4 DEF Before
  <2>3. Streams(graph) /\ Streams(SpecOf(g))
    BY <1>3, <1>8, <2>2
  <2>4. Open(<<g, n>>)
    BY <2>3, StageMet
  <2>5. Over(<<g, k>>)
    BY <2>1, <2>3, <2>4, AncestorDone
  <2>. QED
    BY <1>1, <1>7, <1>8, <2>2, <2>3, <2>5 DEF Passed, sj
<1>9. CASE g # h
  <2>1. Before(graph, TopOf(graph, k), TopOf(graph, n)) /\ Streams(graph)
    BY <1>1, <1>2, <1>3, <1>9 DEF Precedes
  <2>2. TopOf(graph, n) \in Names(graph) /\ Open(<<Top, TopOf(graph, n)>>)
    BY <2>1, StageMet
  <2>3. Over(<<Top, TopOf(graph, k)>>)
    BY <1>4, <2>1, <2>2, AncestorDone
  <2>4. CASE h = Top
    <3>1. sj.kind = "all" /\ Over(<<Top, k>>)
      BY <1>1, <1>3, <1>4, <1>6, <2>1, <2>3, <2>4 DEF TopOf
    <3>. QED
      BY <1>1, <1>4, <1>7, <2>1, <2>4, <3>1 DEF Passed, sj
  <2>5. CASE h # Top
    <3>1. Done(h)
      BY <1>3, <2>3, <2>5 DEF TopOf, Over, Done
    <3>2. Entered(h) /\ \A q \in active : q[1] # h
      BY <2>1, <2>5, <3>1, GraphOver DEF Entered
    <3>. QED
      BY <1>1, <3>2, StageLeft DEF sj
  <2>. QED
    BY <2>4, <2>5
<1>. QED
  BY <1>8, <1>9

(* The times a node of a stage has run are those of its only place. *)
LEMMA TimesOf ==
  ASSUME NEW times, NEW n, NEW q \in DOMAIN times, q[2] = n,
         \A p \in DOMAIN times : p[2] = n => p = q
  PROVE  (IF \E p \in DOMAIN times : p[2] = n
          THEN times[CHOOSE p \in DOMAIN times : p[2] = n] ELSE 0) = times[q]
OBVIOUS

(* So are those that the mapping to the stages gives it. *)
LEMMA TimesAt ==
  ASSUME WorkflowInv, phase \in {"running", "paused", "ended"}, NEW n \in StageNames,
         NEW g \in Graphs, n \in Names(SpecOf(g))
  PROVE  TimesRan(n) = ran[<<g, n>>]
<1>1. DOMAIN ran = Places /\ <<g, n>> \in Places
  BY PlaceParts DEF WorkflowInv, RunTypes
<1>2. ASSUME NEW p \in Places, p[2] = n PROVE p = <<g, n>>
  <2>1. p[1] \in Graphs /\ p[2] \in Names(SpecOf(p[1])) /\ p = <<p[1], p[2]>>
    BY NodeOfPlace
  <2>2. p[1] = g
    BY <1>2, <2>1, StageHome
  <2>. QED
    BY <1>2, <2>1, <2>2
<1>3. <<g, n>>[2] = n
  OBVIOUS
<1>. QED
  BY <1>1, <1>2, <1>3, TimesOf DEF TimesRan

(* They change when one of its places is done. *)
LEMMA TimesKept ==
  ASSUME DOMAIN ran' = DOMAIN ran, NEW n, \A q \in DOMAIN ran : q[2] = n => ran'[q] = ran[q]
  PROVE  TimesRan(n)' = TimesRan(n)
<1>. DEFINE q == CHOOSE p \in DOMAIN ran : p[2] = n
<1>1. TimesRan(n) = IF \E p \in DOMAIN ran : p[2] = n THEN ran[q] ELSE 0
  BY DEF TimesRan
<1>2. TimesRan(n)' = IF \E p \in DOMAIN ran : p[2] = n THEN ran'[q] ELSE 0
  BY DEF TimesRan
<1>3. (\E p \in DOMAIN ran : p[2] = n) => q \in DOMAIN ran /\ q[2] = n
  OBVIOUS
<1>. QED
  BY <1>1, <1>2, <1>3

(* A node with a name in a stage is of a stage: what is skipped, because it *)
(* waits for two that exclude each other, never runs.                      *)
LEMMA StageOfMet ==
  ASSUME WorkflowInv, phase \in {"running", "paused", "ended"}, NEW n \in StageNames,
         NEW g \in Graphs, n \in Names(SpecOf(g)), <<g, n>> \in active
  PROVE  \E i \in DOMAIN StagesOf(source) : n \in StagesOf(source)[i].names
<1>. DEFINE stages == StagesOf(source)
<1>. SUFFICES ASSUME g = Top, Skipped(graph, stages, n) PROVE FALSE
  BY StagesPromised DEF Promised, Graphs, SpecOf
<1>1. PICK i \in DOMAIN stages : \E a, b \in stages[i].names :
        stages[i].kind = "one" /\ a # b /\ Before(graph, a, n) /\ Before(graph, b, n)
  BY DEF Skipped
<1>2. PICK a \in stages[i].names, b \in stages[i].names :
        stages[i].kind = "one" /\ a # b /\ Before(graph, a, n) /\ Before(graph, b, n)
  BY <1>1
<1>3. PICK r \in graph.nodes : Selects(graph, r, stages[i].names)
  BY <1>2, StagePlaced
<1>4. stages[i].names \in SUBSET Names(graph)
  BY <1>2, StagePlaced
<1>5. SpecOf(Top) = graph /\ Streams(graph)
  BY <1>3, TopGraph DEF Selects
<1>6. Open(<<Top, n>>)
  BY DEF Open
<1>7. Over(<<Top, a>>) /\ Over(<<Top, b>>)
  BY <1>2, <1>5, <1>6, AncestorDone
<1>8. ChosenOne(r, stages[i].names)
  BY <1>3, <1>4 DEF WorkflowInv, Chosen
<1>9. Begun(a) /\ Begun(b)
  BY <1>7 DEF Begun, Done, Over
<1>. HIDE DEF stages
<1>10. a = b
  BY <1>2, <1>8, <1>9 DEF ChosenOne
<1>. QED
  BY <1>2, <1>10

(* A node of a stage runs when its stage allows it. *)
LEMMA StageAllows ==
  ASSUME WorkflowInv, phase \in {"running", "paused", "ended"},
         NEW i \in DOMAIN StagesOf(source), NEW n \in StagesOf(source)[i].names,
         NEW g \in Graphs, n \in Names(SpecOf(g)), <<g, n>> \in active
  PROVE  /\ Staged!Allows(StagesOf(source)[i], n)
         /\ ran[<<g, n>>] < MaxTimes
<1>. DEFINE stage == StagesOf(source)[i]
<1>1. /\ n \in StageNames /\ Home(graph, n) = g
      /\ stage.kind \in {"all", "loop", "one"}
      /\ stage.kind = "all" => Streams(graph) /\ Streams(SpecOf(g))
      /\ stage.kind = "loop" =>
           \E c \in LoopsAt(g) : Looped(SpecOf(g), n, c.name) /\ c.max = stage.max
      /\ stage.kind = "one" =>
           /\ g = Top /\ Streams(graph) /\ stage.names \in SUBSET Names(graph)
           /\ \E r \in graph.nodes : Selects(graph, r, stage.names)
  BY StagePlaced, StageHome
<1>2. stage.names \subseteq StageNames
  BY StagesPromised
<1>3. Top \in Graphs /\ SpecOf(Top) = graph /\ Wired(graph)
  BY TopGraph DEF WorkflowInv, GraphServed
<1>4. TimesRan(n) = ran[<<g, n>>]
  BY <1>1, TimesAt
<1>5. ASSUME Streams(graph), Streams(SpecOf(g)) PROVE ran[<<g, n>>] = 0
  <2>1. PICK x \in SpecOf(g).nodes : x.name = n
    BY DEF Names
  <2>2. StreamKept(g, x)
    BY <1>5 DEF WorkflowInv, InStream
  <2>. QED
    BY <2>1, <2>2 DEF StreamKept
<1>6. stage.kind = "all" => TimesRan(n) = 0
  BY <1>1, <1>4, <1>5
<1>7. ASSUME NEW c \in LoopsAt(g), Looped(SpecOf(g), n, c.name)
      PROVE  TimesRan(n) < c.max /\ c.max \in 1..MaxTimes /\ TimesRan(n) \in Int
  <2>1. LoopPaced(g, n, c) /\ c.max \in 1..MaxTimes /\ <<g, n>> \in Places
    BY <1>3, <1>7, LoopWired DEF WorkflowInv, LoopsKept
  <2>2. ran[<<g, n>>] \in Int
    BY <2>1 DEF WorkflowInv, RunTypes
  <2>. QED
    BY <1>4, <2>1, <2>2 DEF LoopPaced
<1>8. ASSUME stage.kind = "one", NEW k \in stage.names PROVE TimesRan(k) = 0
  <2>1. PICK r \in graph.nodes : Selects(graph, r, stage.names)
    BY <1>1, <1>8
  <2>2. Begun(n) /\ (Begun(k) => k = n)
    BY <1>1, <1>8, <2>1 DEF WorkflowInv, Chosen, ChosenOne, Begun
  <2>3. k \in Names(graph) /\ k \in StageNames
    BY <1>1, <1>2, <1>8
  <2>4. TimesRan(k) = ran[<<Top, k>>]
    BY <1>3, <2>3, TimesAt
  <2>5. PICK x \in graph.nodes : x.name = k
    BY <2>3 DEF Names
  <2>6. ran[<<Top, k>>] \in {0, 1}
    BY <1>1, <1>3, <1>8, <2>5 DEF WorkflowInv, InStream, StreamKept
  <2>. QED
    BY <1>1, <1>3, <1>4, <1>5, <1>8, <2>2, <2>4, <2>6 DEF Begun, Done
<1>9. ran[<<g, n>>] < MaxTimes
  BY <1>1, <1>3, <1>4, <1>6, <1>7, <1>8, WorkflowAssumption
<1>10. Staged!Allows(stage, n)
  <2>. HIDE DEF stage
  <2>. QED
    BY <1>1, <1>2, <1>6, <1>7, <1>8 DEF Staged!Allows
<1>. QED
  BY <1>9, <1>10

(* A stage that is passed is finished. *)
LEMMA StageFinished ==
  ASSUME WorkflowInv, phase \in {"running", "paused", "ended"},
         NEW j \in DOMAIN StagesOf(source), StagesOf(source)[j].kind # "one",
         \A k \in StagesOf(source)[j].names : \A h \in Graphs : k \in Names(SpecOf(h)) =>
           Passed(StagesOf(source)[j], h, k)
  PROVE  Staged!Finished(StagesOf(source)[j])
<1>. DEFINE stage == StagesOf(source)[j]
<1>1. ASSUME NEW k \in stage.names
      PROVE  \E h \in Graphs : /\ Passed(stage, h, k) /\ TimesRan(k) = ran[<<h, k>>]
                               /\ k \in StageNames /\ stage.kind \in {"all", "loop", "one"}
  BY StagePlaced, TimesAt
<1>. HIDE DEF stage
<1>2. stage.kind # "one"
  BY DEF stage
<1>3. stage.kind = "all" => \A k \in stage.names : k \in StageNames /\ TimesRan(k) = 1
  BY <1>1 DEF Passed, Over
<1>4. stage.kind = "loop" => \A k \in stage.names : k \in StageNames /\ TimesRan(k) \in 1..stage.max
  BY <1>1 DEF Passed
<1>5. stage.kind \in {"all", "loop", "one"}
  BY StagesPromised DEF Promised, stage
<1>6. Staged!Finished(stage)
  BY <1>2, <1>3, <1>4, <1>5 DEF Staged!Finished
<1>. QED
  BY <1>6 DEF stage

(* The end of a place that is of a stage is a step of its stage. *)
LEMMA StageRuns ==
  ASSUME WorkflowInv, NEW p \in active, Finish(p), p[2] \in StageNames
  PROVE  Staged!Run(p[2])
<1>. DEFINE g == p[1]
            n == p[2]
            stages == StagesOf(source)
<1>1. /\ phase = "running" /\ phase' = "running" /\ source' = source
      /\ p \in Places /\ DOMAIN ran = Places /\ DOMAIN ran' = Places
      /\ ran[p] \in 0..MaxTimes
      /\ ran'[p] = IF ran[p] < MaxTimes THEN ran[p] + 1 ELSE ran[p]
      /\ \A q \in Places : q # p => ran'[q] = ran[q]
  BY FinishParts, Completion
<1>2. p = <<g, n>> /\ g \in Graphs /\ n \in Names(SpecOf(g)) /\ n \in StageNames
  BY <1>1, NodeOfPlace
<1>3. \A q \in Places : q[2] = n => q = p
  <2>1. ASSUME NEW q \in Places, q[2] = n PROVE q = p
    <3>1. q[1] \in Graphs /\ q[2] \in Names(SpecOf(q[1])) /\ q = <<q[1], q[2]>>
      BY NodeOfPlace
    <3>2. q[1] = g
      BY <1>1, <1>2, <2>1, <3>1, StageHome
    <3>. QED
      BY <1>2, <2>1, <3>1, <3>2
  <2>. QED
    BY <2>1
<1>4. n = p[2]
  OBVIOUS
<1>. HIDE DEF g, n, stages
<1>5. TimesRan(n) = ran[p] /\ TimesRan(n)' = ran'[p]
  BY <1>1, <1>3, <1>4, TimesOf DEF TimesRan
<1>6. \A m \in StageNames : m # n => TimesRan(m)' = TimesRan(m)
  BY <1>1, <1>4, TimesKept
<1>7. PICK i \in DOMAIN stages : n \in stages[i].names
  BY <1>1, <1>2, StageOfMet DEF stages
<1>8. Staged!Allows(stages[i], n) /\ ran[p] < MaxTimes
  BY <1>1, <1>2, <1>7, StageAllows DEF stages
<1>9. Met(g, n)
  BY <1>2 DEF Met
<1>10. Len(stages) \in Nat /\ DOMAIN stages = 1..Len(stages)
  BY <1>1, StagesPromised, LenProperties DEF Promised, stages
<1>11. ASSUME NEW j \in 1..(i - 1) PROVE Staged!Finished(stages[j])
  <2>1. j \in DOMAIN stages /\ j < i
    BY <1>10
  <2>2. \A k \in stages[j].names : \A h \in Graphs : k \in Names(SpecOf(h)) =>
          Passed(stages[j], h, k) /\ stages[j].kind # "one"
    BY <1>1, <1>2, <1>7, <1>9, <2>1, StageBefore DEF stages
  <2>3. stages[j].kind # "one"
    BY <1>1, <2>1, StagesPromised DEF Promised, stages
  <2>. QED
    BY <1>1, <2>1, <2>2, <2>3, StageFinished DEF stages
<1>12. ASSUME NEW j \in (i + 1)..Len(stages), NEW k \in stages[j].names
       PROVE  k \in StageNames /\ TimesRan(k) = 0
  <2>1. j \in DOMAIN stages /\ i < j
    BY <1>10
  <2>2. PICK h \in Graphs : k \in Names(SpecOf(h)) /\ k \in StageNames
    BY <1>1, <2>1, StagePlaced DEF stages
  <2>3. TimesRan(k) = ran[<<h, k>>]
    BY <1>1, <2>2, TimesAt
  <2>4. ASSUME Met(h, k) PROVE FALSE
    <3>1. Passed(stages[i], g, n)
      BY <1>1, <1>2, <1>7, <2>1, <2>2, <2>4, StageBefore DEF stages
    <3>. QED
      BY <1>2, <3>1 DEF Passed
  <2>. QED
    BY <2>2, <2>3, <2>4 DEF Met
<1>13. TimesRan(n)' = TimesRan(n) + 1
  BY <1>1, <1>5, <1>8
<1>. QED
  <2>1. [m \in StageNames |-> TimesRan(m)]' =
          [[m \in StageNames |-> TimesRan(m)] EXCEPT ![n] = @ + 1]
    BY <1>2, <1>6, <1>13
  <2>. QED
    BY <1>1, <1>4, <1>7, <1>8, <1>11, <1>12, <2>1 DEF Staged!Run, stages

(* A run ends when all of its stages are finished. *)
LEMMA StagesEnd ==
  ASSUME WorkflowInv, End
  PROVE  Staged!End
<1>. DEFINE stages == StagesOf(source)
<1>1. phase = "running" /\ active = {} /\ phase' = "ended" /\ UNCHANGED <<source, ran>>
  BY DEF End, config, engine
<1>2. Top \in Graphs /\ SpecOf(Top) = graph
  BY TopGraph
<1>3. ASSUME NEW i \in DOMAIN stages PROVE Staged!Finished(stages[i])
  <2>1. CASE stages[i].kind # "one"
    <3>1. ASSUME NEW k \in stages[i].names, NEW h \in Graphs, k \in Names(SpecOf(h))
          PROVE  Passed(stages[i], h, k)
      <4>1. k \in StageNames /\ (h # Top => Streams(graph) /\ Certain(graph, h))
        BY <1>1, <3>1, StagePlaced, StageHome
      <4>2. h # Top => Over(<<Top, h>>)
        BY <1>1, <1>2, <4>1, CertainDone DEF Entered
      <4>3. Entered(h)
        BY <4>2 DEF Entered, Done, Over
      <4>. QED
        BY <1>1, <3>1, <4>3, StageLeft
    <3>. QED
      BY <1>1, <2>1, <3>1, StageFinished
  <2>2. CASE stages[i].kind = "one"
    <3>1. stages[i].names \in SUBSET Names(graph) /\ stages[i].names \subseteq StageNames
          /\ \E r \in graph.nodes : Selects(graph, r, stages[i].names)
      <4>1. PICK r \in graph.nodes : Selects(graph, r, stages[i].names)
        BY <1>1, <2>2, StagesPromised DEF Promised, Placed
      <4>2. stages[i].names \subseteq Names(graph)
        BY <1>1, <1>2, <4>1, EndpointsOf DEF Selects, Outgoing, WorkflowInv, GraphServed
      <4>. QED
        BY <1>1, <4>1, <4>2, StagesPromised
    <3>2. PICK r \in graph.nodes : Selects(graph, r, stages[i].names)
      BY <3>1
    <3>3. Over(<<Top, r.name>>)
      BY <1>1, <1>2, <3>2, CertainDone DEF Selects, Entered
    <3>4. PICK k \in stages[i].names : Begun(k)
      BY <1>1, <3>1, <3>2, <3>3 DEF WorkflowInv, Chosen, ChosenOne, Done, Over
    <3>5. TimesRan(k) = 1
      BY <1>1, <1>2, <3>1, <3>4, TimesAt DEF Begun, Done
    <3>. QED
      BY <2>2, <3>1, <3>4, <3>5 DEF Staged!Finished
  <2>. QED
    BY <2>1, <2>2
<1>4. [m \in StageNames |-> TimesRan(m)]' = [m \in StageNames |-> TimesRan(m)]
  BY <1>1 DEF TimesRan
<1>. QED
  BY <1>1, <1>3, <1>4 DEF Staged!End

-----------------------------------------------------------------------------
(* What holds of every state that a workflow reaches. *)
THEOREM WorkflowInvariance == Spec => []WorkflowInv
<1>1. WorkflowInv /\ [Next]_vars => WorkflowInv'
  BY ServedStep, RestingStep, TypesStep, PlanStep, TellersStep, RoutedStep, StreamStep,
     UntoldStep, ChosenStep, NestedStep, GatheredStep, LoopsStep, CountsStep DEF WorkflowInv
<1>. QED
  BY <1>1, WorkflowInitially, PTL DEF Spec

(* Types; only what runs can wait, and a counter exceeds its loop's bound   *)
(* only by the one iteration that each later run of the session makes.     *)
THEOREM WorkflowTypeCorrect == Spec => []TypeOK
<1>1. WorkflowInv => TypeOK
  <2>. SUFFICES ASSUME WorkflowInv PROVE TypeOK
    OBVIOUS
  <2>1. ASSUME NEW c \in DOMAIN state.counts
        PROVE  \E g \in Graphs : \E n \in LoopsAt(g) :
                 n.name = c /\ state.counts[c] \in 1..(n.max + run - 1)
    BY DEF WorkflowInv, CountsBounded, Counted
  <2>. QED
    BY <2>1 DEF WorkflowInv, RunTypes, TypeOK
<1>. QED
  BY <1>1, WorkflowInvariance, PTL

(* A loop runs its body exactly max_iterations times in a run that ends,   *)
(* the first of the session to count.                                      *)
THEOREM LoopsRunExactly == Spec => []FreshLoopExact
<1>1. WorkflowInv => FreshLoopExact
  <2>. SUFFICES ASSUME WorkflowInv, phase = "ended", fresh,
                       NEW g \in Graphs, NEW n \in LoopsAt(g)
                PROVE  ran[<<g, n.name>>] = n.max
    BY DEF FreshLoopExact, LoopsExact
  <2>1. Wired(graph) /\ active = {}
    BY DEF WorkflowInv, GraphServed, Resting
  <2>2. PICK body \in Names(SpecOf(g)) : Looped(SpecOf(g), body, n.name)
    BY <2>1 DEF Wired, LoopsApart, LoopsAt, SpecOf, Graphs
  <2>3. Entered(g)
    <3>. SUFFICES ASSUME g # Top PROVE Done(g)
      BY DEF Entered
    <3>1. Flows(graph)
      BY <2>1, <2>2, LoopWired
    <3>2. g \in Names(graph)
      BY DEF Graphs, Levels, Names
    <3>. QED
      BY <2>1, <3>1, <3>2, AllDone
  <2>4. Left(g, body, n)
    BY <2>1, <2>3 DEF Left
  <2>. QED
    BY <2>2, <2>4 DEF WorkflowInv, LoopsKept, LoopKept
<1>. QED
  BY <1>1, WorkflowInvariance, PTL

(* A run that ends has aggregated every perspective in the session, in     *)
(* order, with the last value written to each.                             *)
THEOREM AllAggregated == Spec => []AggregatesAll
<1>1. WorkflowInv => AggregatesAll
  <2>. SUFFICES ASSUME WorkflowInv, phase = "ended", <<Top, Aggregator>> \in Places
                PROVE  /\ {[index |-> i, at |-> state.perspective[i]] :
                              i \in DOMAIN state.perspective} = Range(state.aggregated)
                       /\ \A i, j \in DOMAIN state.aggregated :
                            i < j => state.aggregated[i].index < state.aggregated[j].index
    BY DEF AggregatesAll
  <2>. DEFINE S == DOMAIN state.perspective
              keys == Sorted(S)
  <2>1. keys \in [1..Cardinality(S) -> S] /\ Range(keys) = S /\ Ascending(keys)
    BY SortedInOrder DEF WorkflowInv, Gathered
  <2>2. CASE ~Perspectives(graph)
    BY <2>2 DEF WorkflowInv, Gathered, Range
  <2>3. CASE Perspectives(graph)
    <3>1. Aggregator \in Names(graph)
      <4>1. PICK p \in Places : p = <<Top, Aggregator>>
        OBVIOUS
      <4>2. p[1] = Top /\ p[2] = Aggregator
        BY <4>1
      <4>. QED
        BY <4>2, NodeOfPlace DEF SpecOf, Level
    <3>2. active = {} /\ Flows(graph)
      BY <2>3, <3>1 DEF WorkflowInv, Resting, GraphServed, Wired, Gathers
    <3>3. state.aggregated = Collected(state.perspective)
      BY <2>3, <3>1, <3>2, AllDone DEF WorkflowInv, Gathered
    <3>4. state.aggregated =
            [i \in DOMAIN keys |-> [index |-> keys[i], at |-> state.perspective[keys[i]]]]
      BY <3>3 DEF Collected
    <3>. HIDE DEF keys
    <3>. QED
      BY <2>1, <3>4 DEF Range, Ascending
  <2>. QED
    BY <2>2, <2>3
<1>. QED
  BY <1>1, WorkflowInvariance, PTL

(* However the steps of a plan end, wait and are resumed, plan_outputs     *)
(* holds one output per step, of this run, in the plan's order.            *)
THEOREM PlansAreInOrder == Spec => []PlanOutputsInOrder
<1>1. WorkflowInv => PlanOutputsInOrder
  BY DEF WorkflowInv, Resting, PlanKept, InOrder, PlanOutputsInOrder
<1>. QED
  BY <1>1, WorkflowInvariance, PTL

(* A specialist that runs is one the last classification names, if it      *)
(* names any of the roster.                                                *)
THEOREM RoutesAsReplied == Spec => []RoutedAsReplied
<1>1. WorkflowInv => RoutedAsReplied
  BY DEF WorkflowInv
<1>. QED
  BY <1>1, WorkflowInvariance, PTL

(* However its graph was expanded, wired and run, a workflow goes through   *)
(* its stages in order and ends only after the last of them: the compiled  *)
(* workflow implements the one that its configuration describes.           *)
THEOREM WorkflowImplementsStages == Spec => ImplementsStages
<1>1. Init => Staged!Init
  <2>. SUFFICES ASSUME Init PROVE Staged!Init
    OBVIOUS
  <2>1. DOMAIN ran = {}
    <3>1. DOMAIN <<>> = {}
      OBVIOUS
    <3>. QED
      BY <3>1 DEF Init
  <2>2. \A n : TimesRan(n) = 0
    BY <2>1 DEF TimesRan
  <2>. QED
    BY <2>2 DEF Init, Staged!Init
<1>2. WorkflowInv /\ [Next]_vars => [Staged!Next]_(Staged!vars)
  <2>. SUFFICES ASSUME WorkflowInv, [Next]_vars PROVE [Staged!Next]_(Staged!vars)
    OBVIOUS
  <2>. DEFINE Times == [n \in StageNames |-> TimesRan(n)]
  <2>1. CASE Load \/ Idled
    <3>1. UNCHANGED <<source, ran>>
      BY <2>1 DEF Load, Idled, engine
    <3>2. Times' = Times
      BY <3>1 DEF TimesRan
    <3>. QED
      BY <2>1, <3>1, <3>2 DEF Load, Idled, Staged!vars
  <2>2. CASE Message
    <3>1. /\ source' = source /\ phase \in {"ready", "ended", "failed"} /\ phase' = "running"
          /\ ran' = [p \in Places |-> 0]
      BY <2>2 DEF Message, config
    <3>2. \A n : TimesRan(n)' = 0
      BY <3>1 DEF TimesRan
    <3>3. Staged!Begin
      BY <3>1, <3>2 DEF Staged!Begin
    <3>. QED
      BY <3>3 DEF Staged!Next
  <2>3. CASE End
    BY <2>3, StagesEnd DEF Staged!Next
  <2>4. CASE Halted
    <3>1. /\ UNCHANGED <<source, ran>> /\ phase \in {"running", "paused"} /\ phase' = "failed"
      BY <2>4 DEF Halted, Quit, config
    <3>2. Times' = Times
      BY <3>1 DEF TimesRan
    <3>3. Staged!Fail
      BY <3>1, <3>2 DEF Staged!Fail
    <3>. QED
      BY <3>3 DEF Staged!Next
  <2>5. CASE \E p \in active : Finish(p)
    <3>1. PICK p \in active : Finish(p)
      BY <2>5
    <3>2. CASE p[2] \in StageNames
      BY <3>1, <3>2, StageRuns DEF Staged!Next
    <3>3. CASE p[2] \notin StageNames
      <4>1. /\ phase = "running" /\ phase' = "running" /\ source' = source
            /\ p \in Places /\ DOMAIN ran = Places /\ DOMAIN ran' = Places
            /\ \A q \in Places : q # p => ran'[q] = ran[q]
        BY <3>1, FinishParts, Completion
      <4>2. \A n \in StageNames : TimesRan(n)' = TimesRan(n)
        BY <3>3, <4>1, TimesKept
      <4>. QED
        BY <4>1, <4>2 DEF Staged!vars
    <3>. QED
      BY <3>2, <3>3
  <2>. QED
    BY <2>1, <2>2, <2>3, <2>4, <2>5, StepKinds
<1>. QED
  BY <1>1, <1>2, WorkflowInvariance, PTL DEF Spec, ImplementsStages, Staged!Spec
=============================================================================

---------------------------- MODULE GraphProofs -----------------------------
(***************************************************************************)
(* Graphs apart from their runs: what their names, their edges and their   *)
(* synthesis are known to be, for any graph, and what the sugar forms are   *)
(* expanded to, for any ordinary form.                                     *)
(***************************************************************************)
EXTENDS WorkflowRun, FiniteSetTheorems, SequenceTheorems, WellFoundedInduction, TLAPS

(* A set of numbers has a least one. *)
LEMMA LeastExists ==
  ASSUME NEW S, S \subseteq Nat, S # {}
  PROVE  \E x \in S : \A y \in S : x <= y
<1>. DEFINE less == {ss \in Nat \X Nat : ss[1] < ss[2]}
<1>1. IsWellFoundedOn(less, Nat)
  BY NatLessThanWellFounded DEF OpToRel
<1>. HIDE DEF less
<1>2. PICK x \in S : \A y \in S : ~(<<y, x>> \in less)
  BY <1>1, WFMin
<1>3. ASSUME NEW y \in S PROVE x <= y
  <2>1. x \in Nat /\ y \in Nat
    OBVIOUS
  <2>2. y < x => <<y, x>> \in less
    BY <2>1 DEF less
  <2>. QED
    BY <1>2, <2>1, <2>2
<1>. QED
  BY <1>3

(* Finitely many numbers can be put in order: the least comes before the   *)
(* others, which are fewer.                                                *)
LEMMA SortedInOrder ==
  ASSUME NEW S, S \subseteq Nat, IsFiniteSet(S)
  PROVE  /\ Sorted(S) \in [1..Cardinality(S) -> S]
         /\ Range(Sorted(S)) = S /\ Ascending(Sorted(S))
<1>. DEFINE Ordered(T) == \E s \in [1..Cardinality(T) -> T] : Range(s) = T /\ Ascending(s)
            bad == {k \in Nat : \E T \in SUBSET Nat :
                      IsFiniteSet(T) /\ Cardinality(T) = k /\ ~Ordered(T)}
<1>1. bad = {}
  <2>. SUFFICES ASSUME bad # {} PROVE FALSE
    OBVIOUS
  <2>1. PICK k \in bad : \A j \in bad : k <= j
    BY LeastExists
  <2>2. PICK T \in SUBSET Nat : IsFiniteSet(T) /\ Cardinality(T) = k /\ ~Ordered(T)
    BY <2>1
  <2>3. T # {}
    <3>. SUFFICES ASSUME T = {} PROVE Ordered(T)
      BY <2>2
    <3>1. 1..Cardinality(T) = {}
      BY FS_EmptySet
    <3>. DEFINE s == [i \in {} |-> i]
    <3>2. s \in [1..Cardinality(T) -> T] /\ Range(s) = T /\ Ascending(s)
      BY <3>1 DEF Range, Ascending
    <3>. QED
      BY <3>2
  <2>4. PICK x \in T : \A y \in T : x <= y
    BY <2>3, LeastExists
  <2>. DEFINE U == T \ {x}
  <2>5. IsFiniteSet(U) /\ Cardinality(U) = k - 1 /\ k \in Nat \ {0}
    BY <2>2, <2>4, FS_RemoveElement, FS_EmptySet
  <2>6. Ordered(U)
    <3>. SUFFICES ASSUME ~Ordered(U) PROVE FALSE
      OBVIOUS
    <3>1. U \in SUBSET Nat /\ k - 1 \in Nat
      BY <2>5
    <3>2. k - 1 \in bad
      BY <2>5, <3>1
    <3>. QED
      BY <2>1, <2>5, <3>1, <3>2
  <2>7. PICK s \in [1..(k - 1) -> U] : Range(s) = U /\ Ascending(s)
    BY <2>5, <2>6
  <2>. DEFINE t == [i \in 1..k |-> IF i = 1 THEN x ELSE s[i - 1]]
  <2>8. \A i \in 1..k : i # 1 => i - 1 \in 1..(k - 1) /\ t[i] = s[i - 1] /\ s[i - 1] \in U
    BY <2>5, <2>7
  <2>9. t[1] = x /\ 1 \in 1..k
    BY <2>5
  <2>10. t \in [1..k -> T]
    BY <2>8, <2>9
  <2>11. Range(t) = T
    <3>1. \A i \in 1..k : t[i] \in T
      BY <2>10
    <3>2. ASSUME NEW y \in T PROVE \E i \in 1..k : t[i] = y
      <4>1. CASE y = x
        BY <2>9, <4>1
      <4>2. CASE y # x
        <5>1. PICK j \in 1..(k - 1) : s[j] = y
          BY <2>7, <4>2 DEF Range
        <5>2. j + 1 \in 1..k /\ j + 1 # 1 /\ (j + 1) - 1 = j
          BY <2>5
        <5>. QED
          BY <2>8, <5>1, <5>2
      <4>. QED
        BY <4>1, <4>2
    <3>3. DOMAIN t = 1..k
      OBVIOUS
    <3>. HIDE DEF t
    <3>. QED
      BY <3>1, <3>2, <3>3 DEF Range
  <2>12. Ascending(t)
    <3>. SUFFICES ASSUME NEW i \in 1..k, NEW j \in 1..k, i < j PROVE t[i] < t[j]
      BY DEF Ascending
    <3>1. j # 1 /\ j - 1 \in 1..(k - 1) /\ t[j] = s[j - 1] /\ s[j - 1] \in U
      BY <2>5, <2>8
    <3>2. CASE i = 1
      <4>1. x <= s[j - 1] /\ x # s[j - 1] /\ x \in Nat /\ s[j - 1] \in Nat
        BY <2>4, <3>1
      <4>. QED
        BY <2>9, <3>1, <3>2, <4>1
    <3>3. CASE i # 1
      <4>1. i - 1 \in 1..(k - 1) /\ t[i] = s[i - 1] /\ i - 1 < j - 1
        BY <2>5, <2>8, <3>3
      <4>. QED
        BY <2>7, <3>1, <4>1 DEF Ascending
    <3>. QED
      BY <3>2, <3>3
  <2>. HIDE DEF t
  <2>13. Ordered(T)
    BY <2>2, <2>10, <2>11, <2>12
  <2>. QED
    BY <2>2, <2>13
<1>2. Cardinality(S) \in Nat
  BY FS_CardinalityType
<1>3. Ordered(S)
  <2>. SUFFICES ASSUME ~Ordered(S) PROVE FALSE
    OBVIOUS
  <2>1. Cardinality(S) \in bad
    BY <1>2
  <2>. QED
    BY <1>1, <2>1
<1>. QED
  BY <1>3 DEF Sorted

-----------------------------------------------------------------------------
(* In a graph without duplicates a name tells the node. *)
LEMMA NamesApart ==
  ASSUME NEW spec, IsFiniteSet(spec.nodes), NoDuplicates(spec),
         NEW m \in spec.nodes, NEW n \in spec.nodes, m.name = n.name
  PROVE  m = n
<1>. DEFINE f == [x \in spec.nodes |-> x.name]
<1>1. f \in Surjection(spec.nodes, Names(spec))
  BY DEF Surjection, Names
<1>2. f \in Injection(spec.nodes, Names(spec))
  BY <1>1, FS_Surjection DEF NoDuplicates
<1>. QED
  BY <1>2 DEF Injection, IsInjective

(* It has finitely many names. *)
LEMMA NamesFinite ==
  ASSUME NEW spec, IsFiniteSet(spec.nodes)
  PROVE  IsFiniteSet(Names(spec))
<1>. DEFINE f == [x \in spec.nodes |-> x.name]
<1>1. f \in Surjection(spec.nodes, Names(spec))
  BY DEF Surjection, Names
<1>. QED
  BY <1>1, FS_Surjection

(* Any part of a graph that streams has an end: a node from which no edge    *)
(* leads back into the part.  One without would be left with none smaller. *)
LEMMA EndExists ==
  ASSUME NEW spec, IsFiniteSet(spec.nodes), Streams(spec),
         NEW X \in SUBSET Names(spec), X # {}
  PROVE  \E n \in X : \A e \in spec.edges : e.source = n => e.target \notin X
<1>. DEFINE Circles(Y) == \A n \in Y : \E e \in spec.edges : e.source = n /\ e.target \in Y
            bad == {k \in Nat : \E Y \in SUBSET Names(spec) :
                      Y # {} /\ Cardinality(Y) = k /\ Circles(Y)}
<1>0. \A Y \in SUBSET Names(spec) : IsFiniteSet(Y) /\ Cardinality(Y) \in Nat
  BY NamesFinite, FS_Subset, FS_CardinalityType
<1>1. bad = {}
  <2>. SUFFICES ASSUME bad # {} PROVE FALSE
    OBVIOUS
  <2>1. PICK k \in bad : \A j \in bad : k <= j
    BY LeastExists
  <2>2. PICK Y \in SUBSET Names(spec) : Y # {} /\ Cardinality(Y) = k /\ Circles(Y)
    BY <2>1
  <2>3. PICK n \in Y : \A e \in Inbound(spec, n) : e.source \notin Y
    BY <2>2 DEF Streams
  <2>. DEFINE Z == Y \ {n}
  <2>4. ASSUME NEW y \in Y PROVE \E e \in spec.edges : e.source = y /\ e.target \in Z
    BY <2>2, <2>3 DEF Inbound
  <2>5. Z # {} /\ Circles(Z)
    BY <2>3, <2>4
  <2>6. Cardinality(Z) = k - 1 /\ k - 1 \in Nat /\ k \in Nat /\ Z \in SUBSET Names(spec)
    <3>1. Z \in SUBSET Names(spec) /\ IsFiniteSet(Y)
      BY <1>0, <2>2
    <3>2. Cardinality(Z) = k - 1
      BY <2>2, <2>3, <3>1, FS_RemoveElement
    <3>3. Cardinality(Z) \in Nat /\ k \in Nat
      BY <1>0, <2>1, <3>1
    <3>. QED
      BY <3>1, <3>2, <3>3
  <2>. HIDE DEF Circles, Z
  <2>7. k - 1 \in bad
    BY <2>5, <2>6
  <2>. QED
    BY <2>1, <2>6, <2>7
<1>2. ~Circles(X)
  <2>. SUFFICES ASSUME Circles(X) PROVE FALSE
    OBVIOUS
  <2>1. Cardinality(X) \in bad
    BY <1>0
  <2>. QED
    BY <1>1, <2>1
<1>. QED
  BY <1>2

-----------------------------------------------------------------------------
(* A wired graph that synthesis is added to, and that is compiled with it. *)
Synthesized(spec) ==
  Valid(spec) /\ Compiles(WithSynthesis(spec)) /\ Wired(spec) /\ Synthesizable(spec)

AddedNodes(spec) == {SynthesizerNode, AggregatorNode} \union IF Single(spec) THEN {} ELSE {JoinNode}

(* What the added nodes are, and are not. *)
LEMMA AddedParts ==
  /\ SynthesizerNode.name = Synthesizer /\ SynthesizerNode.kind = "llm"
  /\ AggregatorNode.name = Aggregator /\ AggregatorNode.kind = "function"
  /\ JoinNode.name = SynthesisJoin /\ JoinNode.kind = "join"
  /\ SynthesizerNode.does = "-" /\ JoinNode.does = "-"
  /\ AggregatorNode.does = "aggregate_perspectives"
  /\ SynthesizerNode.key = <<"last_response">>
BY DEF SynthesizerNode, AggregatorNode, JoinNode, Added, Llm, Node

(* Their names are three, and no other name that the wiring speaks of. *)
LEMMA AddedNames ==
  /\ Synthesizer # Aggregator /\ Synthesizer # SynthesisJoin /\ Aggregator # SynthesisJoin
  /\ {START, Top, Executor, Planner} \intersect {Synthesizer, Aggregator, SynthesisJoin} = {}
  /\ \A s : Specialist(s) \notin {Synthesizer, Aggregator, SynthesisJoin}
<1>1. /\ Synthesizer[1] = "perspective_synthesizer" /\ Aggregator[1] = "synthesis_aggregate"
      /\ SynthesisJoin[1] = "synthesis_join" /\ START[1] = "START"
      /\ Executor[1] = "executor_agent" /\ Planner[1] = "planner_agent"
      /\ \A s : Specialist(s)[1] = "router_specialist"
  BY DEF Synthesizer, Aggregator, SynthesisJoin, START, Executor, Planner, Specialist
<1>2. Len(Top) = 0 /\ Len(Synthesizer) = 1 /\ Len(Aggregator) = 1 /\ Len(SynthesisJoin) = 1
  BY DEF Top, Synthesizer, Aggregator, SynthesisJoin
<1>3. ASSUME NEW x, Len(x) = 1 PROVE Top # x
  BY <1>2, <1>3
<1>. QED
  BY <1>1, <1>2, <1>3

(* The nodes of the result are the old ones and the added ones, whose names *)
(* are new.                                                                *)
LEMMA SynthesisNodes ==
  ASSUME NEW spec, Synthesized(spec)
  PROVE  /\ WithSynthesis(spec).nodes = spec.nodes \union AddedNodes(spec)
         /\ Valid(WithSynthesis(spec)) /\ IsFiniteSet(WithSynthesis(spec).nodes)
         /\ \A m, n \in WithSynthesis(spec).nodes : m.name = n.name => m = n
         /\ \A n \in AddedNodes(spec) : n.name \notin Names(spec)
         /\ START \notin Names(spec) /\ Top \notin Names(spec) /\ IsFiniteSet(spec.nodes)
<1>. DEFINE r == WithSynthesis(spec)
<1>1. r.nodes = spec.nodes \union AddedNodes(spec)
  BY DEF WithSynthesis, Joined, AddedNodes
<1>2. Valid(r)
  BY DEF Synthesized, Compiles, Levels, Level
<1>3. START \notin Names(spec) /\ Top \notin Names(spec) /\ IsFiniteSet(spec.nodes)
  BY DEF Synthesized, Wired, Named, Levels, Level
<1>4. IsFiniteSet(r.nodes)
  <2>1. IsFiniteSet(spec.nodes \union {SynthesizerNode})
    BY <1>3, FS_AddElement
  <2>2. IsFiniteSet((spec.nodes \union {SynthesizerNode}) \union {AggregatorNode})
    BY <2>1, FS_AddElement
  <2>3. IsFiniteSet(((spec.nodes \union {SynthesizerNode}) \union {AggregatorNode}) \union {JoinNode})
    BY <2>2, FS_AddElement
  <2>4. r.nodes \subseteq ((spec.nodes \union {SynthesizerNode}) \union {AggregatorNode}) \union {JoinNode}
    BY <1>1 DEF AddedNodes
  <2>. QED
    BY <2>3, <2>4, FS_Subset
<1>. HIDE DEF r
<1>5. \A m, n \in r.nodes : m.name = n.name => m = n
  BY <1>2, <1>4, NamesApart DEF Valid
<1>6. ASSUME NEW n \in AddedNodes(spec), n.name \in Names(spec) PROVE FALSE
  <2>1. PICK m \in spec.nodes : m.name = n.name
    BY <1>6 DEF Names
  <2>2. m = n
    BY <1>1, <1>5, <2>1
  <2>. QED
    BY <2>1, <2>2 DEF Synthesized, Synthesizable, AddedNodes
<1>. QED
  BY <1>1, <1>2, <1>3, <1>4, <1>5, <1>6 DEF r

(* A single terminal is the last node. *)
LEMMA SingleLast ==
  ASSUME NEW spec, IsFiniteSet(spec.nodes), Single(spec)
  PROVE  Terminals(spec) = {LastNode(spec)} /\ LastNode(spec) \in Names(spec)
<1>1. IsFiniteSet(Terminals(spec)) /\ Terminals(spec) \subseteq Names(spec)
  BY NamesFinite, FS_Subset DEF Terminals
<1>2. PICK x : Terminals(spec) = {x}
  BY <1>1, FS_Singleton DEF Single
<1>3. LastNode(spec) = CHOOSE t \in Terminals(spec) : TRUE
  BY DEF LastNode
<1>. QED
  BY <1>1, <1>2, <1>3

(* Its edges are the old ones, from every terminal to the join if there is  *)
(* one, and to the synthesizer and the aggregation.                        *)
LEMMA SynthesisEdges ==
  ASSUME NEW spec, Synthesized(spec)
  PROVE  /\ \A e : e \in WithSynthesis(spec).edges <=>
              \/ e \in spec.edges
              \/ ~Single(spec) /\ \E t \in Terminals(spec) : e = Edge(t, SynthesisJoin, NoRoute)
              \/ e = Edge(LastNode(spec), Synthesizer, NoRoute)
              \/ e = Edge(Synthesizer, Aggregator, NoRoute)
         /\ LastNode(spec) # START
         /\ Single(spec) => LastNode(spec) \in Names(spec)
         /\ ~Single(spec) => LastNode(spec) = SynthesisJoin
         /\ \A t \in Terminals(spec) : t \in Names(spec) /\ (Single(spec) => t = LastNode(spec))
         /\ \A e \in spec.edges : e.source \in Names(spec) \union {START} /\ e.target \in Names(spec)
<1>1. IsFiniteSet(spec.nodes) /\ START \notin Names(spec)
  BY SynthesisNodes
<1>2. ~Single(spec) => LastNode(spec) = SynthesisJoin
  BY DEF LastNode
<1>3. LastNode(spec) # START
  BY <1>1, <1>2, SingleLast, AddedNames
<1>4. \A e : e \in WithSynthesis(spec).edges <=>
        \/ e \in spec.edges
        \/ ~Single(spec) /\ \E t \in Terminals(spec) : e = Edge(t, SynthesisJoin, NoRoute)
        \/ e = Edge(LastNode(spec), Synthesizer, NoRoute)
        \/ e = Edge(Synthesizer, Aggregator, NoRoute)
  BY DEF WithSynthesis, Joined
<1>5. \A e \in spec.edges : e.source \in Names(spec) \union {START} /\ e.target \in Names(spec)
  BY DEF Synthesized, Valid, EndpointsExist
<1>6. \A t \in Terminals(spec) : t \in Names(spec) /\ (Single(spec) => t = LastNode(spec))
  BY <1>1, SingleLast DEF Terminals
<1>. QED
  BY <1>1, <1>2, <1>3, <1>4, <1>5, <1>6, SingleLast

(* Nothing new leads to what was there, and nothing new from START.         *)
LEMMA SynthesisApart ==
  ASSUME NEW spec, Synthesized(spec)
  PROVE  /\ \A x : x \notin {n.name : n \in AddedNodes(spec)} =>
              Inbound(WithSynthesis(spec), x) = Inbound(spec, x)
         /\ Outgoing(WithSynthesis(spec), START) = Outgoing(spec, START)
         /\ Inbound(WithSynthesis(spec), Synthesizer) = {Edge(LastNode(spec), Synthesizer, NoRoute)}
         /\ Inbound(WithSynthesis(spec), Aggregator) = {Edge(Synthesizer, Aggregator, NoRoute)}
         /\ ~Single(spec) => Inbound(WithSynthesis(spec), SynthesisJoin) =
                               {Edge(t, SynthesisJoin, NoRoute) : t \in Terminals(spec)}
<1>. DEFINE r == WithSynthesis(spec)
<1>1. /\ \A e : e \in r.edges <=>
           \/ e \in spec.edges
           \/ ~Single(spec) /\ \E t \in Terminals(spec) : e = Edge(t, SynthesisJoin, NoRoute)
           \/ e = Edge(LastNode(spec), Synthesizer, NoRoute)
           \/ e = Edge(Synthesizer, Aggregator, NoRoute)
      /\ LastNode(spec) # START
      /\ \A t \in Terminals(spec) : t \in Names(spec)
      /\ \A e \in spec.edges : e.target \in Names(spec)
  BY SynthesisEdges
<1>2. /\ Synthesizer \notin Names(spec) /\ Aggregator \notin Names(spec) /\ START \notin Names(spec)
      /\ ~Single(spec) => SynthesisJoin \notin Names(spec)
  BY SynthesisNodes, AddedParts DEF AddedNodes
<1>3. \A s, t : Edge(s, t, NoRoute).source = s /\ Edge(s, t, NoRoute).target = t
  BY DEF Edge
<1>4. \A x : x \notin {n.name : n \in AddedNodes(spec)} =>
        x # Synthesizer /\ x # Aggregator /\ (~Single(spec) => x # SynthesisJoin)
  BY AddedParts DEF AddedNodes
<1>. HIDE DEF r
<1>5. \A x, e : e \in Inbound(r, x) <=> e \in r.edges /\ e.target = x
  BY DEF Inbound
<1>6. ASSUME NEW x, x \notin {n.name : n \in AddedNodes(spec)} PROVE Inbound(r, x) = Inbound(spec, x)
  <2>1. x # Synthesizer /\ x # Aggregator /\ (~Single(spec) => x # SynthesisJoin)
    BY <1>4, <1>6
  <2>2. \A e : e \in r.edges /\ e.target = x <=> e \in spec.edges /\ e.target = x
    BY <1>1, <1>3, <2>1
  <2>. QED
    BY <2>2 DEF Inbound
<1>7. Outgoing(r, START) = Outgoing(spec, START)
  <2>1. \A e : e \in r.edges /\ e.source = START <=> e \in spec.edges /\ e.source = START
    <3>1. START # Synthesizer
      BY AddedNames
    <3>2. ASSUME NEW e \in r.edges, e.source = START PROVE e \in spec.edges
      BY <1>1, <1>2, <1>3, <3>1, <3>2
    <3>. QED
      BY <1>1, <3>2
  <2>. QED
    BY <2>1 DEF Outgoing
<1>8. \A e : e \in Inbound(r, Synthesizer) <=> e = Edge(LastNode(spec), Synthesizer, NoRoute)
  BY <1>1, <1>2, <1>3, <1>5, AddedNames
<1>9. \A e : e \in Inbound(r, Aggregator) <=> e = Edge(Synthesizer, Aggregator, NoRoute)
  BY <1>1, <1>2, <1>3, <1>5, AddedNames
<1>10. ~Single(spec) => \A e : e \in Inbound(r, SynthesisJoin) <=>
                          \E t \in Terminals(spec) : e = Edge(t, SynthesisJoin, NoRoute)
  BY <1>1, <1>2, <1>3, <1>5, AddedNames
<1>. QED
  BY <1>6, <1>7, <1>8, <1>9, <1>10 DEF r

(* The nested graphs are those there were. *)
LEMMA SynthesisLevels ==
  ASSUME NEW spec, Synthesized(spec)
  PROVE  /\ Levels(WithSynthesis(spec)) = Levels(spec)
         /\ \A g \in Levels(spec) : g # Top => Level(WithSynthesis(spec), g) = Level(spec, g)
         /\ Level(WithSynthesis(spec), Top) = WithSynthesis(spec) /\ Level(spec, Top) = spec
<1>. DEFINE r == WithSynthesis(spec)
<1>1. /\ r.nodes = spec.nodes \union AddedNodes(spec)
      /\ \A m, n \in r.nodes : m.name = n.name => m = n
  BY SynthesisNodes
<1>. HIDE DEF r
<1>2. \A n \in AddedNodes(spec) : n.kind # "graph"
  BY AddedParts DEF AddedNodes
<1>3. {n \in r.nodes : n.kind = "graph"} = {n \in spec.nodes : n.kind = "graph"}
  BY <1>1, <1>2
<1>4. Levels(r) = Levels(spec)
  BY <1>3 DEF Levels
<1>5. ASSUME NEW g \in Levels(spec), g # Top PROVE Level(r, g) = Level(spec, g)
  <2>1. PICK k \in spec.nodes : k.name = g
    BY <1>5 DEF Levels
  <2>2. \A n \in r.nodes : n.name = g <=> n = k
    BY <1>1, <2>1
  <2>3. Level(r, g) = k.graph
    <3>1. Level(r, g) = (CHOOSE n \in r.nodes : n.name = g).graph
      BY <1>5 DEF Level
    <3>2. (CHOOSE n \in r.nodes : n.name = g) = k
      BY <1>1, <2>1, <2>2
    <3>. QED
      BY <3>1, <3>2
  <2>4. Level(spec, g) = k.graph
    <3>1. Level(spec, g) = (CHOOSE n \in spec.nodes : n.name = g).graph
      BY <1>5 DEF Level
    <3>2. (CHOOSE n \in spec.nodes : n.name = g) = k
      BY <1>1, <2>1, <2>2
    <3>. QED
      BY <3>1, <3>2
  <2>. QED
    BY <2>3, <2>4
<1>. QED
  BY <1>4, <1>5 DEF Level, r

(* There is a terminal, or the join would be refused; so a loop, which has  *)
(* none, is no graph that synthesis is added to.                           *)
LEMMA TerminalExists ==
  ASSUME NEW spec, Synthesized(spec)
  PROVE  Terminals(spec) # {}
<1>. SUFFICES ASSUME Terminals(spec) = {} PROVE FALSE
  OBVIOUS
<1>1. ~Single(spec)
  BY FS_EmptySet DEF Single
<1>2. JoinNode \in WithSynthesis(spec).nodes /\ Valid(WithSynthesis(spec))
  BY <1>1, SynthesisNodes DEF AddedNodes
<1>3. Inbound(WithSynthesis(spec), SynthesisJoin) = {}
  BY <1>1, SynthesisApart
<1>4. Cardinality(Inbound(WithSynthesis(spec), JoinNode.name)) = 0
  BY <1>3, AddedParts, FS_EmptySet
<1>. QED
  BY <1>2, <1>4, AddedParts DEF Valid

(* A graph that streams or flows, does so on into its synthesis. *)
LEMMA SynthesisFlows ==
  ASSUME NEW spec, Synthesized(spec), Streams(spec)
  PROVE  Streams(WithSynthesis(spec)) /\ (Flows(spec) => Flows(WithSynthesis(spec)))
<1>. DEFINE r == WithSynthesis(spec)
<1>1. /\ r.nodes = spec.nodes \union AddedNodes(spec)
      /\ \A n \in AddedNodes(spec) : n.name \notin Names(spec)
      /\ START \notin Names(spec)
  BY SynthesisNodes
<1>2. /\ \A e : e \in r.edges <=>
           \/ e \in spec.edges
           \/ ~Single(spec) /\ \E t \in Terminals(spec) : e = Edge(t, SynthesisJoin, NoRoute)
           \/ e = Edge(LastNode(spec), Synthesizer, NoRoute)
           \/ e = Edge(Synthesizer, Aggregator, NoRoute)
      /\ Single(spec) => LastNode(spec) \in Names(spec)
      /\ ~Single(spec) => LastNode(spec) = SynthesisJoin
      /\ \A t \in Terminals(spec) : t \in Names(spec)
      /\ \A e \in spec.edges : e.source \in Names(spec) \union {START}
  BY SynthesisEdges
<1>3. /\ \A x : x \notin {n.name : n \in AddedNodes(spec)} => Inbound(r, x) = Inbound(spec, x)
      /\ Inbound(r, Synthesizer) = {Edge(LastNode(spec), Synthesizer, NoRoute)}
      /\ Inbound(r, Aggregator) = {Edge(Synthesizer, Aggregator, NoRoute)}
      /\ ~Single(spec) => Inbound(r, SynthesisJoin) =
                            {Edge(t, SynthesisJoin, NoRoute) : t \in Terminals(spec)}
  BY SynthesisApart
<1>4. \A s, t : /\ Edge(s, t, NoRoute).source = s /\ Edge(s, t, NoRoute).target = t
                /\ Edge(s, t, NoRoute).route = NoRoute
  BY DEF Edge
<1>5. \A x \in Names(spec) : Inbound(r, x) = Inbound(spec, x)
  BY <1>1, <1>3
<1>6. Names(r) = Names(spec) \union {n.name : n \in AddedNodes(spec)}
  BY <1>1 DEF Names
<1>7. \A x \in Names(r) \ Names(spec) :
        x = Synthesizer \/ x = Aggregator \/ (x = SynthesisJoin /\ ~Single(spec))
  BY <1>6, AddedParts DEF AddedNodes
<1>8. /\ Synthesizer \notin Names(spec) /\ Aggregator \notin Names(spec)
      /\ ~Single(spec) => SynthesisJoin \notin Names(spec)
  BY <1>1, AddedParts DEF AddedNodes
<1>9. START \notin Names(r)
  BY <1>1, <1>7, AddedNames
<1>. HIDE DEF r
<1>10. Flows(spec) => \A e \in r.edges : e.route = NoRoute
  BY <1>2, <1>4 DEF Flows
<1>11. ASSUME NEW n \in r.nodes
       PROVE  IF n.kind = "join" THEN \A e \in Inbound(r, n.name) : e.source # START
              ELSE \A e, f \in Inbound(r, n.name) : e = f
  <2>1. CASE n \in spec.nodes
    <3>1. Inbound(r, n.name) = Inbound(spec, n.name)
      BY <1>5, <2>1 DEF Names
    <3>. QED
      BY <2>1, <3>1 DEF Streams
  <2>2. CASE n = SynthesizerNode \/ n = AggregatorNode
    BY <1>3, <2>2, AddedParts
  <2>3. CASE n = JoinNode /\ ~Single(spec)
    BY <1>1, <1>2, <1>3, <1>4, <2>3, AddedParts
  <2>. QED
    BY <1>1, <2>1, <2>2, <2>3 DEF AddedNodes
<1>12. ASSUME NEW part \in SUBSET Names(r), part # {}
       PROVE  \E n \in part : \A e \in Inbound(r, n) : e.source \notin part
  <2>1. CASE part \intersect Names(spec) # {}
    <3>. DEFINE old == part \intersect Names(spec)
    <3>1. old \in SUBSET Names(spec) /\ old # {}
      BY <2>1
    <3>2. PICK n \in old : \A e \in Inbound(spec, n) : e.source \notin old
      BY <3>1 DEF Streams
    <3>3. \A e \in Inbound(spec, n) : e.source \notin part
      BY <1>2, <1>9, <3>2 DEF Inbound
    <3>. QED
      BY <1>5, <3>2, <3>3
  <2>2. CASE part \intersect Names(spec) = {} /\ SynthesisJoin \in part
    <3>1. ~Single(spec)
      BY <1>7, <2>2, AddedNames
    <3>2. \A e \in Inbound(r, SynthesisJoin) : e.source \notin part
      BY <1>2, <1>3, <1>4, <2>2, <3>1
    <3>. QED
      BY <2>2, <3>2
  <2>3. CASE part \intersect Names(spec) = {} /\ SynthesisJoin \notin part /\ Synthesizer \in part
    <3>1. LastNode(spec) \notin part
      BY <1>2, <2>3
    <3>. QED
      BY <1>3, <1>4, <2>3, <3>1
  <2>4. CASE part \intersect Names(spec) = {} /\ SynthesisJoin \notin part /\ Synthesizer \notin part
    <3>1. PICK x \in part : TRUE
      BY <1>12
    <3>2. x \in Names(r) \ Names(spec)
      BY <2>4, <3>1
    <3>3. Aggregator \in part
      BY <1>7, <2>4, <3>1, <3>2
    <3>. QED
      BY <1>3, <1>4, <2>4, <3>3
  <2>. QED
    BY <2>1, <2>2, <2>3, <2>4
<1>13. ASSUME Flows(spec), NEW x \in Names(r) PROVE Inbound(r, x) # {}
  <2>1. x \in Names(spec) => Inbound(r, x) # {}
    BY <1>5, <1>13 DEF Flows
  <2>2. ~Single(spec) => Inbound(r, SynthesisJoin) # {}
    BY <1>3, TerminalExists
  <2>. QED
    BY <1>3, <1>7, <2>1, <2>2
<1>. QED
  BY <1>10, <1>11, <1>12, <1>13 DEF Streams, Flows, r

-----------------------------------------------------------------------------
(* The counters are those there were, and a graph that synthesis is added   *)
(* to is no loop itself, for a loop has no terminal.                       *)
LEMMA SynthesisLoops ==
  ASSUME NEW spec, Synthesized(spec)
  PROVE  /\ \A g \in Levels(spec) : Loops(WithSynthesis(spec), g) = Loops(spec, g)
         /\ Loops(spec, Top) = {}
         /\ \A n \in AddedNodes(spec) : n.does \in {"-", "aggregate_perspectives"}
<1>. DEFINE r == WithSynthesis(spec)
<1>1. \A n \in AddedNodes(spec) : n.does \in {"-", "aggregate_perspectives"}
  BY AddedParts DEF AddedNodes
<1>2. \A g \in Levels(spec) : Loops(r, g) = Loops(spec, g)
  <2>1. r.nodes = spec.nodes \union AddedNodes(spec)
    BY SynthesisNodes
  <2>. HIDE DEF r
  <2>2. {n \in r.nodes : n.does = "loop_counter"} = {n \in spec.nodes : n.does = "loop_counter"}
    BY <1>1, <2>1
  <2>. QED
    BY <2>2, SynthesisLevels DEF Loops, r
<1>3. Loops(spec, Top) = {}
  <2>. SUFFICES ASSUME NEW n \in Loops(spec, Top) PROVE FALSE
    OBVIOUS
  <2>1. PICK body \in Names(spec) : Looped(spec, body, n.name)
    BY SynthesisLevels DEF Synthesized, Wired, LoopsApart, Levels
  <2>2. Edge(body, n.name, NoRoute) \in Outgoing(spec, body)
        /\ Edge(n.name, body, AGAIN_ROUTE) \in Outgoing(spec, n.name)
    BY <2>1 DEF Looped, Outgoing, Edge
  <2>3. Terminals(spec) = {}
    BY <2>1, <2>2 DEF Terminals, Looped
  <2>. QED
    BY <2>3, TerminalExists
<1>. QED
  BY <1>1, <1>2, <1>3

(* What was there waits for no more than it did. *)
LEMMA SynthesisUpstream ==
  ASSUME NEW spec, Synthesized(spec), NEW n \in Names(spec)
  PROVE  /\ n \in Names(WithSynthesis(spec))
         /\ Inbound(WithSynthesis(spec), n) = Inbound(spec, n)
         /\ Certain(spec, n) => Certain(WithSynthesis(spec), n)
         /\ \A k : Before(spec, k, n) => Before(WithSynthesis(spec), k, n)
<1>. DEFINE r == WithSynthesis(spec)
<1>1. Names(spec) \subseteq Names(r)
  BY SynthesisNodes DEF Names
<1>2. \A x \in Names(spec) : Inbound(r, x) = Inbound(spec, x)
  BY SynthesisNodes, SynthesisApart
<1>3. \A e \in spec.edges : e.source \in Names(spec) \union {START}
  BY SynthesisEdges
<1>. HIDE DEF r
<1>4. ASSUME Certain(spec, n) PROVE Certain(r, n)
  <2>1. PICK part \in SUBSET Names(spec) :
          /\ n \in part /\ Closed(spec, part)
          /\ \A m \in part : Inbound(spec, m) # {} /\ \A e \in Inbound(spec, m) : e.route = NoRoute
    BY <1>4 DEF Certain
  <2>2. part \in SUBSET Names(r) /\ \A m \in part : Inbound(r, m) = Inbound(spec, m)
    BY <1>1, <1>2
  <2>3. Closed(r, part)
    BY <2>1, <2>2 DEF Closed
  <2>. QED
    BY <2>1, <2>2, <2>3 DEF Certain
<1>5. ASSUME NEW k, Before(spec, k, n) PROVE Before(r, k, n)
  <2>. SUFFICES ASSUME NEW part \in SUBSET Names(r), n \in part, Closed(r, part) PROVE k \in part
    BY <1>5 DEF Before
  <2>. DEFINE old == part \intersect Names(spec)
  <2>1. Closed(spec, old)
    BY <1>2, <1>3 DEF Closed, Inbound
  <2>2. old \in SUBSET Names(spec) /\ n \in old
    OBVIOUS
  <2>. QED
    BY <1>5, <2>1, <2>2 DEF Before
<1>. QED
  BY <1>1, <1>2, <1>4, <1>5 DEF r

(* So stages have their place, with synthesis, where they had it before. *)
LEMMA SynthesisPlaced ==
  ASSUME NEW spec, Synthesized(spec), NEW stage, stage.kind \in {"all", "loop", "one"},
         Placed(spec, stage)
  PROVE  Placed(WithSynthesis(spec), stage)
<1>. DEFINE r == WithSynthesis(spec)
<1>1. /\ Levels(r) = Levels(spec)
      /\ \A g \in Levels(spec) : g # Top => Level(r, g) = Level(spec, g)
      /\ Level(r, Top) = r /\ Level(spec, Top) = spec
  BY SynthesisLevels
<1>2. /\ \A g \in Levels(spec) : Loops(r, g) = Loops(spec, g)
      /\ Loops(spec, Top) = {}
  BY SynthesisLoops
<1>3. /\ \A n \in Names(spec) : n \in Names(r) /\ Inbound(r, n) = Inbound(spec, n)
      /\ \A n \in Names(spec) : Certain(spec, n) => Certain(r, n)
  BY SynthesisUpstream
<1>4. Streams(spec) => Streams(r)
  BY SynthesisFlows
<1>5. r.nodes = spec.nodes \union AddedNodes(spec)
  BY SynthesisNodes
<1>6. \A g \in Levels(spec) \ {Top} : g \in Names(spec)
  BY DEF Levels, Names
<1>7. \A n \in AddedNodes(spec) : ~Tells(n)
  <2>1. <<"last_response">> # <<"routed_to">>
    OBVIOUS
  <2>. QED
    BY <2>1, AddedParts DEF AddedNodes, Tells
<1>8. ASSUME NEW n \in spec.nodes, Outgoing(spec, n.name) # {}
      PROVE  Outgoing(r, n.name) = Outgoing(spec, n.name)
  <2>1. n.name \in Names(spec) /\ n.name \notin Terminals(spec)
    BY <1>8 DEF Names, Terminals
  <2>2. /\ n.name # Synthesizer
        /\ ~Single(spec) => n.name # SynthesisJoin
    BY <2>1, SynthesisNodes, AddedParts DEF AddedNodes
  <2>3. n.name # LastNode(spec)
    BY <2>1, <2>2, SingleLast, SynthesisNodes DEF LastNode
  <2>4. \A s, t : Edge(s, t, NoRoute).source = s
    BY DEF Edge
  <2>5. \A e : e \in r.edges /\ e.source = n.name <=> e \in spec.edges /\ e.source = n.name
    BY <2>1, <2>2, <2>3, <2>4, SynthesisEdges
  <2>. QED
    BY <2>5 DEF Outgoing
<1>9. \A e \in spec.edges : e.target \in Names(spec)
  BY SynthesisEdges
<1>. HIDE DEF r
<1>10. \A g \in Levels(spec) : Entry(spec, g) => Entry(r, g)
  BY <1>3, <1>4, <1>6 DEF Entry
<1>11. \A g \in Levels(spec) : Streams(Level(spec, g)) => Streams(Level(r, g))
  BY <1>1, <1>4
<1>12. \A g \in Levels(spec) : \A n \in Names(Level(spec, g)) :
         /\ n \in Names(Level(r, g))
         /\ Certain(Level(spec, g), n) => Certain(Level(r, g), n)
  BY <1>1, <1>3
<1>13. CASE stage.kind = "all"
  BY <1>1, <1>10, <1>11, <1>12, <1>13 DEF Placed, r
<1>14. CASE stage.kind = "loop"
  <2>1. \A g \in Levels(spec) : \A c \in Loops(spec, g) : Level(r, g) = Level(spec, g) /\ c \in Loops(r, g)
    BY <1>1, <1>2
  <2>2. \A n \in stage.names : \E g \in Levels(spec) :
           /\ Entry(spec, g) /\ n \in Names(Level(spec, g))
           /\ \E c \in Loops(spec, g) : Looped(Level(spec, g), n, c.name) /\ c.max = stage.max
    BY <1>14 DEF Placed
  <2>3. \A n \in stage.names : \E g \in Levels(r) :
           /\ Entry(r, g) /\ n \in Names(Level(r, g))
           /\ \E c \in Loops(r, g) : Looped(Level(r, g), n, c.name) /\ c.max = stage.max
    BY <1>1, <1>10, <2>1, <2>2
  <2>. QED
    BY <1>14, <2>3 DEF Placed, r
<1>15. CASE stage.kind = "one"
  <2>1. PICK n \in spec.nodes : Selects(spec, n, stage.names)
    BY <1>15 DEF Placed
  <2>2. Outgoing(spec, n.name) # {}
    BY <2>1 DEF Selects
  <2>3. Outgoing(r, n.name) = Outgoing(spec, n.name)
    BY <1>8, <2>2 DEF r
  <2>4. \A e \in Outgoing(spec, n.name) : Inbound(r, e.target) = Inbound(spec, e.target)
    BY <1>3, <1>9 DEF Outgoing
  <2>5. Streams(r) /\ Certain(r, n.name)
    BY <1>3, <1>4, <2>1 DEF Selects, Names
  <2>6. (\A g \in Levels(spec) : \A m \in Level(spec, g).nodes : ~Tells(m)) =>
           \A g \in Levels(r) : \A m \in Level(r, g).nodes : ~Tells(m)
    BY <1>1, <1>5, <1>7
  <2>7. Selects(r, n, stage.names)
    BY <2>1, <2>3, <2>4, <2>5, <2>6 DEF Selects
  <2>. QED
    BY <1>5, <1>15, <2>7 DEF Placed, r
<1>. QED
  BY <1>13, <1>14, <1>15 DEF r

(* The synthesizer waits for all that was there: a part that it waits for    *)
(* has all the terminals, so the rest would have no end.                    *)
LEMMA BeforeSynthesis ==
  ASSUME NEW spec, Synthesized(spec), Streams(spec), NEW x \in Names(spec)
  PROVE  Before(WithSynthesis(spec), x, Synthesizer)
<1>. DEFINE r == WithSynthesis(spec)
<1>1. x # Synthesizer
  BY SynthesisNodes, AddedParts DEF AddedNodes
<1>. SUFFICES ASSUME NEW part \in SUBSET Names(r), Synthesizer \in part, Closed(r, part), x \notin part
              PROVE  FALSE
  BY <1>1 DEF Before
<1>2. \A s, t : Edge(s, t, NoRoute).source = s
  BY DEF Edge
<1>3. \A m \in part : \A e \in Inbound(r, m) : e.source \in part \union {START}
  BY DEF Closed
<1>4. LastNode(spec) \in part
  BY <1>2, <1>3, SynthesisApart, SynthesisEdges
<1>5. Terminals(spec) \subseteq part
  <2>. SUFFICES ASSUME NEW t \in Terminals(spec) PROVE t \in part
    OBVIOUS
  <2>1. CASE Single(spec)
    BY <1>4, <2>1, SynthesisEdges
  <2>2. CASE ~Single(spec)
    <3>1. SynthesisJoin \in part
      BY <1>4, <2>2, SynthesisEdges
    <3>2. Edge(t, SynthesisJoin, NoRoute) \in Inbound(r, SynthesisJoin)
      BY <2>2, SynthesisApart
    <3>3. t # START
      BY SynthesisEdges, SynthesisNodes
    <3>. QED
      BY <1>2, <1>3, <3>1, <3>2, <3>3
  <2>. QED
    BY <2>1, <2>2
<1>. DEFINE rest == Names(spec) \ part
<1>6. IsFiniteSet(spec.nodes) /\ START \notin Names(spec)
  BY SynthesisNodes
<1>7. PICK n \in rest : \A e \in spec.edges : e.source = n => e.target \notin rest
  BY <1>6, EndExists
<1>8. PICK e \in spec.edges : e.source = n
  BY <1>5, <1>7 DEF Terminals, Outgoing
<1>9. e.target \in part /\ e \in Inbound(r, e.target)
  <2>1. e.target \in Names(spec)
    BY SynthesisEdges
  <2>2. Inbound(r, e.target) = Inbound(spec, e.target)
    BY <2>1, SynthesisUpstream
  <2>. QED
    BY <1>7, <1>8, <2>1, <2>2 DEF Inbound
<1>. QED
  BY <1>3, <1>6, <1>7, <1>8, <1>9

-----------------------------------------------------------------------------
(* with_synthesis leaves a graph wired, and gathers the perspectives that   *)
(* are written in it.                                                      *)
THEOREM SynthesisWired ==
  ASSUME NEW spec, Synthesized(spec)
  PROVE  Wired(WithSynthesis(spec))
<1>. DEFINE r == WithSynthesis(spec)
<1>1. /\ r.nodes = spec.nodes \union AddedNodes(spec)
      /\ IsFiniteSet(r.nodes)
      /\ \A m, n \in r.nodes : m.name = n.name => m = n
      /\ \A n \in AddedNodes(spec) : n.name \notin Names(spec)
      /\ START \notin Names(spec) /\ Top \notin Names(spec)
  BY SynthesisNodes
<1>2. /\ Levels(r) = Levels(spec)
      /\ \A g \in Levels(spec) : g # Top => Level(r, g) = Level(spec, g)
      /\ Level(r, Top) = r /\ Level(spec, Top) = spec
  BY SynthesisLevels
<1>3. /\ \A x : x \notin {n.name : n \in AddedNodes(spec)} => Inbound(r, x) = Inbound(spec, x)
      /\ Outgoing(r, START) = Outgoing(spec, START)
  BY SynthesisApart
<1>4. \A n \in AddedNodes(spec) :
        /\ n.does \in {"-", "aggregate_perspectives"} /\ (n.does # "-" => n.kind = "function")
        /\ ~Writes(n) /\ ~Tells(n)
        /\ n.name \in {Synthesizer, Aggregator, SynthesisJoin}
  <2>1. <<"last_response">> # <<"routed_to">> /\ <<"last_response">>[1] # "perspective"
    <3>1. <<"last_response">>[1] = "last_response" /\ <<"routed_to">>[1] = "routed_to"
      OBVIOUS
    <3>. QED
      BY <3>1
  <2>. QED
    BY <2>1, AddedParts DEF AddedNodes, Writes, Tells
<1>5. Names(r) = Names(spec) \union {n.name : n \in AddedNodes(spec)}
  BY <1>1 DEF Names
<1>6. Wired(spec)
  BY DEF Synthesized
<1>. HIDE DEF r
<1>7. Named(r)
  <2>1. ASSUME NEW g \in Levels(r), g # Top
        PROVE  /\ IsFiniteSet(Level(r, g).nodes)
               /\ START \notin Names(Level(r, g)) /\ Top \notin Names(Level(r, g))
               /\ \A m, n \in Level(r, g).nodes :
                    /\ m.name = n.name => m = n
                    /\ m.does # "-" => m.kind = "function"
                    /\ m.kind # "graph"
                    /\ Writes(m) => m.key[2] \in Nat
    BY <1>2, <1>6, <2>1 DEF Wired, Named
  <2>2. \A m \in spec.nodes : (m.does # "-" => m.kind = "function") /\ (Writes(m) => m.key[2] \in Nat)
    BY <1>2, <1>6 DEF Wired, Named, Levels
  <2>3. START \notin Names(r) /\ Top \notin Names(r)
    BY <1>1, <1>4, <1>5, AddedNames
  <2>4. \A m \in r.nodes : (m.does # "-" => m.kind = "function") /\ (Writes(m) => m.key[2] \in Nat)
    BY <1>1, <1>4, <2>2
  <2>. QED
    BY <1>1, <1>2, <2>1, <2>3, <2>4 DEF Named
<1>8. \A g \in Levels(r) : Loops(r, g) = Loops(spec, g)
  BY <1>2, SynthesisLoops DEF r
<1>9. Loops(spec, Top) = {}
  BY SynthesisLoops
<1>10. LoopsApart(r)
  <2>. SUFFICES ASSUME NEW g \in Levels(r), NEW n \in Loops(r, g)
                PROVE  /\ n.max \in 1..MaxTimes
                       /\ \E body \in Names(Level(r, g)) : Looped(Level(r, g), body, n.name)
                       /\ g # Top => Flows(r)
                       /\ \A h \in Levels(r) : \A m \in Loops(r, h) : m.name = n.name => g = h
    BY DEF LoopsApart
  <2>1. g # Top /\ g \in Levels(spec) /\ n \in Loops(spec, g)
    BY <1>2, <1>8, <1>9
  <2>2. /\ n.max \in 1..MaxTimes
        /\ \E body \in Names(Level(spec, g)) : Looped(Level(spec, g), body, n.name)
        /\ Flows(spec)
        /\ \A h \in Levels(spec) : \A m \in Loops(spec, h) : m.name = n.name => g = h
    BY <1>6, <2>1 DEF Wired, LoopsApart
  <2>3. Flows(r)
    BY <2>2, SynthesisFlows DEF r, Flows
  <2>. QED
    BY <1>2, <1>8, <2>1, <2>2, <2>3
<1>11. \A g \in Levels(r) : \A m \in Level(r, g).nodes : Tells(m) \/ Writes(m) => m \in Level(spec, g).nodes
  BY <1>1, <1>2, <1>4
<1>12. Dispatches(r)
  <2>. SUFFICES ASSUME NEW n \in r.nodes, n.does = "route_dispatch", n.routes # <<>>
                PROVE  /\ DOMAIN n.routes = 1..Len(n.routes)
                       /\ {NoRoute, DEFAULT_ROUTE} \intersect Range(n.routes) = {}
                       /\ \A s \in Range(n.routes) : \A e \in Inbound(r, Specialist(s)) :
                            e.source = n.name /\ e.route = s
                       /\ \A g \in Levels(r) : \A m \in Level(r, g).nodes : Tells(m) =>
                            /\ g = Top
                            /\ \A e \in Inbound(r, m.name) : e.source = START
                            /\ \A e \in Inbound(r, n.name) : e.source = m.name
    BY DEF Dispatches
  <2>1. n \in spec.nodes
    BY <1>1, <1>4
  <2>2. /\ DOMAIN n.routes = 1..Len(n.routes)
        /\ {NoRoute, DEFAULT_ROUTE} \intersect Range(n.routes) = {}
        /\ \A s \in Range(n.routes) : \A e \in Inbound(spec, Specialist(s)) :
             e.source = n.name /\ e.route = s
        /\ \A g \in Levels(spec) : \A m \in Level(spec, g).nodes : Tells(m) =>
             /\ g = Top
             /\ \A e \in Inbound(spec, m.name) : e.source = START
             /\ \A e \in Inbound(spec, n.name) : e.source = m.name
    BY <1>6, <2>1 DEF Wired, Dispatches
  <2>3. \A m \in spec.nodes : Inbound(r, m.name) = Inbound(spec, m.name)
    BY <1>1, <1>3 DEF Names
  <2>4. \A s : Inbound(r, Specialist(s)) = Inbound(spec, Specialist(s))
    BY <1>3, <1>4, AddedNames
  <2>5. ASSUME NEW g \in Levels(r), NEW m \in Level(r, g).nodes, Tells(m)
        PROVE  /\ g = Top
               /\ \A e \in Inbound(r, m.name) : e.source = START
               /\ \A e \in Inbound(r, n.name) : e.source = m.name
    <3>1. g \in Levels(spec) /\ m \in Level(spec, g).nodes
      BY <1>2, <1>11, <2>5
    <3>2. /\ g = Top
          /\ \A e \in Inbound(spec, m.name) : e.source = START
          /\ \A e \in Inbound(spec, n.name) : e.source = m.name
      BY <2>2, <2>5, <3>1
    <3>. QED
      BY <1>2, <2>1, <2>3, <3>1, <3>2
  <2>. QED
    BY <2>2, <2>4, <2>5
<1>13. Planned(r)
  <2>. SUFFICES ASSUME Executor \in Names(r)
                PROVE  /\ \E n \in r.nodes : n.name = Planner /\ n.does = "plan_execute"
                       /\ \E e \in Outgoing(r, START) : e.target = Planner
    BY DEF Planned
  <2>1. Executor \in Names(spec)
    BY <1>4, <1>5, AddedNames
  <2>. QED
    BY <1>1, <1>3, <1>6, <2>1 DEF Wired, Planned
<1>14. Gathers(r)
  <2>. SUFFICES ASSUME Perspectives(r)
                PROVE  /\ Flows(r)
                       /\ \A n \in Names(r) \ {Aggregator} : Outgoing(r, n) # {}
                       /\ \E n \in r.nodes : n.name = Aggregator /\ n.does = "aggregate_perspectives"
    BY DEF Gathers
  <2>1. Perspectives(spec)
    BY <1>2, <1>11 DEF Perspectives
  <2>2. Flows(r)
    BY <2>1, SynthesisFlows DEF r, Synthesized, Synthesizable, Flows
  <2>3. AggregatorNode \in r.nodes
    BY <1>1 DEF AddedNodes
  <2>4. /\ \A e : e \in r.edges <=>
             \/ e \in spec.edges
             \/ ~Single(spec) /\ \E t \in Terminals(spec) : e = Edge(t, SynthesisJoin, NoRoute)
             \/ e = Edge(LastNode(spec), Synthesizer, NoRoute)
             \/ e = Edge(Synthesizer, Aggregator, NoRoute)
        /\ ~Single(spec) => LastNode(spec) = SynthesisJoin
        /\ \A t \in Terminals(spec) : Single(spec) => t = LastNode(spec)
    BY SynthesisEdges DEF r
  <2>5. \A s, t : Edge(s, t, NoRoute).source = s
    BY DEF Edge
  <2>6. ASSUME NEW x \in Names(r) \ {Aggregator} PROVE \E e \in r.edges : e.source = x
    <3>1. CASE x \in Names(spec) /\ x \notin Terminals(spec)
      BY <2>4, <3>1 DEF Terminals, Outgoing
    <3>2. CASE x \in Terminals(spec)
      BY <2>4, <2>5, <3>2
    <3>3. CASE x \notin Names(spec)
      <4>1. x = Synthesizer \/ (x = SynthesisJoin /\ ~Single(spec))
        BY <1>5, <3>3, AddedParts DEF AddedNodes
      <4>. QED
        BY <2>4, <2>5, <4>1
    <3>. QED
      BY <3>1, <3>2, <3>3
  <2>. QED
    BY <2>2, <2>3, <2>6, AddedParts DEF Outgoing
<1>. QED
  BY <1>7, <1>10, <1>12, <1>13, <1>14 DEF Wired, r

(* A name is at home in the one graph that has it. *)
LEMMA HomeIs ==
  ASSUME NEW spec, NEW n, NEW g \in Levels(spec), n \in Names(Level(spec, g)),
         \A h \in Levels(spec) : n \in Names(Level(spec, h)) => g = h
  PROVE  Home(spec, n) = g
BY DEF Home

(* What is promised of a graph is promised of it with its synthesis, which  *)
(* comes after all stages where all runs, and never where a router selects. *)
LEMMA SynthesisPromised ==
  ASSUME NEW spec, NEW stages, Synthesized(spec), Promised(spec, stages), Concludes(spec, stages),
         \A i \in DOMAIN stages : stages[i].names \subseteq StageNames
  PROVE  Promised(WithSynthesis(spec),
                  IF Flows(spec) THEN Append(stages, SynthesisStage) ELSE stages)
<1>. DEFINE r == WithSynthesis(spec)
            all == IF Flows(spec) THEN Append(stages, SynthesisStage) ELSE stages
            last == Len(stages) + 1
<1>1. /\ Levels(r) = Levels(spec) /\ Top \in Levels(spec)
      /\ \A g \in Levels(spec) : g # Top => Level(r, g) = Level(spec, g)
      /\ Level(r, Top) = r /\ Level(spec, Top) = spec
  BY SynthesisLevels DEF Levels
<1>2. Names(r) = Names(spec) \union {n.name : n \in AddedNodes(spec)}
  BY SynthesisNodes DEF Names
<1>3. /\ \A n \in AddedNodes(spec) : n.name \in {Synthesizer, Aggregator, SynthesisJoin}
      /\ SynthesizerNode \in AddedNodes(spec) /\ SynthesizerNode.name = Synthesizer
  BY AddedParts DEF AddedNodes
<1>4. /\ \A g \in Levels(spec) : Synthesizer \notin Names(Level(spec, g))
      /\ {SynthesisJoin, Aggregator} \intersect StageNames = {}
  BY DEF Concludes, SynthesisUnstaged
<1>5. /\ \A n \in Names(spec) : Certain(spec, n) => Certain(r, n)
      /\ \A n \in Names(spec) : \A k : Before(spec, k, n) => Before(r, k, n)
  BY SynthesisUpstream
<1>6. Streams(spec) => \A x \in Names(spec) : Before(r, x, Synthesizer)
  BY BeforeSynthesis
<1>7. \A g \in Levels(spec) \ {Top} : g \in Names(spec)
  BY DEF Levels, Names
<1>8. /\ stages \in Seq(Range(stages)) /\ Len(stages) \in Nat /\ DOMAIN stages = 1..Len(stages)
  BY LenProperties DEF Promised
<1>9. /\ all \in Seq(Range(all))
      /\ DOMAIN all = IF Flows(spec) THEN 1..last ELSE 1..Len(stages)
      /\ \A i \in DOMAIN stages : i \in DOMAIN all /\ all[i] = stages[i]
      /\ Flows(spec) => all[last] = SynthesisStage
  <2>1. CASE Flows(spec)
    <3>. DEFINE T == Range(stages) \union {SynthesisStage}
    <3>1. stages \in Seq(T)
      BY <1>8, SeqMonotonic
    <3>2. /\ all \in Seq(T) /\ Len(all) = last
          /\ \A i \in 1..Len(stages) : all[i] = stages[i]
          /\ all[last] = SynthesisStage
      BY <2>1, <3>1, AppendProperties
    <3>3. DOMAIN all = 1..last /\ all \in [1..last -> T]
      BY <3>2, LenProperties
    <3>. HIDE DEF all
    <3>4. all \in [1..last -> Range(all)]
      BY <3>3 DEF Range
    <3>5. all \in Seq(Range(all))
      BY <1>8, <3>4, SeqDef
    <3>. QED
      BY <1>8, <2>1, <3>2, <3>3, <3>5
  <2>2. CASE ~Flows(spec)
    BY <1>8, <2>2
  <2>. QED
    BY <2>1, <2>2
<1>. HIDE DEF r, all
<1>10. \A i \in DOMAIN stages :
         stages[i].kind \in {"all", "loop", "one"} /\ Placed(spec, stages[i]) /\ Placed(r, stages[i])
  BY SynthesisPlaced DEF Promised, r
<1>11. \A i \in DOMAIN stages : stages[i].kind = "one" =>
         Streams(spec) /\ ~Flows(spec) /\ stages[i].names \subseteq Names(spec)
  <2>. SUFFICES ASSUME NEW i \in DOMAIN stages, stages[i].kind = "one"
                PROVE  Streams(spec) /\ ~Flows(spec) /\ stages[i].names \subseteq Names(spec)
    OBVIOUS
  <2>1. PICK n \in spec.nodes : Selects(spec, n, stages[i].names)
    BY <1>10 DEF Placed
  <2>2. \A e \in spec.edges : e.target \in Names(spec)
    BY SynthesisEdges
  <2>. QED
    BY <2>1, <2>2 DEF Selects, Outgoing, Flows
<1>12. \A i \in DOMAIN stages : \A n \in stages[i].names :
         n \in StageNames /\ \E g \in Levels(spec) : n \in Names(Level(spec, g))
  <2>. SUFFICES ASSUME NEW i \in DOMAIN stages, NEW n \in stages[i].names
                PROVE  \E g \in Levels(spec) : n \in Names(Level(spec, g))
    OBVIOUS
  <2>1. CASE stages[i].kind = "one"
    BY <1>1, <1>11, <2>1
  <2>2. CASE stages[i].kind # "one"
    BY <1>10, <2>2 DEF Placed
  <2>. QED
    BY <2>1, <2>2
<1>13. \A n \in StageNames \ {Synthesizer} : \A g \in Levels(spec) :
         n \in Names(Level(r, g)) <=> n \in Names(Level(spec, g))
  BY <1>1, <1>2, <1>3, <1>4
<1>14. \A n \in StageNames : \A g, h \in Levels(spec) :
         n \in Names(Level(spec, g)) /\ n \in Names(Level(spec, h)) => g = h
  BY DEF Promised
<1>15. \A g \in Levels(spec) : Synthesizer \in Names(Level(r, g)) <=> g = Top
  BY <1>1, <1>2, <1>3, <1>4
<1>16. ASSUME NEW n \in StageNames, NEW g \in Levels(spec), n \in Names(Level(spec, g))
       PROVE  Home(spec, n) = g /\ Home(r, n) = g
  <2>1. n # Synthesizer
    BY <1>4, <1>16
  <2>2. Home(spec, n) = g
    BY <1>14, <1>16, HomeIs
  <2>3. g \in Levels(r) /\ n \in Names(Level(r, g))
        /\ \A h \in Levels(r) : n \in Names(Level(r, h)) => g = h
    BY <1>1, <1>13, <1>14, <1>16, <2>1
  <2>. QED
    BY <2>2, <2>3, HomeIs
<1>17. Home(r, Synthesizer) = Top
  BY <1>1, <1>15, HomeIs
<1>18. ASSUME NEW i \in DOMAIN stages, NEW j \in DOMAIN stages,
              NEW k \in stages[j].names, NEW n \in stages[i].names, Precedes(spec, k, n)
       PROVE  Precedes(r, k, n)
  <2>1. PICK g \in Levels(spec) : n \in Names(Level(spec, g))
    BY <1>12
  <2>2. PICK h \in Levels(spec) : k \in Names(Level(spec, h))
    BY <1>12
  <2>3. /\ Home(spec, n) = g /\ Home(r, n) = g
        /\ Home(spec, k) = h /\ Home(r, k) = h
    BY <1>12, <1>16, <2>1, <2>2
  <2>4. CASE g = h
    <3>1. Before(Level(spec, g), k, n)
      BY <1>18, <2>3, <2>4 DEF Precedes
    <3>2. Before(Level(r, g), k, n)
      BY <1>1, <1>5, <2>1, <3>1
    <3>. QED
      BY <2>3, <2>4, <3>2 DEF Precedes
  <2>5. CASE g # h
    <3>1. Before(spec, TopOf(spec, k), TopOf(spec, n))
      BY <1>18, <2>3, <2>5 DEF Precedes
    <3>2. TopOf(r, k) = TopOf(spec, k) /\ TopOf(r, n) = TopOf(spec, n)
      BY <2>3 DEF TopOf
    <3>3. TopOf(spec, n) \in Names(spec)
      BY <1>1, <1>7, <2>1, <2>3 DEF TopOf
    <3>4. Before(r, TopOf(r, k), TopOf(r, n))
      BY <1>5, <3>1, <3>2, <3>3
    <3>. QED
      BY <2>3, <2>5, <3>4 DEF Precedes
  <2>. QED
    BY <2>4, <2>5
<1>19. ASSUME Streams(spec), NEW j \in DOMAIN stages, NEW k \in stages[j].names
       PROVE  Precedes(r, k, Synthesizer)
  <2>1. PICK h \in Levels(spec) : k \in Names(Level(spec, h))
    BY <1>12
  <2>2. Home(r, k) = h
    BY <1>12, <1>16, <2>1
  <2>3. TopOf(r, k) \in Names(spec) /\ (h = Top => TopOf(r, k) = k)
    BY <1>1, <1>7, <2>1, <2>2 DEF TopOf
  <2>4. TopOf(r, Synthesizer) = Synthesizer
    BY <1>17 DEF TopOf
  <2>. QED
    BY <1>1, <1>6, <1>17, <1>19, <2>2, <2>3, <2>4 DEF Precedes
<1>20. ASSUME Flows(spec)
       PROVE  SynthesisStage.kind = "all" /\ SynthesisStage.names = {Synthesizer}
              /\ Placed(r, SynthesisStage)
  <2>1. SynthesisStage.kind = "all" /\ SynthesisStage.names = {Synthesizer}
    BY DEF SynthesisStage, Stage
  <2>2. Flows(r) /\ Streams(r)
    BY <1>20, SynthesisFlows DEF Flows, r
  <2>3. Closed(r, Names(r))
    BY SynthesisNodes DEF Closed, Inbound, Valid, EndpointsExist, r
  <2>4. Synthesizer \in Names(r)
    BY <1>1, <1>15
  <2>5. Certain(r, Synthesizer)
    BY <2>2, <2>3, <2>4 DEF Certain, Flows, Inbound
  <2>6. Entry(r, Top)
    BY DEF Entry
  <2>. QED
    BY <1>1, <2>1, <2>2, <2>4, <2>5, <2>6 DEF Placed
<1>21. \A i \in DOMAIN all : all[i].kind \in {"all", "loop", "one"} /\ Placed(r, all[i])
  <2>. SUFFICES ASSUME NEW i \in DOMAIN all PROVE all[i].kind \in {"all", "loop", "one"} /\ Placed(r, all[i])
    OBVIOUS
  <2>1. i \in DOMAIN stages \/ (Flows(spec) /\ i = last)
    BY <1>8, <1>9
  <2>. QED
    BY <1>9, <1>10, <1>20, <2>1
<1>22. ASSUME NEW i \in DOMAIN all, NEW j \in DOMAIN all, j < i
       PROVE  /\ all[j].kind # "one"
              /\ \A k \in all[j].names : \A n \in all[i].names : Precedes(r, k, n)
  <2>1. j \in DOMAIN stages /\ (i \in DOMAIN stages \/ (Flows(spec) /\ i = last))
    BY <1>8, <1>9, <1>22
  <2>2. CASE i \in DOMAIN stages
    <3>1. /\ stages[j].kind # "one"
          /\ \A k \in stages[j].names : \A n \in stages[i].names : Precedes(spec, k, n)
      BY <1>22, <2>1, <2>2 DEF Promised
    <3>. QED
      BY <1>9, <1>18, <2>1, <2>2, <3>1
  <2>3. CASE Flows(spec) /\ i = last
    <3>1. stages[j].kind # "one"
      BY <1>11, <2>1, <2>3
    <3>2. \A k \in stages[j].names : Precedes(r, k, Synthesizer)
      BY <1>19, <2>1, <2>3 DEF Flows
    <3>. QED
      BY <1>9, <1>20, <2>1, <2>3, <3>1, <3>2
  <2>. QED
    BY <2>1, <2>2, <2>3
<1>23. ASSUME NEW n \in StageNames, NEW g \in Levels(r), n \in Names(Level(r, g))
       PROVE  /\ \A h \in Levels(r) : n \in Names(Level(r, h)) => g = h
              /\ \/ \E i \in DOMAIN all : n \in all[i].names
                 \/ g = Top /\ Skipped(r, all, n)
  <2>1. CASE n # Synthesizer
    <3>1. g \in Levels(spec) /\ n \in Names(Level(spec, g))
      BY <1>1, <1>13, <1>23, <2>1
    <3>2. \A h \in Levels(r) : n \in Names(Level(r, h)) => g = h
      BY <1>1, <1>13, <1>14, <2>1, <3>1
    <3>3. CASE \E i \in DOMAIN stages : n \in stages[i].names
      BY <1>9, <3>2, <3>3
    <3>4. CASE g = Top /\ Skipped(spec, stages, n)
      <4>1. n \in Names(spec)
        BY <1>1, <3>1, <3>4
      <4>2. PICK i \in DOMAIN stages : \E a, b \in stages[i].names :
              stages[i].kind = "one" /\ a # b /\ Before(spec, a, n) /\ Before(spec, b, n)
        BY <3>4 DEF Skipped
      <4>3. Skipped(r, all, n)
        BY <1>5, <1>9, <4>1, <4>2 DEF Skipped
      <4>. QED
        BY <3>2, <3>4, <4>3
    <3>. QED
      BY <3>1, <3>3, <3>4 DEF Promised
  <2>2. CASE n = Synthesizer
    <3>1. g = Top /\ \A h \in Levels(r) : n \in Names(Level(r, h)) => g = h
      BY <1>1, <1>15, <1>23, <2>2
    <3>2. CASE Flows(spec)
      <4>1. last \in DOMAIN all /\ n \in all[last].names
        BY <1>8, <1>9, <1>20, <2>2, <3>2
      <4>. QED
        BY <3>1, <4>1
    <3>3. CASE ~Flows(spec)
      <4>1. PICK i \in DOMAIN stages : stages[i].kind = "one" /\ \E a, b \in stages[i].names : a # b
        BY <3>3, TerminalExists DEF Concludes
      <4>2. Skipped(r, all, n)
        BY <1>6, <1>9, <1>11, <2>2, <4>1 DEF Skipped
      <4>. QED
        BY <3>1, <4>2
    <3>. QED
      BY <3>2, <3>3
  <2>. QED
    BY <2>1, <2>2
<1>24. Promised(r, all)
  BY <1>9, <1>21, <1>22, <1>23 DEF Promised
<1>. QED
  BY <1>24 DEF r, all
-----------------------------------------------------------------------------
(* Nodes that are told apart by their names have no duplicates. *)
LEMMA Distinct ==
  ASSUME NEW spec, IsFiniteSet(spec.nodes), \A m, n \in spec.nodes : m.name = n.name => m = n
  PROVE  NoDuplicates(spec)
<1>. DEFINE f == [x \in spec.nodes |-> x.name]
<1>1. f \in Surjection(spec.nodes, Names(spec))
  BY DEF Surjection, Names
<1>2. f \in Injection(spec.nodes, Names(spec))
  BY <1>1 DEF Injection, IsInjective, Surjection
<1>. QED
  BY <1>1, <1>2, FS_Surjection DEF NoDuplicates

(* The names that an item lists are finitely many. *)
LEMMA ListFinite ==
  ASSUME NEW s, NEW S, s \in Seq(S)
  PROVE  IsFiniteSet(Range(s)) /\ Range(s) \subseteq S
<1>1. DOMAIN s = 1..Len(s) /\ Len(s) \in Nat /\ s \in [1..Len(s) -> S]
  BY LenProperties
<1>2. s \in Surjection(DOMAIN s, Range(s))
  BY <1>1 DEF Surjection, Range
<1>3. IsFiniteSet(DOMAIN s)
  BY <1>1, FS_Interval
<1>. QED
  BY <1>1, <1>2, <1>3, FS_Surjection DEF Range

(* What an expansion adds to the nodes that are named: a join or a counter. *)
AddedNode(item) ==
  IF item.form = "loop"
  THEN [Added(Node(AddedName(item), "function")) EXCEPT !.does = "loop_counter", !.max = item.max]
  ELSE Added(Node(AddedName(item), "join"))

(* A parallel or a loop has the nodes it names, once each, and one more. *)
LEMMA ItemNodes ==
  ASSUME NEW by_name, OrdinaryNodes(by_name),
         NEW item, item.form \in {"parallel", "loop"}, OrdinaryItem(item, by_name)
  PROVE  /\ ExpandNested(item, by_name).nodes =
              {by_name[n] : n \in Range(item.names)} \union {AddedNode(item)}
         /\ Names(ExpandNested(item, by_name)) = Range(item.names) \union {AddedName(item)}
         /\ Range(item.names) \subseteq DOMAIN by_name
         /\ AddedName(item) \notin Range(item.names) \union Reserved
         /\ AddedNode(item).name = AddedName(item)
         /\ IsFiniteSet(Range(item.names)) /\ IsFiniteSet(ExpandNested(item, by_name).nodes)
         /\ NoDuplicates(ExpandNested(item, by_name))
         /\ \A m, n \in ExpandNested(item, by_name).nodes : m.name = n.name => m = n
         /\ item.form = "parallel" =>
              ExpandNested(item, by_name).edges =
                {Edge(START, n, NoRoute) : n \in Range(item.names)}
                \union {Edge(n, AddedName(item), NoRoute) : n \in Range(item.names)}
         /\ item.form = "loop" =>
              /\ Range(item.names) = {item.names[1]}
              /\ ExpandNested(item, by_name).edges =
                   {Edge(START, item.names[1], NoRoute),
                    Edge(item.names[1], AddedName(item), NoRoute),
                    Edge(AddedName(item), item.names[1], AGAIN_ROUTE)}
<1>. DEFINE s == ExpandNested(item, by_name)
            names == Range(item.names)
            frag == IF item.form = "parallel" THEN ExpandParallel(item) ELSE ExpandLoop(item)
<1>1. IsFiniteSet(names) /\ names \subseteq DOMAIN by_name
  BY ListFinite DEF OrdinaryItem
<1>2. AddedName(item) \notin names \union Reserved
  BY <1>1 DEF OrdinaryItem, Fresh
<1>3. AddedNode(item).name = AddedName(item)
  BY DEF AddedNode, Added, Node
<1>4. DOMAIN item.names = 1..Len(item.names) /\ Len(item.names) \in Nat
  BY LenProperties DEF OrdinaryItem
<1>5. item.form = "loop" => names = {item.names[1]}
  BY <1>4 DEF OrdinaryItem, Range
<1>6. frag.nodes = {AddedNode(item)}
  BY DEF ExpandParallel, ExpandLoop, AddedNode, AddedName
<1>7. item.form = "parallel" =>
        frag.edges = {Edge(START, n, NoRoute) : n \in names}
                     \union {Edge(n, AddedName(item), NoRoute) : n \in names}
  <2>1. Added(Node(Append(item.names[1], "join"), "join")).name = Append(item.names[1], "join")
    BY DEF Added, Node
  <2>. QED
    BY <2>1 DEF ExpandParallel, AddedName
<1>8. item.form = "loop" =>
        frag.edges = {Edge(START, item.names[1], NoRoute),
                      Edge(item.names[1], AddedName(item), NoRoute),
                      Edge(AddedName(item), item.names[1], AGAIN_ROUTE)}
  <2>1. [Added(Node(Append(item.names[1], "loop_counter"), "function"))
           EXCEPT !.does = "loop_counter", !.max = item.max].name = Append(item.names[1], "loop_counter")
    BY DEF Added, Node
  <2>. QED
    BY <2>1 DEF ExpandLoop, AddedName
<1>9. \A x, y, z : Edge(x, y, z).source = x /\ Edge(x, y, z).target = y
  BY DEF Edge
<1>. DEFINE scoped == [n \in names \intersect DOMAIN by_name |-> by_name[n]]
<1>10. s = Enclose(frag, scoped)
  BY DEF ExpandNested
<1>11. DOMAIN scoped = names /\ \A n \in names : scoped[n] = by_name[n]
  BY <1>1
<1>. HIDE DEF frag, scoped, names
<1>12. Touched(frag.edges) \intersect names = names
  <2>1. CASE item.form = "parallel"
    BY <1>7, <1>9, <2>1 DEF Touched
  <2>2. CASE item.form = "loop"
    BY <1>5, <1>8, <1>9, <2>2 DEF Touched
  <2>. QED
    BY <2>1, <2>2
<1>13. s.nodes = {by_name[n] : n \in names} \union {AddedNode(item)} /\ s.edges = frag.edges
  BY <1>6, <1>10, <1>11, <1>12 DEF Enclose
<1>. HIDE DEF s
<1>14. \A n \in names : by_name[n].name = n
  BY <1>1 DEF OrdinaryNodes
<1>15. Names(s) = names \union {AddedName(item)}
  BY <1>3, <1>13, <1>14 DEF Names
<1>16. \A m, n \in s.nodes : m.name = n.name => m = n
  BY <1>2, <1>3, <1>13, <1>14
<1>17. IsFiniteSet(s.nodes)
  <2>. DEFINE f == [n \in names |-> by_name[n]]
              T == {by_name[n] : n \in names}
  <2>1. f \in Surjection(names, T)
    BY DEF Surjection
  <2>2. IsFiniteSet(T)
    BY <1>1, <2>1, FS_Surjection
  <2>. QED
    BY <1>13, <2>2, FS_AddElement
<1>18. NoDuplicates(s)
  BY <1>16, <1>17, Distinct
<1>. QED
  BY <1>1, <1>2, <1>3, <1>5, <1>7, <1>8, <1>13, <1>15, <1>16, <1>17, <1>18 DEF s, names, frag

(* What flows is certain to run, all of it. *)
LEMMA FlowCertain ==
  ASSUME NEW spec, Flows(spec), EndpointsExist(spec), NEW n \in Names(spec)
  PROVE  Certain(spec, n)
<1>1. Closed(spec, Names(spec))
  BY DEF Closed, Inbound, EndpointsExist
<1>2. \A m \in Names(spec) : Inbound(spec, m) # {} /\ \A e \in Inbound(spec, m) : e.route = NoRoute
  BY DEF Flows, Inbound
<1>. QED
  BY <1>1, <1>2 DEF Certain

(* The kinds of the nodes of a parallel or a loop. *)
LEMMA ItemKinds ==
  ASSUME NEW by_name, OrdinaryNodes(by_name),
         NEW item, item.form \in {"parallel", "loop"}, OrdinaryItem(item, by_name),
         NEW m \in ExpandNested(item, by_name).nodes
  PROVE  /\ m.kind \in NODE_KINDS \ {"graph"} /\ m.graph = NoGraph
         /\ m.kind = "join" => item.form = "parallel" /\ m = AddedNode(item)
         /\ m.does \in {"-", "loop_counter"}
         /\ m.does # "-" => m.kind = "function"
         /\ m.does = "loop_counter" => /\ item.form = "loop" /\ m.name = AddedName(item)
                                       /\ m.max = item.max
         /\ Writes(m) => m.key[2] \in Nat
<1>1. /\ ExpandNested(item, by_name).nodes =
           {by_name[n] : n \in Range(item.names)} \union {AddedNode(item)}
      /\ Range(item.names) \subseteq DOMAIN by_name
  BY ItemNodes
<1>2. CASE m # AddedNode(item)
  BY <1>1, <1>2 DEF OrdinaryNodes, NODE_KINDS
<1>3. CASE m = AddedNode(item)
  <2>1. /\ m.graph = NoGraph /\ m.name = AddedName(item)
        /\ IF item.form = "loop" THEN m.kind = "function" /\ m.does = "loop_counter" /\ m.max = item.max
           ELSE m.kind = "join" /\ m.does = "-"
    BY <1>3 DEF AddedNode, Added, Node
  <2>. QED
    BY <1>3, <2>1 DEF NODE_KINDS, Writes
<1>. QED
  BY <1>2, <1>3

(* A loop is one of its body and its counter. *)
LEMMA ItemLooped ==
  ASSUME NEW by_name, OrdinaryNodes(by_name),
         NEW item, item.form = "loop", OrdinaryItem(item, by_name)
  PROVE  /\ Looped(ExpandNested(item, by_name), item.names[1], AddedName(item))
         /\ item.names[1] \in Names(ExpandNested(item, by_name))
         /\ Valid(ExpandNested(item, by_name))
<1>. DEFINE s == ExpandNested(item, by_name)
            body == item.names[1]
            counter == AddedName(item)
<1>1. /\ Names(s) = {body, counter} /\ body # counter /\ NoDuplicates(s)
      /\ s.edges = {Edge(START, body, NoRoute), Edge(body, counter, NoRoute),
                    Edge(counter, body, AGAIN_ROUTE)}
  BY ItemNodes
<1>2. \A n \in s.nodes : n.kind \in NODE_KINDS \ {"graph", "join"} /\ n.graph = NoGraph
  BY ItemKinds
<1>. HIDE DEF s, body, counter
<1>3. \A x, y, z : Edge(x, y, z).source = x /\ Edge(x, y, z).target = y
  BY DEF Edge
<1>4. EndpointsExist(s)
  BY <1>1, <1>3 DEF EndpointsExist
<1>5. Edge(START, body, NoRoute) \in Outgoing(s, START)
  BY <1>1, <1>3 DEF Outgoing
<1>6. Valid(s)
  BY <1>1, <1>2, <1>4, <1>5 DEF Valid
<1>7. Looped(s, body, counter)
  BY <1>1, <1>2 DEF Looped
<1>. QED
  BY <1>1, <1>6, <1>7 DEF s, body, counter

(* A parallel flows: to all that it names, and from there to the join. *)
LEMMA ItemFlows ==
  ASSUME NEW by_name, OrdinaryNodes(by_name),
         NEW item, item.form = "parallel", OrdinaryItem(item, by_name)
  PROVE  Valid(ExpandNested(item, by_name)) /\ Flows(ExpandNested(item, by_name))
<1>. DEFINE s == ExpandNested(item, by_name)
            names == Range(item.names)
            join == AddedName(item)
<1>1. /\ Names(s) = names \union {join} /\ NoDuplicates(s)
      /\ names \subseteq DOMAIN by_name /\ IsFiniteSet(names)
      /\ join \notin names \union Reserved
      /\ AddedNode(item).name = join
      /\ s.edges = {Edge(START, n, NoRoute) : n \in names}
                   \union {Edge(n, join, NoRoute) : n \in names}
  BY ItemNodes
<1>2. \A n \in s.nodes : /\ n.kind \in NODE_KINDS \ {"graph"} /\ n.graph = NoGraph
                         /\ n.kind = "join" => n = AddedNode(item)
  BY ItemKinds
<1>3. \E a, b \in names : a # b
  BY DEF OrdinaryItem, Range
<1>4. START \notin Names(s)
  BY <1>1 DEF OrdinaryNodes, Reserved
<1>. HIDE DEF s, names, join
<1>5. \A x, y, z : Edge(x, y, z).source = x /\ Edge(x, y, z).target = y /\ Edge(x, y, z).route = z
  BY DEF Edge
<1>6. \A n \in names : Inbound(s, n) = {Edge(START, n, NoRoute)}
  BY <1>1, <1>5 DEF Inbound
<1>7. Inbound(s, join) = {Edge(n, join, NoRoute) : n \in names}
  BY <1>1, <1>5 DEF Inbound
<1>8. EndpointsExist(s)
  BY <1>1, <1>5 DEF EndpointsExist
<1>9. Cardinality(Inbound(s, join)) >= 2
  <2>1. PICK a \in names, b \in names : a # b
    BY <1>3
  <2>. DEFINE x == Edge(a, join, NoRoute)
              y == Edge(b, join, NoRoute)
              f == [n \in names |-> Edge(n, join, NoRoute)]
  <2>2. x # y /\ {x, y} \subseteq Inbound(s, join)
    BY <1>5, <1>7, <2>1
  <2>3. f \in Surjection(names, Inbound(s, join))
    BY <1>7 DEF Surjection
  <2>4. IsFiniteSet(Inbound(s, join))
    BY <1>1, <2>3, FS_Surjection
  <2>. HIDE DEF x, y, f
  <2>5. IsFiniteSet({x}) /\ Cardinality({x}) = 1
    BY FS_Singleton
  <2>6. Cardinality({x, y}) = 2
    <3>1. {x} \union {y} = {x, y} /\ y \notin {x}
      BY <2>2
    <3>2. Cardinality({x} \union {y}) = Cardinality({x}) + 1
      BY <2>5, <3>1, FS_AddElement
    <3>. QED
      BY <2>5, <3>1, <3>2
  <2>7. Cardinality({x, y}) <= Cardinality(Inbound(s, join)) /\ Cardinality(Inbound(s, join)) \in Nat
    BY <2>2, <2>4, FS_Subset, FS_CardinalityType
  <2>. QED
    BY <2>6, <2>7
<1>10. Outgoing(s, START) # {}
  BY <1>1, <1>3, <1>5 DEF Outgoing
<1>11. Valid(s)
  BY <1>1, <1>2, <1>8, <1>9, <1>10 DEF Valid
<1>12. ASSUME NEW n \in s.nodes
       PROVE  IF n.kind = "join" THEN \A e \in Inbound(s, n.name) : e.source # START
              ELSE \A e, f \in Inbound(s, n.name) : e = f
  <2>1. n.name \in names \/ n.name = join
    BY <1>1 DEF Names
  <2>2. CASE n.name = join
    <3>1. AddedNode(item) = n
      <4>1. AddedNode(item) \in s.nodes
        BY ItemNodes DEF s
      <4>2. \A k, m \in s.nodes : k.name = m.name => k = m
        BY ItemNodes DEF s
      <4>. QED
        BY <1>1, <2>2, <4>1, <4>2
    <3>2. n.kind = "join"
      BY <3>1 DEF AddedNode, Added, Node
    <3>3. \A e \in Inbound(s, n.name) : e.source # START
      BY <1>1, <1>4, <1>5, <1>7, <2>2
    <3>. QED
      BY <3>2, <3>3
  <2>3. CASE n.name \in names
    <3>1. n.kind # "join"
      BY <1>1, <1>2, <2>3
    <3>. QED
      BY <1>6, <2>3, <3>1
  <2>. QED
    BY <2>1, <2>2, <2>3
<1>13. ASSUME NEW part \in SUBSET Names(s), part # {}
       PROVE  \E n \in part : \A e \in Inbound(s, n) : e.source \notin part
  <2>1. CASE part \intersect names # {}
    BY <1>4, <1>5, <1>6, <2>1
  <2>2. CASE part \intersect names = {}
    <3>1. join \in part
      BY <1>1, <1>13, <2>2
    <3>. QED
      BY <1>5, <1>7, <2>2, <3>1
  <2>. QED
    BY <2>1, <2>2
<1>14. \A e \in s.edges : e.route = NoRoute
  BY <1>1, <1>5
<1>15. \A n \in Names(s) : Inbound(s, n) # {}
  BY <1>1, <1>3, <1>6, <1>7
<1>. QED
  BY <1>11, <1>12, <1>13, <1>14, <1>15 DEF Flows, Streams, s

-----------------------------------------------------------------------------
(* The node in a place of a sequence, and where the edge to it comes from.  *)
PlaceNode(form, by_name, i) == ItemNode(form.items[i], i - 1, by_name)
ComesFrom(form, by_name, i) == IF i = 1 THEN START ELSE PlaceOf(form, by_name, i - 1)

(* A plain item stands for itself, another for a graph that is new. *)
LEMMA ChainPlace ==
  ASSUME NEW by_name, NEW form, form.form = "sequence", Ordinary(form, by_name),
         NEW i \in DOMAIN form.items
  PROVE  /\ OrdinaryNodes(by_name) /\ OrdinaryItem(form.items[i], by_name)
         /\ PlaceNode(form, by_name, i).name = PlaceOf(form, by_name, i)
         /\ PlaceOf(form, by_name, i) \notin Reserved
         /\ Range(form.items[i].names) \subseteq DOMAIN by_name
         /\ \A j \in DOMAIN form.items : PlaceOf(form, by_name, i) = PlaceOf(form, by_name, j) => i = j
         /\ PlaceNode(form, by_name, i).kind # "join" /\ PlaceNode(form, by_name, i).does = "-"
         /\ IF form.items[i].form = "node"
            THEN /\ Range(form.items[i].names) = {PlaceOf(form, by_name, i)}
                 /\ PlaceNode(form, by_name, i) = by_name[PlaceOf(form, by_name, i)]
            ELSE /\ form.items[i].form \in {"parallel", "loop"}
                 /\ PlaceOf(form, by_name, i) \notin DOMAIN by_name \union StageNames
                 /\ PlaceNode(form, by_name, i).kind = "graph"
                 /\ PlaceNode(form, by_name, i).graph = ExpandNested(form.items[i], by_name)
                 /\ AddedName(form.items[i]) \notin DOMAIN by_name \union StageNames
<1>. DEFINE item == form.items[i]
            node == PlaceNode(form, by_name, i)
            place == PlaceOf(form, by_name, i)
<1>1. OrdinaryNodes(by_name) /\ OrdinaryItem(item, by_name)
  BY DEF Ordinary
<1>2. \A j \in DOMAIN form.items : place = PlaceOf(form, by_name, j) => i = j
  BY DEF Ordinary
<1>3. node.name = place
  BY DEF PlaceNode, PlaceOf
<1>4. item.names \in Seq(DOMAIN by_name) /\ Range(item.names) \subseteq DOMAIN by_name
  BY <1>1, ListFinite DEF OrdinaryItem
<1>5. CASE item.form = "node"
  <2>1. Len(item.names) = 1 /\ DOMAIN item.names = 1..Len(item.names)
    BY <1>1, <1>5, LenProperties DEF OrdinaryItem
  <2>2. Range(item.names) = {item.names[1]}
    BY <2>1 DEF Range
  <2>3. node = by_name[item.names[1]]
    BY <1>5 DEF PlaceNode, ItemNode
  <2>4. item.names[1] \in DOMAIN by_name
    BY <1>4, <2>2
  <2>5. place = item.names[1] /\ place \notin Reserved /\ node.kind # "join" /\ node.does = "-"
    BY <1>1, <1>3, <2>3, <2>4 DEF OrdinaryNodes
  <2>. QED
    BY <1>1, <1>2, <1>3, <1>4, <1>5, <2>2, <2>3, <2>5
<1>6. CASE item.form # "node"
  <2>1. /\ Fresh(place, by_name) /\ Fresh(AddedName(item), by_name)
        /\ item.form \in {"parallel", "loop"}
    BY <1>1, <1>6 DEF Ordinary, OrdinaryItem
  <2>2. node.kind = "graph" /\ node.does = "-" /\ node.graph = ExpandNested(item, by_name)
    BY <1>6 DEF PlaceNode, ItemNode, Added, Node
  <2>. QED
    BY <1>1, <1>2, <1>3, <1>4, <1>6, <2>1, <2>2 DEF Fresh
<1>. QED
  BY <1>5, <1>6

(* A sequence is expanded to its places, one after the other. *)
LEMMA ChainParts ==
  ASSUME NEW by_name, NEW form, form.form = "sequence", Ordinary(form, by_name)
  PROVE  /\ Len(form.items) \in Nat \ {0} /\ DOMAIN form.items = 1..Len(form.items)
         /\ ExpandSugar(form, by_name).nodes =
              {PlaceNode(form, by_name, i) : i \in DOMAIN form.items}
         /\ ExpandSugar(form, by_name).edges =
              {Edge(ComesFrom(form, by_name, i), PlaceOf(form, by_name, i), NoRoute) :
                 i \in DOMAIN form.items}
         /\ Names(ExpandSugar(form, by_name)) =
              {PlaceOf(form, by_name, i) : i \in DOMAIN form.items}
         /\ IsFiniteSet(ExpandSugar(form, by_name).nodes)
         /\ \A m, n \in ExpandSugar(form, by_name).nodes : m.name = n.name => m = n
<1>. DEFINE g == ExpandSugar(form, by_name)
            D == DOMAIN form.items
            place(i) == PlaceOf(form, by_name, i)
            node(i) == PlaceNode(form, by_name, i)
            from(i) == ComesFrom(form, by_name, i)
            frag == ExpandSequence(form, by_name)
<1>1. Len(form.items) \in Nat \ {0} /\ D = 1..Len(form.items)
  <2>1. form.items \in Seq(Range(form.items)) /\ form.items # <<>>
    BY DEF Ordinary
  <2>. QED
    BY <2>1, LenProperties, EmptySeq
<1>2. /\ \A i \in D : /\ node(i).name = place(i) /\ place(i) \notin Reserved
                      /\ place(i) \in DOMAIN by_name => node(i) = by_name[place(i)]
      /\ \A i, j \in D : place(i) = place(j) => i = j
  BY ChainPlace
<1>3. \A x, y, z : Edge(x, y, z).source = x /\ Edge(x, y, z).target = y
  BY DEF Edge
<1>4. frag.edges = {Edge(from(i), place(i), NoRoute) : i \in D}
  <2>1. \A i \in D : (i # 1) => (i - 1) \in D
    BY <1>1
  <2>. QED
    BY <2>1 DEF ExpandSequence, ComesFrom, PlaceOf
<1>5. frag.nodes = {n \in {node(i) : i \in D} : n.name \notin DOMAIN by_name}
  BY DEF ExpandSequence, PlaceNode, Range
<1>6. g = Enclose(frag, by_name)
  BY DEF ExpandSugar
<1>. HIDE DEF frag, place, node
<1>7. Touched(frag.edges) \intersect DOMAIN by_name = {place(i) : i \in D} \intersect DOMAIN by_name
  <2>1. \A i \in D : i # 1 => i - 1 \in D
    BY <1>1
  <2>2. \A i \in D : from(i) = START \/ \E j \in D : from(i) = place(j)
    BY <2>1 DEF ComesFrom, place
  <2>3. START \notin DOMAIN by_name
    BY DEF Ordinary, OrdinaryNodes, Reserved
  <2>. QED
    BY <1>3, <1>4, <2>2, <2>3 DEF Touched
<1>8. g.edges = frag.edges
      /\ g.nodes = {by_name[n] : n \in {place(i) : i \in D} \intersect DOMAIN by_name} \union frag.nodes
  BY <1>6, <1>7 DEF Enclose
<1>9. g.nodes = {node(i) : i \in D}
  BY <1>2, <1>5, <1>8
<1>. HIDE DEF g
<1>10. Names(g) = {place(i) : i \in D}
  BY <1>2, <1>9 DEF Names
<1>11. IsFiniteSet(g.nodes)
  <2>. DEFINE f == [i \in D |-> node(i)]
  <2>1. f \in Surjection(D, g.nodes)
    BY <1>9 DEF Surjection
  <2>2. IsFiniteSet(D)
    BY <1>1, FS_Interval
  <2>. QED
    BY <2>1, <2>2, FS_Surjection
<1>12. \A m, n \in g.nodes : m.name = n.name => m = n
  BY <1>2, <1>9
<1>. QED
  BY <1>1, <1>4, <1>8, <1>9, <1>10, <1>11, <1>12 DEF g, place, node

(* It flows from each place to the next. *)
LEMMA ChainFlows ==
  ASSUME NEW by_name, NEW form, form.form = "sequence", Ordinary(form, by_name)
  PROVE  /\ Valid(ExpandSugar(form, by_name)) /\ Flows(ExpandSugar(form, by_name))
         /\ \A i \in DOMAIN form.items :
              Inbound(ExpandSugar(form, by_name), PlaceOf(form, by_name, i)) =
                {Edge(ComesFrom(form, by_name, i), PlaceOf(form, by_name, i), NoRoute)}
<1>. DEFINE g == ExpandSugar(form, by_name)
            D == DOMAIN form.items
            place(i) == PlaceOf(form, by_name, i)
            node(i) == PlaceNode(form, by_name, i)
            from(i) == ComesFrom(form, by_name, i)
<1>1. /\ Len(form.items) \in Nat \ {0} /\ D = 1..Len(form.items)
      /\ g.nodes = {node(i) : i \in D}
      /\ g.edges = {Edge(from(i), place(i), NoRoute) : i \in D}
      /\ Names(g) = {place(i) : i \in D}
      /\ IsFiniteSet(g.nodes)
      /\ \A m, n \in g.nodes : m.name = n.name => m = n
  BY ChainParts
<1>2. \A i \in D : /\ node(i).name = place(i) /\ place(i) # START
                   /\ node(i).kind # "join"
                   /\ \A j \in D : place(i) = place(j) => i = j
  BY ChainPlace DEF Reserved
<1>3. \A i \in D : node(i).kind \in NODE_KINDS /\ (node(i).kind = "graph" <=> node(i).graph # NoGraph)
  <2>. SUFFICES ASSUME NEW i \in D
                PROVE  node(i).kind \in NODE_KINDS /\ (node(i).kind = "graph" <=> node(i).graph # NoGraph)
    OBVIOUS
  <2>1. CASE form.items[i].form = "node"
    <3>1. place(i) \in DOMAIN by_name /\ node(i) = by_name[place(i)] /\ OrdinaryNodes(by_name)
      BY <2>1, ChainPlace
    <3>. QED
      BY <3>1 DEF OrdinaryNodes, NODE_KINDS
  <2>2. CASE form.items[i].form # "node"
    <3>1. /\ node(i).kind = "graph" /\ node(i).graph = ExpandNested(form.items[i], by_name)
          /\ OrdinaryNodes(by_name) /\ OrdinaryItem(form.items[i], by_name)
          /\ form.items[i].form \in {"parallel", "loop"}
      BY <2>2, ChainPlace
    <3>2. AddedNode(form.items[i]) \in ExpandNested(form.items[i], by_name).nodes
      BY <3>1, ItemNodes
    <3>3. NoGraph.nodes = {}
      BY DEF NoGraph
    <3>4. node(i).graph # NoGraph
      BY <3>1, <3>2, <3>3
    <3>. QED
      BY <3>1, <3>4 DEF NODE_KINDS
  <2>. QED
    BY <2>1, <2>2
<1>4. \A i \in D : from(i) = START \/ (i - 1 \in D /\ from(i) = place(i - 1))
  BY <1>1 DEF ComesFrom
<1>5. 1 \in D /\ from(1) = START
  BY <1>1 DEF ComesFrom
<1>. HIDE DEF g, place, node, from
<1>6. \A x, y, z : Edge(x, y, z).source = x /\ Edge(x, y, z).target = y /\ Edge(x, y, z).route = z
  BY DEF Edge
<1>7. \A i \in D : Inbound(g, place(i)) = {Edge(from(i), place(i), NoRoute)}
  <2>. SUFFICES ASSUME NEW i \in D, NEW e
                PROVE  e \in g.edges /\ e.target = place(i) <=> e = Edge(from(i), place(i), NoRoute)
    BY DEF Inbound
  <2>. QED
    BY <1>1, <1>2, <1>6
<1>8. EndpointsExist(g)
  BY <1>1, <1>4, <1>6 DEF EndpointsExist
<1>9. Outgoing(g, START) # {}
  BY <1>1, <1>5, <1>6 DEF Outgoing
<1>10. NoDuplicates(g)
  BY <1>1, Distinct
<1>11. Valid(g)
  BY <1>1, <1>2, <1>3, <1>8, <1>9, <1>10 DEF Valid
<1>12. \A n \in g.nodes : n.kind # "join" /\ \A e, f \in Inbound(g, n.name) : e = f
  BY <1>1, <1>2, <1>7
<1>13. ASSUME NEW part \in SUBSET Names(g), part # {}
       PROVE  \E n \in part : \A e \in Inbound(g, n) : e.source \notin part
  <2>. DEFINE S == {i \in D : place(i) \in part}
  <2>1. S # {} /\ S \subseteq Nat
    BY <1>1, <1>13
  <2>2. PICK i \in S : \A j \in S : i <= j
    BY <2>1, LeastExists
  <2>3. from(i) \notin part
    <3>1. CASE from(i) = START
      BY <1>1, <1>2, <3>1
    <3>2. CASE i - 1 \in D /\ from(i) = place(i - 1)
      <4>1. i \in Nat /\ ~(i <= i - 1)
        BY <1>1, <2>2
      <4>. QED
        BY <2>2, <3>2, <4>1
    <3>. QED
      BY <1>4, <2>2, <3>1, <3>2
  <2>. QED
    BY <1>6, <1>7, <2>2, <2>3
<1>14. Streams(g)
  BY <1>12, <1>13 DEF Streams
<1>15. Flows(g)
  <2>1. \A e \in g.edges : e.route = NoRoute
    BY <1>1, <1>6
  <2>2. \A n \in Names(g) : Inbound(g, n) # {}
    BY <1>1, <1>7
  <2>. QED
    BY <1>14, <2>1, <2>2 DEF Flows
<1>. QED
  BY <1>7, <1>11, <1>15 DEF g, place, from

(* What is in an earlier place is before what is in a later one.            *)
LEMMA ChainBefore ==
  ASSUME NEW by_name, NEW form, form.form = "sequence", Ordinary(form, by_name),
         NEW i \in DOMAIN form.items, NEW j \in DOMAIN form.items, j < i
  PROVE  Before(ExpandSugar(form, by_name), PlaceOf(form, by_name, j), PlaceOf(form, by_name, i))
<1>. DEFINE g == ExpandSugar(form, by_name)
            D == DOMAIN form.items
            place(k) == PlaceOf(form, by_name, k)
            from(k) == ComesFrom(form, by_name, k)
<1>1. D = 1..Len(form.items) /\ Len(form.items) \in Nat
  BY ChainParts
<1>2. \A k \in D : Inbound(g, place(k)) = {Edge(from(k), place(k), NoRoute)}
  BY ChainFlows
<1>3. \A k \in D : place(k) # START
  BY ChainPlace DEF Reserved
<1>4. \A k \in D : k # 1 => k - 1 \in D /\ from(k) = place(k - 1)
  BY <1>1 DEF ComesFrom
<1>5. place(j) # place(i)
  BY <1>1, ChainPlace
<1>6. ASSUME NEW part \in SUBSET Names(g), place(i) \in part, Closed(g, part)
      PROVE  place(j) \in part
  <2>. DEFINE S == {k \in D : j <= k /\ place(k) \in part}
  <2>1. i \in S /\ S \subseteq Nat
    BY <1>1, <1>6
  <2>2. PICK k \in S : \A l \in S : k <= l
    BY <2>1, LeastExists
  <2>. SUFFICES ASSUME k # j PROVE FALSE
    BY <2>2
  <2>3. k # 1 /\ j <= k - 1 /\ k \in Nat /\ ~(k <= k - 1)
    BY <1>1, <2>2
  <2>4. Edge(from(k), place(k), NoRoute) \in Inbound(g, place(k))
    BY <1>2, <2>2
  <2>5. from(k) \in part \union {START}
    <3>1. Edge(from(k), place(k), NoRoute).source = from(k)
      BY DEF Edge
    <3>. QED
      BY <1>6, <2>2, <2>4, <3>1 DEF Closed
  <2>6. k - 1 \in D /\ place(k - 1) \in part
    BY <1>3, <1>4, <2>2, <2>3, <2>5
  <2>7. k - 1 \in S
    BY <2>3, <2>6
  <2>. QED
    BY <2>2, <2>3, <2>7
<1>. QED
  BY <1>5, <1>6 DEF Before

(* The graphs nested in it are those of its parallels and loops. *)
LEMMA ChainLevels ==
  ASSUME NEW by_name, NEW form, form.form = "sequence", Ordinary(form, by_name)
  PROVE  /\ Level(ExpandSugar(form, by_name), Top) = ExpandSugar(form, by_name)
         /\ Levels(ExpandSugar(form, by_name)) = {Top} \union
              {PlaceOf(form, by_name, i) : i \in {k \in DOMAIN form.items : form.items[k].form # "node"}}
         /\ \A i \in DOMAIN form.items : form.items[i].form # "node" =>
              Level(ExpandSugar(form, by_name), PlaceOf(form, by_name, i)) =
                ExpandNested(form.items[i], by_name)
<1>. DEFINE g == ExpandSugar(form, by_name)
            D == DOMAIN form.items
            place(i) == PlaceOf(form, by_name, i)
            node(i) == PlaceNode(form, by_name, i)
<1>1. /\ g.nodes = {node(i) : i \in D}
      /\ \A m, n \in g.nodes : m.name = n.name => m = n
  BY ChainParts
<1>2. \A i \in D : /\ node(i).name = place(i) /\ place(i) # Top
                   /\ form.items[i].form # "node" =>
                        node(i).kind = "graph" /\ node(i).graph = ExpandNested(form.items[i], by_name)
  BY ChainPlace DEF Reserved
<1>3. \A i \in D : form.items[i].form = "node" => node(i).kind # "graph"
  <2>. SUFFICES ASSUME NEW i \in D, form.items[i].form = "node" PROVE node(i).kind # "graph"
    OBVIOUS
  <2>1. place(i) \in DOMAIN by_name /\ node(i) = by_name[place(i)] /\ OrdinaryNodes(by_name)
    BY ChainPlace
  <2>. QED
    BY <2>1 DEF OrdinaryNodes
<1>. HIDE DEF g, place, node
<1>4. Levels(g) = {Top} \union {place(i) : i \in {k \in D : form.items[k].form # "node"}}
  BY <1>1, <1>2, <1>3 DEF Levels
<1>5. ASSUME NEW i \in D, form.items[i].form # "node"
      PROVE  Level(g, place(i)) = ExpandNested(form.items[i], by_name)
  <2>1. (CHOOSE n \in g.nodes : n.name = place(i)) = node(i)
    BY <1>1, <1>2
  <2>. QED
    BY <1>2, <1>5, <2>1 DEF Level
<1>. QED
  BY <1>4, <1>5 DEF Level, g, place

-----------------------------------------------------------------------------
(* What the nodes of a graph have to be for it to be wired, if no router,   *)
(* no planner and no aggregation is among them.                             *)
LEMMA WiredIf ==
  ASSUME NEW spec, Named(spec), LoopsApart(spec), {Executor, Aggregator} \intersect Names(spec) = {},
         \A n \in spec.nodes : n.does \in {"-", "loop_counter"}
  PROVE  Wired(spec)
<1>1. Dispatches(spec)
  BY DEF Dispatches
<1>2. Planned(spec)
  BY DEF Planned
<1>3. Gathers(spec)
  BY DEF Gathers
<1>. QED
  BY <1>1, <1>2, <1>3 DEF Wired

(* A form that is no sequence is wired, and is its only stage. *)
LEMMA ItemServed ==
  ASSUME NEW by_name, OrdinaryNodes(by_name),
         NEW item, item.form \in {"parallel", "loop"}, OrdinaryItem(item, by_name)
  PROVE  /\ Valid(ExpandNested(item, by_name)) /\ Compiles(ExpandNested(item, by_name))
         /\ Wired(ExpandNested(item, by_name))
         /\ Promised(ExpandNested(item, by_name), <<StageOf(item)>>)
         /\ Flows(ExpandNested(item, by_name)) \/ Terminals(ExpandNested(item, by_name)) = {}
         /\ \A g \in Levels(ExpandNested(item, by_name)) :
              Names(Level(ExpandNested(item, by_name), g)) \intersect Reserved = {}
<1>. DEFINE s == ExpandNested(item, by_name)
            stages == <<StageOf(item)>>
<1>1. /\ s.nodes = {by_name[n] : n \in Range(item.names)} \union {AddedNode(item)}
      /\ Names(s) = Range(item.names) \union {AddedName(item)}
      /\ Range(item.names) \subseteq DOMAIN by_name
      /\ AddedName(item) \notin Range(item.names) \union Reserved
      /\ AddedNode(item).name = AddedName(item)
      /\ IsFiniteSet(s.nodes)
      /\ \A m, n \in s.nodes : m.name = n.name => m = n
      /\ item.form = "loop" => Range(item.names) = {item.names[1]}
  BY ItemNodes
<1>2. \A m \in s.nodes :
        /\ m.kind # "graph" /\ m.does \in {"-", "loop_counter"} /\ (m.does # "-" => m.kind = "function")
        /\ m.does = "loop_counter" => item.form = "loop" /\ m.name = AddedName(item) /\ m.max = item.max
        /\ Writes(m) => m.key[2] \in Nat
  BY ItemKinds
<1>3. Valid(s)
  BY ItemFlows, ItemLooped
<1>4. /\ item.form = "parallel" => Flows(s)
      /\ item.form = "loop" => Looped(s, item.names[1], AddedName(item)) /\ item.names[1] \in Names(s)
  BY ItemFlows, ItemLooped
<1>5. Names(s) \intersect Reserved = {}
  BY <1>1 DEF OrdinaryNodes
<1>6. AddedName(item) \notin StageNames
  BY DEF OrdinaryItem, Fresh
<1>7. item.form = "loop" => AddedNode(item).does = "loop_counter" /\ AddedNode(item).max = item.max
                            /\ item.max \in 1..MaxTimes
  BY DEF AddedNode, Added, Node, OrdinaryItem
<1>. HIDE DEF s
<1>8. Levels(s) = {Top} /\ Level(s, Top) = s
  BY <1>2 DEF Levels, Level
<1>9. Compiles(s)
  <2>1. \A m \in s.nodes : m.does = "loop_counter" => m.max >= 1
    BY <1>2, <1>7
  <2>. QED
    BY <1>2, <1>3, <1>8, <2>1 DEF Compiles
<1>10. Named(s)
  BY <1>1, <1>2, <1>5, <1>8 DEF Named, Reserved
<1>11. LoopsApart(s)
  <2>. SUFFICES ASSUME NEW n \in Loops(s, Top)
                PROVE  /\ n.max \in 1..MaxTimes
                       /\ \E body \in Names(s) : Looped(s, body, n.name)
    BY <1>8 DEF LoopsApart
  <2>1. item.form = "loop" /\ n.name = AddedName(item) /\ n.max = item.max
    BY <1>2, <1>8 DEF Loops
  <2>. QED
    BY <1>4, <1>7, <2>1
<1>12. Wired(s)
  BY <1>2, <1>5, <1>10, <1>11, WiredIf DEF Reserved
<1>13. Entry(s, Top)
  BY DEF Entry
<1>14. Placed(s, StageOf(item)) /\ StageOf(item).kind \in {"all", "loop", "one"}
       /\ StageOf(item).names = Range(item.names)
  <2>1. CASE item.form = "parallel"
    <3>1. StageOf(item).kind = "all" /\ StageOf(item).names = Range(item.names)
      BY <2>1 DEF StageOf, Stage
    <3>2. Flows(s) /\ Streams(s) /\ EndpointsExist(s)
      BY <1>3, <1>4, <2>1 DEF Flows, Valid
    <3>3. \A n \in Names(s) : Certain(s, n)
      BY <3>2, FlowCertain
    <3>. QED
      BY <1>1, <1>8, <1>13, <3>1, <3>2, <3>3 DEF Placed
  <2>2. CASE item.form = "loop"
    <3>1. StageOf(item).kind = "loop" /\ StageOf(item).names = Range(item.names)
          /\ StageOf(item).max = item.max
      BY <2>2 DEF StageOf, Stage
    <3>2. AddedNode(item) \in Loops(s, Top)
      BY <1>1, <1>7, <1>8, <2>2 DEF Loops
    <3>. QED
      BY <1>1, <1>4, <1>7, <1>8, <1>13, <2>2, <3>1, <3>2 DEF Placed
  <2>. QED
    BY <2>1, <2>2
<1>15. stages \in Seq(Range(stages)) /\ DOMAIN stages = {1} /\ stages[1] = StageOf(item)
  BY DEF Range
<1>. HIDE DEF stages
<1>16. Promised(s, stages)
  BY <1>1, <1>6, <1>8, <1>14, <1>15 DEF Promised
<1>17. item.form = "loop" => Terminals(s) = {}
  <2>. SUFFICES ASSUME item.form = "loop", NEW n \in Names(s) PROVE Outgoing(s, n) # {}
    BY DEF Terminals
  <2>1. \A x, y, z : Edge(x, y, z).source = x
    BY DEF Edge
  <2>. QED
    BY <1>4, <2>1 DEF Looped, Outgoing
<1>18. \A g \in Levels(s) : Names(Level(s, g)) \intersect Reserved = {}
  BY <1>5, <1>8
<1>. QED
  BY <1>3, <1>4, <1>9, <1>12, <1>16, <1>17, <1>18 DEF s, stages

(* Where what an item names is at home: a plain item in the sequence itself, *)
(* what a parallel or a loop names in the graph nested at its place.       *)
HomeOf(form, by_name, i) ==
  IF form.items[i].form = "node" THEN Top ELSE PlaceOf(form, by_name, i)

(* The names in the graphs of a sequence: its places, and in each of the    *)
(* nested graphs what its item names, and the join or the counter.         *)
LEMMA ChainNames ==
  ASSUME NEW by_name, NEW form, form.form = "sequence", Ordinary(form, by_name),
         NEW g \in Levels(ExpandSugar(form, by_name)), g # Top
  PROVE  \E i \in DOMAIN form.items :
           /\ form.items[i].form \in {"parallel", "loop"} /\ g = PlaceOf(form, by_name, i)
           /\ Level(ExpandSugar(form, by_name), g) = ExpandNested(form.items[i], by_name)
           /\ Names(Level(ExpandSugar(form, by_name), g)) =
                Range(form.items[i].names) \union {AddedName(form.items[i])}
<1>1. PICK i \in DOMAIN form.items : form.items[i].form # "node" /\ g = PlaceOf(form, by_name, i)
  BY ChainLevels
<1>2. /\ OrdinaryNodes(by_name) /\ OrdinaryItem(form.items[i], by_name)
      /\ form.items[i].form \in {"parallel", "loop"}
  BY <1>1, ChainPlace
<1>3. Level(ExpandSugar(form, by_name), g) = ExpandNested(form.items[i], by_name)
  BY <1>1, ChainLevels
<1>4. Names(ExpandNested(form.items[i], by_name)) =
        Range(form.items[i].names) \union {AddedName(form.items[i])}
  BY <1>2, ItemNodes
<1>. QED
  BY <1>1, <1>2, <1>3, <1>4

(* What an item names is in one graph only, and reached by its place. *)
LEMMA ChainHome ==
  ASSUME NEW by_name, NEW form, form.form = "sequence", Ordinary(form, by_name),
         NEW i \in DOMAIN form.items, NEW n \in Range(form.items[i].names)
  PROVE  /\ HomeOf(form, by_name, i) \in Levels(ExpandSugar(form, by_name))
         /\ n \in Names(Level(ExpandSugar(form, by_name), HomeOf(form, by_name, i)))
         /\ \A g \in Levels(ExpandSugar(form, by_name)) :
              n \in Names(Level(ExpandSugar(form, by_name), g)) => HomeOf(form, by_name, i) = g
         /\ Home(ExpandSugar(form, by_name), n) = HomeOf(form, by_name, i)
         /\ TopOf(ExpandSugar(form, by_name), n) = PlaceOf(form, by_name, i)
<1>. DEFINE G == ExpandSugar(form, by_name)
            D == DOMAIN form.items
            place(j) == PlaceOf(form, by_name, j)
            home == HomeOf(form, by_name, i)
<1>1. /\ Level(G, Top) = G
      /\ Levels(G) = {Top} \union {place(j) : j \in {k \in D : form.items[k].form # "node"}}
      /\ \A j \in D : form.items[j].form # "node" => Level(G, place(j)) = ExpandNested(form.items[j], by_name)
  BY ChainLevels
<1>2. Names(G) = {place(j) : j \in D}
  BY ChainParts
<1>3. \A j \in D :
        /\ place(j) \notin Reserved
        /\ Range(form.items[j].names) \subseteq DOMAIN by_name
        /\ IF form.items[j].form = "node" THEN Range(form.items[j].names) = {place(j)}
           ELSE /\ place(j) \notin DOMAIN by_name
                /\ AddedName(form.items[j]) \notin DOMAIN by_name
  BY ChainPlace
<1>4. \A j \in D : n \in Range(form.items[j].names) => i = j
  BY DEF Ordinary
<1>5. home \in Levels(G)
  BY <1>1 DEF HomeOf
<1>6. n \in Names(Level(G, home))
  <2>1. CASE form.items[i].form = "node"
    BY <1>1, <1>2, <1>3, <2>1 DEF HomeOf
  <2>2. CASE form.items[i].form # "node"
    <3>1. Names(ExpandNested(form.items[i], by_name)) =
            Range(form.items[i].names) \union {AddedName(form.items[i])}
      BY <2>2, ChainPlace, ItemNodes
    <3>. QED
      BY <1>1, <2>2, <3>1 DEF HomeOf
  <2>. QED
    BY <2>1, <2>2
<1>7. ASSUME NEW g \in Levels(G), n \in Names(Level(G, g)) PROVE home = g
  <2>1. CASE g = Top
    <3>1. PICK j \in D : n = place(j)
      BY <1>1, <1>2, <1>7, <2>1
    <3>2. form.items[j].form = "node"
      BY <1>3, <3>1
    <3>. QED
      BY <1>3, <1>4, <2>1, <3>1, <3>2 DEF HomeOf
  <2>2. CASE g # Top
    <3>1. PICK j \in D :
            /\ form.items[j].form \in {"parallel", "loop"} /\ g = place(j)
            /\ Names(Level(G, g)) = Range(form.items[j].names) \union {AddedName(form.items[j])}
      BY <2>2, ChainNames
    <3>2. n \in Range(form.items[j].names)
      BY <1>3, <1>7, <3>1
    <3>. QED
      BY <1>4, <3>1, <3>2 DEF HomeOf
  <2>. QED
    BY <2>1, <2>2
<1>8. Home(G, n) = home
  BY <1>5, <1>6, <1>7, HomeIs
<1>9. TopOf(G, n) = place(i)
  <2>1. CASE form.items[i].form = "node"
    BY <1>3, <1>8, <2>1 DEF TopOf, HomeOf
  <2>2. CASE form.items[i].form # "node"
    BY <1>3, <1>8, <2>2 DEF TopOf, HomeOf, Reserved
  <2>. QED
    BY <2>1, <2>2
<1>. QED
  BY <1>5, <1>6, <1>7, <1>8, <1>9

(* All that a stage can name in a sequence is named by one of its items. *)
LEMMA ChainCovered ==
  ASSUME NEW by_name, NEW form, form.form = "sequence", Ordinary(form, by_name),
         NEW g \in Levels(ExpandSugar(form, by_name)),
         NEW n \in StageNames, n \in Names(Level(ExpandSugar(form, by_name), g))
  PROVE  \E i \in DOMAIN form.items : n \in Range(form.items[i].names)
<1>. DEFINE G == ExpandSugar(form, by_name)
            D == DOMAIN form.items
            place(j) == PlaceOf(form, by_name, j)
<1>1. \A j \in D :
        IF form.items[j].form = "node" THEN Range(form.items[j].names) = {place(j)}
        ELSE place(j) \notin StageNames /\ AddedName(form.items[j]) \notin StageNames
  BY ChainPlace
<1>2. CASE g = Top
  <2>1. PICK j \in D : n = place(j)
    BY <1>2, ChainLevels, ChainParts
  <2>. QED
    BY <1>1, <2>1
<1>3. CASE g # Top
  <2>1. PICK j \in D :
          /\ form.items[j].form \in {"parallel", "loop"}
          /\ Names(Level(G, g)) = Range(form.items[j].names) \union {AddedName(form.items[j])}
    BY <1>3, ChainNames
  <2>. QED
    BY <1>1, <2>1
<1>. QED
  BY <1>2, <1>3

(* Every loop of a sequence is in a graph of its own, with its own counter. *)
LEMMA ChainLoops ==
  ASSUME NEW by_name, NEW form, form.form = "sequence", Ordinary(form, by_name),
         NEW g \in Levels(ExpandSugar(form, by_name)),
         NEW n \in Loops(ExpandSugar(form, by_name), g)
  PROVE  \E i \in DOMAIN form.items :
           /\ form.items[i].form = "loop" /\ g # Top /\ g = PlaceOf(form, by_name, i)
           /\ n.name = AddedName(form.items[i]) /\ n.max = form.items[i].max
<1>. DEFINE G == ExpandSugar(form, by_name)
            D == DOMAIN form.items
<1>1. n \in Level(G, g).nodes /\ n.does = "loop_counter"
  BY DEF Loops
<1>2. g # Top
  <2>. SUFFICES ASSUME g = Top PROVE FALSE
    OBVIOUS
  <2>1. PICK i \in D : n = PlaceNode(form, by_name, i)
    BY <1>1, ChainLevels, ChainParts
  <2>2. n.does = "-"
    BY <2>1, ChainPlace
  <2>. QED
    BY <1>1, <2>2
<1>3. PICK i \in D : /\ form.items[i].form \in {"parallel", "loop"} /\ g = PlaceOf(form, by_name, i)
                     /\ Level(G, g) = ExpandNested(form.items[i], by_name)
  BY <1>2, ChainNames
<1>4. OrdinaryNodes(by_name) /\ OrdinaryItem(form.items[i], by_name)
  BY ChainPlace
<1>5. form.items[i].form = "loop" /\ n.name = AddedName(form.items[i]) /\ n.max = form.items[i].max
  BY <1>1, <1>3, <1>4, ItemKinds
<1>. QED
  BY <1>2, <1>3, <1>5

(* Two loops of a sequence with counters of one name are one loop. *)
LEMMA CountersApart ==
  ASSUME NEW by_name, NEW form, form.form = "sequence", Ordinary(form, by_name),
         NEW i \in DOMAIN form.items, NEW j \in DOMAIN form.items,
         form.items[i].form = "loop", form.items[j].form = "loop",
         AddedName(form.items[i]) = AddedName(form.items[j])
  PROVE  i = j
<1>1. \A k \in DOMAIN form.items : form.items[k].form = "loop" =>
        /\ Range(form.items[k].names) = {form.items[k].names[1]}
        /\ form.items[k].names[1] \in Seq(Range(form.items[k].names[1]))
  <2>. SUFFICES ASSUME NEW k \in DOMAIN form.items, form.items[k].form = "loop"
                PROVE  /\ Range(form.items[k].names) = {form.items[k].names[1]}
                       /\ form.items[k].names[1] \in Seq(Range(form.items[k].names[1]))
    OBVIOUS
  <2>1. OrdinaryNodes(by_name) /\ OrdinaryItem(form.items[k], by_name)
        /\ Range(form.items[k].names) \subseteq DOMAIN by_name
    BY ChainPlace
  <2>2. Range(form.items[k].names) = {form.items[k].names[1]}
    BY <2>1, ItemNodes
  <2>. QED
    BY <2>1, <2>2 DEF OrdinaryNodes
<1>. DEFINE x == form.items[i].names[1]
            y == form.items[j].names[1]
<1>2. x \in Seq(Range(x)) /\ y \in Seq(Range(y))
  BY <1>1
<1>. DEFINE S == Range(x) \union Range(y) \union {"loop_counter"}
<1>3. x \in Seq(S) /\ y \in Seq(S) /\ "loop_counter" \in S
  BY <1>2, SeqMonotonic
<1>4. Append(x, "loop_counter") = Append(y, "loop_counter")
  BY DEF AddedName
<1>. HIDE DEF x, y, S
<1>5. x = y
  BY <1>3, <1>4, AppendInjective
<1>. USE DEF x, y
<1>. QED
  BY <1>1, <1>5 DEF Ordinary

(* A sequence is compiled, and wired. *)
LEMMA ChainWired ==
  ASSUME NEW by_name, NEW form, form.form = "sequence", Ordinary(form, by_name)
  PROVE  /\ Compiles(ExpandSugar(form, by_name)) /\ Wired(ExpandSugar(form, by_name))
         /\ \A g \in Levels(ExpandSugar(form, by_name)) :
              Names(Level(ExpandSugar(form, by_name), g)) \intersect Reserved = {}
<1>. DEFINE G == ExpandSugar(form, by_name)
            D == DOMAIN form.items
            place(i) == PlaceOf(form, by_name, i)
            node(i) == PlaceNode(form, by_name, i)
<1>1. Valid(G) /\ Flows(G) /\ Level(G, Top) = G /\ Top \in Levels(G)
  BY ChainFlows, ChainLevels
<1>2. /\ G.nodes = {node(i) : i \in D} /\ Names(G) = {place(i) : i \in D}
      /\ IsFiniteSet(G.nodes)
      /\ \A m, n \in G.nodes : m.name = n.name => m = n
  BY ChainParts
<1>3. \A i \in D : /\ place(i) \notin Reserved /\ node(i).does = "-"
                   /\ node(i).kind # "join"
                   /\ Writes(node(i)) => node(i).key[2] \in Nat
  <2>. SUFFICES ASSUME NEW i \in D PROVE Writes(node(i)) => node(i).key[2] \in Nat
    BY ChainPlace
  <2>1. CASE form.items[i].form = "node"
    <3>1. place(i) \in DOMAIN by_name /\ node(i) = by_name[place(i)] /\ OrdinaryNodes(by_name)
      BY <2>1, ChainPlace
    <3>. QED
      BY <3>1 DEF OrdinaryNodes
  <2>2. CASE form.items[i].form # "node"
    BY <2>2, ChainPlace DEF Writes
  <2>. QED
    BY <2>1, <2>2
<1>4. ASSUME NEW g \in Levels(G), g # Top
      PROVE  /\ Valid(Level(G, g)) /\ IsFiniteSet(Level(G, g).nodes)
             /\ Names(Level(G, g)) \intersect Reserved = {}
             /\ \A m, n \in Level(G, g).nodes : m.name = n.name => m = n
             /\ \A m \in Level(G, g).nodes :
                  /\ m.kind # "graph" /\ m.does \in {"-", "loop_counter"}
                  /\ m.does # "-" => m.kind = "function"
                  /\ m.does = "loop_counter" => m.max >= 1
                  /\ Writes(m) => m.key[2] \in Nat
  <2>1. PICK i \in D :
          /\ form.items[i].form \in {"parallel", "loop"}
          /\ Level(G, g) = ExpandNested(form.items[i], by_name)
          /\ Names(Level(G, g)) = Range(form.items[i].names) \union {AddedName(form.items[i])}
    BY <1>4, ChainNames
  <2>2. OrdinaryNodes(by_name) /\ OrdinaryItem(form.items[i], by_name)
    BY ChainPlace
  <2>3. Valid(Level(G, g))
    BY <2>1, <2>2, ItemFlows, ItemLooped
  <2>4. /\ IsFiniteSet(Level(G, g).nodes)
        /\ \A m, n \in Level(G, g).nodes : m.name = n.name => m = n
        /\ Range(form.items[i].names) \subseteq DOMAIN by_name
        /\ AddedName(form.items[i]) \notin Reserved
    BY <2>1, <2>2, ItemNodes
  <2>5. Names(Level(G, g)) \intersect Reserved = {}
    BY <2>1, <2>2, <2>4 DEF OrdinaryNodes
  <2>6. \A m \in Level(G, g).nodes :
          /\ m.kind # "graph" /\ m.does \in {"-", "loop_counter"}
          /\ m.does # "-" => m.kind = "function"
          /\ m.does = "loop_counter" => m.max >= 1
          /\ Writes(m) => m.key[2] \in Nat
    <3>1. \A m \in Level(G, g).nodes : m.does = "loop_counter" =>
            form.items[i].form = "loop" /\ m.max = form.items[i].max
      BY <2>1, <2>2, ItemKinds
    <3>2. form.items[i].form = "loop" => form.items[i].max >= 1
      BY <2>2, WorkflowAssumption DEF OrdinaryItem
    <3>. QED
      BY <2>1, <2>2, <3>1, <3>2, ItemKinds
  <2>. QED
    BY <2>3, <2>4, <2>5, <2>6
<1>. HIDE DEF G, place, node
<1>5. Compiles(G)
  <2>1. \A g \in Levels(G) : \A n \in Level(G, g).nodes : n.does # "plan_execute"
    BY <1>1, <1>2, <1>3, <1>4
  <2>2. \A g \in Levels(G) : Valid(Level(G, g))
    BY <1>1, <1>4
  <2>3. \A g \in Levels(G) : \A n \in Level(G, g).nodes : n.does = "loop_counter" => n.max >= 1
    BY <1>1, <1>2, <1>3, <1>4
  <2>. QED
    BY <2>1, <2>2, <2>3 DEF Compiles
<1>6. Named(G)
  <2>. SUFFICES ASSUME NEW g \in Levels(G)
                PROVE  /\ IsFiniteSet(Level(G, g).nodes)
                       /\ START \notin Names(Level(G, g)) /\ Top \notin Names(Level(G, g))
                       /\ \A m, n \in Level(G, g).nodes :
                            /\ m.name = n.name => m = n
                            /\ m.does # "-" => m.kind = "function"
                            /\ g # Top => m.kind # "graph"
                            /\ Writes(m) => m.key[2] \in Nat
    BY DEF Named
  <2>1. CASE g = Top
    <3>1. Names(G) \intersect {START, Top} = {}
      BY <1>2, <1>3 DEF Reserved
    <3>2. \A m \in G.nodes : m.does = "-" /\ (Writes(m) => m.key[2] \in Nat)
      BY <1>2, <1>3
    <3>. QED
      BY <1>1, <1>2, <2>1, <3>1, <3>2
  <2>2. CASE g # Top
    BY <1>4, <2>2 DEF Reserved
  <2>. QED
    BY <2>1, <2>2
<1>7. LoopsApart(G)
  <2>. SUFFICES ASSUME NEW g \in Levels(G), NEW n \in Loops(G, g)
                PROVE  /\ n.max \in 1..MaxTimes
                       /\ \E body \in Names(Level(G, g)) : Looped(Level(G, g), body, n.name)
                       /\ \A h \in Levels(G) : \A m \in Loops(G, h) : m.name = n.name => g = h
    BY <1>1 DEF LoopsApart
  <2>1. PICK i \in D : /\ form.items[i].form = "loop" /\ g = place(i)
                       /\ n.name = AddedName(form.items[i]) /\ n.max = form.items[i].max
    BY ChainLoops DEF G, place
  <2>2. /\ OrdinaryNodes(by_name) /\ OrdinaryItem(form.items[i], by_name)
        /\ Level(G, g) = ExpandNested(form.items[i], by_name)
    BY <2>1, ChainPlace, ChainLevels DEF G, place
  <2>3. n.max \in 1..MaxTimes
    BY <2>1, <2>2 DEF OrdinaryItem
  <2>4. \E body \in Names(Level(G, g)) : Looped(Level(G, g), body, n.name)
    BY <2>1, <2>2, ItemLooped
  <2>5. ASSUME NEW h \in Levels(G), NEW m \in Loops(G, h), m.name = n.name PROVE g = h
    <3>1. PICK j \in D : /\ form.items[j].form = "loop" /\ h = place(j)
                         /\ m.name = AddedName(form.items[j])
      BY ChainLoops DEF G, place
    <3>2. i = j
      BY <2>1, <2>5, <3>1, CountersApart
    <3>. QED
      BY <2>1, <3>1, <3>2
  <2>. QED
    BY <2>3, <2>4, <2>5
<1>8. Wired(G)
  <2>1. {Executor, Aggregator} \intersect Names(G) = {}
    BY <1>2, <1>3 DEF Reserved
  <2>2. \A n \in G.nodes : n.does \in {"-", "loop_counter"}
    BY <1>2, <1>3
  <2>. QED
    BY <1>6, <1>7, <2>1, <2>2, WiredIf
<1>9. \A g \in Levels(G) : Names(Level(G, g)) \intersect Reserved = {}
  BY <1>1, <1>2, <1>3, <1>4
<1>. QED
  BY <1>5, <1>8, <1>9 DEF G

(* Each item of a sequence is a stage that has its place in it. *)
LEMMA ChainPlaced ==
  ASSUME NEW by_name, NEW form, form.form = "sequence", Ordinary(form, by_name),
         NEW i \in DOMAIN form.items
  PROVE  /\ StageOf(form.items[i]).kind \in {"all", "loop"}
         /\ StageOf(form.items[i]).names = Range(form.items[i].names)
         /\ Placed(ExpandSugar(form, by_name), StageOf(form.items[i]))
<1>. DEFINE G == ExpandSugar(form, by_name)
            item == form.items[i]
            home == HomeOf(form, by_name, i)
            place == PlaceOf(form, by_name, i)
<1>1. /\ StageOf(item).names = Range(item.names)
      /\ item.form = "loop" => StageOf(item).kind = "loop" /\ StageOf(item).max = item.max
      /\ item.form # "loop" => StageOf(item).kind = "all"
  BY DEF StageOf, Stage
<1>2. OrdinaryNodes(by_name) /\ OrdinaryItem(item, by_name) /\ item.form \in {"node", "parallel", "loop"}
  BY ChainPlace DEF OrdinaryItem
<1>3. Valid(G) /\ Flows(G) /\ Streams(G) /\ EndpointsExist(G) /\ Level(G, Top) = G
  BY ChainFlows, ChainLevels DEF Flows, Valid
<1>4. item.form # "node" => Level(G, place) = ExpandNested(item, by_name)
  BY ChainLevels
<1>5. place \in Names(G)
  BY ChainParts
<1>6. \A n \in Range(item.names) : home \in Levels(G) /\ n \in Names(Level(G, home))
  BY ChainHome
<1>7. home = IF item.form = "node" THEN Top ELSE place
  BY DEF HomeOf
<1>. HIDE DEF G, item, home, place
<1>8. \A n \in Names(G) : Certain(G, n)
  BY <1>3, FlowCertain
<1>9. Entry(G, home)
  BY <1>3, <1>5, <1>7, <1>8 DEF Entry
<1>10. ASSUME item.form = "loop"
       PROVE  /\ StageOf(item).kind \in {"all", "loop"} /\ StageOf(item).names = Range(item.names)
              /\ Placed(G, StageOf(item))
  <2>1. Looped(Level(G, home), item.names[1], AddedName(item))
    BY <1>2, <1>4, <1>7, <1>10, ItemLooped
  <2>2. /\ AddedNode(item) \in Level(G, home).nodes /\ AddedNode(item).name = AddedName(item)
        /\ Range(item.names) = {item.names[1]}
    BY <1>2, <1>4, <1>7, <1>10, ItemNodes
  <2>3. AddedNode(item).does = "loop_counter" /\ AddedNode(item).max = item.max
    BY <1>10 DEF AddedNode, Added, Node
  <2>4. AddedNode(item) \in Loops(G, home)
    BY <2>2, <2>3 DEF Loops
  <2>5. \A n \in StageOf(item).names :
          /\ home \in Levels(G) /\ Entry(G, home) /\ n \in Names(Level(G, home))
          /\ AddedNode(item) \in Loops(G, home)
          /\ Looped(Level(G, home), n, AddedNode(item).name)
          /\ AddedNode(item).max = StageOf(item).max
    BY <1>1, <1>6, <1>9, <1>10, <2>1, <2>2, <2>3, <2>4
  <2>6. StageOf(item).kind = "loop" /\ StageOf(item).names = Range(item.names)
    BY <1>1, <1>10
  <2>7. Placed(G, StageOf(item))
    BY <2>5, <2>6 DEF Placed
  <2>. QED
    BY <2>6, <2>7
<1>11. ASSUME item.form # "loop"
       PROVE  /\ StageOf(item).kind \in {"all", "loop"} /\ StageOf(item).names = Range(item.names)
              /\ Placed(G, StageOf(item))
  <2>1. Streams(Level(G, home)) /\ \A n \in Names(Level(G, home)) : Certain(Level(G, home), n)
    <3>1. CASE item.form = "node"
      BY <1>3, <1>7, <1>8, <3>1
    <3>2. CASE item.form = "parallel"
      <4>1. Flows(Level(G, home)) /\ Valid(Level(G, home))
        BY <1>2, <1>4, <1>7, <3>2, ItemFlows
      <4>. QED
        BY <4>1, FlowCertain DEF Flows, Valid
    <3>. QED
      BY <1>2, <1>11, <3>1, <3>2
  <2>2. \A n \in StageOf(item).names :
          /\ home \in Levels(G) /\ Entry(G, home) /\ n \in Names(Level(G, home))
          /\ Streams(Level(G, home)) /\ Certain(Level(G, home), n)
    BY <1>1, <1>6, <1>9, <2>1
  <2>3. StageOf(item).kind = "all" /\ StageOf(item).names = Range(item.names)
    BY <1>1, <1>11
  <2>4. Placed(G, StageOf(item))
    BY <2>2, <2>3 DEF Placed
  <2>. QED
    BY <2>3, <2>4
<1>. QED
  BY <1>10, <1>11 DEF G, item

(* A sequence is promised its items, one after the other. *)
LEMMA ChainPromised ==
  ASSUME NEW by_name, NEW form, form.form = "sequence", Ordinary(form, by_name)
  PROVE  Promised(ExpandSugar(form, by_name), FormStages(form))
<1>. DEFINE G == ExpandSugar(form, by_name)
            D == DOMAIN form.items
            stages == FormStages(form)
<1>1. D = 1..Len(form.items) /\ Len(form.items) \in Nat
  BY ChainParts
<1>2. stages = [i \in D |-> StageOf(form.items[i])]
  BY DEF FormStages
<1>3. DOMAIN stages = D /\ \A i \in D : stages[i] = StageOf(form.items[i])
  BY <1>2
<1>4. \A i \in D : /\ stages[i].kind \in {"all", "loop"}
                   /\ stages[i].names = Range(form.items[i].names)
                   /\ Placed(G, stages[i])
  BY <1>3, ChainPlaced
<1>. HIDE DEF stages
<1>5. stages \in Seq(Range(stages))
  <2>1. stages \in [1..Len(form.items) -> Range(stages)]
    BY <1>1, <1>2 DEF Range
  <2>. QED
    BY <1>1, <2>1, SeqDef
<1>6. \A i \in D : \A n \in stages[i].names :
        Home(G, n) = HomeOf(form, by_name, i) /\ TopOf(G, n) = PlaceOf(form, by_name, i)
  BY <1>4, ChainHome
<1>7. ASSUME NEW i \in D, NEW j \in D, j < i, NEW k \in stages[j].names, NEW n \in stages[i].names
      PROVE  Precedes(G, k, n)
  <2>1. Before(G, PlaceOf(form, by_name, j), PlaceOf(form, by_name, i))
    BY <1>7, ChainBefore
  <2>2. PlaceOf(form, by_name, j) # PlaceOf(form, by_name, i)
    BY <2>1 DEF Before
  <2>3. CASE Home(G, k) = Home(G, n)
    <3>1. HomeOf(form, by_name, i) = Top /\ HomeOf(form, by_name, j) = Top
      <4>1. HomeOf(form, by_name, i) = HomeOf(form, by_name, j)
        BY <1>6, <2>3
      <4>2. PlaceOf(form, by_name, i) # Top /\ PlaceOf(form, by_name, j) # Top
        BY ChainPlace DEF Reserved
      <4>. QED
        BY <2>2, <4>1, <4>2 DEF HomeOf
    <3>2. Level(G, Home(G, n)) = G
      BY <1>6, <3>1, ChainLevels
    <3>3. k = PlaceOf(form, by_name, j) /\ n = PlaceOf(form, by_name, i)
      BY <1>6, <3>1 DEF TopOf
    <3>. QED
      BY <2>1, <2>3, <3>2, <3>3 DEF Precedes
  <2>4. CASE Home(G, k) # Home(G, n)
    <3>1. TopOf(G, k) = PlaceOf(form, by_name, j) /\ TopOf(G, n) = PlaceOf(form, by_name, i)
      BY <1>6
    <3>. QED
      BY <2>1, <2>4, <3>1 DEF Precedes
  <2>. QED
    BY <2>3, <2>4
<1>8. ASSUME NEW n \in StageNames, NEW g \in Levels(G), n \in Names(Level(G, g))
      PROVE  /\ \A h \in Levels(G) : n \in Names(Level(G, h)) => g = h
             /\ \E i \in D : n \in stages[i].names
  <2>1. PICK i \in D : n \in Range(form.items[i].names)
    BY <1>8, ChainCovered
  <2>2. \A h \in Levels(G) : n \in Names(Level(G, h)) => HomeOf(form, by_name, i) = h
    BY <2>1, ChainHome
  <2>. QED
    BY <1>4, <1>8, <2>1, <2>2
<1>. HIDE DEF G
<1>9. Promised(G, stages)
  BY <1>3, <1>4, <1>5, <1>7, <1>8 DEF Promised
<1>. QED
  BY <1>9 DEF G, stages

(* An ordinary item is well formed, and what it is expanded to is valid. *)
LEMMA ItemAccepted ==
  ASSUME NEW by_name, OrdinaryNodes(by_name), NEW item, OrdinaryItem(item, by_name)
  PROVE  ItemExpands(item, by_name)
<1>1. item.form \in {"node", "parallel", "loop"} /\ Range(item.names) \subseteq DOMAIN by_name
  BY ListFinite DEF OrdinaryItem
<1>2. WellFormed(item)
  <2>1. CASE item.form = "parallel"
    <3>1. DOMAIN item.names = 1..Len(item.names) /\ Len(item.names) \in Nat
      BY LenProperties DEF OrdinaryItem
    <3>2. PICK i \in DOMAIN item.names, j \in DOMAIN item.names : item.names[i] # item.names[j]
      BY <2>1 DEF OrdinaryItem
    <3>3. Len(item.names) >= 2
      BY <3>1, <3>2
    <3>. QED
      BY <2>1, <3>3 DEF WellFormed
  <2>2. CASE item.form = "loop"
    BY <2>2 DEF WellFormed, OrdinaryItem
  <2>3. CASE item.form = "node"
    BY <2>3 DEF WellFormed
  <2>. QED
    BY <1>1, <2>1, <2>2, <2>3
<1>3. item.form # "node" => Valid(ExpandNested(item, by_name))
  BY <1>1, ItemFlows, ItemLooped
<1>. QED
  BY <1>1, <1>2, <1>3 DEF ItemExpands

(* Whatever the nodes, the names and the lengths, an ordinary form (a       *)
(* sequence, a parallel, a loop, and a sequence of those) is accepted, what *)
(* it is expanded to is wired as the runs assume, and its items are         *)
(* promised one after the other: expand_sequence, expand_parallel and       *)
(* expand_loop keep the order that the configuration lists.                *)
THEOREM FormsServed ==
  ASSUME NEW by_name, NEW form, Ordinary(form, by_name)
  PROVE  /\ Expands(form, by_name) /\ Valid(ExpandSugar(form, by_name))
         /\ Compiles(ExpandSugar(form, by_name)) /\ Wired(ExpandSugar(form, by_name))
         /\ Promised(ExpandSugar(form, by_name), FormStages(form))
         /\ Flows(ExpandSugar(form, by_name)) \/ Terminals(ExpandSugar(form, by_name)) = {}
         /\ \A g \in Levels(ExpandSugar(form, by_name)) :
              Names(Level(ExpandSugar(form, by_name), g)) \intersect Reserved = {}
<1>1. CASE form.form = "sequence"
  <2>1. \A i \in DOMAIN form.items : ItemExpands(form.items[i], by_name)
    BY <1>1, ChainPlace, ItemAccepted
  <2>2. WellFormed(form)
    BY <1>1, ChainParts DEF WellFormed
  <2>3. Expands(form, by_name)
    BY <1>1, <2>1, <2>2 DEF Expands
  <2>. QED
    BY <1>1, <2>3, ChainFlows, ChainWired, ChainPromised
<1>2. CASE form.form # "sequence"
  <2>1. OrdinaryNodes(by_name) /\ OrdinaryItem(form, by_name) /\ form.form \in {"parallel", "loop"}
    BY <1>2 DEF Ordinary, OrdinaryItem
  <2>2. ItemExpands(form, by_name)
    BY <2>1, ItemAccepted
  <2>3. Expands(form, by_name)
    BY <1>2, <2>2 DEF Expands, ItemExpands
  <2>4. ExpandSugar(form, by_name) = ExpandNested(form, by_name)
    BY <1>2 DEF ExpandSugar
  <2>5. FormStages(form) = <<StageOf(form)>>
    BY <1>2 DEF FormStages
  <2>. QED
    BY <2>1, <2>3, <2>4, <2>5, ItemServed
<1>. QED
  BY <1>1, <1>2

(* A graph without a terminal is refused with its synthesis, whatever else *)
(* it is: nothing leads to the join that with_synthesis adds.              *)
LEMMA EndlessRefused ==
  ASSUME NEW spec, EndpointsExist(spec), SynthesisJoin \notin Names(spec), Terminals(spec) = {}
  PROVE  ~Valid(WithSynthesis(spec))
<1>1. ~Single(spec)
  BY FS_EmptySet DEF Single
<1>2. JoinNode \in WithSynthesis(spec).nodes /\ JoinNode.kind = "join" /\ JoinNode.name = SynthesisJoin
  BY <1>1, AddedParts DEF WithSynthesis, Joined
<1>3. \A e \in WithSynthesis(spec).edges :
        e \in spec.edges \/ e.target \in {Synthesizer, Aggregator}
  BY <1>1 DEF WithSynthesis, Joined, Edge
<1>4. Inbound(WithSynthesis(spec), SynthesisJoin) = {}
  BY <1>3, AddedNames DEF Inbound, EndpointsExist
<1>5. Cardinality(Inbound(WithSynthesis(spec), JoinNode.name)) = 0
  BY <1>2, <1>4, FS_EmptySet
<1>. QED
  BY <1>2, <1>5 DEF Valid

(* Synthesis can be added to an ordinary form, or the form is refused with  *)
(* it: what is left is all that it is to follow.                           *)
THEOREM FormsSynthesized ==
  ASSUME NEW by_name, NEW form, Ordinary(form, by_name), SynthesisUnstaged,
         Compiles(WithSynthesis(ExpandSugar(form, by_name)))
  PROVE  /\ Synthesizable(ExpandSugar(form, by_name))
         /\ Concludes(ExpandSugar(form, by_name), FormStages(form))
<1>. DEFINE G == ExpandSugar(form, by_name)
<1>1. /\ Flows(G) \/ Terminals(G) = {}
      /\ \A g \in Levels(G) : Names(Level(G, g)) \intersect Reserved = {}
  BY FormsServed
<1>2. Valid(G)
  BY FormsServed
<1>. HIDE DEF G
<1>3. {Synthesizer, SynthesisJoin, Aggregator} \intersect Names(G) = {}
  BY <1>1 DEF Levels, Level, Reserved
<1>4. Terminals(G) # {}
  <2>1. Valid(WithSynthesis(G))
    BY DEF Compiles, Levels, Level, G
  <2>. QED
    BY <1>2, <1>3, <2>1, EndlessRefused DEF Valid
<1>5. Flows(G)
  BY <1>1, <1>4
<1>6. Synthesizable(G)
  BY <1>3, <1>5, AddedParts DEF Synthesizable, Names
<1>7. Concludes(G, FormStages(form))
  BY <1>1, <1>5 DEF Concludes, Reserved
<1>. QED
  BY <1>6, <1>7 DEF G

(* So all that the runs need of a source is known, whichever way it is. *)
LEMMA SourcesKnown ==
  ASSUME NEW src \in Sources, Accepted(src)
  PROVE  Known(src)
<1>1. CASE Known(src)
  BY <1>1
<1>2. CASE FromForm(src)
  <2>1. Parsed(src) = ExpandSugar(src.form, src.by_name) /\ Ordinary(src.form, src.by_name)
    BY <1>2 DEF FromForm, Parsed
  <2>2. Wired(Parsed(src)) /\ Promised(Parsed(src), src.stages)
    BY <1>2, <2>1, FormsServed DEF FromForm
  <2>3. src.synthesis => Compiles(WithSynthesis(Parsed(src))) /\ SynthesisUnstaged
    BY <1>2 DEF FromForm, Accepted, Served
  <2>4. src.synthesis => Synthesizable(Parsed(src)) /\ Concludes(Parsed(src), src.stages)
    BY <1>2, <2>1, <2>3, FormsSynthesized DEF FromForm
  <2>. QED
    BY <2>2, <2>4 DEF Known
<1>. QED
  BY <1>1, <1>2, SourcesAssumption

-----------------------------------------------------------------------------
(* The presets: their graphs are wired, and have the order for their stages, *)
(* for any number of steps, workers and iterations and any specialists.    *)
ServedAs(spec, stages) == Valid(spec) /\ Compiles(spec) /\ Wired(spec) /\ Promised(spec, stages)

(* A graph in which nothing is nested is its only level. *)
LEMMA FlatLevels ==
  ASSUME NEW spec, \A n \in spec.nodes : n.kind # "graph"
  PROVE  Levels(spec) = {Top} /\ Level(spec, Top) = spec
BY DEF Levels, Level

(* The parts of a node. *)
LEMMA NodeParts ==
  ASSUME NEW n, NEW k
  PROVE  /\ Node(n, k).name = n /\ Node(n, k).kind = k /\ Node(n, k).does = "-"
         /\ Node(n, k).routes = <<>> /\ Node(n, k).graph = NoGraph
         /\ Node(n, k).key = <<"last_response">> /\ ~Writes(Node(n, k)) /\ ~Tells(Node(n, k))
         /\ DOMAIN Node(n, k) = {"name", "kind", "origin", "does", "max", "routes", "default",
                                 "key", "graph"}
<1>1. <<"last_response">>[1] # "perspective" /\ <<"last_response">> # <<"routed_to">>
  OBVIOUS
<1>. QED
  BY <1>1 DEF Node, Writes, Tells

(* plan_and_execute: the planner runs, and the executor only when it is    *)
(* called.                                                                 *)
THEOREM PlanServed ==
  ASSUME Executor \notin StageNames
  PROVE  ServedAs(PlanExecuteSpec, <<Stage("all", {Planner}, 0)>>)
<1>. DEFINE P == PlanExecuteSpec
            planner == [Node(Planner, "function") EXCEPT !.does = "plan_execute"]
            executor == Llm(Executor)
            stages == <<Stage("all", {Planner}, 0)>>
            start == Edge(START, Planner, NoRoute)
<1>1. P.nodes = {planner, executor} /\ P.edges = {start}
  BY DEF PlanExecuteSpec
<1>2. /\ planner.name = Planner /\ planner.kind = "function" /\ planner.does = "plan_execute"
      /\ planner.graph = NoGraph /\ ~Writes(planner)
      /\ executor.name = Executor /\ executor.kind = "llm" /\ executor.does = "-"
      /\ executor.graph = NoGraph /\ ~Writes(executor)
  BY NodeParts DEF Llm, Writes, Node
<1>3. start.source = START /\ start.target = Planner /\ start.route = NoRoute
  BY DEF Edge
<1>4. /\ Planner # Executor /\ Planner # START /\ Executor # START /\ Planner # Top /\ Executor # Top
      /\ Aggregator \notin {Planner, Executor}
  BY DEF Planner, Executor, START, Top, Aggregator
<1>5. stages \in Seq(Range(stages)) /\ DOMAIN stages = {1} /\ stages[1].kind = "all"
      /\ stages[1].names = {Planner}
  BY DEF Range, Stage
<1>. HIDE DEF P, planner, executor, start, stages
<1>6. Names(P) = {Planner, Executor} /\ IsFiniteSet(P.nodes)
  <2>1. IsFiniteSet({planner}) /\ P.nodes = {planner} \union {executor}
    BY <1>1, FS_Singleton
  <2>2. IsFiniteSet(P.nodes)
    BY <2>1, FS_AddElement
  <2>. QED
    BY <1>1, <1>2, <2>2 DEF Names
<1>7. \A m, n \in P.nodes : m.name = n.name => m = n
  BY <1>1, <1>2, <1>4
<1>8. Levels(P) = {Top} /\ Level(P, Top) = P
  BY <1>1, <1>2, FlatLevels
<1>9. Valid(P)
  <2>1. NoDuplicates(P)
    BY <1>6, <1>7, Distinct
  <2>2. EndpointsExist(P)
    BY <1>1, <1>3, <1>6 DEF EndpointsExist
  <2>3. start \in Outgoing(P, START)
    BY <1>1, <1>3 DEF Outgoing
  <2>. QED
    BY <1>1, <1>2, <2>1, <2>2, <2>3 DEF Valid, NODE_KINDS
<1>10. Compiles(P)
  BY <1>1, <1>2, <1>6, <1>8, <1>9 DEF Compiles
<1>11. Wired(P)
  <2>1. Named(P)
    BY <1>1, <1>2, <1>4, <1>6, <1>7, <1>8 DEF Named
  <2>2. LoopsApart(P)
    BY <1>1, <1>2, <1>8 DEF LoopsApart, Loops
  <2>3. Dispatches(P)
    BY <1>1, <1>2 DEF Dispatches
  <2>4. Planned(P)
    <3>1. start \in Outgoing(P, START) /\ planner \in P.nodes
      BY <1>1, <1>3 DEF Outgoing
    <3>. QED
      BY <1>2, <1>3, <3>1 DEF Planned
  <2>5. Gathers(P)
    BY <1>4, <1>6 DEF Gathers
  <2>. QED
    BY <2>1, <2>2, <2>3, <2>4, <2>5 DEF Wired
<1>12. Streams(P)
  <2>1. \A n \in P.nodes : n.kind # "join" /\ \A e, f \in Inbound(P, n.name) : e = f
    BY <1>1, <1>2 DEF Inbound
  <2>2. ASSUME NEW part \in SUBSET Names(P), part # {}
        PROVE  \E n \in part : \A e \in Inbound(P, n) : e.source \notin part
    BY <1>1, <1>3, <1>4, <1>6, <2>2 DEF Inbound
  <2>. QED
    BY <2>1, <2>2 DEF Streams
<1>13. Certain(P, Planner)
  <2>1. Inbound(P, Planner) = {start}
    BY <1>1, <1>3 DEF Inbound
  <2>2. Closed(P, {Planner})
    BY <1>3, <2>1 DEF Closed
  <2>. QED
    BY <1>3, <1>6, <2>1, <2>2 DEF Certain
<1>14. Placed(P, stages[1])
  BY <1>5, <1>6, <1>8, <1>12, <1>13 DEF Placed, Entry
<1>15. Promised(P, stages)
  BY <1>5, <1>6, <1>8, <1>14 DEF Promised
<1>. QED
  BY <1>9, <1>10, <1>11, <1>15 DEF ServedAs, P, stages

(* The two nodes of expert_dispatch that are no specialists. *)
DispatchClassifier == [Llm(Classifier) EXCEPT !.key = <<"routed_to">>]
DispatchRouter(specialists) ==
  [Node(Router, "function") EXCEPT !.does = "route_dispatch", !.routes = specialists,
                                   !.default = specialists[1]]

(* The parts of the roster's graph: a chain from the classifier to the      *)
(* router, and an edge to each of the specialists, by its name.            *)
LEMMA DispatchParts ==
  ASSUME NEW S, NEW specialists \in Seq(S), specialists # <<>>
  PROVE  /\ ExpertDispatchSpec(specialists).nodes = {DispatchClassifier, DispatchRouter(specialists)} \union {Llm(Specialist(s)) : s \in Range(specialists)}
         /\ Names(ExpertDispatchSpec(specialists)) = {Classifier, Router} \union {Specialist(s) : s \in Range(specialists)}
         /\ IsFiniteSet(ExpertDispatchSpec(specialists).nodes) /\ (\A m, n \in ExpertDispatchSpec(specialists).nodes : m.name = n.name => m = n)
         /\ Inbound(ExpertDispatchSpec(specialists), Classifier) = {Edge(START, Classifier, NoRoute)}
         /\ Inbound(ExpertDispatchSpec(specialists), Router) = {Edge(Classifier, Router, NoRoute)}
         /\ \A s \in Range(specialists) : Inbound(ExpertDispatchSpec(specialists), Specialist(s)) = {Edge(Router, Specialist(s), s)}
         /\ Outgoing(ExpertDispatchSpec(specialists), START) = {Edge(START, Classifier, NoRoute)}
         /\ Outgoing(ExpertDispatchSpec(specialists), Router) = {Edge(Router, Specialist(s), s) : s \in Range(specialists)}
         /\ EndpointsExist(ExpertDispatchSpec(specialists))
<1>. DEFINE E == ExpertDispatchSpec(specialists)
            roster == Range(specialists)
            classifier == DispatchClassifier
            router == DispatchRouter(specialists)
<1>1. /\ E.nodes = {classifier, router} \union {Llm(Specialist(s)) : s \in roster}
      /\ E.edges = {Edge(START, Classifier, NoRoute), Edge(Classifier, Router, NoRoute)}
                   \union {Edge(Router, Specialist(s), s) : s \in roster}
  BY DEF ExpertDispatchSpec, DispatchClassifier, DispatchRouter
<1>2. /\ classifier.name = Classifier /\ router.name = Router
      /\ \A s : Llm(Specialist(s)).name = Specialist(s)
  BY DEF Llm, Node, DispatchClassifier, DispatchRouter
<1>3. /\ Classifier # Router /\ START # Classifier /\ START # Router
      /\ \A s : Specialist(s) \notin {Classifier, Router, START}
      /\ \A s, t : Specialist(s) = Specialist(t) => s = t
  <2>1. Classifier[1] = "router_classifier" /\ Router[1] = "router_agent" /\ START[1] = "START"
        /\ \A s : Specialist(s)[1] = "router_specialist" /\ Specialist(s)[2] = s
    BY DEF Classifier, Router, START, Specialist
  <2>. QED
    BY <2>1
<1>4. IsFiniteSet(roster)
  BY ListFinite
<1>5. \A x, y, z : Edge(x, y, z).source = x /\ Edge(x, y, z).target = y
  BY DEF Edge
<1>. HIDE DEF E, classifier, router, roster
<1>6. Names(E) = {Classifier, Router} \union {Specialist(s) : s \in roster}
  BY <1>1, <1>2 DEF Names
<1>7. \A m, n \in E.nodes : m.name = n.name => m = n
  BY <1>1, <1>2, <1>3
<1>8. IsFiniteSet(E.nodes)
  <2>. DEFINE f == [s \in roster |-> Llm(Specialist(s))]
              T == {Llm(Specialist(s)) : s \in roster}
  <2>1. f \in Surjection(roster, T)
    BY DEF Surjection
  <2>2. IsFiniteSet(T)
    BY <1>4, <2>1, FS_Surjection
  <2>. HIDE DEF T
  <2>3. IsFiniteSet(T \union {classifier}) /\ IsFiniteSet((T \union {classifier}) \union {router})
    BY <2>2, FS_AddElement
  <2>4. E.nodes = (T \union {classifier}) \union {router}
    BY <1>1 DEF T
  <2>. QED
    BY <2>3, <2>4
<1>9. /\ Inbound(E, Classifier) = {Edge(START, Classifier, NoRoute)}
      /\ Inbound(E, Router) = {Edge(Classifier, Router, NoRoute)}
      /\ Outgoing(E, START) = {Edge(START, Classifier, NoRoute)}
  BY <1>1, <1>3, <1>5 DEF Inbound, Outgoing
<1>10. Outgoing(E, Router) = {Edge(Router, Specialist(s), s) : s \in roster}
  BY <1>1, <1>3, <1>5 DEF Outgoing
<1>11. ASSUME NEW s \in roster PROVE Inbound(E, Specialist(s)) = {Edge(Router, Specialist(s), s)}
  BY <1>1, <1>3, <1>5 DEF Inbound
<1>12. EndpointsExist(E)
  BY <1>1, <1>5, <1>6 DEF EndpointsExist
<1>. QED
  BY <1>1, <1>6, <1>7, <1>8, <1>9, <1>10, <1>11, <1>12 DEF E, classifier, router, roster

(* expert_dispatch: the classifier first, then one of the specialists, of   *)
(* any roster in which none has the name of a route that is not a name.    *)
THEOREM DispatchServed ==
  ASSUME NEW S, NEW specialists \in Seq(S), specialists # <<>>,
         {NoRoute, DEFAULT_ROUTE} \intersect Range(specialists) = {}, Router \notin StageNames
  PROVE  ServedAs(ExpertDispatchSpec(specialists),
                  <<Stage("all", {Classifier}, 0),
                    Stage("one", {Specialist(s) : s \in Range(specialists)}, 0)>>)
<1>. DEFINE E == ExpertDispatchSpec(specialists)
            roster == Range(specialists)
            members == {Specialist(s) : s \in roster}
            classifier == DispatchClassifier
            router == DispatchRouter(specialists)
            stages == <<Stage("all", {Classifier}, 0), Stage("one", members, 0)>>
<1>1. /\ E.nodes = {classifier, router} \union {Llm(Specialist(s)) : s \in roster}
      /\ Names(E) = {Classifier, Router} \union members
      /\ IsFiniteSet(E.nodes)
      /\ \A m, n \in E.nodes : m.name = n.name => m = n
      /\ Inbound(E, Classifier) = {Edge(START, Classifier, NoRoute)}
      /\ Inbound(E, Router) = {Edge(Classifier, Router, NoRoute)}
      /\ \A s \in roster : Inbound(E, Specialist(s)) = {Edge(Router, Specialist(s), s)}
      /\ Outgoing(E, START) = {Edge(START, Classifier, NoRoute)}
      /\ Outgoing(E, Router) = {Edge(Router, Specialist(s), s) : s \in roster}
      /\ EndpointsExist(E)
  BY DispatchParts
<1>2. DOMAIN specialists = 1..Len(specialists) /\ Len(specialists) \in Nat /\ specialists[1] \in roster
  <2>1. DOMAIN specialists = 1..Len(specialists) /\ Len(specialists) \in Nat /\ Len(specialists) # 0
    BY LenProperties, EmptySeq
  <2>. QED
    BY <2>1 DEF Range
<1>3. /\ classifier.name = Classifier /\ classifier.kind = "llm" /\ classifier.does = "-"
      /\ classifier.graph = NoGraph /\ classifier.key = <<"routed_to">>
      /\ router.name = Router /\ router.kind = "function" /\ router.does = "route_dispatch"
      /\ router.graph = NoGraph /\ router.routes = specialists /\ router.default = specialists[1]
      /\ ~Tells(router) /\ ~Writes(router)
      /\ \A s : LET m == Llm(Specialist(s)) IN
           /\ m.name = Specialist(s) /\ m.kind = "llm" /\ m.does = "-" /\ m.graph = NoGraph
           /\ ~Tells(m) /\ ~Writes(m)
  BY NodeParts DEF Llm, Node, Tells, Writes, DispatchClassifier, DispatchRouter
<1>4. ~Writes(classifier)
  <2>1. <<"routed_to">>[1] # "perspective"
    OBVIOUS
  <2>. QED
    BY <1>3, <2>1 DEF Writes
<1>5. /\ Classifier # Router /\ {Classifier, Router} \intersect {START, Top, Executor, Aggregator} = {}
      /\ members \intersect {START, Top, Executor, Aggregator, Classifier, Router} = {}
  <2>1. /\ Classifier[1] = "router_classifier" /\ Router[1] = "router_agent" /\ START[1] = "START"
        /\ Executor[1] = "executor_agent" /\ Aggregator[1] = "synthesis_aggregate"
        /\ \A s : Specialist(s)[1] = "router_specialist"
        /\ Len(Top) = 0 /\ Len(Classifier) = 1 /\ Len(Router) = 1 /\ \A s : Len(Specialist(s)) = 2
    BY DEF Classifier, Router, START, Executor, Aggregator, Specialist, Top
  <2>. QED
    BY <2>1
<1>6. /\ \A x, y, z : Edge(x, y, z).source = x /\ Edge(x, y, z).target = y /\ Edge(x, y, z).route = z
      /\ \A s, t : Specialist(s) = Specialist(t) => s = t
  BY DEF Edge, Specialist
<1>7. /\ stages \in Seq(Range(stages)) /\ DOMAIN stages = {1, 2}
      /\ stages[1].kind = "all" /\ stages[1].names = {Classifier}
      /\ stages[2].kind = "one" /\ stages[2].names = members
  <2>. DEFINE a == Stage("all", {Classifier}, 0)
              b == Stage("one", members, 0)
  <2>1. stages \in Seq({a, b}) /\ DOMAIN stages = {1, 2} /\ stages[1] = a /\ stages[2] = b
    OBVIOUS
  <2>2. a.kind = "all" /\ a.names = {Classifier} /\ b.kind = "one" /\ b.names = members
    BY DEF Stage
  <2>. HIDE DEF stages, a, b
  <2>3. Range(stages) = {a, b}
    BY <2>1 DEF Range
  <2>. QED
    BY <2>1, <2>2, <2>3
<1>. HIDE DEF E, roster, members, classifier, router, stages
<1>8. \A n \in E.nodes : n.kind \in {"llm", "function"} /\ n.graph = NoGraph /\ ~Writes(n)
                         /\ (n.does # "-" => n = router)
                         /\ (Tells(n) => n = classifier)
  BY <1>1, <1>3, <1>4
<1>9. Levels(E) = {Top} /\ Level(E, Top) = E
  BY <1>8, FlatLevels
<1>10. Valid(E)
  <2>1. NoDuplicates(E)
    BY <1>1, Distinct
  <2>. QED
    BY <1>1, <1>8, <2>1 DEF Valid, NODE_KINDS
<1>11. Compiles(E)
  BY <1>3, <1>8, <1>9, <1>10 DEF Compiles
<1>12. Dispatches(E)
  <2>1. \A s \in roster : \A e \in Inbound(E, Specialist(s)) : e.source = Router /\ e.route = s
    BY <1>1, <1>6
  <2>2. \A e \in Inbound(E, Classifier) : e.source = START
    BY <1>1, <1>6
  <2>3. \A e \in Inbound(E, Router) : e.source = Classifier
    BY <1>1, <1>6
  <2>. SUFFICES ASSUME NEW n \in E.nodes, n.does = "route_dispatch", n.routes # <<>>
                PROVE  /\ DOMAIN n.routes = 1..Len(n.routes)
                       /\ {NoRoute, DEFAULT_ROUTE} \intersect Range(n.routes) = {}
                       /\ \A s \in Range(n.routes) : \A e \in Inbound(E, Specialist(s)) :
                            e.source = n.name /\ e.route = s
                       /\ \A g \in Levels(E) : \A m \in Level(E, g).nodes : Tells(m) =>
                            /\ g = Top
                            /\ \A e \in Inbound(E, m.name) : e.source = START
                            /\ \A e \in Inbound(E, n.name) : e.source = m.name
    BY DEF Dispatches
  <2>4. n = router
    BY <1>8
  <2>5. \A g \in Levels(E) : \A m \in Level(E, g).nodes : Tells(m) => g = Top /\ m = classifier
    BY <1>8, <1>9
  <2>. QED
    BY <1>2, <1>3, <2>1, <2>2, <2>3, <2>4, <2>5 DEF roster
<1>13. Wired(E)
  <2>1. Named(E)
    BY <1>1, <1>3, <1>5, <1>8, <1>9 DEF Named
  <2>2. LoopsApart(E)
    BY <1>3, <1>8, <1>9 DEF LoopsApart, Loops
  <2>3. Planned(E)
    BY <1>1, <1>5 DEF Planned
  <2>4. Gathers(E)
    BY <1>1, <1>5 DEF Gathers
  <2>. QED
    BY <1>12, <2>1, <2>2, <2>3, <2>4 DEF Wired
<1>14. Streams(E)
  <2>1. \A n \in Names(E) : \A e, f \in Inbound(E, n) : e = f
    BY <1>1 DEF members
  <2>2. \A n \in E.nodes : n.kind # "join" /\ n.name \in Names(E)
    BY <1>8 DEF Names
  <2>3. ASSUME NEW part \in SUBSET Names(E), part # {}
        PROVE  \E n \in part : \A e \in Inbound(E, n) : e.source \notin part
    <3>1. START \notin part
      BY <1>1, <1>5, <2>3
    <3>2. CASE Classifier \in part
      BY <1>1, <1>6, <3>1, <3>2
    <3>3. CASE Classifier \notin part /\ Router \in part
      BY <1>1, <1>6, <3>3
    <3>4. CASE Classifier \notin part /\ Router \notin part
      <4>1. PICK s \in roster : Specialist(s) \in part
        BY <1>1, <2>3, <3>4 DEF members
      <4>. QED
        BY <1>1, <1>6, <3>4, <4>1
    <3>. QED
      BY <3>2, <3>3, <3>4
  <2>. QED
    BY <2>1, <2>2, <2>3 DEF Streams
<1>15. Certain(E, Classifier) /\ Certain(E, Router)
  <2>1. Closed(E, {Classifier}) /\ Closed(E, {Classifier, Router})
    BY <1>1, <1>6 DEF Closed
  <2>2. \A m \in {Classifier, Router} :
          Inbound(E, m) # {} /\ \A e \in Inbound(E, m) : e.route = NoRoute
    <3>1. /\ Edge(START, Classifier, NoRoute).route = NoRoute
          /\ Edge(Classifier, Router, NoRoute).route = NoRoute
      BY <1>6
    <3>. HIDE DEF E
    <3>. QED
      BY <1>1, <3>1
  <2>3. {Classifier} \in SUBSET Names(E) /\ {Classifier, Router} \in SUBSET Names(E)
    BY <1>1
  <2>. QED
    BY <2>1, <2>2, <2>3 DEF Certain
<1>16. Selects(E, router, members)
  <2>. DEFINE out == Outgoing(E, Router)
              routes == {e.route : e \in out}
  <2>1. out = {Edge(Router, Specialist(s), s) : s \in roster}
    BY <1>1
  <2>2. members = {e.target : e \in out} /\ routes = roster
    <3>1. \A s \in roster : Edge(Router, Specialist(s), s).target = Specialist(s)
                            /\ Edge(Router, Specialist(s), s).route = s
      BY <1>6
    <3>2. members = {e.target : e \in out}
      BY <2>1, <3>1 DEF members
    <3>3. routes = roster
      BY <2>1, <3>1
    <3>. QED
      BY <3>2, <3>3
  <2>3. \A e \in out : Inbound(E, e.target) = {e}
    BY <1>1, <1>6, <2>1
  <2>4. \A e, f \in out : e.route = f.route => e = f
    BY <1>6, <2>1
  <2>5. {NoRoute, DEFAULT_ROUTE} \intersect routes = {} /\ router.default \in routes
    BY <1>2, <1>3, <2>2 DEF roster
  <2>6. router.routes # <<>> /\ Range(router.routes) \subseteq routes
    BY <1>3, <2>2 DEF roster
  <2>. HIDE DEF routes
  <2>. QED
    BY <1>3, <1>14, <1>15, <2>2, <2>3, <2>4, <2>5, <2>6 DEF Selects, routes
<1>17. Placed(E, stages[1]) /\ Placed(E, stages[2])
  <2>1. router \in E.nodes
    BY <1>1
  <2>2. Placed(E, stages[2])
    BY <1>7, <1>16, <2>1 DEF Placed
  <2>3. Placed(E, stages[1])
    BY <1>1, <1>7, <1>9, <1>14, <1>15 DEF Placed, Entry
  <2>. QED
    BY <2>2, <2>3
<1>18. ASSUME NEW n \in members PROVE Precedes(E, Classifier, n)
  <2>1. PICK s \in roster : n = Specialist(s)
    BY DEF members
  <2>2. Home(E, Classifier) = Top /\ Home(E, n) = Top
    BY <1>1, <1>9, HomeIs
  <2>3. ASSUME NEW part \in SUBSET Names(E), n \in part, Closed(E, part) PROVE Classifier \in part
    <3>1. Router \in part \union {START}
      BY <1>1, <1>6, <2>1, <2>3 DEF Closed
    <3>2. Router \in part
      BY <1>5, <3>1
    <3>3. Classifier \in part \union {START}
      BY <1>1, <1>6, <2>3, <3>2 DEF Closed
    <3>. QED
      BY <1>5, <3>3
  <2>4. Before(E, Classifier, n)
    BY <1>5, <2>3 DEF Before
  <2>. QED
    BY <1>9, <2>2, <2>4 DEF Precedes
<1>19. Promised(E, stages)
  <2>1. \A i \in {1, 2} : stages[i].kind \in {"all", "loop", "one"} /\ Placed(E, stages[i])
    BY <1>7, <1>17
  <2>2. ASSUME NEW i \in {1, 2}, NEW j \in {1, 2}, j < i
        PROVE  /\ stages[j].kind # "one"
               /\ \A k \in stages[j].names : \A n \in stages[i].names : Precedes(E, k, n)
    <3>1. i = 2 /\ j = 1
      BY <2>2
    <3>. QED
      BY <1>7, <1>18, <3>1
  <2>3. \A n \in StageNames : n \in Names(E) => \E i \in {1, 2} : n \in stages[i].names
    BY <1>1, <1>7
  <2>. QED
    BY <1>7, <1>9, <2>1, <2>2, <2>3 DEF Promised
<1>. QED
  BY <1>10, <1>11, <1>13, <1>19 DEF ServedAs, E, stages, members, roster

(* Llm nodes with names of their own are ordinary, and found by their names. *)
LEMMA GivenNodes ==
  ASSUME NEW nodes, \A m, n \in nodes : m.name = n.name => m = n,
         \A n \in nodes : /\ n.name \in Seq(Range(n.name)) /\ n.name \notin Reserved
                          /\ n.kind = "llm" /\ n.does = "-" /\ n.graph = NoGraph
                          /\ Writes(n) => n.key[2] \in Nat
  PROVE  /\ OrdinaryNodes(ByName(nodes)) /\ DOMAIN ByName(nodes) = {n.name : n \in nodes}
         /\ \A n \in nodes : ByName(nodes)[n.name] = n
<1>1. DOMAIN ByName(nodes) = {n.name : n \in nodes}
  BY DEF ByName
<1>2. ASSUME NEW n \in nodes PROVE ByName(nodes)[n.name] = n
  <2>1. ByName(nodes)[n.name] = CHOOSE m \in nodes : m.name = n.name
    BY DEF ByName
  <2>. QED
    BY <2>1
<1>3. ASSUME NEW x \in DOMAIN ByName(nodes)
      PROVE  \E n \in nodes : x = n.name /\ ByName(nodes)[x] = n
  BY <1>1, <1>2
<1>4. OrdinaryNodes(ByName(nodes))
  BY <1>3 DEF OrdinaryNodes
<1>. QED
  BY <1>1, <1>2, <1>4

(* A plain item lists one name. *)
LEMMA PlainParts ==
  ASSUME NEW x
  PROVE  /\ Plain(x).form = "node" /\ Range(Plain(x).names) = {x}
         /\ Len(Plain(x).names) = 1 /\ Plain(x).names[1] = x
         /\ \A S : x \in S => Plain(x).names \in Seq(S)
         /\ StageOf(Plain(x)) = Stage("all", {x}, 0)
<1>1. Plain(x).form = "node" /\ Plain(x).names = <<x>>
  BY DEF Plain, Form
<1>2. Range(<<x>>) = {x} /\ Len(<<x>>) = 1 /\ <<x>>[1] = x
  BY DEF Range
<1>3. ASSUME NEW S, x \in S PROVE <<x>> \in Seq(S)
  BY <1>3
<1>4. StageOf(Plain(x)) = Stage("all", {x}, 0)
  BY <1>1, <1>2 DEF StageOf
<1>. QED
  BY <1>1, <1>2, <1>3, <1>4

(* A sequence of llm nodes is a stage for each of them, in their order. *)
LEMMA PlainsServed ==
  ASSUME NEW N \in Nat \ {0}, NEW nm, DOMAIN nm = 1..N,
         \A i, j \in 1..N : nm[i] = nm[j] => i = j,
         \A i \in 1..N : nm[i] \in Seq(Range(nm[i])) /\ nm[i] \notin Reserved
  PROVE  ServedAs(ExpandSugar(SequenceSugar([i \in 1..N |-> Plain(nm[i])]),
                              ByName({Llm(nm[i]) : i \in 1..N})),
                  [i \in 1..N |-> Stage("all", {nm[i]}, 0)])
<1>. DEFINE nodes == {Llm(nm[i]) : i \in 1..N}
            by_name == ByName(nodes)
            items == [i \in 1..N |-> Plain(nm[i])]
            form == SequenceSugar(items)
<1>1. \A x : /\ Llm(x).name = x /\ Llm(x).kind = "llm" /\ Llm(x).does = "-"
             /\ Llm(x).graph = NoGraph /\ ~Writes(Llm(x))
  BY NodeParts DEF Llm
<1>2. /\ OrdinaryNodes(by_name) /\ DOMAIN by_name = {n.name : n \in nodes}
      /\ \A n \in nodes : by_name[n.name] = n
  <2>1. \A m, n \in nodes : m.name = n.name => m = n
    BY <1>1
  <2>2. \A n \in nodes : /\ n.name \in Seq(Range(n.name)) /\ n.name \notin Reserved
                         /\ n.kind = "llm" /\ n.does = "-" /\ n.graph = NoGraph
                         /\ Writes(n) => n.key[2] \in Nat
    BY <1>1
  <2>. HIDE DEF nodes
  <2>. QED
    BY <2>1, <2>2, GivenNodes
<1>3. ASSUME NEW i \in 1..N PROVE nm[i] \in DOMAIN by_name /\ by_name[nm[i]].name = nm[i]
  <2>1. Llm(nm[i]) \in nodes /\ Llm(nm[i]).name = nm[i]
    BY <1>1
  <2>. HIDE DEF nodes, by_name
  <2>2. by_name[Llm(nm[i]).name] = Llm(nm[i]) /\ Llm(nm[i]).name \in DOMAIN by_name
    BY <1>2, <2>1
  <2>. QED
    BY <2>1, <2>2
<1>4. \A i \in 1..N : /\ items[i].form = "node" /\ Range(items[i].names) = {nm[i]}
                      /\ Len(items[i].names) = 1 /\ items[i].names[1] = nm[i]
                      /\ StageOf(items[i]) = Stage("all", {nm[i]}, 0)
                      /\ \A S : nm[i] \in S => items[i].names \in Seq(S)
  <2>. SUFFICES ASSUME NEW i \in 1..N, NEW it, it = Plain(nm[i])
                PROVE  /\ it.form = "node" /\ Range(it.names) = {nm[i]}
                       /\ Len(it.names) = 1 /\ it.names[1] = nm[i]
                       /\ StageOf(it) = Stage("all", {nm[i]}, 0)
                       /\ \A S : nm[i] \in S => it.names \in Seq(S)
    OBVIOUS
  <2>. QED
    BY PlainParts
<1>5. form.form = "sequence" /\ form.items = items
  BY DEF SequenceSugar, Form
<1>6. /\ DOMAIN items = 1..N /\ \A i \in 1..N : items[i] = Plain(nm[i])
  OBVIOUS
<1>7. N \in Nat /\ 1 \in 1..N
  OBVIOUS
<1>8. items \in Seq(Range(items)) /\ items # <<>>
  <2>1. items \in [1..N -> Range(items)]
    BY <1>6 DEF Range
  <2>. HIDE DEF items
  <2>2. items \in Seq(Range(items))
    BY <1>7, <2>1, SeqDef
  <2>. QED
    BY <1>6, <1>7, <2>2, EmptySeq
<1>. HIDE DEF nodes, by_name, items, form
<1>9. \A i \in 1..N : PlaceOf(form, by_name, i) = nm[i]
  BY <1>3, <1>4, <1>5, <1>6 DEF PlaceOf, ItemNode
<1>10. \A i \in 1..N : OrdinaryItem(items[i], by_name)
  BY <1>3, <1>4 DEF OrdinaryItem
<1>11. Ordinary(form, by_name)
  <2>1. form.items \in Seq(Range(form.items)) /\ form.items # <<>> /\ DOMAIN form.items = 1..N
    BY <1>5, <1>6, <1>8
  <2>2. \A i \in DOMAIN form.items : OrdinaryItem(form.items[i], by_name) /\ form.items[i].form = "node"
    BY <1>4, <1>5, <1>6, <1>10
  <2>3. \A i, j \in DOMAIN form.items : i # j =>
          /\ PlaceOf(form, by_name, i) # PlaceOf(form, by_name, j)
          /\ Range(form.items[i].names) \intersect Range(form.items[j].names) = {}
    <3>. SUFFICES ASSUME NEW i \in 1..N, NEW j \in 1..N, i # j
                  PROVE  /\ PlaceOf(form, by_name, i) # PlaceOf(form, by_name, j)
                         /\ Range(items[i].names) \intersect Range(items[j].names) = {}
      BY <1>5, <1>6
    <3>1. nm[i] # nm[j]
      OBVIOUS
    <3>2. Range(items[i].names) = {nm[i]} /\ Range(items[j].names) = {nm[j]}
      BY <1>4
    <3>. QED
      BY <1>9, <3>1, <3>2
  <2>. QED
    BY <1>2, <1>5, <2>1, <2>2, <2>3 DEF Ordinary
<1>12. FormStages(form) = [i \in 1..N |-> Stage("all", {nm[i]}, 0)]
  BY <1>4, <1>5, <1>6 DEF FormStages
<1>. QED
  BY <1>11, <1>12, FormsServed DEF ServedAs, form, by_name, nodes, items

(* The names that the presets give are not reserved. *)
LEMMA NotReserved ==
  /\ Reserved \intersect {Direct, Proposer, Completer, RefineBody} = {}
  /\ \A i : Step(i) \notin Reserved /\ Worker(i) \notin Reserved
<1>1. /\ Direct[1] = "direct_agent" /\ Proposer[1] = "human_in_loop_proposer"
      /\ Completer[1] = "human_in_loop_completer" /\ RefineBody[1] = "evaluator_optimizer_worker"
      /\ \A i : Step(i)[1] = "sequential_step" /\ Worker(i)[1] = "parallel_worker"
  BY DEF Direct, Proposer, Completer, RefineBody, Step, Worker
<1>2. /\ START[1] = "START" /\ Executor[1] = "executor_agent"
      /\ Synthesizer[1] = "perspective_synthesizer" /\ SynthesisJoin[1] = "synthesis_join"
      /\ Aggregator[1] = "synthesis_aggregate"
  BY DEF START, Executor, Synthesizer, SynthesisJoin, Aggregator
<1>3. /\ Len(Top) = 0 /\ Len(Direct) = 1 /\ Len(Proposer) = 1 /\ Len(Completer) = 1
      /\ Len(RefineBody) = 1 /\ \A i : Len(Step(i)) = 2 /\ Len(Worker(i)) = 2
  BY DEF Top, Direct, Proposer, Completer, RefineBody, Step, Worker
<1>4. Reserved = {START, Top, Executor, Synthesizer, SynthesisJoin, Aggregator}
  BY DEF Reserved
<1>5. Reserved \intersect {Direct, Proposer, Completer, RefineBody} = {}
  BY <1>1, <1>2, <1>3, <1>4
<1>6. ASSUME NEW i PROVE Step(i) \notin Reserved /\ Worker(i) \notin Reserved
  BY <1>1, <1>2, <1>3, <1>4
<1>. QED
  BY <1>5, <1>6

(* The presets that are sequences, assistant, pipeline and approval_gate,   *)
(* run their agents in order, however many steps a pipeline has.  That      *)
(* different numbers are written differently is all that is needed.        *)
THEOREM SequencesServed ==
  ASSUME NEW size \in Nat \ {0}, \A i, j \in 0..(size - 1) : ToString(i) = ToString(j) => i = j
  PROVE  /\ ServedAs(AssistantSpec, <<Stage("all", {Direct}, 0)>>)
         /\ ServedAs(PipelineSpec(size), [i \in 1..size |-> Stage("all", {Step(i - 1)}, 0)])
         /\ ServedAs(ApprovalGateSpec,
                     <<Stage("all", {Proposer}, 0), Stage("all", {Completer}, 0)>>)
<1>1. \A x, y : <<x>> \in Seq(Range(<<x>>)) /\ <<x, y>> \in Seq(Range(<<x, y>>))
  BY DEF Range
<1>2. Reserved \intersect {Direct, Proposer, Completer} = {} /\ \A i : Step(i) \notin Reserved
  BY NotReserved
<1>3. ServedAs(AssistantSpec, <<Stage("all", {Direct}, 0)>>)
  <2>. DEFINE nm == [i \in 1..1 |-> Direct]
  <2>1. Direct \in Seq(Range(Direct)) /\ Direct \notin Reserved
    BY <1>1, <1>2 DEF Direct
  <2>2. nm[1] = Direct /\ DOMAIN nm = 1..1 /\ 1..1 = {1}
    OBVIOUS
  <2>. HIDE DEF nm
  <2>3. <<Plain(Direct)>> = [i \in 1..1 |-> Plain(nm[i])]
    BY <2>2
  <2>4. {Llm(Direct)} = {Llm(nm[i]) : i \in 1..1}
    BY <2>2
  <2>5. <<Stage("all", {Direct}, 0)>> = [i \in 1..1 |-> Stage("all", {nm[i]}, 0)]
    BY <2>2
  <2>6. ServedAs(ExpandSugar(SequenceSugar([i \in 1..1 |-> Plain(nm[i])]),
                             ByName({Llm(nm[i]) : i \in 1..1})),
                 [i \in 1..1 |-> Stage("all", {nm[i]}, 0)])
    <3>1. \A i \in 1..1 : nm[i] \in Seq(Range(nm[i])) /\ nm[i] \notin Reserved
      BY <2>1, <2>2
    <3>2. \A i, j \in 1..1 : nm[i] = nm[j] => i = j
      BY <2>1, <2>2
    <3>3. 1 \in Nat \ {0} /\ DOMAIN nm = 1..1
      BY <2>2
    <3>. QED
      BY <3>1, <3>2, <3>3, PlainsServed
  <2>. QED
    BY <2>3, <2>4, <2>5, <2>6 DEF AssistantSpec
<1>4. ServedAs(PipelineSpec(size), [i \in 1..size |-> Stage("all", {Step(i - 1)}, 0)])
  <2>. DEFINE nm == [i \in 1..size |-> Step(i - 1)]
  <2>1. ASSUME NEW i \in 1..size
        PROVE  Step(i - 1) \in Seq(Range(Step(i - 1))) /\ Step(i - 1) \notin Reserved
    BY <1>1, <1>2 DEF Step
  <2>2. \A i, j \in 1..size : nm[i] = nm[j] => i = j
    <3>. SUFFICES ASSUME NEW i \in 1..size, NEW j \in 1..size, Step(i - 1) = Step(j - 1) PROVE i = j
      OBVIOUS
    <3>1. ToString(i - 1) = ToString(j - 1)
      BY DEF Step
    <3>. QED
      BY <3>1
  <2>3. DOMAIN nm = 1..size /\ \A i \in 1..size : nm[i] = Step(i - 1)
    OBVIOUS
  <2>. HIDE DEF nm
  <2>4. ServedAs(ExpandSugar(SequenceSugar([i \in 1..size |-> Plain(nm[i])]),
                             ByName({Llm(nm[i]) : i \in 1..size})),
                 [i \in 1..size |-> Stage("all", {nm[i]}, 0)])
    <3>1. \A i \in 1..size : nm[i] \in Seq(Range(nm[i])) /\ nm[i] \notin Reserved
      BY <2>1, <2>3
    <3>2. size \in Nat \ {0} /\ DOMAIN nm = 1..size
      BY <2>3
    <3>. QED
      BY <2>2, <3>1, <3>2, PlainsServed
  <2>5. /\ [i \in 1..size |-> Plain(nm[i])] = [i \in 1..size |-> Plain(Step(i - 1))]
        /\ {Llm(nm[i]) : i \in 1..size} = {Llm(Step(i - 1)) : i \in 1..size}
        /\ [i \in 1..size |-> Stage("all", {nm[i]}, 0)]
             = [i \in 1..size |-> Stage("all", {Step(i - 1)}, 0)]
    BY <2>3
  <2>. QED
    BY <2>4, <2>5 DEF PipelineSpec
<1>5. ServedAs(ApprovalGateSpec, <<Stage("all", {Proposer}, 0), Stage("all", {Completer}, 0)>>)
  <2>. DEFINE nm == [i \in 1..2 |-> IF i = 1 THEN Proposer ELSE Completer]
  <2>1. /\ Proposer \in Seq(Range(Proposer)) /\ Proposer \notin Reserved
        /\ Completer \in Seq(Range(Completer)) /\ Completer \notin Reserved
        /\ Proposer # Completer
    BY <1>1, <1>2 DEF Proposer, Completer
  <2>2. nm[1] = Proposer /\ nm[2] = Completer /\ DOMAIN nm = 1..2 /\ 1..2 = {1, 2}
    OBVIOUS
  <2>. HIDE DEF nm
  <2>3. <<Plain(Proposer), Plain(Completer)>> = [i \in 1..2 |-> Plain(nm[i])]
    BY <2>2
  <2>4. {Llm(Proposer), Llm(Completer)} = {Llm(nm[i]) : i \in 1..2}
    BY <2>2
  <2>5. <<Stage("all", {Proposer}, 0), Stage("all", {Completer}, 0)>>
          = [i \in 1..2 |-> Stage("all", {nm[i]}, 0)]
    BY <2>2
  <2>6. ServedAs(ExpandSugar(SequenceSugar([i \in 1..2 |-> Plain(nm[i])]),
                             ByName({Llm(nm[i]) : i \in 1..2})),
                 [i \in 1..2 |-> Stage("all", {nm[i]}, 0)])
    <3>1. \A i \in 1..2 : nm[i] \in Seq(Range(nm[i])) /\ nm[i] \notin Reserved
      BY <2>1, <2>2
    <3>2. \A i, j \in 1..2 : nm[i] = nm[j] => i = j
      BY <2>1, <2>2
    <3>3. 2 \in Nat \ {0} /\ DOMAIN nm = 1..2
      BY <2>2
    <3>. QED
      BY <3>1, <3>2, <3>3, PlainsServed
  <2>. QED
    BY <2>3, <2>4, <2>5, <2>6 DEF ApprovalGateSpec
<1>. QED
  BY <1>3, <1>4, <1>5

(* What is added to a name is longer than the name. *)
LEMMA AppendLen ==
  ASSUME NEW s, s \in Seq(Range(s)), NEW e
  PROVE  Len(Append(s, e)) = Len(s) + 1
<1>1. s \in Seq(Range(s) \union {e})
  BY SeqMonotonic
<1>2. e \in Range(s) \union {e}
  OBVIOUS
<1>. QED
  BY <1>1, <1>2, AppendProperties

(* Reserved names have one part. *)
LEMMA ReservedLen ==
  \A x \in Reserved : Len(x) \in {0, 1}
<1>1. /\ Len(START) = 1 /\ Len(Top) = 0 /\ Len(Executor) = 1 /\ Len(Synthesizer) = 1
      /\ Len(SynthesisJoin) = 1 /\ Len(Aggregator) = 1
  BY DEF START, Top, Executor, Synthesizer, SynthesisJoin, Aggregator
<1>2. Reserved = {START, Top, Executor, Synthesizer, SynthesisJoin, Aggregator}
  BY DEF Reserved
<1>. QED
  BY <1>1, <1>2

(* evaluator_optimizer: one loop, of any bound that is counted. *)
THEOREM RefineServed ==
  ASSUME NEW size \in 1..MaxTimes, Append(RefineBody, "loop_counter") \notin StageNames
  PROVE  ServedAs(RefineSpec(size), <<Stage("loop", {RefineBody}, size)>>)
<1>. DEFINE by_name == ByName({Llm(RefineBody)})
            form == LoopSugar(RefineBody, size)
<1>1. /\ Llm(RefineBody).name = RefineBody /\ Llm(RefineBody).kind = "llm"
      /\ Llm(RefineBody).does = "-" /\ Llm(RefineBody).graph = NoGraph /\ ~Writes(Llm(RefineBody))
  BY NodeParts DEF Llm
<1>2. RefineBody \in Seq(Range(RefineBody)) /\ RefineBody \notin Reserved /\ Len(RefineBody) = 1
  <2>1. RefineBody \notin Reserved
    BY NotReserved
  <2>2. RefineBody \in Seq(Range(RefineBody)) /\ Len(RefineBody) = 1
    BY DEF RefineBody, Range
  <2>. QED
    BY <2>1, <2>2
<1>3. OrdinaryNodes(by_name) /\ DOMAIN by_name = {RefineBody}
  <2>1. \A n \in {Llm(RefineBody)} :
          /\ n.name \in Seq(Range(n.name)) /\ n.name \notin Reserved
          /\ n.kind = "llm" /\ n.does = "-" /\ n.graph = NoGraph
          /\ Writes(n) => n.key[2] \in Nat
    BY <1>1, <1>2
  <2>2. \A m, n \in {Llm(RefineBody)} : m.name = n.name => m = n
    OBVIOUS
  <2>3. OrdinaryNodes(by_name) /\ DOMAIN by_name = {n.name : n \in {Llm(RefineBody)}}
    BY <2>1, <2>2, GivenNodes
  <2>. QED
    BY <1>1, <2>3
<1>4. form.form = "loop" /\ form.names = <<RefineBody>> /\ form.max = size
  BY DEF LoopSugar, Form
<1>5. /\ Range(<<RefineBody>>) = {RefineBody} /\ Len(<<RefineBody>>) = 1
      /\ <<RefineBody>>[1] = RefineBody /\ <<RefineBody>> \in Seq({RefineBody})
  BY DEF Range
<1>. HIDE DEF by_name, form
<1>6. AddedName(form) = Append(RefineBody, "loop_counter")
  BY <1>4, <1>5 DEF AddedName
<1>7. Fresh(AddedName(form), by_name)
  <2>1. Len(AddedName(form)) = 2
    <3>1. Len(Append(RefineBody, "loop_counter")) = Len(RefineBody) + 1
      BY <1>2, AppendLen
    <3>. QED
      BY <1>2, <1>6, <3>1
  <2>2. AddedName(form) \notin Reserved \union {RefineBody}
    <3>1. AddedName(form) \notin Reserved
      BY <2>1, ReservedLen
    <3>2. ASSUME AddedName(form) = RefineBody PROVE FALSE
      <4>. DEFINE k == Len(RefineBody)
      <4>1. k = 2
        BY <2>1, <3>2
      <4>2. k = 1
        BY <1>2
      <4>. HIDE DEF k
      <4>. QED
        BY <4>1, <4>2
    <3>. QED
      BY <3>1, <3>2
  <2>. QED
    BY <1>3, <1>6, <2>2 DEF Fresh
<1>8. OrdinaryItem(form, by_name)
  BY <1>3, <1>4, <1>5, <1>7 DEF OrdinaryItem
<1>9. Ordinary(form, by_name)
  BY <1>3, <1>4, <1>8 DEF Ordinary
<1>10. FormStages(form) = <<Stage("loop", {RefineBody}, size)>>
  BY <1>4, <1>5 DEF FormStages, StageOf
<1>11. RefineSpec(size) = ExpandSugar(form, by_name)
  BY DEF RefineSpec, form, by_name
<1>. QED
  BY <1>9, <1>10, <1>11, FormsServed DEF ServedAs

(* multi_perspective: any number of workers is an ordinary parallel, so it  *)
(* is served, and with its synthesis too.                                  *)
THEOREM WorkersOrdinary ==
  ASSUME NEW size \in Nat, size >= 2, Append(Worker(0), "join") \notin StageNames,
         \A i, j \in 0..(size - 1) : ToString(i) = ToString(j) => i = j
  PROVE  Ordinary(MultiPerspectiveForm(size), MultiPerspectiveNodes(size))
<1>. DEFINE nodes == {WorkerNode(i) : i \in 0..(size - 1)}
            by_name == ByName(nodes)
            names == [i \in 1..size |-> Worker(i - 1)]
            form == ParallelSugar(names)
<1>1. ASSUME NEW i \in 0..(size - 1)
      PROVE  LET n == WorkerNode(i) IN
             /\ n.name = Worker(i) /\ n.kind = "llm" /\ n.does = "-" /\ n.graph = NoGraph
             /\ n.key = Perspective(i) /\ n.key[2] \in Nat
  <2>1. Perspective(i)[2] = i
    BY DEF Perspective
  <2>. QED
    BY <2>1, NodeParts DEF WorkerNode, Llm
<1>2. \A i, j \in 0..(size - 1) : Worker(i) = Worker(j) => i = j
  <2>1. \A i : Worker(i)[2] = ToString(i)
    BY DEF Worker
  <2>. QED
    BY <2>1
<1>3. \A i : Worker(i) \in Seq(Range(Worker(i))) /\ Worker(i) \notin Reserved /\ Len(Worker(i)) = 2
  <2>1. \A x, y : <<x, y>> \in Seq(Range(<<x, y>>)) /\ Len(<<x, y>>) = 2
    BY DEF Range
  <2>. SUFFICES ASSUME NEW i
                PROVE  Worker(i) \in Seq(Range(Worker(i))) /\ Len(Worker(i)) = 2
    BY NotReserved
  <2>. QED
    BY <2>1 DEF Worker
<1>4. OrdinaryNodes(by_name) /\ DOMAIN by_name = {Worker(i) : i \in 0..(size - 1)}
  <2>1. \A n \in nodes :
          /\ n.name \in Seq(Range(n.name)) /\ n.name \notin Reserved
          /\ n.kind = "llm" /\ n.does = "-" /\ n.graph = NoGraph
          /\ Writes(n) => n.key[2] \in Nat
    BY <1>1, <1>3
  <2>2. \A m, n \in nodes : m.name = n.name => m = n
    BY <1>1, <1>2
  <2>3. {n.name : n \in nodes} = {Worker(i) : i \in 0..(size - 1)}
    BY <1>1
  <2>. HIDE DEF nodes
  <2>. QED
    BY <2>1, <2>2, <2>3, GivenNodes
<1>5. form.form = "parallel" /\ form.names = names
  BY DEF ParallelSugar, Form
<1>6. /\ DOMAIN names = 1..size /\ \A i \in 1..size : names[i] = Worker(i - 1)
      /\ Range(names) \subseteq DOMAIN by_name
  BY <1>4 DEF Range
<1>7. names \in Seq(DOMAIN by_name)
  <2>. HIDE DEF by_name
  <2>1. \A i \in 1..size : names[i] \in DOMAIN by_name
    BY <1>4, <1>6
  <2>2. names \in [1..size -> DOMAIN by_name]
    BY <2>1
  <2>. HIDE DEF names
  <2>. QED
    BY <2>2, SeqDef
<1>. HIDE DEF by_name, names, form, nodes
<1>8. 1 \in DOMAIN names /\ 2 \in DOMAIN names /\ names[1] = Worker(0) /\ names[2] = Worker(1)
      /\ names[1] # names[2]
  BY <1>2, <1>6
<1>9. AddedName(form) = Append(Worker(0), "join")
  BY <1>5, <1>8 DEF AddedName
<1>10. Fresh(AddedName(form), by_name)
  <2>1. Len(AddedName(form)) = 3
    <3>1. Worker(0) \in Seq(Range(Worker(0))) /\ Len(Worker(0)) = 2
      BY <1>3
    <3>. QED
      BY <1>9, <3>1, AppendLen
  <2>2. AddedName(form) \notin Reserved
    BY <2>1, ReservedLen
  <2>3. ASSUME AddedName(form) \in DOMAIN by_name PROVE FALSE
    <3>1. PICK i \in 0..(size - 1) : AddedName(form) = Worker(i)
      BY <1>4, <2>3
    <3>2. Len(Worker(i)) = 2
      BY <1>3
    <3>. QED
      BY <2>1, <3>1, <3>2
  <2>. QED
    BY <1>9, <2>2, <2>3 DEF Fresh
<1>11. OrdinaryItem(form, by_name)
  BY <1>5, <1>7, <1>8, <1>10 DEF OrdinaryItem
<1>12. Ordinary(form, by_name)
  BY <1>4, <1>5, <1>11 DEF Ordinary
<1>. QED
  BY <1>12 DEF form, by_name, nodes, names, MultiPerspectiveForm, MultiPerspectiveNodes
=============================================================================

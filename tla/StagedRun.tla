----------------------------- MODULE StagedRun ------------------------------
(***************************************************************************)
(* What a workflow promises, whatever graph it is compiled to: a run goes   *)
(* through its stages in order.  Every node of an "all" stage runs once, in *)
(* any order; the node of a "loop" stage runs once or more, at most max     *)
(* times; one node of a "one" stage runs, once.  A run ends only after its  *)
(* last stage; before, it may only fail.                                    *)
(***************************************************************************)
EXTENDS Naturals, Sequences

CONSTANT StageNodes          \* names of the nodes of stages

VARIABLES stages,       \* the stages of the served workflow
          status,       \* "ready", "running", "ended" or "failed"
          done          \* times each node has run in the current run

vars == <<stages, status, done>>

StageType == [kind : {"all", "loop", "one"}, names : SUBSET StageNodes, max : Nat]

Finished(stage) ==
  CASE stage.kind = "all"  -> \A n \in stage.names : done[n] = 1
    [] stage.kind = "loop" -> \A n \in stage.names : done[n] \in 1..stage.max
    [] OTHER               -> \E n \in stage.names : done[n] = 1

Allows(stage, n) ==
  CASE stage.kind = "all"  -> done[n] = 0
    [] stage.kind = "loop" -> done[n] < stage.max
    [] OTHER               -> \A k \in stage.names : done[k] = 0

Init == status = "ready" /\ done = [n \in StageNodes |-> 0]

Begin ==
  /\ status # "running"
  /\ status' = "running"
  /\ done' = [n \in StageNodes |-> 0]
  /\ UNCHANGED stages

Run(n) ==
  /\ status = "running"
  /\ \E i \in DOMAIN stages :
       /\ n \in stages[i].names
       /\ Allows(stages[i], n)
       /\ \A j \in 1..(i - 1) : Finished(stages[j])
       /\ \A j \in (i + 1)..Len(stages) : \A k \in stages[j].names : done[k] = 0
  /\ done' = [done EXCEPT ![n] = @ + 1]
  /\ UNCHANGED <<stages, status>>

End ==
  /\ status = "running"
  /\ \A i \in DOMAIN stages : Finished(stages[i])
  /\ status' = "ended"
  /\ UNCHANGED <<stages, done>>

Fail ==
  /\ status = "running"
  /\ status' = "failed"
  /\ UNCHANGED <<stages, done>>

Next == Begin \/ (\E n \in StageNodes : Run(n)) \/ End \/ Fail

Spec == Init /\ [][Next]_vars
=============================================================================

--------------------------- MODULE SandboxProofs ---------------------------
(***************************************************************************)
(* Proofs about SandboxExecutor, for every set of calls and containers,    *)
(* every choice of faults and both kinds of client.                        *)
(*                                                                         *)
(* Inv is the inductive invariant.  The lock conjunct makes the holder of  *)
(* the lock the one call past Acquire; the stage conjunct says what is     *)
(* known about the current container at each stage of a recovery, which is *)
(* what makes replacing self._container safe.                              *)
(***************************************************************************)
EXTENDS SandboxExecutor, TLAPS

Holding(c) == pc[c] \in {"joining", "draining", "killing", "removing",
                         "starting", "verifying"}

(* The lock is held by exactly the call that is past Acquire, or by the    *)
(* exit callback, which runs when no call is in flight.                    *)
LockInv ==
  /\ \A c \in Calls : Holding(c) <=> lock = c
  /\ lock = Cleaner <=> exit \in {"stopping", "removing"}
  /\ exit # "running" => \A c \in Calls : pc[c] \in {"idle", "returned"}

(* A call has a reply exactly when it has returned.                        *)
ReplyInv ==
  \A c \in Calls : reply[c].kind = "none" <=> pc[c] # "returned"

(* Past the kill, the old container is down or was spared by the daemon;   *)
(* after the exit callback so is the current one.                          *)
StageInv ==
  /\ \A k \in Containers : Up(k) => k \in spared \/ k = container
  /\ (\E c \in Calls : pc[c] \in {"removing", "starting"})
       \/ exit \in {"removing", "exited"}
     => (Up(container) => container \in spared)

(* The containers calls know of have existed, so a fresh one is new to all *)
(* of them.                                                                *)
FreshInv ==
  /\ status[container] # "absent"
  /\ \A c \in Calls : status[target[c]] # "absent"
  /\ \A c \in Calls : pc[c] = "verifying" \/ reply[c].kind = "timeout"
                        => target[c] # container

Sound == \/ Up(container)
         \/ status[container] = "crashed"
         \/ \E c \in Calls : reply[c].kind = "raised"

(* Outside a recovery the current container is sound.                      *)
SoundInv ==
  exit # "exited" /\ (lock = NoOne \/ \E c \in Calls : pc[c] \in {"joining", "draining"})
    => Sound

(* A buffer that lost bytes is full, and a reply that lost bytes is marked. *)
LossInv ==
  \A c \in Calls :
    /\ pc[c] # "returned" => lost[c] \subseteq Marked(buf[c])
    /\ reply[c].kind = "ok" => reply[c].lost \subseteq reply[c].marked

-----------------------------------------------------------------------------
(* The executor starts well-typed. *)
LEMMA TypeInit == Init => TypeOK
  BY ConstantsAssumption DEF Init, TypeOK, Snippets, Empty, NoReply, Kinds, Streams

(* Leaving execute_code keeps the types, whatever the reply.               *)
LEMMA LeaveType ==
  ASSUME TypeOK, NEW c \in Calls, NEW kind \in Kinds, NEW marked \in SUBSET Streams,
         lost' \in [Calls -> SUBSET Streams], Leave(c, kind, marked)
  PROVE  /\ pc' \in [Calls -> {"idle", "queued", "joining", "draining", "killing",
                       "removing", "starting", "verifying", "returned"}]
         /\ lock' \in Calls \cup {NoOne, Cleaner}
         /\ reply' \in [Calls -> [kind : Kinds \cup {"none"}, marked : SUBSET Streams,
                          lost : SUBSET Streams]]
  BY DEF TypeOK, Leave

(* The marked streams are streams. *)
LEMMA MarkedType == ASSUME NEW b PROVE Marked(b) \in SUBSET Streams
  BY DEF Marked

(* What _bounded_output keeps never exceeds the limit, and reaches it when *)
(* bytes are dropped.                                                      *)
LEMMA KeptBound ==
  ASSUME NEW len \in 0..MaxOutput, NEW n \in Nat
  PROVE  /\ Kept(len, n) \in 0..MaxOutput
         /\ Kept(len, n) >= len
         /\ n > MaxOutput - len => Kept(len, n) = MaxOutput
  BY ConstantsAssumption DEF Kept

(* Every step of a call, of the daemon or of the exit keeps the types. *)
LEMMA TypeStep == TypeOK /\ [Next]_vars => TypeOK'
<1> SUFFICES ASSUME TypeOK, [Next]_vars PROVE TypeOK'
  OBVIOUS
<1> USE DEF TypeOK, fixed, docker, progress, output
<1>1. ASSUME NEW c \in Calls, CallStep(c) PROVE TypeOK'
  <2>1. CASE Enter(c)
    BY <2>1 DEF Enter, Goto
  <2>2. CASE Acquire(c)
    BY <2>2 DEF Acquire, Goto
  <2>3. CASE ExecRun(c)
    BY <2>3 DEF ExecRun, WorkerEnds, Up
  <2>4. CASE ExecReturns(c)
    BY <2>4 DEF ExecReturns, WorkerEnds, Up
  <2>5. CASE JoinedError(c)
    BY <2>5, LeaveType DEF JoinedError, Kinds
  <2>6. CASE JoinedStream(c)
    BY <2>6 DEF JoinedStream, Goto
  <2>7. CASE JoinedPair(c)
    <3>1. PICK n \in [Streams -> ChunkSizes \cup {0}] :
            /\ lost' = [lost EXCEPT ![c] = {s \in Streams : n[s] > MaxOutput}]
            /\ Leave(c, "ok", Marked([s \in Streams |-> Kept(0, n[s])]))
      BY <2>7 DEF JoinedPair
    <3>2. lost' \in [Calls -> SUBSET Streams]
      BY <3>1
    <3>3. "ok" \in Kinds
      BY DEF Kinds
    <3>4. QED
      BY <2>7, <3>1, <3>2, <3>3, LeaveType, MarkedType DEF JoinedPair
  <2>8. CASE DrainChunk(c)
    <3>1. PICK s \in Streams, n \in ChunkSizes :
            /\ AddOutput(c, s, n)
            /\ IF \A t \in Streams : Full(buf'[c], t)
               THEN Leave(c, "ok", Marked(buf'[c]))
               ELSE UNCHANGED <<pc, lock, reply>>
      BY <2>8 DEF DrainChunk
    <3>2. n \in Nat /\ buf[c][s] \in 0..MaxOutput
      BY ConstantsAssumption
    <3>3. buf' \in [Calls -> [Streams -> 0..MaxOutput]]
      BY <3>1, <3>2, KeptBound DEF AddOutput
    <3>4. lost' \in [Calls -> SUBSET Streams]
      BY <3>1 DEF AddOutput
    <3>5. "ok" \in Kinds
      BY DEF Kinds
    <3>6. CASE Leave(c, "ok", Marked(buf'[c]))
      BY <2>8, <3>3, <3>4, <3>5, <3>6, LeaveType, MarkedType DEF DrainChunk
    <3>7. CASE UNCHANGED <<pc, lock, reply>>
      BY <2>8, <3>3, <3>4, <3>7 DEF DrainChunk
    <3>8. QED
      BY <3>1, <3>6, <3>7
  <2>9. CASE DrainEnd(c)
    BY <2>9, LeaveType, MarkedType DEF DrainEnd, Kinds
  <2>10. CASE DrainRaises(c)
    BY <2>10, LeaveType DEF DrainRaises, Kinds
  <2>11. CASE TimeOut(c)
    BY <2>11 DEF TimeOut, Goto
  <2>12. CASE Kill(c)
    BY <2>12 DEF Kill, Goto, Up
  <2>13. CASE Remove(c)
    BY <2>13 DEF Remove, Goto
  <2>14. CASE Start(c)
    <3>1. /\ status' \in [Containers -> {"absent", "up", "dead", "crashed", "removed"}]
          /\ container' \in Containers
          /\ lost' \in [Calls -> SUBSET Streams]
      BY <2>14 DEF Start
    <3>2. "raised" \in Kinds /\ {} \in SUBSET Streams
      BY DEF Kinds
    <3>3. CASE Leave(c, "raised", {})
      BY <2>14, <3>1, <3>2, <3>3, LeaveType DEF Start
    <3>4. CASE Goto(c, "starting", "verifying") /\ UNCHANGED <<lost, lock, reply>>
      BY <2>14, <3>1, <3>4 DEF Start, Goto
    <3>5. QED
      BY <2>14, <3>3, <3>4 DEF Start
  <2>15. CASE Verify(c)
    <3>1. /\ status' \in [Containers -> {"absent", "up", "dead", "crashed", "removed"}]
          /\ spared' \subseteq Containers
          /\ lost' \in [Calls -> SUBSET Streams]
      BY <2>15 DEF Verify
    <3>2. {"raised", "timeout"} \subseteq Kinds /\ {} \in SUBSET Streams
      BY DEF Kinds
    <3>3. PICK kind \in Kinds : Leave(c, kind, {})
      BY <2>15, <3>2 DEF Verify
    <3>4. QED
      BY <2>15, <3>1, <3>2, <3>3, LeaveType DEF Verify
  <2>16. QED
    BY <1>1, <2>1, <2>2, <2>3, <2>4, <2>5, <2>6, <2>7, <2>8, <2>9, <2>10, <2>11,
       <2>12, <2>13, <2>14, <2>15 DEF CallStep
<1>2. ASSUME NEW k \in Containers, Crash(k) PROVE TypeOK'
  BY <1>2 DEF Crash
<1>3. CASE CleanupBegins
  BY <1>3 DEF CleanupBegins
<1>4. CASE CleanupStop
  BY <1>4 DEF CleanupStop
<1>5. CASE CleanupRemove
  BY <1>5 DEF CleanupRemove
<1>6. CASE Exited \/ UNCHANGED vars
  BY <1>6 DEF Exited, vars
<1>7. QED
  BY <1>1, <1>2, <1>3, <1>4, <1>5, <1>6 DEF Next
-----------------------------------------------------------------------------(* The lock protocol: every action keeps LockInv. *)
LEMMA LockStep == TypeOK /\ LockInv /\ [Next]_vars => LockInv'
<1> SUFFICES ASSUME TypeOK, LockInv, [Next]_vars PROVE LockInv'
  OBVIOUS
<1> USE DEF LockInv, Holding, TypeOK, fixed, docker, progress, output
<1>1. ASSUME NEW c \in Calls, CallStep(c) PROVE LockInv'
  <2>1. CASE Enter(c)
    BY <2>1, ConstantsAssumption DEF Enter, Goto
  <2>2. CASE Acquire(c)
    BY <2>2, ConstantsAssumption DEF Acquire, Goto
  <2>3. CASE ExecRun(c)
    BY <2>3, ConstantsAssumption DEF ExecRun, WorkerEnds, Up
  <2>4. CASE ExecReturns(c)
    BY <2>4, ConstantsAssumption DEF ExecReturns, WorkerEnds, Up
  <2>5. CASE JoinedError(c)
    BY <2>5, ConstantsAssumption DEF JoinedError, Leave
  <2>6. CASE JoinedStream(c)
    BY <2>6, ConstantsAssumption DEF JoinedStream, Goto
  <2>7. CASE JoinedPair(c)
    BY <2>7, ConstantsAssumption DEF JoinedPair, Leave
  <2>8. CASE DrainChunk(c)
    <3>1. CASE Leave(c, "ok", Marked(buf'[c]))
      BY <2>8, <3>1, ConstantsAssumption DEF DrainChunk, Leave
    <3>2. CASE UNCHANGED <<pc, lock, reply>>
      BY <2>8, <3>2, ConstantsAssumption DEF DrainChunk
    <3>3. QED
      BY <2>8, <3>1, <3>2 DEF DrainChunk
  <2>9. CASE DrainEnd(c)
    BY <2>9, ConstantsAssumption DEF DrainEnd, Leave
  <2>10. CASE DrainRaises(c)
    BY <2>10, ConstantsAssumption DEF DrainRaises, Leave
  <2>11. CASE TimeOut(c)
    BY <2>11, ConstantsAssumption DEF TimeOut, Goto
  <2>12. CASE Kill(c)
    BY <2>12, ConstantsAssumption DEF Kill, Goto, Up
  <2>13. CASE Remove(c)
    BY <2>13, ConstantsAssumption DEF Remove, Goto
  <2>14. CASE Start(c)
    <3>1. CASE Leave(c, "raised", {})
      BY <2>14, <3>1, ConstantsAssumption DEF Start, Leave
    <3>2. CASE Goto(c, "starting", "verifying") /\ UNCHANGED <<lost, lock, reply>>
      BY <2>14, <3>2, ConstantsAssumption DEF Start, Goto
    <3>3. QED
      BY <2>14, <3>1, <3>2 DEF Start
  <2>15. CASE Verify(c)
    <3>1. PICK kind \in {"raised", "timeout"} : Leave(c, kind, {})
      BY <2>15 DEF Verify
    <3>2. QED
      BY <2>15, <3>1, ConstantsAssumption DEF Verify, Leave
  <2>16. QED
    BY <1>1, <2>1, <2>2, <2>3, <2>4, <2>5, <2>6, <2>7, <2>8,
       <2>9, <2>10, <2>11, <2>12, <2>13, <2>14, <2>15 DEF CallStep
<1>2. ASSUME NEW k \in Containers, Crash(k) PROVE LockInv'
  BY <1>2 DEF Crash, Up
<1>3. CASE CleanupBegins
  BY <1>3, ConstantsAssumption DEF CleanupBegins
<1>4. CASE CleanupStop
  BY <1>4, ConstantsAssumption DEF CleanupStop, Up
<1>5. CASE CleanupRemove
  BY <1>5, ConstantsAssumption DEF CleanupRemove
<1>6. CASE Exited \/ UNCHANGED vars
  BY <1>6 DEF Exited, vars, Up
<1>7. QED
  BY <1>1, <1>2, <1>3, <1>4, <1>5, <1>6 DEF Next

(* A reply is given when, and only when, the call leaves. *)
LEMMA ReplyStep == TypeOK /\ ReplyInv /\ [Next]_vars => ReplyInv'
<1> SUFFICES ASSUME TypeOK, ReplyInv, [Next]_vars PROVE ReplyInv'
  OBVIOUS
<1> USE DEF ReplyInv, TypeOK, fixed, docker, progress, output
<1>1. ASSUME NEW c \in Calls, CallStep(c) PROVE ReplyInv'
  <2>1. CASE Enter(c)
    BY <2>1 DEF Enter, Goto
  <2>2. CASE Acquire(c)
    BY <2>2 DEF Acquire, Goto
  <2>3. CASE ExecRun(c)
    BY <2>3 DEF ExecRun, WorkerEnds, Up
  <2>4. CASE ExecReturns(c)
    BY <2>4 DEF ExecReturns, WorkerEnds, Up
  <2>5. CASE JoinedError(c)
    BY <2>5 DEF JoinedError, Leave
  <2>6. CASE JoinedStream(c)
    BY <2>6 DEF JoinedStream, Goto
  <2>7. CASE JoinedPair(c)
    BY <2>7 DEF JoinedPair, Leave
  <2>8. CASE DrainChunk(c)
    <3>1. CASE Leave(c, "ok", Marked(buf'[c]))
      BY <2>8, <3>1 DEF DrainChunk, Leave
    <3>2. CASE UNCHANGED <<pc, lock, reply>>
      BY <2>8, <3>2 DEF DrainChunk
    <3>3. QED
      BY <2>8, <3>1, <3>2 DEF DrainChunk
  <2>9. CASE DrainEnd(c)
    BY <2>9 DEF DrainEnd, Leave
  <2>10. CASE DrainRaises(c)
    BY <2>10 DEF DrainRaises, Leave
  <2>11. CASE TimeOut(c)
    BY <2>11 DEF TimeOut, Goto
  <2>12. CASE Kill(c)
    BY <2>12 DEF Kill, Goto, Up
  <2>13. CASE Remove(c)
    BY <2>13 DEF Remove, Goto
  <2>14. CASE Start(c)
    BY <2>14 DEF Start, Goto, Leave, Up
  <2>15. CASE Verify(c)
    <3>1. PICK kind \in {"raised", "timeout"} : Leave(c, kind, {})
      BY <2>15 DEF Verify
    <3>2. QED
      BY <2>15, <3>1 DEF Verify, Leave
  <2>16. QED
    BY <1>1, <2>1, <2>2, <2>3, <2>4, <2>5, <2>6, <2>7, <2>8,
       <2>9, <2>10, <2>11, <2>12, <2>13, <2>14, <2>15 DEF CallStep
<1>2. ASSUME NEW k \in Containers, Crash(k) PROVE ReplyInv'
  BY <1>2 DEF Crash, Up
<1>3. CASE CleanupBegins
  BY <1>3 DEF CleanupBegins
<1>4. CASE CleanupStop
  BY <1>4 DEF CleanupStop, Up
<1>5. CASE CleanupRemove
  BY <1>5 DEF CleanupRemove
<1>6. CASE Exited \/ UNCHANGED vars
  BY <1>6 DEF Exited, vars, Up
<1>7. QED
  BY <1>1, <1>2, <1>3, <1>4, <1>5, <1>6 DEF Next

(* Containers that are up stay accounted for. *)
LEMMA StageStep == TypeOK /\ LockInv /\ StageInv /\ [Next]_vars => StageInv'
<1> SUFFICES ASSUME TypeOK, LockInv, StageInv, [Next]_vars PROVE StageInv'
  OBVIOUS
<1> USE DEF StageInv, LockInv, Holding, TypeOK, Up, fixed, docker, progress, output
<1>1. ASSUME NEW c \in Calls, CallStep(c) PROVE StageInv'
  <2>1. CASE Enter(c)
    BY <2>1 DEF Enter, Goto
  <2>2. CASE Acquire(c)
    BY <2>2 DEF Acquire, Goto
  <2>3. CASE ExecRun(c)
    BY <2>3 DEF ExecRun, WorkerEnds, Up
  <2>4. CASE ExecReturns(c)
    BY <2>4 DEF ExecReturns, WorkerEnds, Up
  <2>5. CASE JoinedError(c)
    BY <2>5 DEF JoinedError, Leave
  <2>6. CASE JoinedStream(c)
    BY <2>6 DEF JoinedStream, Goto
  <2>7. CASE JoinedPair(c)
    BY <2>7 DEF JoinedPair, Leave
  <2>8. CASE DrainChunk(c)
    BY <2>8 DEF DrainChunk, Leave, AddOutput
  <2>9. CASE DrainEnd(c)
    BY <2>9 DEF DrainEnd, Leave
  <2>10. CASE DrainRaises(c)
    BY <2>10 DEF DrainRaises, Leave
  <2>11. CASE TimeOut(c)
    BY <2>11 DEF TimeOut, Goto
  <2>12. CASE Kill(c)
    BY <2>12 DEF Kill, Goto, Up
  <2>13. CASE Remove(c)
    BY <2>13 DEF Remove, Goto
  <2>14. CASE Start(c)
    <3>1. Up(container) => container \in spared
      BY <2>14 DEF Start
    <3>2. exit = "running" /\ \A d \in Calls : d # c => ~Holding(d)
      BY <2>14 DEF Start
    <3>3. CASE Leave(c, "raised", {}) /\ UNCHANGED <<status, container, lost>>
      BY <2>14, <3>1, <3>2, <3>3 DEF Start, Leave
    <3>4. CASE /\ Goto(c, "starting", "verifying")
               /\ \E k \in Containers : /\ status[k] = "absent"
                                        /\ status' = [status EXCEPT ![k] = "up"]
                                        /\ container' = k
      BY <2>14, <3>1, <3>2, <3>4 DEF Start, Goto
    <3>5. QED
      BY <2>14, <3>3, <3>4 DEF Start
  <2>15. CASE Verify(c)
    BY <2>15 DEF Verify, Leave, Up
  <2>16. QED
    BY <1>1, <2>1, <2>2, <2>3, <2>4, <2>5, <2>6, <2>7, <2>8,
       <2>9, <2>10, <2>11, <2>12, <2>13, <2>14, <2>15 DEF CallStep
<1>2. ASSUME NEW k \in Containers, Crash(k) PROVE StageInv'
  BY <1>2 DEF Crash, Up
<1>3. CASE CleanupBegins
  BY <1>3 DEF CleanupBegins
<1>4. CASE CleanupStop
  BY <1>4 DEF CleanupStop, Up
<1>5. CASE CleanupRemove
  BY <1>5 DEF CleanupRemove
<1>6. CASE Exited \/ UNCHANGED vars
  BY <1>6 DEF Exited, vars, Up
<1>7. QED
  BY <1>1, <1>2, <1>3, <1>4, <1>5, <1>6 DEF Next

(* A started container is unknown to every call. *)
LEMMA FreshStep == TypeOK /\ LockInv /\ ReplyInv /\ FreshInv /\ [Next]_vars => FreshInv'
<1> SUFFICES ASSUME TypeOK, LockInv, ReplyInv, FreshInv, [Next]_vars PROVE FreshInv'
  OBVIOUS
<1> USE DEF FreshInv, LockInv, ReplyInv, Holding, TypeOK, fixed, docker, progress, output
<1>1. ASSUME NEW c \in Calls, CallStep(c) PROVE FreshInv'
  <2>1. CASE Enter(c)
    BY <2>1 DEF Enter, Goto
  <2>2. CASE Acquire(c)
    BY <2>2 DEF Acquire, Goto
  <2>3. CASE ExecRun(c)
    BY <2>3 DEF ExecRun, WorkerEnds, Up
  <2>4. CASE ExecReturns(c)
    BY <2>4 DEF ExecReturns, WorkerEnds, Up
  <2>5. CASE JoinedError(c)
    BY <2>5 DEF JoinedError, Leave
  <2>6. CASE JoinedStream(c)
    BY <2>6 DEF JoinedStream, Goto
  <2>7. CASE JoinedPair(c)
    BY <2>7 DEF JoinedPair, Leave
  <2>8. CASE DrainChunk(c)
    BY <2>8 DEF DrainChunk, Leave, AddOutput
  <2>9. CASE DrainEnd(c)
    BY <2>9 DEF DrainEnd, Leave
  <2>10. CASE DrainRaises(c)
    BY <2>10 DEF DrainRaises, Leave
  <2>11. CASE TimeOut(c)
    BY <2>11 DEF TimeOut, Goto
  <2>12. CASE Kill(c)
    BY <2>12 DEF Kill, Goto, Up
  <2>13. CASE Remove(c)
    BY <2>13 DEF Remove, Goto
  <2>14. CASE Start(c)
    BY <2>14 DEF Start, Goto, Leave, Up
  <2>15. CASE Verify(c)
    BY <2>15 DEF Verify, Leave, Up
  <2>16. QED
    BY <1>1, <2>1, <2>2, <2>3, <2>4, <2>5, <2>6, <2>7, <2>8,
       <2>9, <2>10, <2>11, <2>12, <2>13, <2>14, <2>15 DEF CallStep
<1>2. ASSUME NEW k \in Containers, Crash(k) PROVE FreshInv'
  BY <1>2 DEF Crash, Up
<1>3. CASE CleanupBegins
  BY <1>3 DEF CleanupBegins
<1>4. CASE CleanupStop
  BY <1>4 DEF CleanupStop, Up
<1>5. CASE CleanupRemove
  BY <1>5 DEF CleanupRemove
<1>6. CASE Exited \/ UNCHANGED vars
  BY <1>6 DEF Exited, vars, Up
<1>7. QED
  BY <1>1, <1>2, <1>3, <1>4, <1>5, <1>6 DEF Next

(* A recovery that ends without an exception leaves a running container. *)
LEMMA SoundStep == TypeOK /\ LockInv /\ ReplyInv /\ SoundInv /\ [Next]_vars => SoundInv'
<1> SUFFICES ASSUME TypeOK, LockInv, ReplyInv, SoundInv, [Next]_vars PROVE SoundInv'
  OBVIOUS
<1> USE DEF SoundInv, Sound, LockInv, ReplyInv, Holding, TypeOK, Up, fixed, docker, progress, output
<1>1. ASSUME NEW c \in Calls, CallStep(c) PROVE SoundInv'
  <2>1. CASE Enter(c)
    BY <2>1, ConstantsAssumption DEF Enter, Goto
  <2>2. CASE Acquire(c)
    BY <2>2, ConstantsAssumption DEF Acquire, Goto
  <2>3. CASE ExecRun(c)
    BY <2>3, ConstantsAssumption DEF ExecRun, WorkerEnds, Up
  <2>4. CASE ExecReturns(c)
    BY <2>4, ConstantsAssumption DEF ExecReturns, WorkerEnds, Up
  <2>5. CASE JoinedError(c)
    BY <2>5, ConstantsAssumption DEF JoinedError, Leave
  <2>6. CASE JoinedStream(c)
    BY <2>6, ConstantsAssumption DEF JoinedStream, Goto
  <2>7. CASE JoinedPair(c)
    BY <2>7, ConstantsAssumption DEF JoinedPair, Leave
  <2>8. CASE DrainChunk(c)
    <3>1. CASE Leave(c, "ok", Marked(buf'[c]))
      BY <2>8, <3>1, ConstantsAssumption DEF DrainChunk, Leave
    <3>2. CASE UNCHANGED <<pc, lock, reply>>
      BY <2>8, <3>2, ConstantsAssumption DEF DrainChunk
    <3>3. QED
      BY <2>8, <3>1, <3>2 DEF DrainChunk
  <2>9. CASE DrainEnd(c)
    BY <2>9, ConstantsAssumption DEF DrainEnd, Leave
  <2>10. CASE DrainRaises(c)
    BY <2>10, ConstantsAssumption DEF DrainRaises, Leave
  <2>11. CASE TimeOut(c)
    BY <2>11, ConstantsAssumption DEF TimeOut, Goto
  <2>12. CASE Kill(c)
    BY <2>12, ConstantsAssumption DEF Kill, Goto, Up
  <2>13. CASE Remove(c)
    BY <2>13, ConstantsAssumption DEF Remove, Goto
  <2>14. CASE Start(c)
    BY <2>14, ConstantsAssumption DEF Start, Goto, Leave, Up
  <2>15. CASE Verify(c)
    BY <2>15, ConstantsAssumption DEF Verify, Leave, Up
  <2>16. QED
    BY <1>1, <2>1, <2>2, <2>3, <2>4, <2>5, <2>6, <2>7, <2>8,
       <2>9, <2>10, <2>11, <2>12, <2>13, <2>14, <2>15 DEF CallStep
<1>2. ASSUME NEW k \in Containers, Crash(k) PROVE SoundInv'
  BY <1>2 DEF Crash, Up
<1>3. CASE CleanupBegins
  BY <1>3 DEF CleanupBegins
<1>4. CASE CleanupStop
  BY <1>4, ConstantsAssumption DEF CleanupStop
<1>5. CASE CleanupRemove
  BY <1>5 DEF CleanupRemove
<1>6. CASE Exited \/ UNCHANGED vars
  BY <1>6 DEF Exited, vars, Up
<1>7. QED
  BY <1>1, <1>2, <1>3, <1>4, <1>5, <1>6 DEF Next

(* A buffer that lost bytes is full when the reply is made. *)
LEMMA LossStep == TypeOK /\ ReplyInv /\ LossInv /\ [Next]_vars => LossInv'
<1> SUFFICES ASSUME TypeOK, ReplyInv, LossInv, [Next]_vars PROVE LossInv'
  OBVIOUS
<1> USE DEF LossInv, ReplyInv, TypeOK, Marked, Full, fixed, docker, progress, output
<1>1. ASSUME NEW c \in Calls, CallStep(c) PROVE LossInv'
  <2>1. CASE Enter(c)
    BY <2>1 DEF Enter, Goto
  <2>2. CASE Acquire(c)
    BY <2>2 DEF Acquire, Goto
  <2>3. CASE ExecRun(c)
    BY <2>3 DEF ExecRun, WorkerEnds, Up
  <2>4. CASE ExecReturns(c)
    BY <2>4 DEF ExecReturns, WorkerEnds, Up
  <2>5. CASE JoinedError(c)
    BY <2>5 DEF JoinedError, Leave
  <2>6. CASE JoinedStream(c)
    BY <2>6 DEF JoinedStream, Goto
  <2>7. CASE JoinedPair(c)
    <3>1. PICK n \in [Streams -> ChunkSizes \cup {0}] :
            /\ lost' = [lost EXCEPT ![c] = {s \in Streams : n[s] > MaxOutput}]
            /\ Leave(c, "ok", Marked([s \in Streams |-> Kept(0, n[s])]))
      BY <2>7 DEF JoinedPair
    <3>2. ASSUME NEW s \in Streams, n[s] > MaxOutput
          PROVE  Kept(0, n[s]) >= MaxOutput
      BY <3>2, ConstantsAssumption DEF Kept
    <3>3. lost'[c] \subseteq Marked([s \in Streams |-> Kept(0, n[s])])
      BY <3>1, <3>2
    <3>4. QED
      BY <2>7, <3>1, <3>3 DEF JoinedPair, Leave
  <2>8. CASE DrainChunk(c)
    <3>1. PICK s \in Streams, n \in ChunkSizes :
            /\ AddOutput(c, s, n)
            /\ IF \A t \in Streams : Full(buf'[c], t)
               THEN Leave(c, "ok", Marked(buf'[c]))
               ELSE UNCHANGED <<pc, lock, reply>>
      BY <2>8 DEF DrainChunk
    <3>2. n \in Nat /\ buf[c][s] \in 0..MaxOutput
      BY ConstantsAssumption
    <3>3. pc[c] # "returned"
      BY <2>8 DEF DrainChunk
    <3>4. /\ buf'[c] = [buf[c] EXCEPT ![s] = Kept(buf[c][s], n)]
          /\ \A d \in Calls : d # c => buf'[d] = buf[d] /\ lost'[d] = lost[d]
          /\ lost'[c] = IF n > MaxOutput - buf[c][s] THEN lost[c] \cup {s} ELSE lost[c]
      BY <3>1 DEF AddOutput
    <3>5. lost'[c] \subseteq Marked(buf'[c])
      <4>1. SUFFICES ASSUME NEW t \in lost'[c]
                     PROVE  t \in Streams /\ buf'[c][t] >= MaxOutput
        OBVIOUS
      <4>2. /\ MaxOutput \in Nat /\ Kept(buf[c][s], n) \in 0..MaxOutput
            /\ Kept(buf[c][s], n) >= buf[c][s]
        BY <3>2, KeptBound, ConstantsAssumption
      <4>3. CASE t \in lost[c]
        <5>1. t \in Streams /\ buf[c][t] >= MaxOutput
          BY <3>3, <4>3
        <5>2. CASE t = s
          <6>1. buf'[c][t] = Kept(buf[c][s], n)
            BY <3>4, <5>2
          <6>2. QED
            BY <3>2, <4>2, <5>1, <5>2, <6>1
        <5>3. CASE t # s
          BY <3>4, <5>1, <5>3
        <5>4. QED
          BY <5>2, <5>3
      <4>4. CASE t \notin lost[c]
        <5>1. t = s /\ n > MaxOutput - buf[c][s]
          BY <3>4, <4>1, <4>4
        <5>2. Kept(buf[c][s], n) = MaxOutput
          BY <3>2, <5>1, KeptBound
        <5>3. QED
          BY <3>4, <4>2, <5>1, <5>2
      <4>5. QED
        BY <4>3, <4>4
    <3>6. CASE Leave(c, "ok", Marked(buf'[c]))
      BY <3>4, <3>5, <3>6 DEF Leave
    <3>7. CASE UNCHANGED <<pc, lock, reply>>
      BY <3>3, <3>4, <3>5, <3>7
    <3>8. QED
      BY <3>1, <3>6, <3>7
  <2>9. CASE DrainEnd(c)
    BY <2>9 DEF DrainEnd, Leave
  <2>10. CASE DrainRaises(c)
    BY <2>10 DEF DrainRaises, Leave
  <2>11. CASE TimeOut(c)
    BY <2>11 DEF TimeOut, Goto
  <2>12. CASE Kill(c)
    BY <2>12 DEF Kill, Goto, Up
  <2>13. CASE Remove(c)
    BY <2>13 DEF Remove, Goto
  <2>14. CASE Start(c)
    <3>1. CASE Leave(c, "raised", {})
      BY <2>14, <3>1 DEF Start, Leave
    <3>2. CASE Goto(c, "starting", "verifying") /\ UNCHANGED <<lost, lock, reply>>
      BY <2>14, <3>2 DEF Start, Goto
    <3>3. QED
      BY <2>14, <3>1, <3>2 DEF Start
  <2>15. CASE Verify(c)
    <3>1. PICK kind \in {"raised", "timeout"} : Leave(c, kind, {})
      BY <2>15 DEF Verify
    <3>2. QED
      BY <2>15, <3>1 DEF Verify, Leave
  <2>16. QED
    BY <1>1, <2>1, <2>2, <2>3, <2>4, <2>5, <2>6, <2>7, <2>8,
       <2>9, <2>10, <2>11, <2>12, <2>13, <2>14, <2>15 DEF CallStep
<1>2. ASSUME NEW k \in Containers, Crash(k) PROVE LossInv'
  BY <1>2 DEF Crash, Up
<1>3. CASE CleanupBegins
  BY <1>3 DEF CleanupBegins
<1>4. CASE CleanupStop
  BY <1>4 DEF CleanupStop, Up
<1>5. CASE CleanupRemove
  BY <1>5 DEF CleanupRemove
<1>6. CASE Exited \/ UNCHANGED vars
  BY <1>6 DEF Exited, vars, Up
<1>7. QED
  BY <1>1, <1>2, <1>3, <1>4, <1>5, <1>6 DEF Next

-----------------------------------------------------------------------------
(* The inductive invariant.                                                *)
Inv ==
  TypeOK /\ LockInv /\ ReplyInv /\ StageInv /\ FreshInv /\ SoundInv /\ LossInv

(* Init establishes Inv and every step keeps it.                           *)
THEOREM Invariance == Spec => []Inv
<1>1. Init => Inv
  <2> SUFFICES ASSUME Init PROVE Inv
    OBVIOUS
  <2>1. TypeOK
    BY TypeInit
  <2>2. LockInv /\ ReplyInv
    BY ConstantsAssumption DEF Init, LockInv, ReplyInv, Holding, NoReply
  <2>3. StageInv /\ FreshInv /\ SoundInv /\ LossInv
    BY DEF Init, StageInv, FreshInv, SoundInv, Sound, LossInv, NoReply, Up
  <2>4. QED
    BY <2>1, <2>2, <2>3 DEF Inv
<1>2. Inv /\ [Next]_vars => Inv'
  BY TypeStep, LockStep, ReplyStep, StageStep, FreshStep, SoundStep, LossStep DEF Inv
<1>3. QED
  BY <1>1, <1>2, PTL DEF Spec

(* Every variable of the executor stays in its type.                       *)
THEOREM TypeCorrect == Spec => []TypeOK
  BY Invariance, PTL DEF Inv

(* Timeouts never use the sandbox up: see IdleContainerUsable.             *)
THEOREM IdleUsable == Spec => []IdleContainerUsable
<1>1. Inv => IdleContainerUsable
  BY DEF Inv, SoundInv, Sound, IdleContainerUsable
<1>2. QED
  BY <1>1, Invariance, PTL

(* No container runs unaccounted for: see NoOrphanContainer.               *)
THEOREM NoOrphan == Spec => []NoOrphanContainer
<1>1. Inv => NoOrphanContainer
  BY DEF Inv, StageInv, NoOrphanContainer
<1>2. QED
  BY <1>1, Invariance, PTL

(* Code that overran its time is stopped: see OverrunIsStopped.            *)
THEOREM OverrunStopped == Spec => []OverrunIsStopped
<1>1. Inv => OverrunIsStopped
  BY DEF Inv, TypeOK, StageInv, FreshInv, OverrunIsStopped
<1>2. QED
  BY <1>1, Invariance, PTL

(* Dropped output is always announced: see NoSilentTruncation.             *)
THEOREM TruncationAnnounced == Spec => []NoSilentTruncation
<1>1. Inv => NoSilentTruncation
  BY DEF Inv, LossInv, NoSilentTruncation
<1>2. QED
  BY <1>1, Invariance, PTL

(* A timeout kills nobody else's code: see NoForeignKill.                  *)
THEOREM ForeignKill == Spec => NoForeignKill
<1> DEFINE P == \A k \in Containers : Up(k) /\ status'[k] = "dead" =>
       \A c \in Calls : target[c] = k => pc[c] \notin {"joining", "draining"}
<1>1. Inv /\ [Next]_vars => [P]_vars
  <2> SUFFICES ASSUME Inv, Next,
                      NEW k \in Containers, Up(k), status'[k] = "dead",
                      NEW c \in Calls, pc[c] \in {"joining", "draining"}
               PROVE  FALSE
    BY DEF P
  <2> USE DEF Inv, TypeOK, LockInv, Holding, Up, fixed, docker, progress, output
  <2>1. lock = c /\ exit = "running"
    OBVIOUS
  <2>2. ASSUME NEW d \in Calls, CallStep(d) PROVE FALSE
    <3>1. CASE Kill(d)
      BY <2>1, <3>1 DEF Kill, Goto
    <3>2. CASE Remove(d)
      BY <2>1, <3>2 DEF Remove, Goto
    <3>3. CASE Start(d)
      BY <2>1, <3>3 DEF Start
    <3>4. CASE Verify(d)
      BY <2>1, <3>4 DEF Verify
    <3>5. CASE status' = status
      BY <3>5
    <3>6. QED
      BY <2>2, <3>1, <3>2, <3>3, <3>4, <3>5
      DEF CallStep, Enter, Acquire, ExecRun, ExecReturns, JoinedError, JoinedStream,
          JoinedPair, DrainChunk, DrainEnd, DrainRaises, TimeOut
  <2>3. ASSUME NEW l \in Containers, Crash(l) PROVE FALSE
    BY <2>3 DEF Crash
  <2>4. CASE CleanupBegins \/ CleanupStop \/ CleanupRemove \/ Exited
    BY <2>1, <2>4, ConstantsAssumption
    DEF CleanupBegins, CleanupStop, CleanupRemove, Exited, vars
  <2>5. QED
    BY <2>2, <2>3, <2>4 DEF Next
<1>2. QED
  BY <1>1, Invariance, PTL DEF Spec, NoForeignKill
-----------------------------------------------------------------------------
(* The refinement.  kindOf, usedOf and replacing are the abstract reply,   *)
(* used and replaced of SandboxService.                                    *)
kindOf == [c \in Calls |-> reply[c].kind]
usedOf == {k \in Containers : status[k] # "absent"}
replacing == \E c \in Calls : pc[c] = "verifying"
servingOf == IF lock \in Calls THEN lock ELSE NoOne

(* Leaving execute_code is answering the call the service is serving.      *)
LEMMA LeaveAnswers ==
  ASSUME Inv, NEW c \in Calls, Holding(c), NEW kind \in Kinds, NEW marked,
         Leave(c, kind, marked), UNCHANGED container, usedOf' = usedOf,
         kind = "timeout" => pc[c] = "verifying",
         kind \in {"ok", "failed"} => pc[c] # "verifying"
  PROVE  Service!Answer(c, kind)
<1>1. lock = c /\ (\A d \in Calls : pc[d] = "verifying" => d = c)
  BY DEF Inv, LockInv, Holding
<1>2. servingOf = c /\ (replacing <=> pc[c] = "verifying")
  BY <1>1 DEF servingOf, replacing
<1>3. servingOf' = NoOne /\ ~replacing'
  BY <1>1, ConstantsAssumption DEF servingOf, replacing, Leave, Inv, TypeOK
<1>4. kindOf' = [kindOf EXCEPT ![c] = kind]
  BY DEF kindOf, Leave, Inv, TypeOK
<1>5. QED
  BY <1>2, <1>3, <1>4 DEF Service!Answer, servingOf, replacing, kindOf, usedOf

(* Every step of the executor is a step of the service or changes nothing  *)
(* the service shows.                                                      *)
LEMMA StepRefines == Inv /\ [Next]_vars => [Service!ServiceNext]_(Service!svars)
<1> SUFFICES ASSUME Inv, [Next]_vars PROVE [Service!ServiceNext]_(Service!svars)
  OBVIOUS
<1> USE DEF fixed, docker, progress, output
<1>1. ASSUME UNCHANGED <<lock, reply, container>>, usedOf' = usedOf,
             replacing' <=> replacing
      PROVE  UNCHANGED Service!svars
  BY <1>1 DEF Service!svars, usedOf, replacing
<1>2. ASSUME NEW c \in Calls, CallStep(c)
      PROVE  Service!ServiceNext \/ UNCHANGED Service!svars
  <2>1. ASSUME UNCHANGED <<lock, reply, container, status>>,
               pc'[c] # "verifying", pc[c] # "verifying",
               \A d \in Calls : d # c => pc'[d] = pc[d]
        PROVE  UNCHANGED Service!svars
    BY <1>1, <2>1 DEF usedOf, replacing
  <2>2. ASSUME NEW kind \in Kinds, Service!Answer(c, kind)
        PROVE  Service!ServiceNext
    BY <2>2 DEF Service!ServiceNext, Service!ServiceReplies, Kinds
  <2>3. CASE Acquire(c)
    <3>1. /\ lock = NoOne /\ lock' = c /\ ~replacing /\ ~replacing'
          /\ reply[c].kind = "none"
      BY <2>3, ConstantsAssumption
      DEF Acquire, Goto, replacing, Inv, LockInv, ReplyInv, Holding, TypeOK
    <3>2. Service!Begin(c)
      BY <2>3, <3>1, ConstantsAssumption DEF Service!Begin, Acquire, replacing
    <3>3. QED
      BY <3>2 DEF Service!ServiceNext
  <2>4. CASE Enter(c) \/ ExecRun(c) \/ ExecReturns(c) \/ JoinedStream(c) \/ TimeOut(c)
    BY <2>1, <2>4
    DEF Enter, ExecRun, ExecReturns, JoinedStream, TimeOut, Goto, WorkerEnds, Inv,
        TypeOK, usedOf, replacing, Service!svars
  <2>5. ASSUME NEW kind \in Kinds, NEW marked, Leave(c, kind, marked), Holding(c),
               UNCHANGED <<container>>, usedOf' = usedOf,
               kind = "timeout" <=> pc[c] = "verifying" /\ kind # "raised",
               kind \in {"ok", "failed"} => pc[c] # "verifying"
        PROVE  Service!ServiceNext
    BY <2>2, <2>5, LeaveAnswers
  <2>6. CASE JoinedError(c)
    BY <2>5, <2>6 DEF JoinedError, Holding, Kinds, usedOf
  <2>7. CASE JoinedPair(c)
    BY <2>5, <2>7 DEF JoinedPair, Holding, Kinds, usedOf
  <2>8. CASE DrainChunk(c)
    <3>1. CASE Leave(c, "ok", Marked(buf'[c]))
      BY <2>5, <2>8, <3>1 DEF DrainChunk, Holding, Kinds, usedOf
    <3>2. CASE UNCHANGED <<pc, lock, reply>>
      BY <2>1, <2>8, <3>2 DEF DrainChunk
    <3>3. QED
      BY <2>8, <3>1, <3>2 DEF DrainChunk
  <2>9. CASE DrainEnd(c)
    BY <2>5, <2>9 DEF DrainEnd, Holding, Kinds, usedOf
  <2>10. CASE DrainRaises(c)
    BY <2>5, <2>10 DEF DrainRaises, Holding, Kinds, usedOf
  <2>11. CASE Kill(c) \/ Remove(c)
    <3>1. /\ UNCHANGED <<lock, reply, container>>
          /\ pc[c] \in {"killing", "removing"} /\ pc'[c] \in {"removing", "starting"}
          /\ \A d \in Calls : d # c => pc'[d] = pc[d]
      BY <2>11 DEF Kill, Remove, Goto, Inv, TypeOK
    <3>2. usedOf' = usedOf
      BY <2>11 DEF Kill, Remove, usedOf, Inv, TypeOK, Up, FreshInv
    <3>3. QED
      BY <1>1, <3>1, <3>2 DEF replacing
  <2>12. CASE Start(c)
    <3>1. CASE Leave(c, "raised", {}) /\ UNCHANGED <<status, container, lost>>
      BY <2>5, <2>12, <3>1 DEF Start, Holding, Kinds, usedOf
    <3>2. ASSUME NEW k \in Containers, status[k] = "absent",
                 status' = [status EXCEPT ![k] = "up"], container' = k,
                 Goto(c, "starting", "verifying"), UNCHANGED <<lost, lock, reply>>
          PROVE  Service!Replace(c)
      <4>1. lock = c /\ ~replacing /\ replacing'
        BY <3>2 DEF Goto, replacing, Inv, LockInv, Holding, TypeOK
      <4>2. usedOf' = usedOf \cup {k} /\ k \notin usedOf
        BY <3>2 DEF usedOf, Inv, TypeOK
      <4>3. QED
        BY <3>2, <4>1, <4>2 DEF Service!Replace, usedOf, replacing
    <3>3. QED
      BY <2>12, <3>1, <3>2 DEF Start, Service!ServiceNext
  <2>13. CASE Verify(c)
    <3>1. usedOf' = usedOf
      BY <2>13 DEF Verify, usedOf, Inv, TypeOK, FreshInv
    <3>2. PICK kind \in {"timeout", "raised"} : Leave(c, kind, {})
      BY <2>13 DEF Verify
    <3>3. QED
      BY <2>5, <2>13, <3>1, <3>2 DEF Verify, Holding, Kinds
  <2>14. QED
    BY <1>2, <2>3, <2>4, <2>6, <2>7, <2>8, <2>9, <2>10, <2>11, <2>12, <2>13 DEF CallStep
<1>3. ASSUME NEW k \in Containers, Crash(k) PROVE UNCHANGED Service!svars
  <2>1. usedOf' = usedOf
    BY <1>3 DEF Crash, usedOf, Up, Inv, TypeOK
  <2>2. QED
    BY <1>1, <1>3, <2>1 DEF Crash, replacing
<1>4. CASE CleanupBegins \/ CleanupStop \/ CleanupRemove
  <2>1. lock \notin Calls /\ lock' \notin Calls
    BY <1>4, ConstantsAssumption
    DEF CleanupBegins, CleanupStop, CleanupRemove, Inv, LockInv
  <2>2. UNCHANGED <<reply, container, pc>>
    BY <1>4 DEF CleanupBegins, CleanupStop, CleanupRemove
  <2>3. usedOf' = usedOf
    BY <1>4 DEF CleanupBegins, CleanupStop, CleanupRemove, usedOf, Inv, TypeOK, FreshInv
  <2>4. QED
    BY <2>1, <2>2, <2>3 DEF Service!svars, usedOf
<1>5. CASE Exited \/ UNCHANGED vars
  BY <1>5 DEF Exited, vars, Service!svars
<1>6. QED
  BY <1>2, <1>3, <1>4, <1>5 DEF Next

(* The executor implements the sandbox service: one call at a time, one    *)
(* reply each, and a container replaced only for a call that overran.      *)
THEOREM Refinement == Spec => ImplementsService
<1>1. Init => Service!ServiceInit
  BY ConstantsAssumption DEF Init, Service!ServiceInit, NoReply
<1>2. QED
  BY <1>1, StepRefines, Invariance, PTL
  DEF Spec, ImplementsService, Service!ServiceSpec
=============================================================================

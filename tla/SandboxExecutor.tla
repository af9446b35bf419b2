-------------------------- MODULE SandboxExecutor --------------------------
(***************************************************************************)
(* HardenedContainerCodeExecutor of execution/resolver.py: model-generated *)
(* code run in one long-lived Docker container, shared by every call of    *)
(* execute_code.  A call takes its container, waits for the execution      *)
(* lock, has a worker thread start the code, joins the worker against the  *)
(* timeout and, when that fires, kills and replaces the container.         *)
(*                                                                         *)
(* The Docker daemon and the containers are external: each API call either *)
(* does what it says or, if its name is in Faults, may raise.  Time is     *)
(* abstract: a join may run out whenever its worker is still alive.        *)
(***************************************************************************)
EXTENDS Naturals, FiniteSets

CONSTANTS Calls,       \* the calls of execute_code, each by a thread of its own
          Containers,  \* identities the daemon gives to containers
          NoOne,       \* the lock is free
          Cleaner,     \* the atexit callback, as a holder of the lock
          Clients,     \* subset of BOOLEAN: does exec_run(stream=True) stream?
          Faults,      \* subset of FaultKinds: what the daemon may fail at
          MaxOutput,   \* MAX_EXECUTION_OUTPUT_BYTES
          ChunkSizes   \* sizes of the pieces output arrives in

FaultKinds == {"exec", "stream", "kill", "stop", "remove", "run", "verify", "crash"}
Streams == {"stdout", "stderr"}
Snippets == {"finite", "loops"}

ASSUME ConstantsAssumption ==
  /\ NoOne \notin Calls
  /\ Cleaner \notin Calls
  /\ NoOne # Cleaner
  /\ Clients \subseteq BOOLEAN
  /\ Faults \subseteq FaultKinds
  /\ MaxOutput \in Nat \ {0}
  /\ ChunkSizes \subseteq Nat \ {0}

VARIABLES
  streaming,  \* the docker client supports stream=True (fixed)
  snippet,    \* does the code of a call terminate? (fixed)
  lock,       \* holder of _execution_lock
  container,  \* self._container
  status,     \* what has become of each container
  spared,     \* containers the daemon refused to kill, stop or remove
  pc,         \* where each call is in execute_code
  target,     \* the call's local `container`
  worker,     \* the call's worker thread
  box,        \* the call's result_box
  buf,        \* bytes kept of each stream by _bounded_output
  lost,       \* streams of which bytes were dropped
  reply,      \* what execute_code returned
  exit        \* progress of interpreter exit

progress == <<pc, target, worker, box>>
output == <<buf, lost>>
docker == <<container, status, spared>>
fixed == <<streaming, snippet>>
vars == <<fixed, lock, docker, progress, output, reply, exit>>

-----------------------------------------------------------------------------
Kinds == {"ok", "failed", "timeout", "raised"}
NoReply == [kind |-> "none", marked |-> {}, lost |-> {}]
Empty == [s \in Streams |-> 0]
Up(k) == status[k] = "up"

Init ==
  /\ streaming \in Clients
  /\ snippet \in [Calls -> Snippets]
  /\ lock = NoOne
  /\ container \in Containers
  /\ status = [k \in Containers |-> IF k = container THEN "up" ELSE "absent"]
  /\ spared = {}
  /\ pc = [c \in Calls |-> "idle"]
  /\ target = [c \in Calls |-> container]
  /\ worker = [c \in Calls |-> "none"]
  /\ box = [c \in Calls |-> "empty"]
  /\ buf = [c \in Calls |-> Empty]
  /\ lost = [c \in Calls |-> {}]
  /\ reply = [c \in Calls |-> NoReply]
  /\ exit = "running"

Goto(c, from, to) ==
  /\ pc[c] = from
  /\ pc' = [pc EXCEPT ![c] = to]

(* Variant: an exception leaves the lock held. *)
LeaveLocked(c, kind, marked) ==
  /\ pc' = [pc EXCEPT ![c] = "returned"]
  /\ lock' = IF kind = "raised" THEN lock ELSE NoOne
  /\ reply' = [reply EXCEPT ![c] =
                 [kind |-> kind, marked |-> marked, lost |-> lost'[c]]]

(* A call leaves execute_code, by return or by exception: `with` releases  *)
(* the lock and the call's locals are gone.                                *)
Leave(c, kind, marked) ==
  /\ pc' = [pc EXCEPT ![c] = "returned"]
  /\ lock' = NoOne
  /\ reply' = [reply EXCEPT ![c] =
                 [kind |-> kind, marked |-> marked, lost |-> lost'[c]]]

-----------------------------------------------------------------------------
(* execute_code is entered: the container is read before the lock is       *)
(* asked for.                                                              *)
Enter(c) ==
  /\ exit = "running"
  /\ Goto(c, "idle", "queued")
  /\ target' = [target EXCEPT ![c] = container]
  /\ UNCHANGED <<fixed, lock, docker, worker, box, output, reply, exit>>

(* Variant: no lock around the execution. *)
AcquireUnlocked(c) ==
  /\ Goto(c, "queued", "joining")
  /\ lock' = c
  /\ worker' = [worker EXCEPT ![c] = "started"]
  /\ UNCHANGED <<fixed, docker, target, box, output, reply, exit>>

(* The lock is taken and the worker thread started.                        *)
Acquire(c) ==
  /\ lock = NoOne
  /\ Goto(c, "queued", "joining")
  /\ lock' = c
  /\ worker' = [worker EXCEPT ![c] = "started"]
  /\ UNCHANGED <<fixed, docker, target, box, output, reply, exit>>

WorkerEnds(c, result) ==
  /\ worker' = [worker EXCEPT ![c] = "ended"]
  /\ box' = [box EXCEPT ![c] = result]

(* _run: exec_run in the container the call read on entry.  A streaming    *)
(* client returns a generator at once; one that rejects stream=True (the   *)
(* TypeError branch) is called again and blocks until the code ends.  A    *)
(* worker outlives its call, so this may come after the call timed out.    *)
ExecRun(c) ==
  /\ worker[c] = "started" /\ exit # "exited"
  /\ \/ /\ Up(target[c]) /\ streaming
        /\ WorkerEnds(c, "exec")
     \/ /\ Up(target[c]) /\ ~streaming
        /\ worker' = [worker EXCEPT ![c] = "blocked"]
        /\ UNCHANGED box
     \/ /\ ~Up(target[c]) \/ "exec" \in Faults
        /\ WorkerEnds(c, "error")
  /\ UNCHANGED <<fixed, lock, docker, pc, target, output, reply, exit>>

(* A blocking exec_run returns when the code ends or its container dies.   *)
ExecReturns(c) ==
  /\ worker[c] = "blocked" /\ exit # "exited"
  /\ \E r \in {"exec", "error"} :
       /\ Up(target[c]) => snippet[c] = "finite" /\ r = "exec"
       /\ WorkerEnds(c, r)
  /\ UNCHANGED <<fixed, lock, docker, pc, target, output, reply, exit>>

-----------------------------------------------------------------------------
(* Variants: a chunk is kept whole; a buffer counts as full beyond the limit. *)
KeptWhole(len, n) == len + n
FullBeyond(b, s) == b[s] > MaxOutput

(* _bounded_output: of n more bytes keep what still fits.                  *)
Kept(len, n) == IF n > MaxOutput - len THEN MaxOutput ELSE len + n

Full(b, s) == b[s] >= MaxOutput

(* The streams that get the "[output truncated]" suffix.                   *)
Marked(b) == {s \in Streams : Full(b, s)}

AddOutput(c, s, n) ==
  /\ buf' = [buf EXCEPT ![c][s] = Kept(@, n)]
  /\ lost' = [lost EXCEPT ![c] = IF n > MaxOutput - buf[c][s] THEN @ \cup {s} ELSE @]

JoinedError(c) ==
  /\ pc[c] = "joining" /\ worker[c] = "ended" /\ box[c] = "error"
  /\ UNCHANGED <<fixed, docker, target, worker, box, output, exit>>
  /\ Leave(c, "failed", {})

(* A generator is consumed by the caller, who still holds the lock and is  *)
(* no longer under the join's timeout.                                     *)
JoinedStream(c) ==
  /\ worker[c] = "ended" /\ box[c] = "exec" /\ streaming
  /\ Goto(c, "joining", "draining")
  /\ UNCHANGED <<fixed, lock, docker, target, worker, box, output, reply, exit>>

(* A blocking client hands over a pair of byte strings.                    *)
JoinedPair(c) ==
  /\ pc[c] = "joining" /\ worker[c] = "ended" /\ box[c] = "exec" /\ ~streaming
  /\ \E n \in [Streams -> ChunkSizes \cup {0}] :
       /\ lost' = [lost EXCEPT ![c] = {s \in Streams : n[s] > MaxOutput}]
       /\ Leave(c, "ok", Marked([s \in Streams |-> Kept(0, n[s])]))
  /\ UNCHANGED <<fixed, docker, target, worker, box, buf, exit>>

(* One chunk of the stream.  Only when both streams are full is the        *)
(* generator closed and the loop left.                                     *)
DrainChunk(c) ==
  /\ pc[c] = "draining" /\ Up(target[c])
  /\ \E s \in Streams, n \in ChunkSizes :
       /\ AddOutput(c, s, n)
       /\ IF \A t \in Streams : Full(buf'[c], t)
          THEN Leave(c, "ok", Marked(buf'[c]))
          ELSE UNCHANGED <<pc, lock, reply>>
  /\ UNCHANGED <<fixed, docker, target, worker, box, exit>>

(* The stream ends when the code has ended or its container has died.      *)
DrainEnd(c) ==
  /\ pc[c] = "draining"
  /\ snippet[c] = "finite" \/ ~Up(target[c])
  /\ UNCHANGED <<fixed, docker, target, worker, box, output, exit>>
  /\ Leave(c, "ok", Marked(buf[c]))

(* Reading the stream raises; nothing catches it.                          *)
DrainRaises(c) ==
  /\ pc[c] = "draining" /\ "stream" \in Faults
  /\ UNCHANGED <<fixed, docker, target, worker, box, output, exit>>
  /\ Leave(c, "raised", {})

-----------------------------------------------------------------------------
(* Variant: a timeout is answered and the container left as it is. *)
TimeOutOnly(c) ==
  /\ pc[c] = "joining" /\ worker[c] # "ended"
  /\ UNCHANGED <<fixed, docker, target, worker, box, output, exit>>
  /\ Leave(c, "timeout", {})

(* worker.join(timeout) returned and the worker is alive.                  *)
TimeOut(c) ==
  /\ worker[c] # "ended"
  /\ Goto(c, "joining", "killing")
  /\ UNCHANGED <<fixed, lock, docker, target, worker, box, output, reply, exit>>

(* Variant: the container killed is the one the call read on entry. *)
KillTarget(c) ==
  /\ Goto(c, "killing", "removing")
  /\ status' = [status EXCEPT ![target[c]] = IF @ = "up" THEN "dead" ELSE @]
  /\ UNCHANGED <<fixed, lock, container, spared, target, worker, box, output,
                 reply, exit>>

(* _recover_container acts on self._container, whatever the call ran in.   *)
(* kill() of a container that is not running raises, and is swallowed.     *)
Kill(c) ==
  /\ Goto(c, "killing", "removing")
  /\ \/ /\ Up(container)
        /\ status' = [status EXCEPT ![container] = "dead"]
        /\ UNCHANGED spared
     \/ /\ Up(container) /\ "kill" \in Faults
        /\ spared' = spared \cup {container}
        /\ UNCHANGED status
     \/ /\ ~Up(container)
        /\ UNCHANGED <<status, spared>>
  /\ UNCHANGED <<fixed, lock, container, target, worker, box, output, reply, exit>>

(* Variant: recovery ends with remove(), nothing is started. *)
RemoveOnly(c) ==
  /\ pc[c] = "removing"
  /\ status' = [status EXCEPT ![container] = IF @ = "up" THEN @ ELSE "removed"]
  /\ UNCHANGED <<fixed, container, spared, target, worker, box, output, exit>>
  /\ Leave(c, "timeout", {})

(* remove() without force only removes a container that has stopped.       *)
Remove(c) ==
  /\ Goto(c, "removing", "starting")
  /\ \/ /\ status[container] \in {"dead", "crashed"}
        /\ status' = [status EXCEPT ![container] = "removed"]
     \/ /\ status[container] \in {"up", "removed"} \/ "remove" \in Faults
        /\ UNCHANGED status
  /\ UNCHANGED <<fixed, lock, container, spared, target, worker, box, output,
                 reply, exit>>

(* Variant: an error of containers.run is swallowed like those of kill and  *)
(* remove, and the call answered as if recovered.                          *)
StartSwallowed(c) ==
  /\ pc[c] = "starting"
  /\ \/ /\ \E k \in Containers :
             /\ status[k] = "absent"
             /\ status' = [status EXCEPT ![k] = "up"]
             /\ container' = k
        /\ Goto(c, "starting", "verifying")
        /\ UNCHANGED <<lost, lock, reply>>
     \/ /\ "run" \in Faults
        /\ UNCHANGED <<status, container, lost>>
        /\ Leave(c, "timeout", {})
  /\ UNCHANGED <<fixed, spared, target, worker, box, buf, exit>>

(* _start_container: self._container changes before the new container is   *)
(* verified.  A failed run leaves it at the old one, and raises.           *)
Start(c) ==
  /\ pc[c] = "starting"
  /\ \/ /\ \E k \in Containers :
             /\ status[k] = "absent"
             /\ status' = [status EXCEPT ![k] = "up"]
             /\ container' = k
        /\ Goto(c, "starting", "verifying")
        /\ UNCHANGED <<lost, lock, reply>>
     \/ /\ "run" \in Faults
        /\ UNCHANGED <<status, container, lost>>
        /\ Leave(c, "raised", {})
  /\ UNCHANGED <<fixed, spared, target, worker, box, buf, exit>>

(* Verification succeeds, or the container is removed by force (an error   *)
(* of which is swallowed) and the exception leaves execute_code.           *)
Verify(c) ==
  /\ pc[c] = "verifying"
  /\ UNCHANGED <<fixed, container, target, worker, box, output, exit>>
  /\ \/ /\ Up(container)
        /\ UNCHANGED <<status, spared>>
        /\ Leave(c, "timeout", {})
     \/ /\ ~Up(container) \/ "verify" \in Faults
        /\ \/ /\ status' = [status EXCEPT ![container] = "removed"]
              /\ UNCHANGED spared
           \/ /\ "remove" \in Faults
              /\ spared' = spared \cup {container}
              /\ UNCHANGED status
        /\ Leave(c, "raised", {})

-----------------------------------------------------------------------------
(* A container dies by itself, for instance at its memory limit.           *)
Crash(k) ==
  /\ "crash" \in Faults /\ Up(k) /\ exit # "exited"
  /\ status' = [status EXCEPT ![k] = "crashed"]
  /\ UNCHANGED <<fixed, lock, container, spared, progress, output, reply, exit>>

(* _cleanup_container.  CPython runs atexit callbacks after joining the    *)
(* threads that are not daemons, so no call is in flight by then.          *)
CleanupBegins ==
  /\ exit = "running" /\ lock = NoOne
  /\ \A c \in Calls : pc[c] \in {"idle", "returned"}
  /\ lock' = Cleaner
  /\ exit' = "stopping"
  /\ UNCHANGED <<fixed, docker, progress, output, reply>>

(* stop() raises for a container that is gone; then remove() is skipped.   *)
CleanupStop ==
  /\ exit = "stopping"
  /\ \/ /\ status[container] # "removed"
        /\ status' = [status EXCEPT ![container] = IF @ = "up" THEN "dead" ELSE @]
        /\ exit' = "removing"
        /\ UNCHANGED <<spared, lock>>
     \/ /\ status[container] = "removed" \/ "stop" \in Faults
        /\ spared' = spared \cup {k \in {container} : Up(k)}
        /\ exit' = "exited" /\ lock' = NoOne
        /\ UNCHANGED status
  /\ UNCHANGED <<fixed, container, progress, output, reply>>

CleanupRemove ==
  /\ exit = "removing"
  /\ \/ status' = [status EXCEPT ![container] = "removed"]
     \/ "remove" \in Faults /\ UNCHANGED status
  /\ exit' = "exited" /\ lock' = NoOne
  /\ UNCHANGED <<fixed, container, spared, progress, output, reply>>

(* The process is gone. *)
Exited == exit = "exited" /\ UNCHANGED vars

CallStep(c) ==
  \/ Enter(c) \/ Acquire(c)
  \/ ExecRun(c) \/ ExecReturns(c)
  \/ JoinedError(c) \/ JoinedStream(c) \/ JoinedPair(c)
  \/ DrainChunk(c) \/ DrainEnd(c) \/ DrainRaises(c)
  \/ TimeOut(c) \/ Kill(c) \/ Remove(c) \/ Start(c) \/ Verify(c)

Next ==
  \/ \E c \in Calls : CallStep(c)
  \/ \E k \in Containers : Crash(k)
  \/ CleanupBegins \/ CleanupStop \/ CleanupRemove \/ Exited

Spec == Init /\ [][Next]_vars

(* Scheduling: a thread that can take a step of its own takes it, a wait   *)
(* with a timeout ends, and a Docker request ends (the client's default    *)
(* request timeout is 60 s).  Nobody has to call, code need not print, and *)
(* a stream that is silent stays open: reading it has no timeout.          *)
Fairness ==
  \A c \in Calls :
    /\ WF_vars(Acquire(c))
    /\ WF_vars(ExecReturns(c))
    /\ WF_vars(JoinedError(c)) /\ WF_vars(JoinedStream(c)) /\ WF_vars(JoinedPair(c))
    /\ WF_vars(DrainEnd(c))
    /\ WF_vars(TimeOut(c)) /\ WF_vars(Kill(c)) /\ WF_vars(Remove(c))
    /\ WF_vars(Start(c)) /\ WF_vars(Verify(c))

FairSpec == Spec /\ Fairness
-----------------------------------------------------------------------------
TypeOK ==
  /\ streaming \in BOOLEAN
  /\ snippet \in [Calls -> Snippets]
  /\ lock \in Calls \cup {NoOne, Cleaner}
  /\ container \in Containers
  /\ status \in [Containers -> {"absent", "up", "dead", "crashed", "removed"}]
  /\ spared \subseteq Containers
  /\ pc \in [Calls -> {"idle", "queued", "joining", "draining", "killing",
                       "removing", "starting", "verifying", "returned"}]
  /\ target \in [Calls -> Containers]
  /\ worker \in [Calls -> {"none", "started", "blocked", "ended"}]
  /\ box \in [Calls -> {"empty", "exec", "error"}]
  /\ buf \in [Calls -> [Streams -> 0..MaxOutput]]
  /\ lost \in [Calls -> SUBSET Streams]
  /\ reply \in [Calls -> [kind : Kinds \cup {"none"}, marked : SUBSET Streams,
                          lost : SUBSET Streams]]
  /\ exit \in {"running", "stopping", "removing", "exited"}

(* A recovery leaves a container that runs: whenever nobody holds the lock *)
(* the current container is up, unless it died by itself, or some call saw *)
(* its replacement fail, or the process has exited.  (Timeouts alone never *)
(* use the sandbox up: execute_code, _recover_container.)                  *)
IdleContainerUsable ==
  lock = NoOne /\ exit # "exited" =>
    \/ Up(container)
    \/ status[container] = "crashed"
    \/ \E c \in Calls : reply[c].kind = "raised"

(* No container keeps running behind the executor's back: one that is up   *)
(* is the current one (until the exit callback is through with it), or the *)
(* daemon refused to kill, stop or remove it.                              *)
NoOrphanContainer ==
  \A k \in Containers :
    Up(k) => k \in spared \/ (k = container /\ exit # "exited")

(* Code whose call was told "timed out" is not running any more, and later *)
(* calls are given another container, unless the daemon refused to kill.   *)
OverrunIsStopped ==
  \A c \in Calls : reply[c].kind = "timeout" =>
    /\ Up(target[c]) => target[c] \in spared
    /\ target[c] # container

(* A timeout kills no other call's code: when a container is killed, every *)
(* call between taking the lock and collecting its output that uses it is  *)
(* the one that timed out.  (This is what _execution_lock is held for.)    *)
NoForeignKill ==
  [][\A k \in Containers : Up(k) /\ status'[k] = "dead" =>
       \A c \in Calls : target[c] = k => pc[c] \notin {"joining", "draining"}]_vars

(* Output that was cut says so: a stream of which bytes were dropped ends  *)
(* with the truncation notice in the result the model reads.               *)
NoSilentTruncation ==
  \A c \in Calls : reply[c].kind = "ok" => reply[c].lost \subseteq reply[c].marked

(* The executor is the sandbox service: calls are served one at a time and *)
(* the container changes only for a call that ran out of time.             *)
Service == INSTANCE SandboxService WITH
  Sandboxes <- Containers,
  NoCall <- NoOne,
  serving <- IF lock \in Calls THEN lock ELSE NoOne,
  reply <- [c \in Calls |-> reply[c].kind],
  sandbox <- container,
  used <- {k \in Containers : status[k] # "absent"},
  replaced <- \E c \in Calls : pc[c] = "verifying"

ImplementsService == Service!ServiceSpec

(* Every call returns, whatever code it and the others were given, if the  *)
(* client blocks in exec_run, and if all code terminates also when the     *)
(* client streams.                                                         *)
EveryCallReturns ==
  \A c \in Calls :
    pc[c] = "queued" /\ (~streaming \/ \A d \in Calls : snippet[d] = "finite")
      ~> pc[c] = "returned"

(* "Run the snippet under a real wall-clock timeout": every call returns,  *)
(* whatever the code does and whichever client is installed.               *)
WallClockTimeout ==
  \A c \in Calls : pc[c] = "queued" ~> pc[c] = "returned"

(* "A deliberately-hung script triggers the timeout path and the container *)
(* is usable again on the next call": with a daemon that does what it is   *)
(* asked, no call is answered "Execution failed".                          *)
UsableAfterTimeout ==
  \A c \in Calls : reply[c].kind # "failed"
=============================================================================

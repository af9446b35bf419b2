# Verification of generic-agent-adk

TLA+ models of the configurable agent service under `src/basic_agent`, the TLC
runs that check them on small instances, and TLAPS proofs of the theorems that
hold for every instance. Run the tools in this directory:
`tlc -workers 2 -config MCLive.cfg MCLive`, `tlapm LiveProofs.tla`.

The service turns a declarative configuration into one agent, either a graph of
llm, function, join and nested graph nodes or a preset that builds such a
graph, and serves it over Google's Agent Development Kit (ADK): over REST, over
a WebSocket, or from the command line. ADK is a library here: its runner,
sessions, tool calls and graph engine are modelled from how this code uses
them, and marked external in `PROJECT.json`.

## The system

| Component (sources under `src/basic_agent`) | State it keeps | Operations | What makes it correct |
| --- | --- | --- | --- |
| Hardened container executor (`execution/resolver.py`) | the current container, the execution lock, per call a worker thread, its result box and output buffers | `execute_code`, `_recover_container`, `_start_container`, `_cleanup_container` | one call at a time; a timed-out container is killed and replaced; nothing keeps running unseen; cut output says so; every call returns |
| Strategy resolution (`execution/resolver.py`) | the strategy in force, `_code_execution_resolution` | `resolve_code_executor`, probes, auto-detect order, start | the strategy asked for, or a refusal, never a weaker one |
| Approval and tool protection (`policies/approval.py`, `tools.py`, `compile/llm_node.py`, `presets/catalog.py`) | the before-tool chain of each agent, a session's approval flag and confirmations | `_chain_before_tool`, `apply_gate_all`, the wiring of the policy section, the callbacks | no mutating call runs unconfirmed, no gated call unapproved, and the confirmation tools stay usable |
| Graph specifications (`config/graph.py`, `config/sugar.py`, `policies/synthesis.py`, `presets/catalog.py`) | none | `expand_sugar`, `validate`, `with_synthesis`, the presets' `build` | the expansion has the order, fan-in and bound that its form promises |
| Graph compilation (`compile/workflow.py`) | session state: loop counters, `routed_to`, `perspective_*`, `plan_outputs` | `compile_graph`, the loop counter, router, aggregation and planner functions | loops within their bound, one branch per route, plan outputs in plan order, runs that end |
| Live interface (`interfaces/live.py`, `auth/core.py`) | the message windows per subject, the runner, a handler and a forwarding task per connection | `live`, `_session`, `_get_runner`, `_message_is_rate_limited`, `_forward_events` | the budget is exact over all connections of a subject; no session of another's; no task left behind; handlers end |
| Use-case registry and custom modules (`use_cases/registry.py`, `util.py`), custom functions (`compile/functions.py`) | presets by key, aliases by name, the default registry, published before it is filled; a function registry per compilation | `register`, `resolve`, `get_default_registry`, `load_custom_use_cases`, `custom_function_registry` | built-ins stand whatever a module brings; a name keeps its meaning; a failed load leaves nothing that misleads |
| Agent entry point (`agent.py`) | the root agent, and what is reported of it: a runtime snapshot and the strategy in force | `get_root_agent`, `resolve_agent_config`, `_build_root_agent` | what is kept, and reported, is what is configured, after any number of failed attempts |
| Configuration (`config/settings.py`, `config/loader.py`), presets' options (`presets/catalog.py`) | none; settings are taken from the environment at import | load, override, merge, `apply_defaults` | precedence of values; both ways to a configuration, with a file and without, agree |
| REST interface (`interfaces/rest.py`, `auth/core.py`) | none of its own: an anonymous client's identity is a cookie in its hands | authenticate a request, bind the user it names to its caller | no request acts for another user, and no client loses its own |
| Gateway (`auth/gateway.py`) | none | the same authentication, asked by a proxy | the same answer |
| Llm nodes, tools, models, knowledge, utilities, telemetry, deployment | a singleton, caches | construction and wiring | see `PROJECT.json` for each |

Interactions. `agent.py` loads the configuration, asks the registry for a
preset or expands the declared graph, compiles it, and then wires the approval
policy over the compiled tree. The compiled agents call tools through the
before-tool chain and run code through the executor, which all agents and
sessions share. The live interface and the REST server run the agent for many
sessions at once. In front of the REST server a middleware decides which user a
request is of, and the session store behind it takes the user's name on trust.
The session state is where the functions of a graph leave values for one
another, within a run and, because nothing clears it, between the runs of a
session.

What is hard. Two calls share a container, and one may time out while the
other waits with a reference it read earlier. A worker thread outlives the call
that started it. Docker may fail at each step of a recovery. Callbacks that
may veto are chained by separate passes over a tree whose shape differs for
each root. Loop counters and routes outlive the run that wrote them. Plan steps
end in any order, wait for the user and are run again. Messages of one subject
arrive over several connections, while either side closes sockets and tasks
end. Registrations raise after they have filed some aliases, and a registry that
could not be completed is used by the next call. A build that fails leaves
globals that the next one must not report, and the daemon that a probe found may
be gone when the executor starts. The same settings arrive along two paths,
with different rules for what is empty. First requests of an anonymous client
overlap, and each is given an identity. `PROJECT.json` lists every hazard with its
line and the properties that watch it.

## Modules

| Module | Models |
| --- | --- |
| `SandboxService` | what the code-execution sandbox promises: one call at a time, one reply each, a new sandbox only for the call that overran |
| `SandboxExecutor` | `HardenedContainerCodeExecutor`: threads, lock, join, recovery, output bounding, exit hook, a Docker daemon that may fail |
| `ApprovalGate` | the wiring of before-tool callbacks, then the tool calls of one session |
| `GraphSpecs` | the graph data model, sugar expansion, synthesis, the presets' graphs, as operators on sets of nodes and edges |
| `WorkflowRun` | loading, compiling and running a graph over the messages of a session |
| `StagedRun` | what a workflow promises: a run goes through its stages in order |
| `MessageBudget` | the message windows of the live interface, a shared structure |
| `LiveService` | connections, handlers and forwarding tasks; extends `MessageBudget` |
| `UseCaseRegistry` | presets and aliases, custom modules registered preset by preset, whatever a failure leaves |
| `Configuration` | settings, the two ways to a configuration, the runtime and its model, the preset's defaults, where code may be run: operators on an environment and a file |
| `RootAgent` | `get_root_agent`, every step of a build, its failures and retries; extends `UseCaseRegistry` and `Configuration` |
| `RestBinding` | requests, cookies and the sessions behind them; extends `Configuration` for what a server may start with |
| `MCSandbox`, `MCApproval`, `MCWorkflow`, `MCLive`, `MCRoot`, `MCRest` | constants of the runs |
| `SandboxProofs`, `ApprovalProofs`, `LiveProofs`, `RestProofs`, `RegistryProofs`, `RootProofs`, `GraphProofs`, `WorkflowProofs` | theorems and proofs; `RootProofs` extends `RegistryProofs`, `WorkflowProofs` extends `GraphProofs` |

A definition named `...Late`, `...Skipped`, `...Unlocked` and the like, with the
comment "Variant", is a plausible bug of the operator after it. No behaviour
uses it; it documents what the properties are sensitive to (`PROJECT.json`,
"mutants").

### From the code to the model

*Sandbox.* `pc[c]` is where the call is in `execute_code`: `queued` after
`container = self._container` and before the lock, `joining` in `worker.join`,
`draining` while it reads `exec_run`'s generator, `killing`/`removing`/
`starting`/`verifying` in `_recover_container`. Each Docker request is one
action, since other threads run during it. `worker`, `box` and `target` are the
call's thread, `result_box` and local `container`. A join may run out whenever
the worker is alive: the model has no clock. Output is counted per stream, in
the code's units, against `MaxOutput`; its content is left out.

*Approval.* `Visit` is one iteration of `iter_llm_agents` and of its caller's
loop; `Advance` goes from the preset's hook to `require_approval` to
the policy section, in the order of `Preset.build` and `agent.py`. A tool is
what the callbacks can tell of it: its place in the name lists, its mutating
marker, whether it is gated, and whether it wants confirmation itself. ADK's
side, which asks the user and tries the call again, is `Answer` and `Resume`.

*Workflows.* `GraphSpecs` is translated function by function; a name is a
tuple, so that `a_join` is the name `a` with a suffix. `Load` is the
whole path from configuration to compiled graph, with its refusals (`Accepted`);
`Levels` are the graphs that are compiled, the nested ones too. `Complete`
is the engine's rule (routes, default route, joins, nested graphs), and
`FinishLlm`, `LoopCounter`, `RouteDispatch`, `AggregatePerspectives` and
`PlanExecute` are the functions of `compile/workflow.py`. `waits` models nodes
that wait for the user; a paused run is resumed or abandoned. The calls of a
plan are the planner's `run_node` calls of one run, so a new message has none.

The loader accepts graphs in which nothing could be promised: a loop counter
that is entered from elsewhere, a specialist that is reached without the
router. `Wired` says how the graphs of the sugar forms, the presets and the
examples are wired, and `Synthesizable` what synthesis is added to. `Promised` says
what it is for a graph to have the order for its stages: a node of a stage has
its place in a graph that streams, after those of the stages before it, a loop's is the
body of its counter, and of a `one` stage a router selects whatever is replied.
`Concludes` says when a synthesis after them can be a stage of its own.

The specification is about configurations of two kinds (`SourcesAssumption`, which TLC
evaluates on the sources of the runs). Of a sugar form that is `Ordinary`, and whose stages are
its items in the order listed, nothing else is assumed (`FromForm`; if synthesis is added,
no stage has the name of the synthesizer or its join). Any other configuration, a graph that is given as
nodes and edges, is assumed to be `Known`: wired and promised, and with synthesis
`Synthesizable` and concluded by it. That the forms and the presets are `Known` is proved, and
that graphs are still wired, and keep what they promise, after `with_synthesis`. `Ordinary`
forms name llm nodes and custom functions, a node once
in a sequence, and the join, counter and nested graphs that are added have names of
their own, as have `START` and the nodes of synthesis. The code accepts forms that are
not, and then it is not the order listed that is run:

- a sequence with two loops over the same body: they share one counter in
  the session, so that the second ends at once;
- a sequence that lists a node twice, as `[a, a]`: its edges are START to `a` and
  `a` to `a`, which is valid, and goes in circles;
- a nested form with the name of a declared node: `expand_sequence` and the parser keep
  the declared node in its place, and what the form says is lost;
- two items of a sequence that name the same node: it is in two graphs, and runs twice.

A parallel has to name two different nodes: `[a, a]` would have a join with one
predecessor.

A sequence that nests a declared graph node is not `Ordinary` either; the example graph that
has one is checked by TLC only.

*Live.* A step lasts from one `await` to the next, as on an event loop; only
`Charge` (`_message_is_rate_limited`) stands for code under a lock.
`pc[c]` is where the handler is: waiting for the `first` frame, at `bind`
between authentication and the session, at `greet` in the first send, in the
receive `loop`, or at `await` in `finally`. `closed` is who closed the socket,
`late` a frame that was under way when it closed. Token validation is reduced
to its outcome, a frame to what the handler does with it. The queue is opened and
the shared runner built before the handler's `try`: where building the first
runner raises (`BuildFails`), the handler ends with its queue open, and nothing
in the code closes it. `queue[c]` is that of the latest handler of `c`, so the
next one to use the slot starts without.

*Registry and root.* A name is a word and whether it is written in upper case,
which is all that `lower()` can tell. `todo` is what the call at work has yet to
register, `call` the modules it loads: `Ask` is `get_default_registry`, which
publishes an empty registry and then has the built-in presets and the module of
`AGENT_USE_CASE_MODULE` to register, and `LoadModule` is `load_custom_use_cases`.
Each turn of its loop is one of `Skip`, `RegisterPreset`, `RefuseKey`, `RefuseAlias` and
`RefuseEntry`; the last three raise, and end the call. `loaded` and `refused`
are history.

A build is the steps of `resolve_agent_config` and `_build_root_agent` in their
order, `pc` saying which is next: `config` (`Configure`), `tools` (`ToolsBuilt`,
`ToolsRefused`), `probe` and `start` of a strategy (`ProbeFinds`, `Starts`, and their
failures), `context` (`ContextBuilt`) and `build` (`BuildGraph`, `BuildPreset`). Each
may raise, which leaves `root` unset and whatever the steps before have written: the
strategy (`resolution`) and the snapshot (`recorded`). Between attempts the
file may be edited (`EditFile`) and modules loaded; the Docker daemon comes and
goes at any time (`DaemonTurns`), in particular between the probe and the start. What a
preset's graph needs of the function registry is a set of names, its topology
is `GraphSpecs`'. A list of names is a set, a value is one of a few, and
`Unset` (no variable), `Empty` (a variable or a value that says nothing) and
`Absent` (no key in the file) are kept apart, as the code does in most places
but not in all. The sections left out of a file's record change nothing that the
properties speak of.

*REST.* The middleware awaits nothing but the body between a request's arrival and
its decision, and decides on the request and its cookie alone, so that `Admit`,
`Refuse` and `Bypass` are one step each; `Serve` is the API server's (external: it
creates or uses a session of the user that the path or the body names, without
asking whose it is), `Respond` brings the cookie, and `Lose` is a request that
ends without a response. `Sendable` is what a client may send: any path, any user it
may know of, with any credentials. A token is random, and not
guessed: another client knows one only after it was issued.

## Runs

| Run | Configuration | Shows |
| --- | --- | --- |
| `sandbox_executor` | 2 calls, 3 containers, both clients, every fault, buffers of 2 units, chunks of 1 and 3 | types; after a recovery the current container is usable (`IdleContainerUsable`); no container runs unseen (`NoOrphanContainer`); overrun code is stopped (`OverrunIsStopped`); no call is killed for another's timeout (`NoForeignKill`); cut output is marked (`NoSilentTruncation`); the executor implements `SandboxService`; every call returns when the client blocks, or when all code ends (`EveryCallReturns`) |
| `approval_gate` | every root, policy and tool over four nodes, 2 calls | chains complete and in order, mutating calls confirmed, gated calls approved, confirmation flow open |
| `workflow_runs` | every sugar form, preset and example graph, one routed graph with synthesis after it, 3 messages, 2 waits per run | the graph implements its stages, loops are exact in a fresh session, outputs and perspectives are in order, routes obey the reply, every run settles |
| `live_service` | 2 connections, 2 subjects, 2 sessions, limit 1, window 1, times 0 and 1 | the budget is exact, refusals are deserved, windows are swept, sessions are the subject's own, handlers clean up unless the first runner cannot be built, and a handler whose socket is closed ends |
| `root_agent` | 2 built-in presets; 7 custom modules, or the ways in which environment and file can disagree about code execution and about the other options | `BuiltinsStand`: nothing replaces a built-in preset; `AliasesKeepMeaning`; `NoDeadAlias`: an alias leads nowhere only after a refusal; `LoadedIsServed`: what was loaded resolves; `ServesConfigured`: the root is the configured preset, and reported as such unless a refused registration has left an alias; `ReportedIsServed`: so are its tools, model and strategy; `CodeRunsWhereTold`: code runs in the strategy that was named, on the host only when told to; `PathsAgree`: a file that says nothing changes nothing |
| `rest_binding` | 2 clients, one with two requests at once, 3 tokens, 2 subjects, 8 server settings | `SessionsStayApart`: a user's sessions are used by that user, and an anonymous user's by one client; `SessionsStayReachable`: an anonymous client keeps its sessions while it keeps its cookie; `ProductionAuthenticates`: production serves nobody without a valid token and its role |

Bounds, and why they are enough.

- *Sandbox:* two calls are the least at which one waits for the lock while
  another times out. Each call replaces at most one container, so three are
  never used up; as they are interchangeable, the constraint `InOrder` has them started
  in one order. Chunks of 1 and 3 against buffers of 2 fill them exactly, at
  once and beyond. What lies beyond these sizes is covered by the proofs.
- *Approval:* the trees are the shapes that the builders produce. Two calls are
  enough for the answer to one to meet another.
- *Workflows:* the third message meets counters that are one beyond the
  bound and then two. `LoopSize` 3 tells exact from off by one; three steps
  have orders that two do not. `MaxTimes` 5 is above any count a correct
  run reaches. Nesting is one deep, as the parser allows.
- *Live:* two sockets of one subject race for its one message, and the window
  of a subject that stays away is swept by the other's. With a window of 1 and
  times 0 and 1, a message expires exactly at the cutoff. Connections come
  back any number of times. `MaxSessions` bounds what is ever created, and one
  frame per closed socket may be under way. Windows with several messages are
  left to the proofs, which hold for every limit.
- *Registry and root:* the modules are the ways in which keys and aliases can
  meet: a key in mixed case, a key that is another's alias, an alias that is
  another's key, an alias that is taken after others were accepted, a preset that
  is skipped, an entry that is none. They may be loaded in any order, any number
  of times, and each may be the one of the environment. It takes two of
  them, in one order, until a name resolves to a preset of which the second look
  at the aliases finds nothing, and two others (`StaleModules`) until the key
  that a refused preset's aliases lead to is an alias of the next one.
- *Configuration:* three groups of deployments (`MCRoot`). `WithModules` varies
  modules and functions under a fixed configuration; `CodeEnvirons` with
  `CodeFiles` varies where code runs (tools, model, deployment, named
  strategy, image, managed sandbox; no file, or files that name other
  strategies, other providers or a graph that does not compile) under a
  daemon that comes and goes; `OptionEnvirons` with `OptionFiles` varies use case,
  tools, iterations, roster and model, each unset, empty or given, against
  files that are rich, wrong or unreadable. Options and modules meet in the use
  case only, so the groups are not multiplied.
- *REST:* two requests of one client are the least that are both its first; the
  second client is the one whose sessions must not be touched. With three
  tokens a client may lose its cookie and come back; when tokens run out first
  requests wait. Tokens and subjects are interchangeable, hence the symmetry;
  no liveness is checked there.

Deadlock is checked in the sandbox, live, root and REST runs. In the approval and workflow
runs the session is over when its calls or messages are used up, so they say
`CHECK_DEADLOCK FALSE`.

Fairness.

- *Sandbox:* a thread that can take a step takes it, a join with a timeout ends,
  and a Docker request ends (the client's request timeout is 60 s). Nobody has
  to call, and a stream that stays silent stays open: nothing in the code
  bounds that read.
- *Workflows:* a node or plan step that runs comes to an end, and the engine
  notices that nothing runs. Users need not answer: a paused run may stay so.
- *Live:* the event loop runs a handler unless it waits for its client
  (`Waits`), and a cancelled task ends, since `_forward_events` re-raises a
  cancellation. Clients need not send, close or connect.

### Where code and documents disagree

Six runs are expected to be violated; each checks one statement of the
repository's documents, comments or tests (quoted in `PROJECT.json`,
"findings").

| Run | Statement | What the code does |
| --- | --- | --- |
| `sandbox_timeout` | the snippet runs under a real wall-clock timeout | with a client that streams, output is read after the join, under the lock and without a timeout |
| `sandbox_stale` | the container is usable again on the next call | a call that was waiting for the lock runs in the container it read before, which has been removed |
| `approval_confirm` | after the human confirms, the tool proceeds | the policy looks at a state flag that nothing sets, not at the confirmation |
| `approval_required` | `require_approval` applies a gate that binds the whole tree | the executor of `plan_and_execute` has no edge, so the walk misses it, and a declared graph never looks at the flag |
| `workflow_budget` | a loop runs its body while its budget lasts | the counter is never reset: later messages run the body once |
| `explicit_settings` | environment variables win when they are given, and any explicitly customized value wins over a preset's default | a variable that is passed on empty hides the file's strategy, and a bound of 3 counts as not given |

The passing runs say what does hold: for instance `FreshLoopExact` speaks of a
session's first run, `GatedRunsApproved` of the agents the walk reaches,
`EveryCallReturns` of blocking clients or code that ends, and `ServesConfigured` of
registries in which no alias hides a key (`register` accepts one that does, and
then the preset that is served may be another than the one reported). The proof
of `ServesConfigured` found one more such case: a refused registration leaves
aliases of the refused key, a later preset may take that key as an alias of its own,
and a name left behind then resolves in two steps. The later preset is served, and
the refused key is reported.

Three more, seen while reading, need no run; of the third no document or test says
otherwise. The quick start (README.md:30-38) sets
`AUTH_DISABLED=true` without `DEPLOYMENT_ENV`, which settings.py:133-139 refuses, since
an unset deployment counts as production; neither the image nor the command
sets it. When a function module fails half way, functions.py:178
logs "serving built-in functions only", but the functions registered before the
fault stay. When the first runner cannot be built, live.py:275 raises before the `try`
whose `finally` closes the queue of live.py:274, which stays open; no task has it, and
`HandlerCleansUp` states just this exception.

## Proofs

The theorems about behaviours follow from an inductive invariant, those of
`GraphProofs` and `PathsAgree` from the definitions alone; all are proved for any
value of the constants allowed by the named assumptions.

*`SandboxProofs`*, from `ConstantsAssumption` (the marks for "no holder" and
the exit hook are not calls, a buffer holds at least one unit). `Inv` adds to
`TypeOK`: `LockInv`, that the holder of the lock is the one call past
`Acquire`; `ReplyInv`, that a call has a reply exactly when it has returned;
`StageInv`, what has become of the current container at each stage of a recovery;
`FreshInv`, that containers known to calls have existed, so that a new one
is nobody's; `SoundInv` and `LossInv`. The safety properties say nothing of
the stages in between, so they are not inductive: that a replaced container is
down depends on the kill two steps before it. Proved: `TypeOK`,
`IdleContainerUsable`, `NoOrphanContainer`, `OverrunIsStopped`,
`NoSilentTruncation`, `NoForeignKill`, and `Refinement`, that the executor
implements `SandboxService`.

*`ApprovalProofs`*, from `ApprovalAssumption` (trees, configurations and tools
are of their types, and a node has one parent, since the compiler builds an agent
for each sub-agent and a node for each node of a graph). `WalkComplete` says that the walk has lost no node: what is below a
visited node is visited or pending. When nothing is pending, the visited nodes are
therefore closed under `below` and contain all that is `Reached`; from this
comes `PoliciesLinked`. `WalkOnce` says that it meets no node again, so that what is
pending has not been visited, and `ChainsExact` what each chain is at each point
of the wiring; together they give `ChainsComplete`, that every chain has the links
it should, once each and in order. Proved: `TypeOK`, `ChainsComplete`,
`MutatingCallsConfirmed`, `GatedRunsApproved`, `ConfirmationFlowOpen`.

*`LiveProofs`*, from `BudgetAssumption` (limit and window at least 1, as the
settings require) and `LiveAssumption`. `BudgetHolds` speaks of the log of
admitted messages only; what keeps it is `IsSuffix`: a subject's window is the
end of its log, and what precedes it has expired, whether or not the window is
retained. A message is admitted when the window holds less than `Limit`, so the
one `Limit` before it has expired. The sweep ends at the least index that
has not expired, which exists by well-founded induction on the naturals.
`ConnOK` says what a handler has by where it is: a user once authenticated, a
session and a task once bound, and until it ends an open queue only while it
serves. Proved: `TypeOK`, `BudgetHolds`, `RefusedOnlyWhenSpent`, `WindowsSwept`,
`OwnSessionsOnly`, `HandlerCleansUp`. The last is about the step in which a handler
ends, since what it leaves depends on the way it ended: after `finally` nothing,
before the `try` perhaps an open queue.

*`RestProofs`*, from `RestAssumption` (requests are a client's, and the kinds of
names are kept apart), for any number of clients, requests, tokens and subjects.
That sessions stay apart is a matter of what is under way: `ClaimsBound` says
that whoever acts for a subject proves it, `OneHolder` that a
cookie is held or awaited by one client, `CookieUnused` that a cookie on its way is
known to its request alone and has no session, so that the client that is to get
it is the first to act for it. `CookieKept` adds what a client that kept its cookie
has used: the sessions of that cookie's user and no others. Proved: `RestTypeOK`,
`SessionsStayApart`, `SessionsStayReachable`, `ProductionAuthenticates`.

*`RegistryProofs`*, from `RegistryAssumption` (the types; there is a built-in) and
`BuiltinsAssumption` (the catalog's keys differ, and so do its aliases). That a
built-in is always registered rests on the order in which it happens:
`BuiltinsFirst` says that the first n have been registered, that the next calls to come are
the others, and that until then there is nothing that could be in their way; so
what a module brings comes too late to replace or refuse one. `EntriesServed` says
that as long as nothing was refused, an entry of a module that is loaded, or being
loaded, is served or still to come. Proved: `RegistryTypeOK`, `NoDeadAlias`,
`BuiltinsStand`, `LoadedIsServed`, `AliasesKeepMeaning`.

*`RootProofs`*, from `RootAssumption` and `ConfigurationAssumption` (a deployment's
parts are of their types; a file says every field) and the two above.
`RootUsesRegistry` proves that `RootAgent` implements `UseCaseRegistry`, step by
step: the root agent does nothing to a registry but what `RegistryNext` allows. So
the registry's invariant and promises carry over. `RootInv` says what is
known at each `pc`: that no registration is under way while a build is
(`RootEndsWork`), that the configuration at work is what environment and file
say (`ConfigAsStated`), that the strategy is one that the environment or file allows
(`StrategyFits`, `ResolutionFits`), and that what an earlier attempt has left in the
globals has been written again before the root is set (`SnapshotFits`,
`RootFits`). Proved: `TypeOK` and the registry's properties of the root
agent's behaviours, `ReportedIsServed`, `CodeRunsWhereTold`, `ServesConfigured`, and
`PathsAgree`, which is a fact about `Configuration` alone.

*`WorkflowProofs`*, from `WorkflowAssumption` (the bounds are numbers) and
`SourcesAssumption`, for any ordinary forms and any graphs that are `Known` (`SourcesKnown`: the
forms are too), any replies, any number of steps, messages and waits. `WorkflowInv` is, besides
types, in parts:

- `InStream`: in a graph that `Streams`, a node runs once at most, when everything that leads to
  it is done, and begins at once where no edge waits for a route; a join has seen those of its
  predecessors that are done. In one that `Flows` nothing is left out (`InFlow`, a
  consequence). A loop that
  is nested in such a graph is therefore entered once in a run, and when nothing runs
  any more, all of the graph has run (`AllDone`: what has not would be a part in
  which every node waits for another of it). `Nested`: nothing runs inside a graph that
  does not.
- `LoopsKept`, `CountsBounded`: while a loop has not been left, its counter has
  counted as many runs as there were (in a fresh session) and is below its
  bound; in a later run it may be beyond it by one for each run before. This is why a
  later message runs the body once, and why it runs it only once. From these come
  `FreshLoopExact` and the bounds in `TypeOK`.
- `TellersAlone`: the node that writes `routed_to` never runs beside the router
  or its specialists, so that what the router has read still stands when they
  run (`RoutedAsReplied`). That the router takes the first specialist that
  the reply names needs the least index, which exists by well-founded induction
  on the naturals.
- `PlanKept`: under a `run_id` of its own, the engine holds each step's own output,
  so that `plan_outputs` is in the order of the plan whatever order the
  steps end in (`PlanOutputsInOrder`).
- `Gathered`: once the aggregation has run, `aggregated` is what is collected from
  the perspectives of the session, since nothing that writes one is left
  to run: the aggregation is the one end of its graph (`EndExists`: every
  node leads to an end), so it begins when all others are done (`AggregatorLast`). That the
  perspectives can be put in order at all is an induction on their number
  (`SortedInOrder`). From it comes `AggregatesAll`.
- `LoopPaced`, `Untold`, `Chosen`: what only the stages need. A loop's body has run at
  most as often as its bound, and at least once when it is left; where no node tells the
  router anything, it has been told nothing; of the nodes that a router selects from, exactly one
  has begun when the router is done.

`WorkflowImplementsStages` is the refinement of `StagedRun`, step by step: `Message` begins a run,
`End` ends it, a step that fails fails it, the completion of a node that a stage names is its
`Run`, and every other step stutters. When a node of a stage runs, it has been met (`Met`), so what it
waits for is over (`AncestorDone`: one node that has begun, together with all that is done, is a
part of the graph that is closed under what leads to it),
in particular the stages before (`StageBefore`), while those after it have not been met, or its own
would be over. A run ends when nothing runs any more, and then what is certain to run has
(`CertainDone`). A node that waits for two of which a router selects one never runs
(`Skipped`, `StageOfMet`): the synthesis after a routed graph.

*`GraphProofs`* are the facts about graphs, without behaviours. `SynthesisWired`
says that `with_synthesis` keeps a graph `Wired`: the names it adds are new (a
graph in which one of them is taken is refused as having two nodes of a name), nothing
that it adds leads back, so that what flowed still flows, and every node that was
an end now leads to the aggregation. A graph without a terminal is
refused, as its join has no predecessors; this is the reason why a served loop has
no synthesis. `SynthesisPromised` says that stages keep their place and their order, and that
the synthesizer comes after all of the graph (`BeforeSynthesis`): whatever it did not wait
for would be a part of the graph without an end. `FormsServed` is about the
expansions: any `Ordinary` form, whatever its nodes, length and bounds, is accepted, and its
graph is valid, compiles, is `Wired` and keeps what `FormStages` says, a stage for each item in the
order listed. A parallel flows to its join (`ItemFlows`), a loop is its body
and its counter (`ItemLooped`); a sequence flows from place to place
(`ChainFlows`), so that what an earlier place holds is before what a later one does, whether
it stands in the sequence itself or in a nested graph (`ChainBefore`, `ChainHome`), and two
of its loops have two counters (`CountersApart`). With `WorkflowImplementsStages` this says
that a configuration by such forms runs its items in the order listed, with or
without synthesis: `FormsSynthesized` shows that a form that compiles with synthesis is
`Synthesizable` and concluded by it, since one without a terminal does not compile
(`EndlessRefused`). TLC evaluates `Ordinary` on the forms of the runs (`OrdinaryForms`).

The presets' graphs are proved to be served (`ServedAs`: valid, compiled, `Wired`,
`Promised`) whatever their counts: `SequencesServed` (`assistant`, `pipeline` of any
number of steps, `approval_gate`), `RefineServed` (`evaluator_optimizer`, any number of
iterations), `PlanServed` (`plan_and_execute`), `DispatchServed` (`expert_dispatch`, any
roster in which no specialist is named like the default route or like no route), and
`WorkersOrdinary` (`multi_perspective`, any number of workers from two on). Their
hypotheses are that the names of the preset's router, executor, counter or join are not stage names, which TLC
evaluates (`PresetsUnstaged`), and for steps and workers that `ToString` writes
different numbers differently, of which the provers know nothing.

Only model-checked:

- `EveryCallReturns`, `RunSettles` and `HandlerReturns`: liveness, out of the prover's
  reach.
- That the explicit graphs of the examples (`FanOut`, `NestedExample`, `RoutedExample`) are
  `Known`: it is evaluated for the sources of the runs, as an assumption of the
  specification. An operator's own graph need not be.

## What is not modelled

- The contents of tokens, frames, prompts, replies and program output, and
  logging, metrics and traces: no property depends on them beyond the
  distinctions above.
- In graphs: two declared nodes of one name; retries and timeouts, which are
  passed on to the engine; an edge that is listed twice. Edges are a set here,
  while `validate` counts a list: it takes a parallel of `[a, a]`, whose join has one
  predecessor twice, and the model refuses it. Nor the checks of data in
  `validate` and `_resolve_function`: that names are identifiers, routes
  scalars, and a router's `options.routes` a list of names that is not empty.
- What becomes of the other steps of a plan when one fails: the run fails, and the
  engine is taken to stop them at once (`Quit`), although `gather` itself does not
  cancel them. `PlanOutputsInOrder` is about plans that complete.
- That a container which died by itself is never replaced, and that an approval is
  the session's and not a call's, are in the models as the code has them, and
  `IdleContainerUsable` and `GatedRunsApproved` do not object to them.
- In configuration: the order of lists and duplicates in them; parsing and the
  substitution of placeholders (a file is taken as it reads after them);
  sections that only configure the construction of toolsets; the capabilities
  of `autoconfig.py`, which are reported and decide nothing.
- In REST: the URIs and the documentation routes of `create_app`. `Uses` takes the
  A2A paths (`a2a=True`) to use no sessions of a named user, and there are no WebSocket
  routes of ADK's own app in the model: their scopes pass `BaseHTTPMiddleware` by, so
  that `ProductionAuthenticates` and `SessionsStayApart` are about HTTP requests only. In the gateway:
  everything; it is stateless and asks the question that `Authenticated` models.
  The live interface takes any cookie of the anonymous pattern; `LiveService` has
  the outcome only.
- The knowledge tool's cache, a single function over one file.
- Concurrent runs of one session, which belong to the session store.
- Docker, ADK, the ASGI server and the identity provider, except for what
  this code sees of them.
- The components with status `not_modelled` in `PROJECT.json`, each with its
  reason: they hold no state of their own, do plain input and output, or are
  planned below.

## Plan

Done, in this order: the executor, where concurrency and failure meet; approval,
the safety promise of the service; the workflows; the live interface; the
registry; the root agent with configuration and strategy resolution; REST.
Abstract specifications: `SandboxService` and `StagedRun`.

Proved since: the safety properties of every component, as listed above, both
refinements, and that forms and presets are what the workflows are assumed to be.

Next, of the model: the docstring of `register` (an alias that is already
registered is refused) against aliases that hide keys, as a run of its own; two
declared nodes of one name; edges that are listed twice.

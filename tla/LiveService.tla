---------------------------- MODULE LiveService ----------------------------
(***************************************************************************)
(* The WebSocket interface (interfaces/live.py): one handler per           *)
(* connection, which authenticates it (auth/core.py), binds it to an ADK   *)
(* session of its subject, starts a task that forwards the agent's events, *)
(* and receives frames until either side ends; the message budget is       *)
(* shared by all connections.  Handlers and tasks run on an event loop: a  *)
(* step lasts from one await to the next.                                  *)
(*                                                                         *)
(* External: the server (accepting, closing, delivering frames), the       *)
(* agent's event stream, the session store.                                *)
(***************************************************************************)
EXTENDS MessageBudget, FiniteSets

CONSTANTS Conns,      \* slots for connections: one may be used again
          MaxSessions,\* bound on sessions ever created
          None

ASSUME LiveAssumption == MaxSessions \in Nat

VARIABLES
  pc,       \* where each connection's handler is; "gone" before and after
  closed,   \* "open", or who closed the socket; "budget" is 4429
  late,     \* did a frame arrive before the socket was closed that the
            \* handler has not received?
  user,     \* user_id
  session,  \* the ADK session the connection is bound to
  queue,    \* is the LiveRequestQueue of its latest handler open?
  task,     \* event_task
  owner,    \* the session store: the user of each session, by its number
  runner    \* has _runner been built?

conn == <<pc, closed, late, user, session, queue, task>>
vars == <<budget, conn, owner, runner>>

Reasons == {"client", "server", "budget"}

Init ==
  /\ BudgetInit
  /\ pc = [c \in Conns |-> "gone"]
  /\ closed = [c \in Conns |-> "open"]
  /\ late = [c \in Conns |-> FALSE]
  /\ user = [c \in Conns |-> None]
  /\ session = [c \in Conns |-> None]
  /\ queue = [c \in Conns |-> FALSE]
  /\ task = [c \in Conns |-> "none"]
  /\ owner = <<>>
  /\ runner = FALSE

Goto(c, label) == pc' = [pc EXCEPT ![c] = label]

(* websocket.close: on a closed socket it raises, which changes nothing.   *)
Close(c, reason) ==
  closed' = [closed EXCEPT ![c] = IF @ = "open" THEN reason ELSE @]

(* The handler returns or raises: the server drops the connection.         *)
Return(c) ==
  /\ Goto(c, "gone")
  /\ closed' = [closed EXCEPT ![c] = "open"]
  /\ late' = [late EXCEPT ![c] = FALSE]
  /\ user' = [user EXCEPT ![c] = None]
  /\ session' = [session EXCEPT ![c] = None]
-----------------------------------------------------------------------------
(* The client; what it does once the handler has stopped receiving is of   *)
(* no effect.                                                              *)

Leave(c) ==
  /\ pc[c] \notin {"gone", "await"} /\ closed[c] = "open"
  /\ Close(c, "client")
  /\ late' \in {late, [late EXCEPT ![c] = TRUE]}
  /\ UNCHANGED <<budget, pc, user, session, queue, task, owner, runner>>

(* While the socket is open a frame may come at any time.                  *)
HasFrame(c) == closed[c] = "open" \/ late[c]
-----------------------------------------------------------------------------
(* Authentication and session.                                             *)

Authenticated(c, s) ==
  /\ user' = [user EXCEPT ![c] = s]
  /\ Goto(c, "bind")
  /\ UNCHANGED <<closed, session, task>>

(* 4401, or 1011 for an error nobody expected; then the handler returns.   *)
Rejected(c) ==
  /\ Return(c)
  /\ UNCHANGED task

(* A client connects: its handler has no queue yet.  Its header or         *)
(* subprotocol decides at once, as does AUTH_DISABLED; without them the    *)
(* connection is accepted and must authenticate by its first frame.        *)
Connect(c) ==
  /\ pc[c] = "gone"
  /\ \/ \E s \in Subjects : Authenticated(c, s) /\ UNCHANGED late
     \/ Rejected(c)
     \/ /\ Goto(c, "first")
        /\ UNCHANGED <<closed, late, user, session, task>>
  /\ queue' = [queue EXCEPT ![c] = FALSE]
  /\ UNCHANGED <<budget, owner, runner>>

FirstFrame(c) ==
  /\ pc[c] = "first" /\ HasFrame(c)
  /\ \/ /\ \E s \in Subjects : Authenticated(c, s)
        /\ late' = [late EXCEPT ![c] = FALSE]
     \/ Rejected(c)
  /\ UNCHANGED <<budget, queue, owner, runner>>

FirstDisconnect(c) ==
  /\ pc[c] = "first" /\ ~late[c] /\ closed[c] # "open"
  /\ Rejected(c)
  /\ UNCHANGED <<budget, queue, owner, runner>>

(* Variant: the store is asked for the id alone.                           *)
MayUseAny(s, id) == id \in DOMAIN owner
MayUse(s, id) == id \in DOMAIN owner /\ owner[id] = s

(* _session found or created the session: the handler opens the queue,     *)
(* has the runner (_get_runner builds it once) and the task, and awaits    *)
(* the send of the session frame.                                          *)
Serve(c, id) ==
  /\ session' = [session EXCEPT ![c] = id]
  /\ queue' = [queue EXCEPT ![c] = TRUE]
  /\ task' = [task EXCEPT ![c] = "running"]
  /\ runner' = TRUE
  /\ Goto(c, "greet")
  /\ UNCHANGED <<budget, closed, late, user>>

Resume(c, id) ==
  /\ pc[c] = "bind" /\ MayUse(user[c], id)
  /\ Serve(c, id)
  /\ UNCHANGED owner

Create(c) ==
  /\ pc[c] = "bind" /\ Len(owner) < MaxSessions
  /\ owner' = Append(owner, user[c])
  /\ Serve(c, Len(owner'))

(* The requested session is another's or nobody's (4403), or the store     *)
(* fails: nothing has been started.                                        *)
BindFails(c) ==
  /\ pc[c] = "bind"
  /\ Return(c)
  /\ UNCHANGED <<budget, queue, task, owner, runner>>

(* The session was found or created, the queue is open, and the first      *)
(* runner cannot be built: the handler raises before its try, so that      *)
(* nothing closes the queue.                                               *)
BuildFails(c) ==
  /\ pc[c] = "bind" /\ ~runner
  /\ \/ (\E id \in 1..MaxSessions : MayUse(user[c], id)) /\ UNCHANGED owner
     \/ Len(owner) < MaxSessions /\ owner' = Append(owner, user[c])
  /\ queue' = [queue EXCEPT ![c] = TRUE]
  /\ Return(c)
  /\ UNCHANGED <<budget, task, runner>>
-----------------------------------------------------------------------------
(* The message loop.                                                       *)

(* Variant: the task is not cancelled.                                     *)
FinallyUncancelled(c) ==
  /\ queue' = [queue EXCEPT ![c] = FALSE]
  /\ Goto(c, "await")
  /\ UNCHANGED task

(* However the loop ends: the queue is closed, the task cancelled and      *)
(* awaited.                                                                *)
Finally(c) ==
  /\ queue' = [queue EXCEPT ![c] = FALSE]
  /\ task' = [task EXCEPT ![c] = IF @ = "running" THEN "cancelled" ELSE @]
  /\ Goto(c, "await")

(* receive_text waits for a frame, and raises if this side has closed.     *)
ReceiveNext(c) ==
  \/ /\ closed[c] \in {"open", "client"}
     /\ Goto(c, "loop")
     /\ UNCHANGED <<queue, task>>
  \/ closed[c] \notin {"open", "client"} /\ Finally(c)

(* The session frame: on a socket the client has left the send may raise.  *)
Greet(c) ==
  /\ pc[c] = "greet"
  /\ ReceiveNext(c) \/ (closed[c] = "client" /\ Finally(c))
  /\ UNCHANGED <<budget, closed, late, user, session, owner, runner>>

(* Text, audio or activity: queued for the task.                           *)
Accept(c) ==
  /\ ~Limited(user[c])
  /\ Charge(user[c])
  /\ ReceiveNext(c)
  /\ UNCHANGED closed

(* {"close": true} leaves the loop and the socket open; a message that is  *)
(* not text, audio or activity, or a bad one of these, closes it.          *)
Decline(c) ==
  /\ ~Limited(user[c])
  /\ Charge(user[c])
  /\ Close(c, "server") \/ UNCHANGED closed
  /\ Finally(c)

(* Over the budget: 4429.                                                  *)
OverBudget(c) ==
  /\ Limited(user[c])
  /\ Charge(user[c])
  /\ Close(c, "budget")
  /\ Finally(c)

(* Too large or not a JSON object: closed before it counts.  A binary      *)
(* frame raises instead.                                                   *)
Junk(c) ==
  /\ Close(c, "server") \/ UNCHANGED closed
  /\ Finally(c)
  /\ UNCHANGED budget

Receive(c) ==
  /\ pc[c] = "loop" /\ HasFrame(c)
  /\ late' = [late EXCEPT ![c] = FALSE]
  /\ Accept(c) \/ Decline(c) \/ OverBudget(c) \/ Junk(c)
  /\ UNCHANGED <<user, session, owner, runner>>

Disconnect(c) ==
  /\ pc[c] = "loop" /\ ~late[c] /\ closed[c] # "open"
  /\ Finally(c)
  /\ UNCHANGED <<budget, closed, late, user, session, owner, runner>>

(* Variant: the task is not awaited.                                       *)
AwaitTaskSkipped(c) ==
  /\ pc[c] = "await"
  /\ Return(c)
  /\ UNCHANGED <<budget, queue, task, owner, runner>>
AwaitTask(c) ==
  /\ pc[c] = "await" /\ task[c] = "none"
  /\ Return(c)
  /\ UNCHANGED <<budget, queue, task, owner, runner>>
-----------------------------------------------------------------------------
(* event_task: _forward_events.                                            *)

(* An event is too large: 1009, and the task returns while the handler     *)
(* goes on.                                                                *)
Oversize(c) ==
  /\ task[c] = "running"
  /\ Close(c, "server")
  /\ late' \in {late, [late EXCEPT ![c] = @ \/ closed[c] = "open"]}
  /\ task' = [task EXCEPT ![c] = "none"]
  /\ UNCHANGED <<budget, pc, user, session, queue, owner, runner>>

(* The stream ends, the agent or a send raises (logged and swallowed), or  *)
(* the cancellation arrives.                                               *)
TaskEnds(c) ==
  /\ task[c] # "none"
  /\ task' = [task EXCEPT ![c] = "none"]
  /\ UNCHANGED <<budget, pc, closed, late, user, session, queue, owner, runner>>
-----------------------------------------------------------------------------
Handler(c) ==
  \/ FirstFrame(c) \/ FirstDisconnect(c)
  \/ \E id \in 1..MaxSessions : Resume(c, id)
  \/ Create(c) \/ BuildFails(c) \/ BindFails(c)
  \/ Greet(c) \/ Receive(c) \/ Disconnect(c) \/ AwaitTask(c)

Next ==
  \/ Tick /\ UNCHANGED <<conn, owner, runner>>
  \/ \E c \in Conns : \/ Connect(c) \/ Leave(c) \/ Handler(c)
                      \/ Oversize(c) \/ TaskEnds(c)

Spec == Init /\ [][Next]_vars

(* The event loop runs every handler that need not wait for the client,    *)
(* and a task that was cancelled ends: _forward_events does not swallow    *)
(* it, and neither does the agent.                                         *)
Waits(c) == pc[c] \in {"first", "loop"} /\ closed[c] = "open"
Fairness == \A c \in Conns :
  /\ WF_vars(Handler(c) /\ ~Waits(c))
  /\ WF_vars(task[c] = "cancelled" /\ TaskEnds(c))

FairSpec == Spec /\ Fairness
-----------------------------------------------------------------------------
TypeOK ==
  /\ BudgetTypeOK
  /\ pc \in [Conns -> {"gone", "first", "bind", "greet", "loop", "await"}]
  /\ closed \in [Conns -> Reasons \union {"open"}]
  /\ late \in [Conns -> BOOLEAN]
  /\ user \in [Conns -> Subjects \union {None}]
  /\ session \in [Conns -> 1..MaxSessions \union {None}]
  /\ queue \in [Conns -> BOOLEAN]
  /\ task \in [Conns -> {"none", "running", "cancelled"}]
  /\ owner \in Seq(Subjects) /\ Len(owner) <= MaxSessions
  /\ runner \in BOOLEAN

(* A connection streams from a session of its own subject, whatever id it  *)
(* asked for and whoever created it (_session).                            *)
OwnSessionsOnly ==
  \A c \in Conns : session[c] # None =>
    session[c] \in DOMAIN owner /\ owner[session[c]] = user[c]

(* However a handler ends, rejected, refused, disconnected by either side  *)
(* or by an error while it served, its task has ended and its queue is     *)
(* closed (live's finally).  There is one way round the finally: when the  *)
(* first runner cannot be built, the queue that was opened just before it  *)
(* stays open, though no task ever had it.                                 *)
HandlerCleansUp ==
  [][\A c \in Conns : pc[c] # "gone" /\ pc'[c] = "gone" =>
       /\ task[c] = "none" /\ task'[c] = "none"
       /\ queue'[c] => pc[c] = "bind" /\ ~runner]_vars

(* A connection is closed over its budget only if its subject really sent  *)
(* Limit messages within the last Window, on whichever connections.        *)
RefusedOnlyWhenSpent ==
  [][\A c \in Conns : closed[c] = "open" /\ closed'[c] = "budget" =>
       LET sent == log[user[c]]
       IN  Len(sent) >= Limit /\ sent[Len(sent) - Limit + 1] > now - Window]_vars

(* When either side closes the socket the handler comes to its end, with   *)
(* its task, wherever it was: no blocked receive, no task nobody cancels.  *)
HandlerReturns ==
  \A c \in Conns : closed[c] # "open" ~> pc[c] = "gone"
=============================================================================

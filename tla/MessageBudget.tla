--------------------------- MODULE MessageBudget ---------------------------
(***************************************************************************)
(* The message budget of the live interface (interfaces/live.py): one      *)
(* window of timestamps per authenticated subject, shared by all of its    *)
(* connections.  _message_is_rate_limited holds a lock from its first line *)
(* to its last, so Charge is one step.                                     *)
(***************************************************************************)
EXTENDS Integers, Sequences

CONSTANTS Subjects,   \* user ids of connections
          Limit,      \* live_max_messages_per_minute; settings refuse less than 1
          Window,     \* the 60 seconds a message counts for
          MaxTime     \* bound on the clock, and so on admitted messages

ASSUME BudgetAssumption ==
  /\ Limit \in Nat \ {0}
  /\ Window \in Nat \ {0}
  /\ MaxTime \in Nat

VARIABLES
  now,       \* time.monotonic()
  windows,   \* _message_windows: a deque for each retained subject
  log        \* each subject's admitted messages, as their times (history)

budget == <<now, windows, log>>

BudgetInit ==
  /\ now = 0
  /\ windows = <<>>
  /\ log = [s \in Subjects |-> <<>>]

Tick ==
  /\ now < MaxTime
  /\ now' = now + 1
  /\ UNCHANGED <<windows, log>>
-----------------------------------------------------------------------------
(* Variants: a timestamp counts one tick longer; empty windows stay; the   *)
(* limit is checked after the fact; the message goes to the window that    *)
(* was looked up before the sweep, which may have dropped it.              *)
ExpiredLate(time) == time < now - Window
Expired(time) == time <= now - Window

(* popleft while the oldest timestamp has expired.                         *)
Fresh(times) ==
  LET first == CHOOSE i \in 1..Len(times) + 1 :
                 /\ \A j \in 1..i - 1 : Expired(times[j])
                 /\ i <= Len(times) => ~Expired(times[i])
  IN SubSeq(times, first, Len(times))

(* Every subject's window is swept, the empty ones are dropped.            *)
KeptAll == DOMAIN windows
Kept == {s \in DOMAIN windows : Fresh(windows[s]) # <<>>}
Swept == [s \in Kept |-> Fresh(windows[s])]

WindowOf(s) == IF s \in Kept THEN Swept[s] ELSE <<>>

LimitedLate(s) == Len(WindowOf(s)) > Limit
Limited(s) == Len(WindowOf(s)) >= Limit

ChargeDetached(s) ==
  /\ windows' = IF s \in Kept /\ ~Limited(s)
                THEN [Swept EXCEPT ![s] = Append(@, now)] ELSE Swept
  /\ log' = IF Limited(s) THEN log ELSE [log EXCEPT ![s] = Append(@, now)]
  /\ UNCHANGED now

(* The subject's window is looked up again after the sweep.                *)
Charge(s) ==
  /\ windows' = [t \in Kept \union {s} |->
                   IF t # s THEN Swept[t]
                   ELSE IF Limited(s) THEN WindowOf(s) ELSE Append(WindowOf(s), now)]
  /\ log' = IF Limited(s) THEN log ELSE [log EXCEPT ![s] = Append(@, now)]
  /\ UNCHANGED now

BudgetNext == Tick \/ \E s \in Subjects : Charge(s)

BudgetSpec == BudgetInit /\ [][BudgetNext]_budget
-----------------------------------------------------------------------------
BudgetTypeOK ==
  /\ now \in 0..MaxTime
  /\ DOMAIN windows \subseteq Subjects
  /\ \A s \in DOMAIN windows : windows[s] \in Seq(0..MaxTime)
  /\ \A s \in DOMAIN windows : Len(windows[s]) <= Limit
  /\ log \in [Subjects -> Seq(0..MaxTime)]

(* However many connections a subject opens, and whenever its messages     *)
(* come, no Window holds more than Limit of its admitted messages: Limit+1 *)
(* consecutive ones span a whole Window (_message_is_rate_limited).        *)
BudgetHolds ==
  \A s \in Subjects : \A i \in 1..Len(log[s]) :
    i + Limit <= Len(log[s]) => log[s][i + Limit] - log[s][i] >= Window

(* A check leaves behind windows of subjects that sent something within    *)
(* the last Window and of no others: the map does not grow with the        *)
(* subjects that ever connected (the comment in _message_is_rate_limited). *)
WindowsSwept ==
  [][windows' # windows =>
       \A s \in DOMAIN windows' :
         \E i \in 1..Len(log'[s]) : log'[s][i] > now - Window]_budget
=============================================================================

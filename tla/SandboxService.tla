--------------------------- MODULE SandboxService ---------------------------
(***************************************************************************)
(* What the code-execution sandbox promises its callers, without threads,  *)
(* locks or Docker: calls are served one at a time, each gets exactly one  *)
(* reply, and the sandbox it runs in is replaced only on behalf of the     *)
(* call being served, when that call has overrun its time.  A call that is *)
(* told it timed out has had its sandbox replaced.                         *)
(***************************************************************************)
CONSTANTS Calls,      \* the calls of execute_code
          Sandboxes,  \* identities of sandboxes
          NoCall      \* no call is being served

VARIABLES serving,    \* the call being served, or NoCall
          reply,      \* the reply of each call, "none" before it has one
          sandbox,    \* the sandbox the next call will be served by
          used,       \* every sandbox there has been
          replaced    \* the sandbox was replaced for the call being served

svars == <<serving, reply, sandbox, used, replaced>>

ServiceReplies == {"ok", "failed", "timeout", "raised"}

ServiceInit ==
  /\ serving = NoCall
  /\ reply = [c \in Calls |-> "none"]
  /\ sandbox \in Sandboxes
  /\ used = {sandbox}
  /\ replaced = FALSE

Begin(c) ==
  /\ serving = NoCall
  /\ reply[c] = "none"
  /\ serving' = c
  /\ replaced' = FALSE
  /\ UNCHANGED <<reply, sandbox, used>>

(* A sandbox is never handed out twice. *)
Replace(c) ==
  /\ serving = c
  /\ ~replaced
  /\ \E s \in Sandboxes \ used : sandbox' = s /\ used' = used \cup {s}
  /\ replaced' = TRUE
  /\ UNCHANGED <<serving, reply>>

(* Only a call whose sandbox was replaced is told it timed out, and a call *)
(* whose sandbox was replaced is never told that it succeeded.             *)
Answer(c, r) ==
  /\ serving = c
  /\ r = "timeout" => replaced
  /\ r \in {"ok", "failed"} => ~replaced
  /\ reply' = [reply EXCEPT ![c] = r]
  /\ serving' = NoCall
  /\ replaced' = FALSE
  /\ UNCHANGED <<sandbox, used>>

ServiceNext ==
  \E c \in Calls :
    \/ Begin(c)
    \/ Replace(c)
    \/ \E r \in ServiceReplies : Answer(c, r)

ServiceSpec == ServiceInit /\ [][ServiceNext]_svars
=============================================================================

------------------------------ MODULE MCSandbox ------------------------------
(* Instances of SandboxExecutor for TLC: a few calls, one container more   *)
(* than there are calls (each call starts at most one), two-byte output.   *)
EXTENDS SandboxExecutor

CONSTANTS c1, c2, c3, k1, k2, k3, k4

TwoCalls == {c1, c2}
ThreeCalls == {c1, c2, c3}
ThreeContainers == {k1, k2, k3}
FourContainers == {k1, k2, k3, k4}

AnyClient == {TRUE, FALSE}
StreamingClient == {TRUE}
AllFaults == FaultKinds
NoFaults == {}
OneByte == {1}
Sizes == {1, 3}

(* Containers are interchangeable: a new one is the first that is unused.  *)
InOrder ==
  /\ status[k2] # "absent" => status[k1] # "absent"
  /\ status[k3] # "absent" => status[k2] # "absent"
=============================================================================

-------------------------- MODULE TunnelContract --------------------------
(***************************************************************************)
(* What run() of src/cmd/localhoist/main.go relies on when it calls        *)
(* tunnel.Start and tun.Stop: one answer to Start, a tunnel process that   *)
(* is dead when Start answers with an error and when Stop returns, and     *)
(* that may die by itself at any time in between.  Session.tla sees the    *)
(* tunnel this way; Tunnel.tla is shown to implement it.                   *)
(***************************************************************************)

VARIABLES
  child,    \* the tunnel process: "none", "running" or "gone"
  status    \* what the caller knows: "starting", "up", "failed", "stopped"

cvars == <<child, status>>

ContractInit ==
  /\ child = "none"
  /\ status = "starting"

\* The process is launched ...
Spawn ==
  /\ status = "starting"
  /\ child = "none"
  /\ child' = "running"
  /\ UNCHANGED status

\* ... and dies, by itself or because it was told to.
Die ==
  /\ child = "running"
  /\ child' = "gone"
  /\ UNCHANGED status

\* Start answers with a URL; only a process that was launched has printed one.
Up ==
  /\ status = "starting"
  /\ child # "none"
  /\ status' = "up"
  /\ UNCHANGED child

\* Start answers with an error; nothing is left running.
Fail ==
  /\ status = "starting"
  /\ child # "running"
  /\ status' = "failed"
  /\ UNCHANGED child

\* Stop returns; nothing is left running.
Stopped ==
  /\ status = "up"
  /\ child = "gone"
  /\ status' = "stopped"
  /\ UNCHANGED child

ContractNext == Spawn \/ Die \/ Up \/ Fail \/ Stopped

ContractSafety == ContractInit /\ [][ContractNext]_cvars

\* Start always answers.
ContractSpec == ContractSafety /\ WF_cvars(Spawn) /\ WF_cvars(Up \/ Fail)
============================================================================

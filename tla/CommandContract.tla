-------------------------- MODULE CommandContract --------------------------
(***************************************************************************)
(* What a meshagentctl command promises by its exit status, whatever       *)
(* happens to the service meanwhile.  ExitOK: it has done all that it is   *)
(* for.  ExitDenied: it has changed nothing.  No installer is ever run     *)
(* without an administrator's token, nor by a command that has found an    *)
(* agent; starting and stopping the service is not tied to the token.      *)
(* Meshctl implements it.                                                  *)
(***************************************************************************)
CONSTANT Procs

VARIABLES
  phase,        \* "idle", "busy" or, when it has returned, its exit status
  command,      \* what each process runs
  privileged,   \* whether its token is an administrator's
  did           \* what it has done and found so far

contractVars == <<phase, command, privileged, did>>

Changing == {"ran installer", "started", "stopped"}

Observing ==
  {"found", "installed", "up", "stop accepted", "seen down", "removed", "asked"}

\* What each command is for: one of these sets has to be done.
Goals(c) ==
  CASE c = "connect" -> {{"found", "up"}, {"installed", "up"}}
    [] c = "disconnect" -> {{"stop accepted", "seen down"}}
    [] c = "uninstall" -> {{"removed"}}
    [] c = "status" -> {{"asked"}}

ContractInit ==
  /\ phase = [p \in Procs |-> "idle"]
  /\ command = [p \in Procs |-> "none"]
  /\ privileged = [p \in Procs |-> FALSE]
  /\ did = [p \in Procs |-> {}]

Enter(p) ==
  /\ phase[p] = "idle"
  /\ phase' = [phase EXCEPT ![p] = "busy"]
  /\ \E c \in {"connect", "disconnect", "uninstall", "status"} :
       command' = [command EXCEPT ![p] = c]
  /\ \E token \in BOOLEAN : privileged' = [privileged EXCEPT ![p] = token]
  /\ UNCHANGED did

\* It does something more, in the same step as it returns or before.
Do(p) ==
  /\ did' = [did EXCEPT ![p] = did'[p]]
  /\ did[p] \subseteq did'[p]
  /\ did'[p] \subseteq Changing \cup Observing
  /\ "ran installer" \in did'[p] => privileged[p]
  /\ ~({"found", "ran installer"} \subseteq did'[p])

Act(p) ==
  /\ phase[p] = "busy"
  /\ Do(p)
  /\ UNCHANGED <<phase, command, privileged>>

Return(p) ==
  /\ phase[p] = "busy"
  /\ Do(p)
  /\ \/ /\ phase' = [phase EXCEPT ![p] = "ExitOK"]
        /\ \E goal \in Goals(command[p]) : goal \subseteq did'[p]
     \/ /\ phase' = [phase EXCEPT ![p] = "ExitDenied"]
        /\ did'[p] \cap Changing = {}
     \/ phase' = [phase EXCEPT ![p] = "ExitError"]
  /\ UNCHANGED <<command, privileged>>

\* Its process has ended, by itself or by force.
Leave(p) ==
  /\ phase[p] # "idle"
  /\ phase' = [phase EXCEPT ![p] = "idle"]
  /\ command' = [command EXCEPT ![p] = "none"]
  /\ privileged' = [privileged EXCEPT ![p] = FALSE]
  /\ did' = [did EXCEPT ![p] = {}]

ContractNext ==
  \E p \in Procs : Enter(p) \/ Act(p) \/ Return(p) \/ Leave(p)

ContractSpec == ContractInit /\ [][ContractNext]_contractVars
=============================================================================

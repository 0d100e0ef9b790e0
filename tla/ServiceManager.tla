--------------------------- MODULE ServiceManager ---------------------------
(***************************************************************************)
(* The Windows service control manager (SCM), reduced to the one service   *)
(* meshagent-go drives.  It is not part of the repository: what is here is *)
(* what internal/infrastructure/winscm relies on.  The SCM calls are given *)
(* as actions whose parameter err is the error the call answers with, so   *)
(* that a caller conjoins the call with what it does with the answer.      *)
(***************************************************************************)

VARIABLES
  state,    \* the service's state, or "absent" when no service is registered
  marked    \* DeleteService was called; the service goes once it is unused

smVars == <<state, marked>>

(***************************************************************************)
(* The states stateName (winscm/scm_windows.go) renders and the agent can  *)
(* be in: it does not accept pause and continue controls.                  *)
(***************************************************************************)
Registered == {"stopped", "start pending", "running", "stop pending"}

States == {"absent"} \cup Registered

Errors ==
  {"nil", "SERVICE_DOES_NOT_EXIST", "SERVICE_ALREADY_RUNNING",
   "SERVICE_NOT_ACTIVE", "SERVICE_MARKED_FOR_DELETE",
   "SERVICE_CANNOT_ACCEPT_CTRL", "REFUSED"}

SMTypeOK ==
  /\ state \in States
  /\ marked \in BOOLEAN

\* A machine in any state: never enrolled, agent up, down or on its way.
SMInit ==
  /\ state \in States
  /\ marked = FALSE

-----------------------------------------------------------------------------
(***************************************************************************)
(* OpenService.  "REFUSED" stands for every error the callers do not tell  *)
(* apart: access denied, an invalid name, an RPC failure.                  *)
(***************************************************************************)
OpenService(err) ==
  /\ \/ /\ state \in Registered
        /\ err = "nil"
     \/ /\ state = "absent"
        /\ err = "SERVICE_DOES_NOT_EXIST"
     \/ err = "REFUSED"
  /\ UNCHANGED smVars

(***************************************************************************)
(* StartService succeeds on a stopped service only.  In every other state, *)
(* "stop pending" included, the SCM holds a running instance and says so.  *)
(***************************************************************************)
StartService(err) ==
  /\ \/ /\ state = "stopped"
        /\ ~marked
        /\ err = "nil"
        /\ state' = "start pending"
     \/ /\ \/ state = "stopped" /\ marked /\ err = "SERVICE_MARKED_FOR_DELETE"
           \/ state \notin {"absent", "stopped"} /\ err = "SERVICE_ALREADY_RUNNING"
           \/ err = "REFUSED"
        /\ UNCHANGED state
  /\ UNCHANGED marked

(***************************************************************************)
(* ControlService with SERVICE_CONTROL_STOP.  An accepted stop returns     *)
(* before the service has stopped: it reports "stop pending" now or later  *)
(* (StopBegins).  A service between two states accepts no control.         *)
(***************************************************************************)
StopControl(err) ==
  /\ \/ /\ state = "running"
        /\ err = "nil"
        /\ state' \in {"running", "stop pending"}
     \/ /\ \/ state = "stopped" /\ err = "SERVICE_NOT_ACTIVE"
           \/ /\ state \in {"start pending", "stop pending"}
              /\ err = "SERVICE_CANNOT_ACCEPT_CTRL"
           \/ err = "REFUSED"
        /\ UNCHANGED state
  /\ UNCHANGED marked

-----------------------------------------------------------------------------
(***************************************************************************)
(* What the service and other programs do on their own.                    *)
(***************************************************************************)
StartDone ==
  /\ state = "start pending"
  /\ state' = "running"
  /\ UNCHANGED marked

\* The agent exits while starting, or dies while running.
ServiceDies ==
  /\ state \in {"start pending", "running"}
  /\ state' = "stopped"
  /\ UNCHANGED marked

StopBegins ==
  /\ state = "running"
  /\ state' = "stop pending"
  /\ UNCHANGED marked

StopDone ==
  /\ state = "stop pending"
  /\ state' = "stopped"
  /\ UNCHANGED marked

\* An installer registers the service.
CreateService ==
  /\ state = "absent"
  /\ state' = "stopped"
  /\ UNCHANGED marked

\* An uninstaller deletes it: the SCM only marks it ...
DeleteService ==
  /\ state \in Registered
  /\ ~marked
  /\ marked' = TRUE
  /\ UNCHANGED state

\* ... and drops it when it is stopped and no handle to it is open.
Reap(handleOpen) ==
  /\ marked
  /\ state = "stopped"
  /\ ~handleOpen
  /\ state' = "absent"
  /\ marked' = FALSE

\* handleOpen: some process has a handle to the service open.
Environment(handleOpen) ==
  \/ StartDone
  \/ ServiceDies
  \/ StopBegins
  \/ StopDone
  \/ CreateService
  \/ DeleteService
  \/ Reap(handleOpen)
=============================================================================

------------------------------- MODULE WinScm -------------------------------
(***************************************************************************)
(* internal/infrastructure/winscm/scm_windows.go: the agentservice.Ops     *)
(* backed by the Windows service control manager.  One action is one       *)
(* system call of the kernel type together with what the code does with    *)
(* its result; between two of them other callers, the service and the      *)
(* installer run.  Every call that closes a handle may fail.               *)
(***************************************************************************)
EXTENDS OpsContract

VARIABLES
  pc,       \* the system call each caller makes next
  manager,  \* callers that hold a handle to the service control manager
  handle,   \* callers that hold a handle to the service
  leaked    \* callers whose last CloseServiceHandle on the service failed

vars == <<pc, manager, handle, leaked, opsVars>>

Steps ==
  {"idle", "connectManager", "openService", "afterOpen", "abandon",
   "call", "binaryPath", "discard", "return"}

TypeOK ==
  /\ OpsTypeOK
  /\ pc \in [Callers -> Steps]
  /\ manager \subseteq Callers
  /\ handle \subseteq Callers
  /\ leaked \subseteq Callers

Init ==
  /\ OpsInit
  /\ pc = [c \in Callers |-> "idle"]
  /\ manager = {}
  /\ handle = {}
  /\ leaked = {}

-----------------------------------------------------------------------------
Goto(c, step) == pc' = [pc EXCEPT ![c] = step]

At(c, step) == pc[c] = step

SetReply(c, r) == reply' = [reply EXCEPT ![c] = r]

(***************************************************************************)
(* What a failed Open becomes: Start and Stop map a missing service onto   *)
(* agenterr.ErrNotInstalled, Status onto the zero Status.                  *)
(***************************************************************************)
notInstalledOrError(err) ==
  Answer(IF err = "SERVICE_DOES_NOT_EXIST" THEN "ErrNotInstalled" ELSE err)

absentOrError(err) ==
  Answer(IF err = "SERVICE_DOES_NOT_EXIST" THEN "nil" ELSE err)

\* Mutant of openFailed: every operation treats a missing service as Status does.
openFailed_AbsentIsNil(o, err) == absentOrError(err)

openFailed(o, err) ==
  IF o = "Status" THEN absentOrError(err) ELSE notInstalledOrError(err)

\* Start and Stop answer nil to the state they were asked to bring about.
\* Mutant: "already running" is reported as an error.
startAnswer_KeepsError(err) == Answer(err)

startAnswer(err) ==
  Answer(IF err = "SERVICE_ALREADY_RUNNING" THEN "nil" ELSE err)

stopAnswer(err) ==
  Answer(IF err = "SERVICE_NOT_ACTIVE" THEN "nil" ELSE err)

describe(s) == [err |-> "nil", status |-> s]

-----------------------------------------------------------------------------
\* Ops.Start, Ops.Stop and Ops.Status enter kernel.Open.
Begin(c, o) ==
  /\ At(c, "idle")
  /\ Invoke(c, o)
  /\ Goto(c, "connectManager")
  /\ UNCHANGED <<manager, handle, leaked>>

connectManager(c) ==
  /\ At(c, "connectManager")
  /\ \/ /\ manager' = manager \cup {c}
        /\ Goto(c, "openService")
        /\ UNCHANGED reply
     \/ /\ SetReply(c, openFailed(op[c], "REFUSED"))
        /\ Goto(c, "return")
        /\ UNCHANGED manager
  /\ UNCHANGED <<op, handle, leaked, smVars>>

openService(c) ==
  /\ At(c, "openService")
  /\ \E err \in Errors :
       /\ OpenService(err)
       /\ IF err = "nil"
            THEN handle' = handle \cup {c} /\ UNCHANGED reply
            ELSE SetReply(c, openFailed(op[c], err)) /\ UNCHANGED handle
  /\ Goto(c, "afterOpen")
  /\ UNCHANGED <<op, manager, leaked>>

(***************************************************************************)
(* The deferred close of the manager handle.  An open that failed keeps    *)
(* its error; one that succeeded goes on to its call, or is given up when  *)
(* this close fails.                                                       *)
(***************************************************************************)
\* Mutant: a failed close forgets the service handle.
afterClose_Forgets(c) ==
  IF reply[c] # NoReply THEN {"return"} ELSE {"call", "return"}

\* Mutant: a failed open is abandoned as well, closing what was never open.
afterClose_AbandonsAll(c) ==
  IF reply[c] # NoReply THEN {"abandon"} ELSE {"call", "abandon"}

afterClose(c) ==
  IF reply[c] # NoReply THEN {"return"} ELSE {"call", "abandon"}

afterOpen(c) ==
  /\ At(c, "afterOpen")
  /\ manager' = manager \ {c}
  /\ \E next \in afterClose(c) :
       /\ Goto(c, next)
       /\ IF reply[c] # NoReply \/ next = "call"
            THEN UNCHANGED reply
            ELSE SetReply(c, openFailed(op[c], "REFUSED"))
  /\ UNCHANGED <<op, handle, leaked, smVars>>

\* CloseServiceHandle: a failure is dropped, and the handle with it.
closeService(c) ==
  /\ handle' = handle \ {c}
  /\ leaked' \in {leaked, leaked \cup (handle \cap {c})}

abandon(c) ==
  /\ At(c, "abandon")
  /\ closeService(c)
  /\ Goto(c, "return")
  /\ UNCHANGED <<op, reply, manager, smVars>>

start(c) ==
  /\ At(c, "call") /\ op[c] = "Start"
  /\ \E err \in Errors :
       /\ StartService(err)
       /\ SetReply(c, startAnswer(err))
  /\ Goto(c, "discard")
  /\ UNCHANGED <<op, manager, handle, leaked>>

control(c) ==
  /\ At(c, "call") /\ op[c] = "Stop"
  /\ \E err \in Errors :
       /\ StopControl(err)
       /\ SetReply(c, stopAnswer(err))
  /\ Goto(c, "discard")
  /\ UNCHANGED <<op, manager, handle, leaked>>

\* Snapshot first queries the state ...
query(c) ==
  /\ At(c, "call") /\ op[c] = "Status"
  /\ \/ /\ SetReply(c, describe(state))
        /\ Goto(c, "binaryPath")
     \/ /\ SetReply(c, Answer("REFUSED"))
        /\ Goto(c, "discard")
  /\ UNCHANGED <<op, manager, handle, leaked, smVars>>

\* ... and then, when the service may have moved on, its configuration.  The
\* path, or "" when that fails, is an input of Meshctl.
binaryPath(c) ==
  /\ At(c, "binaryPath")
  /\ Goto(c, "discard")
  /\ UNCHANGED <<op, reply, manager, handle, leaked, smVars>>

discard(c) ==
  /\ At(c, "discard")
  /\ closeService(c)
  /\ Goto(c, "return")
  /\ UNCHANGED <<op, reply, manager, smVars>>

Return(c) ==
  /\ At(c, "return")
  /\ Leave(c)
  /\ Goto(c, "idle")
  /\ UNCHANGED <<manager, handle, leaked>>

\* The process ends, between calls or in one: Windows closes what it held.
Exit(c) ==
  /\ IF At(c, "idle") THEN UNCHANGED opsVars ELSE Leave(c)
  /\ Goto(c, "idle")
  /\ manager' = manager \ {c}
  /\ handle' = handle \ {c}
  /\ leaked' = leaked \ {c}

\* The service and its installer, which sees every handle that is open.
World ==
  /\ Environment(handle \cup leaked # {})
  /\ UNCHANGED <<op, reply, pc, manager, handle, leaked>>

Next ==
  \/ \E c \in Callers :
       \/ \E o \in Operations : Begin(c, o)
       \/ connectManager(c) \/ openService(c) \/ afterOpen(c) \/ abandon(c)
       \/ start(c) \/ control(c) \/ query(c) \/ binaryPath(c)
       \/ discard(c) \/ Return(c) \/ Exit(c)
  \/ World

Spec == Init /\ [][Next]_vars

-----------------------------------------------------------------------------
(***************************************************************************)
(* Whatever fails on the way, kernel.Open and the three operations return  *)
(* without a handle they could still close: the deferred closes reach      *)
(* every path.                                                             *)
(***************************************************************************)
HandlesReleased ==
  \A c \in Callers :
    pc[c] \in {"idle", "connectManager", "return"} =>
      c \notin manager \cup handle

(***************************************************************************)
(* No path uses or closes a handle it does not hold: the three closes      *)
(* (afterOpen, abandon, discard) never meet a handle that was not opened   *)
(* or that another of them has closed already.                             *)
(***************************************************************************)
UsesWhatItHolds ==
  \A c \in Callers :
    /\ pc[c] \in {"openService", "afterOpen"} => c \in manager
    /\ pc[c] \in {"call", "binaryPath", "discard", "abandon"} => c \in handle

(***************************************************************************)
(* The system calls of concurrent callers, with an installer, an           *)
(* uninstaller and a dying agent in between, amount to the atomic calls of *)
(* the contract agentservice/types.go states: the handle keeps the service *)
(* from going away between Open and the call.                              *)
(***************************************************************************)
ImplementsOps == OpsSpec
=============================================================================

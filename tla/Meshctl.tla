------------------------------- MODULE Meshctl -------------------------------
(***************************************************************************)
(* meshagentctl processes on one device: internal/cli (connect,            *)
(* disconnect, uninstall, status, staging, report), agentservice's         *)
(* Controller and agentinstall's Installer as the commands drive them, and *)
(* the agent's own installer, the child process they run.  The calls on    *)
(* the service are those of ServiceOps and a download has the two outcomes *)
(* of module Download: WinScm and MeshServer implement the two.            *)
(***************************************************************************)
EXTENDS ServiceOps

CONSTANTS
  Procs,      \* meshagentctl processes; each connect names its own group
  Commands,   \* the commands they run
  Dirs,       \* where connect downloads: "private" staging or a "shared" -dir
  Windows     \* whether the device runs Windows

ASSUME MeshctlAssumption ==
  /\ Commands \subseteq {"connect", "disconnect", "uninstall", "status"}
  /\ Dirs \subseteq {"private", "shared"}
  /\ Windows \in BOOLEAN
  /\ {"none", "shared"} \cap Procs = {}

VARIABLES
  pc,        \* the next step of each process
  cmd,       \* its command
  dir,       \* its choice of Dirs
  elevated,  \* whether its token is an administrator's
  ctx,       \* its context: "live", or "ended" by -timeout or a signal
  err,       \* the error its command returns
  did,       \* what its command has done and found so far (history)
  staged,    \* private staging directories that exist
  agentAt,   \* whose agent each download path holds
  child,     \* the installer each process has started
  enrolled   \* whose agent the registered service runs, or "none"

procVars == <<pc, cmd, dir, elevated, ctx, err, did>>
vars == <<procVars, staged, agentAt, child, enrolled, smVars>>

Steps ==
  {"idle", "status", "staging", "download", "register", "await", "cleanup",
   "start", "stop", "poll", "wait", "locate", "uninstall", "done", "killed"}

Errs ==
  {"nil", "ErrNotElevated", "ErrDownloadUnauthorized", "ErrNotInstalled",
   "ErrUnsupportedPlatform", "ErrUnknownServicePath", "ExitError",
   "context error", "failed"} \cup Failures

\* Changes to the machine, and what a command is for.
Changes == {"ran installer", "started", "stopped"}

Effects ==
  Changes \cup {"found", "installed", "up", "stop accepted", "seen down",
                "removed", "asked"}

\* An installer child: its switch, its progress and the agent it is.
NoChild == [switch |-> "none", at |-> "none", exe |-> "none"]

Children ==
  [switch : {"-fullinstall", "-fulluninstall"},
   at : {"begun", "halfway", "ok", "failed"}, exe : Procs]

Running(p) == child[p].at \in {"begun", "halfway"}

TypeOK ==
  /\ SMTypeOK
  /\ pc \in [Procs -> Steps]
  /\ cmd \in [Procs -> Commands \cup {"none"}]
  /\ dir \in [Procs -> Dirs \cup {"none"}]
  /\ elevated \in [Procs -> BOOLEAN]
  /\ ctx \in [Procs -> {"live", "ended"}]
  /\ err \in [Procs -> Errs]
  /\ did \in [Procs -> SUBSET Effects]
  /\ staged \subseteq Procs
  /\ agentAt \in [Procs \cup {"shared"} -> Procs \cup {"none"}]
  /\ child \in [Procs -> Children \cup {NoChild}]
  /\ enrolled \in Procs \cup {"none"}

\* The device has no agent yet; off Windows it never has.
Init ==
  /\ state = "absent" /\ marked = FALSE
  /\ pc = [p \in Procs |-> "idle"]
  /\ cmd = [p \in Procs |-> "none"]
  /\ dir = [p \in Procs |-> "none"]
  /\ elevated = [p \in Procs |-> FALSE]
  /\ ctx = [p \in Procs |-> "live"]
  /\ err = [p \in Procs |-> "nil"]
  /\ did = [p \in Procs |-> {}]
  /\ staged = {}
  /\ agentAt = [place \in Procs \cup {"shared"} |-> "none"]
  /\ child = [p \in Procs |-> NoChild]
  /\ enrolled = "none"

-----------------------------------------------------------------------------
Goto(p, step) == pc' = [pc EXCEPT ![p] = step]

\* The step that follows: next without an error, handler with one.
Proceed(p, e, next, handler) ==
  /\ err' = [err EXCEPT ![p] = e]
  /\ Goto(p, IF e = "nil" THEN next ELSE handler)

Did(p, effects) == did' = [did EXCEPT ![p] = @ \cup effects]

SetChild(p, c) == child' = [child EXCEPT ![p] = c]

\* What a command does not change before its first effect on the machine.
settings == <<cmd, dir, elevated, ctx>>
machine == <<staged, agentAt, child, enrolled>>

\* Mutant: the installer is left to find out.
requireElevation_Skipped(p) == "nil"

\* agentinstall's elevation.require: no token is elevated off Windows.
requireElevation(p) ==
  IF elevated[p] /\ Windows THEN "nil" ELSE "ErrNotElevated"

(***************************************************************************)
(* The Ops behind the commands; off Windows each call is unsupported.  The *)
(* program checks no token here.  Whether the service manager lets this    *)
(* process start or stop the service is for the service's access rights to *)
(* say: whatever its token, the call is carried out or REFUSED.            *)
(***************************************************************************)
OnService(o, e, s) ==
  \/ Windows /\ Call(o, [err |-> e, status |-> s])
  \/ /\ ~Windows
     /\ e = "ErrUnsupportedPlatform" /\ s = "absent"
     /\ UNCHANGED smVars

\* A call behind ctx.Err().
OnServiceInTime(p, o, e, s) ==
  \/ ctx[p] = "live" /\ OnService(o, e, s)
  \/ ctx[p] = "ended" /\ e = "context error" /\ s = "absent" /\ UNCHANGED smVars

\* Mutant: every refusal counts as one, the service manager's included.
report_AllRefusals(e) ==
  CASE e = "nil" -> "ExitOK"
    [] e \in {"ErrNotElevated", "ErrDownloadUnauthorized", "REFUSED"} -> "ExitDenied"
    [] OTHER -> "ExitError"

\* report: the exit status an error becomes.
report(e) ==
  CASE e = "nil" -> "ExitOK"
    [] e \in {"ErrNotElevated", "ErrDownloadUnauthorized"} -> "ExitDenied"
    [] OTHER -> "ExitError"

-----------------------------------------------------------------------------
\* Run parses the command line, wires the client and enters the command.
Run(p, command) ==
  /\ pc[p] = "idle"
  /\ cmd' = [cmd EXCEPT ![p] = command]
  /\ \E d \in Dirs : dir' = [dir EXCEPT ![p] = d]
  /\ \E e \in BOOLEAN : elevated' = [elevated EXCEPT ![p] = e]
  /\ Goto(p, CASE command = "disconnect" -> "stop"
               [] command = "uninstall" -> "locate"
               [] OTHER -> "status")
  /\ UNCHANGED <<ctx, err, did, machine, smVars>>

\* ensureInstalled asks first whether there is anything to install ...
EnsureInstalled(p) ==
  /\ pc[p] = "status" /\ cmd[p] = "connect"
  /\ \E e \in Errs, s \in States :
       /\ OnServiceInTime(p, "Status", e, s)
       /\ Proceed(p, e, IF s = "absent" THEN "staging" ELSE "start", "done")
       /\ Did(p, IF e = "nil" /\ s # "absent" THEN {"found"} ELSE {})
  /\ UNCHANGED <<settings, machine>>

\* ... and the status command only asks.
ShowStatus(p) ==
  /\ pc[p] = "status" /\ cmd[p] = "status"
  /\ \E e \in Errs, s \in States :
       /\ OnServiceInTime(p, "Status", e, s)
       /\ Proceed(p, e, "done", "done")
       /\ Did(p, IF e = "nil" THEN {"asked"} ELSE {})
  /\ UNCHANGED <<settings, machine>>

\* staging: -dir as it is, or a new temporary directory.
Stage(p) ==
  /\ pc[p] = "staging"
  /\ \/ dir[p] = "shared" /\ Proceed(p, "nil", "download", "done")
          /\ UNCHANGED staged
     \/ dir[p] = "private" /\ Proceed(p, "nil", "download", "done")
          /\ staged' = staged \cup {p}
     \/ dir[p] = "private" /\ Proceed(p, "failed", "download", "done")
          /\ UNCHANGED staged
  /\ UNCHANGED <<settings, did, agentAt, child, enrolled, smVars>>

\* Mutant: the temporary directory has a fixed name.
Place_Fixed(p) == "shared"

Place(p) == IF dir[p] = "private" THEN p ELSE "shared"

\* Mutant of afterFailure: install returns at once when the download fails.
afterFailure_NoCleanup(p) == "done"

\* The deferred cleanup runs whatever has failed.
afterFailure(p) == "cleanup"

\* Client.Download: this group's agent at the path, or the path untouched.
Download(p) ==
  /\ pc[p] = "download"
  /\ \/ /\ ctx[p] = "live"
        /\ agentAt' = [agentAt EXCEPT ![Place(p)] = p]
        /\ Proceed(p, "nil", "register", afterFailure(p))
     \/ /\ \E e \in {"failed", "ErrDownloadUnauthorized"} :
             Proceed(p, e, "register", afterFailure(p))
        /\ UNCHANGED agentAt
  /\ UNCHANGED <<settings, did, staged, child, enrolled, smVars>>

\* exec.Cmd.Start: the child runs what the path holds at this moment.
Launch(p, switch, exe, handler) ==
  \/ /\ ctx[p] = "live" /\ exe # "none"
     /\ SetChild(p, [switch |-> switch, at |-> "begun", exe |-> exe])
     /\ Proceed(p, "nil", "await", handler)
     /\ Did(p, {"ran installer"})
  \/ /\ \E e \in {"failed", "context error"} :
          /\ e = "context error" => ctx[p] = "ended"
          /\ Proceed(p, e, "await", handler)
     /\ UNCHANGED <<child, did>>

\* Installer.Install.
Install(p) ==
  /\ pc[p] = "register"
  /\ IF requireElevation(p) = "nil"
       THEN Launch(p, "-fullinstall", agentAt[Place(p)], "cleanup")
       ELSE /\ Proceed(p, requireElevation(p), "await", "cleanup")
            /\ UNCHANGED <<child, did>>
  /\ UNCHANGED <<settings, staged, agentAt, enrolled, smVars>>

\* Installer.Uninstall locates the installed binary, whose path may be
\* unreadable ...
Locate(p) ==
  /\ pc[p] = "locate"
  /\ \E e \in Errs, s \in States, path \in {"", "exe"} :
       IF requireElevation(p) # "nil"
         THEN /\ Proceed(p, requireElevation(p), "uninstall", "done")
              /\ UNCHANGED smVars
         ELSE /\ OnServiceInTime(p, "Status", e, s)
              /\ Proceed(p, CASE e # "nil" -> e
                             [] s = "absent" -> "ErrNotInstalled"
                             [] path = "" -> "ErrUnknownServicePath"
                             [] OTHER -> "nil",
                         "uninstall", "done")
  /\ UNCHANGED <<settings, did, machine>>

\* ... and runs what that path holds by now, if anything.
Uninstall(p) ==
  /\ pc[p] = "uninstall"
  /\ Launch(p, "-fulluninstall", enrolled, "done")
  /\ UNCHANGED <<settings, staged, agentAt, enrolled, smVars>>

\* Where the command goes on once its installer has ended.
afterInstaller(p) == IF cmd[p] = "connect" THEN "cleanup" ELSE "done"

\* Mutant: the installer's own exit status is not looked at.
installerResult_Ignores(p) == {"nil"}

\* Mutant: the child's own status is handed on.
installerResult_Raw(p) == {child[p].at}

\* run: a child that fails or is killed is an ExitError; the kill of one that
\* has just ended well fails in its turn, and Wait reports that.
installerResult(p) ==
  IF child[p].at = "ok"
    THEN {"nil"} \cup (IF ctx[p] = "ended" THEN {"failed"} ELSE {})
    ELSE {"ExitError"}

\* CombinedOutput returns when the child has ended ...
Await(p) ==
  /\ pc[p] = "await"
  /\ ~Running(p)
  /\ \E e \in installerResult(p) :
       Proceed(p, e, afterInstaller(p), afterInstaller(p))
  /\ Did(p, CASE child[p].at # "ok" -> {}
              [] child[p].at = "ok" /\ cmd[p] = "connect" -> {"installed"}
              [] OTHER -> {"removed"})
  /\ SetChild(p, NoChild)
  /\ UNCHANGED <<settings, staged, agentAt, enrolled, smVars>>

\* Mutant of KillChild: the child is started without the context.
KillChild_Never(p) ==
  pc[p] = "await" /\ FALSE /\ UNCHANGED vars

\* ... which CommandContext kills when the context ends.
KillChild(p) ==
  /\ pc[p] = "await" /\ ctx[p] = "ended" /\ Running(p)
  /\ SetChild(p, [child[p] EXCEPT !.at = "failed"])
  /\ UNCHANGED <<procVars, staged, agentAt, enrolled, smVars>>

\* removeStaging: the error of os.RemoveAll is dropped; Windows keeps the
\* file of a program that runs.
Cleanup(p) ==
  /\ pc[p] = "cleanup"
  /\ IF dir[p] = "shared" \/ Running(p)
       THEN UNCHANGED <<staged, agentAt>>
       ELSE /\ staged' = staged \ {p}
            /\ agentAt' = [agentAt EXCEPT ![p] = "none"]
  /\ Goto(p, IF err[p] = "nil" THEN "start" ELSE "done")
  /\ UNCHANGED <<settings, err, did, child, enrolled, smVars>>

\* startAgent: Controller.Connect.
Start(p) ==
  /\ pc[p] = "start"
  /\ \E e \in Errs, s \in States :
       /\ OnServiceInTime(p, "Start", e, s)
       /\ Proceed(p, e, "done", "done")
       /\ Did(p, (IF e = "nil" THEN {"up"} ELSE {})
                   \cup (IF state' # state THEN {"started"} ELSE {}))
  /\ UNCHANGED <<settings, machine>>

\* stopAgent: Controller.Disconnect.
Stop(p) ==
  /\ pc[p] = "stop"
  /\ \E e \in Errs, s \in States :
       /\ OnService("Stop", e, s)
       /\ Proceed(p, e, "poll", "done")
       /\ Did(p, (IF e = "nil" THEN {"stop accepted"} ELSE {})
                   \cup (IF e = "nil" /\ state = "running" THEN {"stopped"} ELSE {}))
  /\ UNCHANGED <<settings, machine>>

Poll(p) ==
  /\ pc[p] = "poll"
  /\ \E e \in Errs, s \in States :
       /\ OnService("Status", e, s)
       /\ Proceed(p, e, IF s = "running" THEN "wait" ELSE "done", "done")
       /\ Did(p, IF e = "nil" /\ s # "running" THEN {"seen down"} ELSE {})
  /\ UNCHANGED <<settings, machine>>

Wait(p) ==
  /\ pc[p] = "wait"
  /\ Proceed(p, "nil", "poll", "done")
  /\ UNCHANGED <<settings, did, machine, smVars>>

WaitDone(p) ==
  /\ pc[p] = "wait" /\ ctx[p] = "ended"
  /\ Proceed(p, "context error", "poll", "done")
  /\ UNCHANGED <<settings, did, machine, smVars>>

-----------------------------------------------------------------------------
\* The next run of the command is a new process.
Renew(p) ==
  /\ Goto(p, "idle")
  /\ cmd' = [cmd EXCEPT ![p] = "none"]
  /\ dir' = [dir EXCEPT ![p] = "none"]
  /\ elevated' = [elevated EXCEPT ![p] = FALSE]
  /\ ctx' = [ctx EXCEPT ![p] = "live"]
  /\ err' = [err EXCEPT ![p] = "nil"]
  /\ did' = [did EXCEPT ![p] = {}]

\* The process ends with an exit status.
Exit(p) ==
  /\ pc[p] = "done"
  /\ Renew(p)
  /\ UNCHANGED <<machine, smVars>>

\* The process is killed outright: no deferred call runs, its child lives on.
Killed(p) ==
  /\ pc[p] \notin {"idle", "done", "killed"}
  /\ Goto(p, "killed")
  /\ UNCHANGED <<settings, err, did, machine, smVars>>

\* What a killed process has staged stays on disk; nothing looks for it again.
Rerun(p) ==
  /\ pc[p] = "killed" /\ ~Running(p)
  /\ Renew(p)
  /\ staged' = staged \ {p}
  /\ agentAt' = [agentAt EXCEPT ![p] = "none"]
  /\ SetChild(p, NoChild)
  /\ UNCHANGED <<enrolled, smVars>>

\* The -timeout passes, or a signal arrives.
ContextEnds(p) ==
  /\ pc[p] \notin {"idle", "done", "killed"}
  /\ ctx[p] = "live"
  /\ ctx' = [ctx EXCEPT ![p] = "ended"]
  /\ UNCHANGED <<pc, cmd, dir, elevated, err, did, machine, smVars>>

-----------------------------------------------------------------------------
(***************************************************************************)
(* The agent's own installer (external).  -fullinstall puts its service in *)
(* the place of one that is there, then starts it; -fulluninstall stops    *)
(* the service, then deletes it with its files.  Either may fail halfway.  *)
(***************************************************************************)
ChildGoes(p, at) == SetChild(p, [child[p] EXCEPT !.at = at])

Registers(p) ==
  /\ child[p].switch = "-fullinstall" /\ child[p].at = "begun"
  /\ ~marked
  /\ state' = "stopped"
  /\ enrolled' = child[p].exe
  /\ ChildGoes(p, "halfway")
  /\ UNCHANGED marked

StartsAgent(p) ==
  /\ child[p].switch = "-fullinstall" /\ child[p].at = "halfway"
  /\ state # "absent"
  /\ \E e \in Errors : StartService(e)
  /\ ChildGoes(p, "ok")
  /\ UNCHANGED enrolled

StopsAgent(p) ==
  /\ child[p].switch = "-fulluninstall" /\ child[p].at = "begun"
  /\ state' = IF state = "absent" THEN state ELSE "stopped"
  /\ ChildGoes(p, "halfway")
  /\ UNCHANGED <<marked, enrolled>>

DeletesAgent(p) ==
  /\ child[p].switch = "-fulluninstall" /\ child[p].at = "halfway"
  /\ DeleteService
  /\ enrolled' = "none"
  /\ ChildGoes(p, "ok")

ChildFails(p) ==
  /\ Running(p)
  /\ ChildGoes(p, "failed")
  /\ UNCHANGED <<enrolled, smVars>>

ChildStep(p) ==
  /\ Registers(p) \/ StartsAgent(p) \/ StopsAgent(p) \/ DeletesAgent(p)
       \/ ChildFails(p)
  /\ UNCHANGED <<procVars, staged, agentAt>>

\* The service and the SCM; no handle stays open between calls.
World ==
  /\ StartDone \/ ServiceDies \/ StopBegins \/ StopDone \/ Reap(FALSE)
  /\ UNCHANGED <<procVars, machine>>

CommandStep(p) ==
  \/ EnsureInstalled(p) \/ ShowStatus(p) \/ Stage(p) \/ Download(p)
  \/ Install(p) \/ Locate(p) \/ Uninstall(p) \/ Await(p) \/ KillChild(p) \/ Cleanup(p)
  \/ Start(p) \/ Stop(p) \/ Poll(p) \/ Wait(p) \/ WaitDone(p) \/ Exit(p)

Next ==
  \/ \E p \in Procs :
       \/ \E command \in Commands : Run(p, command)
       \/ CommandStep(p) \/ Killed(p) \/ Rerun(p) \/ ContextEnds(p)
       \/ ChildStep(p)
  \/ World

Spec == Init /\ [][Next]_vars

(***************************************************************************)
(* A process that is not killed runs on, every context ends (WithTimeout), *)
(* and select does not prefer the ticker for ever.  The installer need not *)
(* make progress.                                                          *)
(***************************************************************************)
Fairness ==
  \A p \in Procs :
    /\ WF_vars(CommandStep(p))
    /\ WF_vars(ContextEnds(p))
    /\ SF_vars(WaitDone(p))

FairSpec == Spec /\ Fairness

-----------------------------------------------------------------------------
(***************************************************************************)
(* When a command returns, whatever it met, its private staging directory  *)
(* is gone: the cleanup comes after the installer that ran from there has  *)
(* ended, or Windows would refuse it and the error would be dropped.       *)
(***************************************************************************)
StagingCleaned == \A p \in Procs : pc[p] = "done" => p \notin staged

(***************************************************************************)
(* A connect that stages in a directory of its own (no -dir) installs the  *)
(* agent of the group it was given, whatever other commands download and   *)
(* install meanwhile: what it runs is what it has downloaded itself.       *)
(***************************************************************************)
InstallsOwnAgent ==
  \A p \in Procs :
    (child[p].switch = "-fullinstall" /\ dir[p] = "private") => child[p].exe = p

(***************************************************************************)
(* Exit status 3 means refused: the command has run no installer and has   *)
(* neither started nor stopped the service, however far it had come.       *)
(***************************************************************************)
RefusedTouchesNothing ==
  \A p \in Procs :
    (pc[p] = "done" /\ report(err[p]) = "ExitDenied") =>
      did[p] \cap Changes = {}

(***************************************************************************)
(* Which agent the device runs changes only at the hands of an installer   *)
(* that agentinstall has started under an administrator's token, and only  *)
(* while the command that started it waits for it or has been killed: no   *)
(* command leaves an installer of its own behind when it returns.          *)
(***************************************************************************)
EnrolledByElevated ==
  [][enrolled' # enrolled =>
       \E p \in Procs :
         Running(p) /\ elevated[p] /\ pc[p] \in {"await", "killed"}]_vars

(***************************************************************************)
(* Every process, whatever the others, the service and the installers do   *)
(* meanwhile, keeps to CommandContract: what it has done when it exits is  *)
(* what its exit status says.                                              *)
(***************************************************************************)
Phase(p) ==
  CASE pc[p] = "idle" -> "idle"
    [] pc[p] = "done" -> report(err[p])
    [] OTHER -> "busy"

Contract ==
  INSTANCE CommandContract WITH
    phase <- [p \in Procs |-> Phase(p)],
    command <- cmd,
    privileged <- elevated

ImplementsContract == Contract!ContractSpec

(***************************************************************************)
(* Every command comes back, though the server, the service and the        *)
(* installer may hang: the timeout ends each wait, and kills the child.    *)
(***************************************************************************)
CommandReturns ==
  \A p \in Procs : pc[p] # "idle" ~> pc[p] \in {"idle", "killed"}

(***************************************************************************)
(* agentinstall/funcs.go:26: the binary that is run to install "must be a  *)
(* binary downloaded for the target device group", wherever it was staged. *)
(***************************************************************************)
InstallsTargetGroup ==
  \A p \in Procs : child[p].switch = "-fullinstall" => child[p].exe = p
=============================================================================

--------------------------- MODULE Meshctl_proofs ---------------------------
(***************************************************************************)
(* Proofs about Meshctl, for any number of processes, any of the commands, *)
(* both choices of the directory, on Windows and elsewhere.                *)
(***************************************************************************)
EXTENDS Meshctl, TLAPS

(***************************************************************************)
(* The strengthening.  A command is at steps of its own only; a child is   *)
(* awaited, so that none is left to run when the cleanup comes; a private  *)
(* directory lives from staging to cleanup; a refusal is met before the    *)
(* first change, and an installer is behind a check of the token; and what *)
(* a command counts on at its last step, it has done by then.              *)
(***************************************************************************)
StepFitsCommand(p) ==
  /\ pc[p] \in {"staging", "download", "register", "cleanup", "start"} =>
       cmd[p] = "connect"
  /\ pc[p] \in {"stop", "poll", "wait"} => cmd[p] = "disconnect"
  /\ pc[p] \in {"locate", "uninstall"} => cmd[p] = "uninstall"
  /\ pc[p] = "await" => cmd[p] \in {"connect", "uninstall"}
  /\ pc[p] # "idle" => dir[p] \in Dirs

ChildFitsStep(p) ==
  /\ child[p] # NoChild => pc[p] \in {"await", "killed"} /\ elevated[p]
  /\ (child[p].switch = "-fullinstall" /\ dir[p] = "private") => child[p].exe = p
  /\ agentAt[p] \in {p, "none"}

StagingFitsStep(p) ==
  p \in staged =>
    /\ pc[p] \in {"download", "register", "await", "cleanup", "killed"}
    /\ dir[p] = "private"
    /\ cmd[p] = "connect"

Refusals == {"ErrNotElevated", "ErrDownloadUnauthorized"}

ChangedBy(effects) == effects \cap Changes # {}

ChangesFitStep(p) ==
  /\ pc[p] \in {"idle", "status", "staging", "download", "register", "locate",
                "uninstall", "stop"} => ~ChangedBy(did[p])
  /\ err[p] \in Refusals =>
       /\ ~ChangedBy(did[p])
       /\ pc[p] \in {"cleanup", "done", "killed"}
  /\ pc[p] = "uninstall" => elevated[p]
  /\ "ran installer" \in did[p] => elevated[p]

WorkFitsStep(p) ==
  /\ pc[p] = "start" => ("found" \in did[p] \/ "installed" \in did[p])
  /\ (pc[p] = "cleanup" /\ err[p] = "nil") => "installed" \in did[p]
  /\ pc[p] \in {"poll", "wait"} => "stop accepted" \in did[p]
  /\ "found" \in did[p] =>
       pc[p] \in {"start", "done", "killed"} /\ "ran installer" \notin did[p]

Fits(p) ==
  /\ StepFitsCommand(p)
  /\ ChildFitsStep(p)
  /\ StagingFitsStep(p)
  /\ ChangesFitStep(p)
  /\ WorkFitsStep(p)

IInv ==
  /\ TypeOK
  /\ \A p \in Procs : Fits(p)

\* A step of one process, its installer included.
Step(p) ==
  \/ \E command \in Commands : Run(p, command)
  \/ CommandStep(p) \/ Killed(p) \/ Rerun(p) \/ ContextEnds(p) \/ ChildStep(p)

-----------------------------------------------------------------------------
LEMMA InitIInv == Init => IInv
<1> SUFFICES ASSUME Init PROVE IInv
  OBVIOUS
<1>1. TypeOK
  BY DEF Init, TypeOK, SMTypeOK, States, Steps, Errs
<1>2. ASSUME NEW p \in Procs PROVE Fits(p)
  BY <1>2, MeshctlAssumption
     DEF Init, Fits, StepFitsCommand, ChildFitsStep, StagingFitsStep,
         ChangesFitStep, WorkFitsStep, NoChild, Refusals, ChangedBy
<1>3. QED
  BY <1>1, <1>2 DEF IInv

\* What a call on the service answers: no refusal of the program's own, and
\* a question changes nothing.
LEMMA ServiceAnswers ==
  ASSUME SMTypeOK, NEW p \in Procs, NEW o \in {"Start", "Stop", "Status"},
         NEW e \in Errs, NEW s \in States,
         OnServiceInTime(p, o, e, s) \/ OnService(o, e, s)
  PROVE  /\ SMTypeOK'
         /\ e \notin Refusals
         /\ o = "Status" => state' = state
<1>1. ASSUME NEW r, r = [err |-> e, status |-> s], Call(o, r)
      PROVE  /\ SMTypeOK' /\ e \notin Refusals
             /\ o = "Status" => state' = state
  <2>1. e \notin Refusals
    BY <1>1 DEF Call, StartCall, StopCall, StatusCall, Answer, Refusals
  <2>2. CASE o = "Start"
    BY <1>1, <2>1, <2>2 DEF Call, StartCall, SMTypeOK, States, Registered
  <2>3. CASE o = "Stop"
    BY <1>1, <2>1, <2>3 DEF Call, StopCall, Answer, SMTypeOK, States, Registered
  <2>4. CASE o = "Status"
    BY <1>1, <2>1, <2>4 DEF Call, StatusCall, smVars, SMTypeOK
  <2>5. QED
    BY <2>2, <2>3, <2>4
<1>2. CASE Call(o, [err |-> e, status |-> s])
  BY <1>1, <1>2
<1>3. CASE e \in {"ErrUnsupportedPlatform", "context error"} /\ UNCHANGED smVars
  BY <1>3 DEF SMTypeOK, smVars, Refusals
<1>4. QED
  BY <1>2, <1>3 DEF OnServiceInTime, OnService

\* Answers of the elevation check.
LEMMA ElevationAnswers ==
  ASSUME NEW p \in Procs
  PROVE  /\ requireElevation(p) \in {"nil", "ErrNotElevated"}
         /\ requireElevation(p) = "nil" => elevated[p]
BY DEF requireElevation

\* The world outside keeps the types of the service.
LEMMA WorldTypes == SMTypeOK /\ World => SMTypeOK'
BY DEF SMTypeOK, World, StartDone, ServiceDies, StopBegins, StopDone, Reap,
       States, Registered

\* A child that is there is one of Children, and stays one as it goes on.
LEMMA ChildGoesOn ==
  ASSUME NEW c \in Children \cup {NoChild}, c # NoChild,
         NEW at \in {"begun", "halfway", "ok", "failed"}
  PROVE  /\ [c EXCEPT !.at = at] \in Children
         /\ [c EXCEPT !.at = at].switch = c.switch
         /\ [c EXCEPT !.at = at].exe = c.exe
         /\ [c EXCEPT !.at = at] # NoChild
BY DEF Children, NoChild

\* The step and the error that follow are of their types, and so is the
\* list of what has been done.
LEMMA ProceedTypes ==
  ASSUME TypeOK, NEW p \in Procs, NEW e \in Errs, NEW next \in Steps,
         NEW handler \in Steps, Proceed(p, e, next, handler)
  PROVE  pc' \in [Procs -> Steps] /\ err' \in [Procs -> Errs]
BY DEF TypeOK, Proceed, Goto

LEMMA DidTypes ==
  ASSUME TypeOK, NEW p \in Procs, NEW effects \in SUBSET Effects, Did(p, effects)
  PROVE  did' \in [Procs -> SUBSET Effects]
BY DEF TypeOK, Did

\* Starting an installer, or failing to.
LEMMA LaunchTypes ==
  ASSUME TypeOK, NEW p \in Procs, NEW switch \in {"-fullinstall", "-fulluninstall"},
         NEW exe \in Procs \cup {"none"}, NEW handler \in Steps,
         Launch(p, switch, exe, handler)
  PROVE  /\ pc' \in [Procs -> Steps]
         /\ err' \in [Procs -> Errs]
         /\ did' \in [Procs -> SUBSET Effects]
         /\ child' \in [Procs -> Children \cup {NoChild}]
<1>1. CASE /\ exe # "none"
           /\ SetChild(p, [switch |-> switch, at |-> "begun", exe |-> exe])
           /\ Proceed(p, "nil", "await", handler)
           /\ Did(p, {"ran installer"})
  <2>1. [switch |-> switch, at |-> "begun", exe |-> exe] \in Children
    BY <1>1 DEF Children
  <2>2. QED
    BY <1>1, <2>1 DEF TypeOK, SetChild, Proceed, Goto, Did, Steps, Errs, Effects, Changes
<1>2. CASE /\ \E e \in {"failed", "context error"} : Proceed(p, e, "await", handler)
           /\ UNCHANGED <<child, did>>
  <2>1. PICK e \in {"failed", "context error"} : Proceed(p, e, "await", handler)
    BY <1>2
  <2>2. e \in Errs /\ "await" \in Steps
    BY DEF Errs, Steps
  <2>3. QED
    BY <1>2, <2>1, <2>2, ProceedTypes DEF TypeOK
<1>3. QED
  BY <1>1, <1>2 DEF Launch

LEMMA StepTypes ==
  ASSUME TypeOK, NEW p \in Procs, Step(p)
  PROVE  TypeOK'
<1> USE DEF TypeOK, settings, machine, procVars
<1>1. ASSUME NEW command \in Commands, Run(p, command) PROVE TypeOK'
  BY <1>1 DEF Run, Goto, Steps, smVars, SMTypeOK
<1>2. CASE EnsureInstalled(p) \/ ShowStatus(p)
  <2>1. PICK e \in Errs, s \in States :
          /\ OnServiceInTime(p, "Status", e, s)
          /\ \/ /\ Proceed(p, e, IF s = "absent" THEN "staging" ELSE "start", "done")
                /\ Did(p, IF e = "nil" /\ s # "absent" THEN {"found"} ELSE {})
             \/ /\ Proceed(p, e, "done", "done")
                /\ Did(p, IF e = "nil" THEN {"asked"} ELSE {})
    BY <1>2 DEF EnsureInstalled, ShowStatus
  <2>2. SMTypeOK'
    BY <2>1, ServiceAnswers
  <2>3. pc' \in [Procs -> Steps] /\ err' \in [Procs -> Errs]
    BY <2>1 DEF Proceed, Goto, Steps
  <2>4. did' \in [Procs -> SUBSET Effects]
    <3>1. {"found"} \in SUBSET Effects /\ {"asked"} \in SUBSET Effects
      BY DEF Effects
    <3>2. QED
      BY <2>1, <3>1, DidTypes
  <2>5. QED
    BY <1>2, <2>2, <2>3, <2>4 DEF EnsureInstalled, ShowStatus
<1>3. CASE Stage(p)
  <2>1. PICK e \in {"nil", "failed"} : Proceed(p, e, "download", "done")
    BY <1>3 DEF Stage
  <2>2. e \in Errs /\ "download" \in Steps /\ "done" \in Steps
    BY DEF Errs, Steps
  <2>3. QED
    BY <1>3, <2>1, <2>2, ProceedTypes DEF Stage, smVars, SMTypeOK
<1>4. CASE Download(p)
  <2>1. PICK e \in {"nil", "failed", "ErrDownloadUnauthorized"} :
          Proceed(p, e, "register", afterFailure(p))
    BY <1>4 DEF Download
  <2>2. e \in Errs /\ "register" \in Steps /\ afterFailure(p) \in Steps
    BY DEF Errs, Steps, afterFailure
  <2>3. agentAt' \in [Procs \cup {"shared"} -> Procs \cup {"none"}]
    BY <1>4 DEF Download, Place
  <2>4. QED
    BY <1>4, <2>1, <2>2, <2>3, ProceedTypes DEF Download, smVars, SMTypeOK
<1>5. CASE Install(p)
  <2>1. agentAt[Place(p)] \in Procs \cup {"none"}
    BY DEF Place
  <2>2. CASE Launch(p, "-fullinstall", agentAt[Place(p)], "cleanup")
    <3>1. "cleanup" \in Steps
      BY DEF Steps
    <3>2. QED
      BY <1>5, <2>1, <2>2, <3>1, LaunchTypes DEF Install, smVars, SMTypeOK
  <2>3. CASE /\ Proceed(p, requireElevation(p), "await", "cleanup")
             /\ UNCHANGED <<child, did>>
    BY <1>5, <2>3, ElevationAnswers DEF Install, Proceed, Goto, Steps, Errs, smVars, SMTypeOK
  <2>4. QED
    BY <1>5, <2>2, <2>3 DEF Install
<1>6. CASE Locate(p)
  <2>1. PICK e \in Errs, s \in States, path \in {"", "exe"} :
          IF requireElevation(p) # "nil"
            THEN /\ Proceed(p, requireElevation(p), "uninstall", "done")
                 /\ UNCHANGED smVars
            ELSE /\ OnServiceInTime(p, "Status", e, s)
                 /\ Proceed(p, CASE e # "nil" -> e
                                [] s = "absent" -> "ErrNotInstalled"
                                [] path = "" -> "ErrUnknownServicePath"
                                [] OTHER -> "nil",
                            "uninstall", "done")
    BY <1>6 DEF Locate
  <2>2. SMTypeOK'
    BY <2>1, ServiceAnswers DEF smVars, SMTypeOK
  <2>3. pc' \in [Procs -> Steps] /\ err' \in [Procs -> Errs]
    <3>1. PICK f \in Errs : Proceed(p, f, "uninstall", "done")
      BY <2>1, ElevationAnswers DEF Errs
    <3>2. "uninstall" \in Steps /\ "done" \in Steps
      BY DEF Steps
    <3>3. QED
      BY <3>1, <3>2, ProceedTypes
  <2>4. QED
    BY <1>6, <2>2, <2>3 DEF Locate
<1>7. CASE Uninstall(p)
  <2>1. "done" \in Steps
    BY DEF Steps
  <2>2. QED
    BY <1>7, <2>1, LaunchTypes DEF Uninstall, smVars, SMTypeOK
<1>8. CASE Await(p)
  <2>1. pc' \in [Procs -> Steps] /\ err' \in [Procs -> Errs]
    <3>1. PICK e \in installerResult(p) : Proceed(p, e, afterInstaller(p), afterInstaller(p))
      BY <1>8 DEF Await
    <3>2. e \in Errs /\ afterInstaller(p) \in Steps
      BY DEF installerResult, afterInstaller, Errs, Steps
    <3>3. QED
      BY <3>1, <3>2, ProceedTypes
  <2>2. did' \in [Procs -> SUBSET Effects]
    BY <1>8 DEF Await, Did, Effects
  <2>3. QED
    BY <1>8, <2>1, <2>2 DEF Await, SetChild, smVars, SMTypeOK
<1>9. CASE KillChild(p)
  <2>1. child[p] # NoChild
    BY <1>9 DEF KillChild, Running, NoChild
  <2>2. QED
    BY <1>9, <2>1, ChildGoesOn DEF KillChild, SetChild, smVars, SMTypeOK
<1>10. CASE Cleanup(p)
  BY <1>10 DEF Cleanup, Goto, Steps, smVars, SMTypeOK
<1>11. CASE Start(p)
  <2>1. PICK e \in Errs, s \in States :
          /\ OnServiceInTime(p, "Start", e, s)
          /\ Proceed(p, e, "done", "done")
          /\ Did(p, (IF e = "nil" THEN {"up"} ELSE {})
                      \cup (IF state' # state THEN {"started"} ELSE {}))
    BY <1>11 DEF Start
  <2>2. SMTypeOK'
    BY <2>1, ServiceAnswers
  <2>3. pc' \in [Procs -> Steps] /\ err' \in [Procs -> Errs]
    BY <2>1 DEF Proceed, Goto, Steps
  <2>4. did' \in [Procs -> SUBSET Effects]
    BY <2>1 DEF Did, Effects, Changes
  <2>5. QED
    BY <1>11, <2>2, <2>3, <2>4 DEF Start
<1>12. CASE Stop(p)
  <2>1. PICK e \in Errs, s \in States :
          /\ OnService("Stop", e, s)
          /\ Proceed(p, e, "poll", "done")
          /\ Did(p, (IF e = "nil" THEN {"stop accepted"} ELSE {})
                      \cup (IF e = "nil" /\ state = "running" THEN {"stopped"} ELSE {}))
    BY <1>12 DEF Stop
  <2>2. SMTypeOK'
    BY <2>1, ServiceAnswers
  <2>3. pc' \in [Procs -> Steps] /\ err' \in [Procs -> Errs]
    BY <2>1 DEF Proceed, Goto, Steps
  <2>4. did' \in [Procs -> SUBSET Effects]
    BY <2>1 DEF Did, Effects, Changes
  <2>5. QED
    BY <1>12, <2>2, <2>3, <2>4 DEF Stop
<1>13. CASE Poll(p)
  <2>1. PICK e \in Errs, s \in States :
          /\ OnService("Status", e, s)
          /\ Proceed(p, e, IF s = "running" THEN "wait" ELSE "done", "done")
          /\ Did(p, IF e = "nil" /\ s # "running" THEN {"seen down"} ELSE {})
    BY <1>13 DEF Poll
  <2>2. SMTypeOK'
    BY <2>1, ServiceAnswers
  <2>3. pc' \in [Procs -> Steps] /\ err' \in [Procs -> Errs]
    BY <2>1 DEF Proceed, Goto, Steps
  <2>4. did' \in [Procs -> SUBSET Effects]
    BY <2>1 DEF Did, Effects
  <2>5. QED
    BY <1>13, <2>2, <2>3, <2>4 DEF Poll
<1>14. CASE Wait(p) \/ WaitDone(p)
  BY <1>14 DEF Wait, WaitDone, Proceed, Goto, Steps, Errs, smVars, SMTypeOK
<1>15. CASE Exit(p)
  BY <1>15 DEF Exit, Renew, Goto, Steps, Errs, smVars, SMTypeOK
<1>16. CASE Killed(p) \/ ContextEnds(p)
  BY <1>16 DEF Killed, ContextEnds, Goto, Steps, smVars, SMTypeOK
<1>17. CASE Rerun(p)
  BY <1>17 DEF Rerun, Renew, Goto, SetChild, Steps, Errs, smVars, SMTypeOK
<1>18. CASE ChildStep(p)
  <2>1. child[p] # NoChild
    BY <1>18 DEF ChildStep, Registers, StartsAgent, StopsAgent, DeletesAgent,
                 ChildFails, Running, NoChild
  <2>2. child[p].exe \in Procs
    BY <2>1 DEF Children
  <2>3. child' \in [Procs -> Children \cup {NoChild}]
    <3>1. PICK at \in {"begun", "halfway", "ok", "failed"} : ChildGoes(p, at)
      BY <1>18 DEF ChildStep, Registers, StartsAgent, StopsAgent, DeletesAgent, ChildFails
    <3>2. [child[p] EXCEPT !.at = at] \in Children
      BY <2>1, ChildGoesOn
    <3>3. QED
      BY <3>1, <3>2 DEF ChildGoes, SetChild
  <2>4. SMTypeOK'
    BY <1>18 DEF ChildStep, Registers, StartsAgent, StartService, StopsAgent,
                 DeletesAgent, DeleteService, ChildFails, SMTypeOK, States,
                 Registered, smVars
  <2>5. enrolled' \in Procs \cup {"none"}
    BY <1>18, <2>2 DEF ChildStep, Registers, StartsAgent, StopsAgent, DeletesAgent,
                       ChildFails
  <2>6. QED
    BY <1>18, <2>3, <2>4, <2>5 DEF ChildStep
<1>19. QED
  BY <1>1, <1>2, <1>3, <1>4, <1>5, <1>6, <1>7, <1>8, <1>9, <1>10, <1>11, <1>12,
     <1>13, <1>14, <1>15, <1>16, <1>17, <1>18 DEF Step, CommandStep

-----------------------------------------------------------------------------
\* A step of one process leaves the others' state alone, what they have
\* downloaded to directories of their own included.
SameState(q) ==
  /\ pc'[q] = pc[q] /\ cmd'[q] = cmd[q] /\ dir'[q] = dir[q]
  /\ elevated'[q] = elevated[q] /\ err'[q] = err[q] /\ did'[q] = did[q]
  /\ q \in staged' <=> q \in staged
  /\ agentAt'[q] = agentAt[q] /\ child'[q] = child[q]

\* What the next step and the error are after Proceed, for the process ...
LEMMA ProceedEffect ==
  ASSUME TypeOK, NEW p \in Procs, NEW e, NEW next, NEW handler,
         Proceed(p, e, next, handler)
  PROVE  /\ err'[p] = e
         /\ e = "nil" => pc'[p] = next
         /\ e # "nil" => pc'[p] = handler
         /\ pc'[p] \in {next, handler}
BY DEF TypeOK, Proceed, Goto

\* ... and for the others.
LEMMA ProceedIsOwn ==
  ASSUME TypeOK, NEW p \in Procs, NEW e, NEW next, NEW handler,
         Proceed(p, e, next, handler), NEW q \in Procs, q # p
  PROVE  pc'[q] = pc[q] /\ err'[q] = err[q]
BY DEF TypeOK, Proceed, Goto

\* What a process has started, or not, nobody else notices.
LEMMA LaunchIsOwn ==
  ASSUME TypeOK, NEW p \in Procs, NEW switch, NEW exe, NEW handler,
         Launch(p, switch, exe, handler), NEW q \in Procs, q # p
  PROVE  /\ pc'[q] = pc[q] /\ err'[q] = err[q]
         /\ did'[q] = did[q] /\ child'[q] = child[q]
<1>1. PICK e \in {"nil", "failed", "context error"} : Proceed(p, e, "await", handler)
  BY DEF Launch
<1>2. did'[q] = did[q] /\ child'[q] = child[q]
  BY DEF Launch, Did, SetChild, TypeOK
<1>3. QED
  BY <1>1, <1>2, ProceedIsOwn

LEMMA OthersUnchanged ==
  ASSUME TypeOK, NEW p \in Procs, Step(p), NEW q \in Procs, q # p
  PROVE  SameState(q)
<1> USE DEF TypeOK, SameState, settings, machine, procVars, Goto, Proceed, Did, SetChild
<1>1. ASSUME NEW command \in Commands, Run(p, command) PROVE SameState(q)
  BY <1>1 DEF Run
<1>2. CASE EnsureInstalled(p) \/ ShowStatus(p) \/ Start(p) \/ Stop(p) \/ Poll(p)
  BY <1>2 DEF EnsureInstalled, ShowStatus, Start, Stop, Poll
<1>3. CASE Stage(p) \/ Cleanup(p)
  BY <1>3 DEF Stage, Cleanup
<1>4. CASE Download(p)
  <2>1. q # Place(p)
    BY <1>4, MeshctlAssumption DEF Place
  <2>2. QED
    BY <1>4, <2>1 DEF Download
<1>5. CASE Install(p) \/ Uninstall(p)
  <2>1. child'[q] = child[q] /\ pc'[q] = pc[q] /\ err'[q] = err[q] /\ did'[q] = did[q]
    BY <1>5, LaunchIsOwn DEF Install, Uninstall
  <2>2. QED
    BY <1>5, <2>1 DEF Install, Uninstall
<1>6. CASE Locate(p)
  <2>1. \E e : Proceed(p, e, "uninstall", "done")
    BY <1>6 DEF Locate, Proceed
  <2>2. pc'[q] = pc[q] /\ err'[q] = err[q]
    BY <2>1, ProceedIsOwn
  <2>3. QED
    BY <1>6, <2>2 DEF Locate
<1>7. CASE Await(p) \/ KillChild(p)
  BY <1>7 DEF Await, KillChild
<1>8. CASE Wait(p) \/ WaitDone(p)
  BY <1>8 DEF Wait, WaitDone
<1>9. CASE Exit(p) \/ Rerun(p)
  BY <1>9 DEF Exit, Rerun, Renew
<1>10. CASE Killed(p) \/ ContextEnds(p)
  BY <1>10 DEF Killed, ContextEnds
<1>11. CASE ChildStep(p)
  BY <1>11 DEF ChildStep, Registers, StartsAgent, StopsAgent, DeletesAgent,
               ChildFails, ChildGoes
<1>12. QED
  BY <1>1, <1>2, <1>3, <1>4, <1>5, <1>6, <1>7, <1>8, <1>9, <1>10, <1>11
     DEF Step, CommandStep

LEMMA SameStateFits ==
  ASSUME NEW q \in Procs, Fits(q), SameState(q)
  PROVE  Fits(q)'
BY DEF SameState, Fits, StepFitsCommand, ChildFitsStep, StagingFitsStep,
       ChangesFitStep, WorkFitsStep

LEMMA DidEffect ==
  ASSUME TypeOK, NEW p \in Procs, NEW effects, Did(p, effects)
  PROVE  did'[p] = did[p] \cup effects
BY DEF TypeOK, Did

\* What is only observed is no change.
LEMMA ObservedOnly ==
  ASSUME NEW a, NEW b, b \cap Changes = {}
  PROVE  ChangedBy(a \cup b) <=> ChangedBy(a)
BY DEF ChangedBy

LEMMA InstallerChanges ==
  ASSUME NEW a, "ran installer" \in a
  PROVE  ChangedBy(a)
BY DEF ChangedBy, Changes

\* The token of a command that may have run an installer.
LEMMA NotAnInstaller ==
  ASSUME NEW p \in Procs, Fits(p), NEW effects, "ran installer" \notin effects,
         did'[p] = did[p] \cup effects, elevated'[p] = elevated[p]
  PROVE  "ran installer" \in did'[p] => elevated'[p]
BY DEF Fits, ChangesFitStep

LEMMA RenewEffect ==
  ASSUME TypeOK, NEW p \in Procs, Renew(p)
  PROVE  /\ pc'[p] = "idle" /\ err'[p] = "nil" /\ did'[p] = {}
         /\ ~ChangedBy(did'[p])
<1>1. pc'[p] = "idle" /\ err'[p] = "nil" /\ did'[p] = {}
  BY DEF TypeOK, Renew, Goto
<1>2. QED
  BY <1>1 DEF ChangedBy

\* An installer that runs is one that was started, and stays the one it is.
LEMMA ChildIsThere ==
  ASSUME TypeOK, NEW p \in Procs, Running(p) \/ ChildStep(p)
  PROVE  child[p] # NoChild
BY DEF ChildStep, Registers, StartsAgent, StopsAgent, DeletesAgent, ChildFails,
       Running, NoChild

LEMMA ChildStays ==
  ASSUME TypeOK, NEW p \in Procs, child[p] # NoChild,
         NEW at \in {"begun", "halfway", "ok", "failed"}, ChildGoes(p, at)
  PROVE  child'[p].switch = child[p].switch /\ child'[p].exe = child[p].exe
<1>1. child'[p] = [child[p] EXCEPT !.at = at] /\ child[p] \in Children \cup {NoChild}
  BY DEF ChildGoes, SetChild, TypeOK
<1>2. QED
  BY <1>1, ChildGoesOn

LEMMA StepFits ==
  ASSUME TypeOK, NEW p \in Procs, Fits(p), Step(p)
  PROVE  Fits(p)'
<1>0. NoChild.switch = "none"
  BY DEF NoChild
<1>1. ASSUME NEW command \in Commands, Run(p, command) PROVE Fits(p)'
  <2>1. /\ cmd'[p] = command /\ dir'[p] \in Dirs
        /\ pc'[p] = CASE command = "disconnect" -> "stop"
                      [] command = "uninstall" -> "locate"
                      [] OTHER -> "status"
    BY <1>1 DEF Run, Goto, TypeOK
  <2>2. pc[p] = "idle" /\ UNCHANGED <<err, did, staged, agentAt, child>>
    BY <1>1 DEF Run, machine
  <2>3. pc'[p] \in {"stop", "locate", "status"}
    BY <2>1
  <2>4. /\ pc'[p] = "stop" => cmd'[p] = "disconnect"
        /\ pc'[p] = "locate" => cmd'[p] = "uninstall"
    BY <2>1
  <2>5. child[p] = NoChild /\ child[p].switch = "none"
    BY <1>0, <2>2 DEF Fits, ChildFitsStep
  <2>6. "ran installer" \notin did'[p]
    BY <2>2, InstallerChanges DEF Fits, ChangesFitStep
  <2>7. QED
    BY <2>1, <2>2, <2>3, <2>4, <2>5, <2>6
       DEF Fits, StepFitsCommand, ChildFitsStep, StagingFitsStep,
           ChangesFitStep, WorkFitsStep, Refusals
<1>2. CASE EnsureInstalled(p) \/ ShowStatus(p)
  <2>1. PICK e \in Errs, s \in States, effects \in {{}, {"found"}, {"asked"}} :
          /\ OnServiceInTime(p, "Status", e, s)
          /\ Did(p, effects)
          /\ \/ /\ cmd[p] = "connect"
                /\ Proceed(p, e, IF s = "absent" THEN "staging" ELSE "start", "done")
                /\ effects = IF e = "nil" /\ s # "absent" THEN {"found"} ELSE {}
             \/ Proceed(p, e, "done", "done") /\ effects # {"found"}
    BY <1>2 DEF EnsureInstalled, ShowStatus
  <2>2. e \notin Refusals
    BY <2>1, ServiceAnswers DEF TypeOK
  <2>3. did'[p] = did[p] \cup effects
    BY <2>1, DidEffect
  <2>4. ChangedBy(did'[p]) <=> ChangedBy(did[p])
    <3>1. effects \cap Changes = {}
      BY DEF Changes
    <3>2. QED
      BY <2>3, <3>1, ObservedOnly
  <2>5. /\ err'[p] = e
        /\ pc'[p] \in {"staging", "start", "done"}
        /\ pc'[p] \in {"staging", "start"} => cmd[p] = "connect"
        /\ pc'[p] = "start" => "found" \in did'[p]
    <3>1. CASE Proceed(p, e, "done", "done")
      BY <3>1, ProceedEffect
    <3>2. CASE /\ cmd[p] = "connect" /\ s = "absent"
               /\ Proceed(p, e, "staging", "done")
      BY <3>2, ProceedEffect
    <3>3. CASE /\ cmd[p] = "connect"
               /\ Proceed(p, e, "start", "done")
               /\ e = "nil" => effects = {"found"}
      BY <2>3, <3>3, ProceedEffect
    <3>4. QED
      BY <2>1, <3>1, <3>2, <3>3
  <2>6. /\ pc[p] = "status"
        /\ UNCHANGED <<cmd, dir, elevated, staged, agentAt, child>>
    BY <1>2 DEF EnsureInstalled, ShowStatus, settings, machine
  <2>7. /\ "found" \in did'[p] => pc'[p] = "start"
        /\ "ran installer" \notin did'[p]
    <3>1. ~ChangedBy(did'[p]) /\ "found" \notin did[p]
      BY <2>4, <2>6 DEF Fits, ChangesFitStep, WorkFitsStep
    <3>2. "found" \in did'[p] => effects = {"found"}
      BY <2>3, <3>1
    <3>3. effects = {"found"} => e = "nil" /\ Proceed(p, e, "start", "done")
      BY <2>1
    <3>4. effects = {"found"} => pc'[p] = "start"
      BY <3>3, ProceedEffect
    <3>5. "ran installer" \notin did'[p]
      BY <3>1, InstallerChanges
    <3>6. QED
      BY <3>2, <3>4, <3>5
  <2>8. QED
    BY <2>2, <2>4, <2>5, <2>6, <2>7
       DEF Fits, StepFitsCommand, ChildFitsStep, StagingFitsStep,
           ChangesFitStep, WorkFitsStep, Refusals
<1>3. CASE Stage(p)
  <2>1. PICK e \in {"nil", "failed"} : Proceed(p, e, "download", "done")
    BY <1>3 DEF Stage
  <2>2. /\ err'[p] = e
        /\ e = "nil" => pc'[p] = "download"
        /\ e # "nil" => pc'[p] = "done"
    BY <2>1, ProceedEffect
  <2>3. /\ pc[p] = "staging" /\ UNCHANGED <<cmd, dir, elevated, did, agentAt, child>>
        /\ p \in staged' => p \in staged \/ (dir[p] = "private" /\ e = "nil")
    <3>1. CASE staged' = staged
      BY <1>3, <3>1 DEF Stage, settings
    <3>2. CASE dir[p] = "private" /\ Proceed(p, "nil", "download", "done")
      BY <1>3, <2>2, <3>2, ProceedEffect DEF Stage, settings
    <3>3. QED
      BY <1>3, <3>1, <3>2 DEF Stage
  <2>4. QED
    BY <2>2, <2>3
       DEF Fits, StepFitsCommand, ChildFitsStep, StagingFitsStep,
           ChangesFitStep, WorkFitsStep, Refusals
<1>4. CASE Download(p)
  <2>1. PICK e \in {"nil", "failed", "ErrDownloadUnauthorized"} :
          Proceed(p, e, "register", "cleanup")
    BY <1>4 DEF Download, afterFailure
  <2>2. /\ err'[p] = e
        /\ e = "nil" => pc'[p] = "register"
        /\ e # "nil" => pc'[p] = "cleanup"
    BY <2>1, ProceedEffect
  <2>3. agentAt'[p] \in {p, "none"}
    <3>1. CASE agentAt' = [agentAt EXCEPT ![Place(p)] = p]
      BY <3>1, MeshctlAssumption DEF Place, TypeOK, Fits, ChildFitsStep
    <3>2. CASE agentAt' = agentAt
      BY <3>2 DEF Fits, ChildFitsStep
    <3>3. QED
      BY <1>4, <3>1, <3>2 DEF Download
  <2>4. pc[p] = "download" /\ UNCHANGED <<cmd, dir, elevated, did, staged, child>>
    BY <1>4 DEF Download, settings
  <2>5. QED
    BY <2>2, <2>3, <2>4
       DEF Fits, StepFitsCommand, ChildFitsStep, StagingFitsStep,
           ChangesFitStep, WorkFitsStep, Refusals
<1>5. CASE Install(p)
  <2>0. /\ pc[p] = "register"
        /\ UNCHANGED <<cmd, dir, elevated, staged, agentAt>>
    BY <1>5 DEF Install, settings
  <2>1. ASSUME NEW e \in {"failed", "context error", "ErrNotElevated"},
               Proceed(p, e, "await", "cleanup"), UNCHANGED <<child, did>>
        PROVE  Fits(p)'
    <3>1. err'[p] = e /\ pc'[p] = "cleanup"
      BY <2>1, ProceedEffect
    <3>2. QED
      BY <2>0, <2>1, <3>1
         DEF Fits, StepFitsCommand, ChildFitsStep, StagingFitsStep,
             ChangesFitStep, WorkFitsStep, Refusals
  <2>2. CASE /\ SetChild(p, [switch |-> "-fullinstall", at |-> "begun",
                             exe |-> agentAt[Place(p)]])
             /\ Proceed(p, "nil", "await", "cleanup")
             /\ Did(p, {"ran installer"})
             /\ agentAt[Place(p)] # "none"
             /\ elevated[p]
    <3>1. child'[p].switch = "-fullinstall" /\ child'[p].exe = agentAt[Place(p)]
      BY <2>2 DEF SetChild, TypeOK
    <3>2. dir[p] = "private" => agentAt[Place(p)] = p
      BY <2>2 DEF Place, Fits, ChildFitsStep
    <3>3. err'[p] = "nil" /\ pc'[p] = "await"
      BY <2>2, ProceedEffect
    <3>4. "found" \notin did'[p]
      <4>1. "found" \notin did[p]
        BY <2>0 DEF Fits, WorkFitsStep
      <4>2. did'[p] = did[p] \cup {"ran installer"}
        BY <2>2, DidEffect
      <4>3. QED
        BY <4>1, <4>2
    <3>5. QED
      BY <2>0, <2>2, <3>1, <3>2, <3>3, <3>4
         DEF Fits, StepFitsCommand, ChildFitsStep, StagingFitsStep,
             ChangesFitStep, WorkFitsStep, Refusals
  <2>3. QED
    BY <1>5, <2>1, <2>2, ElevationAnswers DEF Install, Launch
<1>6. CASE Locate(p)
  <2>1. PICK f \in Errs : /\ Proceed(p, f, "uninstall", "done")
                          /\ f = "nil" => elevated[p]
    BY <1>6, ElevationAnswers DEF Locate, Errs
  <2>2. /\ pc'[p] \in {"uninstall", "done"} /\ err'[p] = f
        /\ f # "nil" => pc'[p] = "done"
    BY <2>1, ProceedEffect
  <2>3. /\ pc[p] = "locate"
        /\ UNCHANGED <<cmd, dir, elevated, did, staged, agentAt, child>>
    BY <1>6 DEF Locate, settings, machine
  <2>4. QED
    BY <2>1, <2>2, <2>3
       DEF Fits, StepFitsCommand, ChildFitsStep, StagingFitsStep,
           ChangesFitStep, WorkFitsStep, Refusals
<1>7. CASE Uninstall(p)
  <2>0. /\ pc[p] = "uninstall"
        /\ UNCHANGED <<cmd, dir, elevated, staged, agentAt>>
    BY <1>7 DEF Uninstall, settings
  <2>1. CASE /\ SetChild(p, [switch |-> "-fulluninstall", at |-> "begun",
                             exe |-> enrolled])
             /\ Proceed(p, "nil", "await", "done")
             /\ Did(p, {"ran installer"})
    <3>1. child'[p].switch = "-fulluninstall"
      BY <2>1 DEF SetChild, TypeOK
    <3>2. err'[p] = "nil" /\ pc'[p] = "await"
      BY <2>1, ProceedEffect
    <3>3. "found" \notin did'[p]
      <4>1. "found" \notin did[p]
        BY <2>0 DEF Fits, WorkFitsStep
      <4>2. did'[p] = did[p] \cup {"ran installer"}
        BY <2>1, DidEffect
      <4>3. QED
        BY <4>1, <4>2
    <3>4. QED
      BY <2>0, <3>1, <3>2, <3>3
         DEF Fits, StepFitsCommand, ChildFitsStep, StagingFitsStep,
             ChangesFitStep, WorkFitsStep, Refusals
  <2>2. ASSUME NEW e \in {"failed", "context error"},
               Proceed(p, e, "await", "done"), UNCHANGED <<child, did>>
        PROVE  Fits(p)'
    <3>1. err'[p] = e /\ pc'[p] = "done"
      BY <2>2, ProceedEffect
    <3>2. QED
      BY <2>0, <2>2, <3>1
         DEF Fits, StepFitsCommand, ChildFitsStep, StagingFitsStep,
             ChangesFitStep, WorkFitsStep, Refusals
  <2>3. QED
    BY <1>7, <2>1, <2>2 DEF Uninstall, Launch
<1>8. CASE Await(p)
  <2>1. PICK e \in installerResult(p) : Proceed(p, e, afterInstaller(p), afterInstaller(p))
    BY <1>8 DEF Await
  <2>2. /\ e \notin Refusals
        /\ e = "nil" => child[p].at = "ok"
    BY DEF installerResult, Refusals
  <2>3. err'[p] = e /\ pc'[p] = afterInstaller(p)
    BY <2>1, ProceedEffect
  <2>4. child'[p] = NoChild /\ child'[p].switch = "none"
    BY <1>8 DEF Await, SetChild, NoChild, TypeOK
  <2>5. PICK effects \in {{}, {"installed"}, {"removed"}} :
          /\ Did(p, effects)
          /\ (child[p].at = "ok" /\ cmd[p] = "connect") => effects = {"installed"}
    BY <1>8 DEF Await
  <2>6. did'[p] = did[p] \cup effects
    BY <2>5, DidEffect
  <2>7. /\ ChangedBy(did'[p]) <=> ChangedBy(did[p])
        /\ (child[p].at = "ok" /\ cmd[p] = "connect") => "installed" \in did'[p]
    <3>1. effects \cap Changes = {}
      BY DEF Changes
    <3>2. QED
      BY <2>5, <2>6, <3>1, ObservedOnly
  <2>8. /\ pc[p] = "await"
        /\ UNCHANGED <<cmd, dir, elevated, staged, agentAt>>
    BY <1>8 DEF Await, settings
  <2>9. "found" \notin did'[p]
    BY <2>5, <2>6, <2>8 DEF Fits, WorkFitsStep
  <2>10. "ran installer" \in did'[p] => elevated'[p]
    BY <2>6, <2>8, NotAnInstaller
  <2>11. QED
    BY <2>2, <2>3, <2>4, <2>7, <2>8, <2>9, <2>10
       DEF afterInstaller, Fits, StepFitsCommand, ChildFitsStep, StagingFitsStep,
           ChangesFitStep, WorkFitsStep, Refusals
<1>9. CASE KillChild(p)
  <2>1. child[p] # NoChild
    BY <1>9, ChildIsThere DEF KillChild
  <2>2. child'[p].switch = child[p].switch /\ child'[p].exe = child[p].exe
    BY <1>9, <2>1, ChildStays DEF KillChild, ChildGoes
  <2>3. UNCHANGED <<pc, cmd, dir, elevated, err, did, staged, agentAt>>
    BY <1>9 DEF KillChild, procVars
  <2>4. QED
    BY <2>1, <2>2, <2>3
       DEF Fits, StepFitsCommand, ChildFitsStep, StagingFitsStep,
           ChangesFitStep, WorkFitsStep, Refusals
<1>10. CASE Cleanup(p)
  <2>1. child[p] = NoChild /\ ~Running(p)
    BY <1>10 DEF Cleanup, Running, NoChild, Fits, ChildFitsStep
  <2>2. /\ pc[p] = "cleanup"
        /\ UNCHANGED <<cmd, dir, elevated, err, did, child>>
        /\ pc'[p] = IF err[p] = "nil" THEN "start" ELSE "done"
    BY <1>10 DEF Cleanup, settings, Goto, TypeOK
  <2>3. p \notin staged' /\ agentAt'[p] \in {p, "none"}
    BY <1>10, <2>1 DEF Cleanup, TypeOK, Fits, ChildFitsStep, StagingFitsStep
  <2>4. QED
    BY <2>1, <2>2, <2>3
       DEF Fits, StepFitsCommand, ChildFitsStep, StagingFitsStep,
           ChangesFitStep, WorkFitsStep, Refusals
<1>11. CASE Start(p)
  <2>1. PICK e \in Errs, s \in States, up \in {{}, {"up"}}, started \in {{}, {"started"}} :
          /\ OnServiceInTime(p, "Start", e, s)
          /\ Proceed(p, e, "done", "done")
          /\ Did(p, up \cup started)
    BY <1>11 DEF Start
  <2>2. e \notin Refusals
    BY <2>1, ServiceAnswers DEF TypeOK
  <2>3. did'[p] = did[p] \cup (up \cup started)
    BY <2>1, DidEffect
  <2>4. "ran installer" \notin up \cup started
    <3>1. up \subseteq {"up"} /\ started \subseteq {"started"}
      BY <2>1
    <3>2. QED
      BY <3>1
  <2>5. err'[p] = e /\ pc'[p] = "done"
    BY <2>1, ProceedEffect
  <2>6. /\ pc[p] = "start"
        /\ UNCHANGED <<cmd, dir, elevated, staged, agentAt, child>>
    BY <1>11 DEF Start, settings, machine
  <2>7. /\ "found" \in did'[p] => "ran installer" \notin did'[p]
        /\ "ran installer" \in did'[p] => elevated'[p]
    BY <2>3, <2>4, <2>6, NotAnInstaller DEF Fits, WorkFitsStep
  <2>8. QED
    BY <2>2, <2>5, <2>6, <2>7
       DEF Fits, StepFitsCommand, ChildFitsStep, StagingFitsStep,
           ChangesFitStep, WorkFitsStep, Refusals
<1>12. CASE Stop(p)
  <2>1. PICK e \in Errs, s \in States :
          /\ OnService("Stop", e, s)
          /\ Proceed(p, e, "poll", "done")
          /\ Did(p, (IF e = "nil" THEN {"stop accepted"} ELSE {})
                      \cup (IF e = "nil" /\ state = "running" THEN {"stopped"} ELSE {}))
    BY <1>12 DEF Stop
  <2>2. e \notin Refusals
    BY <2>1, ServiceAnswers DEF TypeOK
  <2>3. /\ err'[p] = e
        /\ e = "nil" => pc'[p] = "poll"
        /\ e # "nil" => pc'[p] = "done"
    BY <2>1, ProceedEffect
  <2>4. PICK accepted \in {{}, {"stop accepted"}}, stopped \in {{}, {"stopped"}} :
          /\ Did(p, accepted \cup stopped)
          /\ e = "nil" => accepted = {"stop accepted"}
    BY <2>1
  <2>5. /\ did'[p] = did[p] \cup (accepted \cup stopped)
        /\ "ran installer" \notin accepted \cup stopped
        /\ e = "nil" => "stop accepted" \in did'[p]
    <3>1. did'[p] = did[p] \cup (accepted \cup stopped)
      BY <2>4, DidEffect
    <3>2. QED
      BY <2>4, <3>1
  <2>6. /\ pc[p] = "stop"
        /\ UNCHANGED <<cmd, dir, elevated, staged, agentAt, child>>
    BY <1>12 DEF Stop, settings, machine
  <2>7. /\ "found" \notin did'[p]
        /\ "ran installer" \in did'[p] => elevated'[p]
    BY <2>5, <2>6, NotAnInstaller DEF Fits, WorkFitsStep
  <2>8. QED
    BY <2>2, <2>3, <2>5, <2>6, <2>7
       DEF Fits, StepFitsCommand, ChildFitsStep, StagingFitsStep,
           ChangesFitStep, WorkFitsStep, Refusals
<1>13. CASE Poll(p)
  <2>1. PICK e \in Errs, s \in States, seen \in {{}, {"seen down"}} :
          /\ OnService("Status", e, s)
          /\ Proceed(p, e, IF s = "running" THEN "wait" ELSE "done", "done")
          /\ Did(p, seen)
    BY <1>13 DEF Poll
  <2>2. e \notin Refusals
    BY <2>1, ServiceAnswers DEF TypeOK
  <2>3. did'[p] = did[p] \cup seen
    BY <2>1, DidEffect
  <2>4. /\ ChangedBy(did'[p]) <=> ChangedBy(did[p])
        /\ "stop accepted" \in did[p] => "stop accepted" \in did'[p]
    <3>1. seen \cap Changes = {}
      BY DEF Changes
    <3>2. QED
      BY <2>3, <3>1, ObservedOnly
  <2>5. err'[p] = e /\ pc'[p] \in {"wait", "done"}
    BY <2>1, ProceedEffect
  <2>6. /\ pc[p] = "poll"
        /\ UNCHANGED <<cmd, dir, elevated, staged, agentAt, child>>
    BY <1>13 DEF Poll, settings, machine
  <2>7. /\ "found" \notin did'[p]
        /\ "ran installer" \in did'[p] => elevated'[p]
    BY <2>3, <2>6, NotAnInstaller DEF Fits, WorkFitsStep
  <2>8. QED
    BY <2>2, <2>4, <2>5, <2>6, <2>7
       DEF Fits, StepFitsCommand, ChildFitsStep, StagingFitsStep,
           ChangesFitStep, WorkFitsStep, Refusals
<1>14. CASE Wait(p) \/ WaitDone(p)
  <2>1. PICK e \in {"nil", "context error"} : Proceed(p, e, "poll", "done")
    BY <1>14 DEF Wait, WaitDone
  <2>2. err'[p] = e /\ pc'[p] \in {"poll", "done"}
    BY <2>1, ProceedEffect
  <2>3. /\ pc[p] = "wait"
        /\ UNCHANGED <<cmd, dir, elevated, did, staged, agentAt, child>>
    BY <1>14 DEF Wait, WaitDone, settings, machine
  <2>4. QED
    BY <2>2, <2>3
       DEF Fits, StepFitsCommand, ChildFitsStep, StagingFitsStep,
           ChangesFitStep, WorkFitsStep, Refusals
<1>15. CASE Exit(p) \/ Rerun(p)
  <2>1. pc'[p] = "idle" /\ err'[p] = "nil" /\ did'[p] = {}
    BY <1>15, RenewEffect DEF Exit, Rerun
  <2>2. ~ChangedBy(did'[p])
    BY <1>15, RenewEffect DEF Exit, Rerun
  <2>3. p \notin staged' /\ child'[p] = NoChild /\ agentAt'[p] \in {p, "none"}
    BY <1>15 DEF Exit, Rerun, machine, SetChild, TypeOK, Fits, ChildFitsStep,
           StagingFitsStep
  <2>4. child'[p].switch = "none"
    BY <1>0, <2>3
  <2>5. QED
    BY <2>1, <2>2, <2>3, <2>4
       DEF Fits, StepFitsCommand, ChildFitsStep, StagingFitsStep,
           ChangesFitStep, WorkFitsStep, Refusals
<1>16. CASE Killed(p) \/ ContextEnds(p)
  <2>1. pc'[p] \in {pc[p], "killed"}
    BY <1>16 DEF Killed, ContextEnds, Goto, TypeOK
  <2>2. /\ pc[p] # "idle"
        /\ UNCHANGED <<cmd, dir, elevated, err, did, staged, agentAt, child>>
    BY <1>16 DEF Killed, ContextEnds, settings, machine
  <2>3. QED
    BY <2>1, <2>2
       DEF Fits, StepFitsCommand, ChildFitsStep, StagingFitsStep,
           ChangesFitStep, WorkFitsStep, Refusals
<1>17. CASE ChildStep(p)
  <2>1. PICK at \in {"begun", "halfway", "ok", "failed"} : ChildGoes(p, at)
    BY <1>17 DEF ChildStep, Registers, StartsAgent, StopsAgent, DeletesAgent, ChildFails
  <2>2. child[p] # NoChild
    BY <1>17, ChildIsThere
  <2>3. child'[p].switch = child[p].switch /\ child'[p].exe = child[p].exe
    BY <2>1, <2>2, ChildStays
  <2>4. UNCHANGED <<pc, cmd, dir, elevated, err, did, staged, agentAt>>
    BY <1>17 DEF ChildStep, procVars
  <2>5. QED
    BY <2>1, <2>2, <2>3, <2>4
       DEF Fits, StepFitsCommand, ChildFitsStep, StagingFitsStep,
           ChangesFitStep, WorkFitsStep, Refusals
<1>18. QED
  BY <1>1, <1>2, <1>3, <1>4, <1>5, <1>6, <1>7, <1>8, <1>9, <1>10, <1>11, <1>12,
     <1>13, <1>14, <1>15, <1>16, <1>17 DEF Step, CommandStep

LEMMA Inductive == IInv /\ [Next]_vars => IInv'
<1> SUFFICES ASSUME IInv, [Next]_vars PROVE IInv'
  OBVIOUS
<1>1. ASSUME NEW p \in Procs, Step(p) PROVE IInv'
  <2>1. TypeOK'
    BY <1>1, StepTypes DEF IInv
  <2>2. ASSUME NEW q \in Procs PROVE Fits(q)'
    <3>1. CASE q = p
      BY <1>1, <3>1, StepFits DEF IInv
    <3>2. CASE q # p
      BY <1>1, <2>2, <3>2, OthersUnchanged, SameStateFits DEF IInv
    <3>3. QED
      BY <3>1, <3>2
  <2>3. QED
    BY <2>1, <2>2 DEF IInv
<1>2. ASSUME UNCHANGED <<procVars, machine>>, SMTypeOK' PROVE IInv'
  <2>1. TypeOK'
    BY <1>2 DEF IInv, TypeOK, procVars, machine
  <2>2. ASSUME NEW q \in Procs PROVE Fits(q)'
    BY <1>2, <2>2, SameStateFits DEF IInv, SameState, procVars, machine
  <2>3. QED
    BY <2>1, <2>2 DEF IInv
<1>3. CASE World
  BY <1>2, <1>3, WorldTypes DEF IInv, TypeOK, World
<1>4. CASE UNCHANGED vars
  BY <1>2, <1>4 DEF IInv, TypeOK, SMTypeOK, vars, smVars, machine
<1>5. QED
  BY <1>1, <1>3, <1>4 DEF Next, Step

LEMMA Invariance == Spec => []IInv
BY InitIInv, Inductive, PTL DEF Spec

-----------------------------------------------------------------------------
(***************************************************************************)
(* The state of the processes, of the installers they run and of the       *)
(* service keeps its types, whatever the number of processes.              *)
(***************************************************************************)
THEOREM TypeCorrect == Spec => []TypeOK
<1>1. IInv => TypeOK
  BY DEF IInv
<1>2. QED
  BY <1>1, Invariance, PTL

(***************************************************************************)
(* staging's cleanup works: no command of any process returns before its   *)
(* private directory is gone, whichever step failed.                       *)
(***************************************************************************)
THEOREM CleansStaging == Spec => []StagingCleaned
<1>1. IInv => StagingCleaned
  BY DEF IInv, Fits, StagingFitsStep, StagingCleaned
<1>2. QED
  BY <1>1, Invariance, PTL

(***************************************************************************)
(* The agent the device runs is replaced or removed only by an installer   *)
(* started behind agentinstall's check of the token, while its command     *)
(* waits for it or has been killed, for any number of commands.            *)
(***************************************************************************)
THEOREM EnrolledBehindToken == Spec => EnrolledByElevated
<1> DEFINE Behind == \E p \in Procs :
                       Running(p) /\ elevated[p] /\ pc[p] \in {"await", "killed"}
<1>1. IInv /\ [Next]_vars => (enrolled' = enrolled \/ Behind)
  <2> SUFFICES ASSUME IInv, [Next]_vars PROVE enrolled' = enrolled \/ Behind
    OBVIOUS
  <2>1. ASSUME NEW p \in Procs, ChildStep(p) PROVE enrolled' = enrolled \/ Behind
    <3>1. child[p] # NoChild
      BY <2>1, ChildIsThere DEF IInv
    <3>2. pc[p] \in {"await", "killed"} /\ elevated[p]
      BY <3>1 DEF IInv, Fits, ChildFitsStep
    <3>3. Running(p)
      BY <2>1 DEF ChildStep, Registers, StartsAgent, StopsAgent, DeletesAgent,
                  ChildFails, Running
    <3>4. QED
      BY <3>2, <3>3
  <2>2. ASSUME NEW p \in Procs, NEW command \in Commands, Run(p, command)
        PROVE  enrolled' = enrolled
    BY <2>2 DEF Run, machine
  <2>3. ASSUME NEW p \in Procs, CommandStep(p) PROVE enrolled' = enrolled
    BY <2>3 DEF CommandStep, EnsureInstalled, ShowStatus, Stage, Download, Install,
                Locate, Uninstall, Await, KillChild, Cleanup, Start, Stop, Poll,
                Wait, WaitDone, Exit, machine
  <2>4. ASSUME NEW p \in Procs, Killed(p) \/ Rerun(p) \/ ContextEnds(p)
        PROVE  enrolled' = enrolled
    BY <2>4 DEF Killed, Rerun, ContextEnds, machine
  <2>5. CASE World \/ UNCHANGED vars
    BY <2>5 DEF World, vars, machine
  <2>6. QED
    BY <2>1, <2>2, <2>3, <2>4, <2>5 DEF Next
<1>2. (enrolled' = enrolled \/ Behind) => [enrolled' # enrolled => Behind]_vars
  OBVIOUS
<1>3. QED
  BY <1>1, <1>2, Invariance, PTL DEF Spec, EnrolledByElevated

(***************************************************************************)
(* Exit status 3 is given only by a command that has changed nothing.      *)
(***************************************************************************)
THEOREM RefusedChangesNothing == Spec => []RefusedTouchesNothing
<1>1. IInv => RefusedTouchesNothing
  <2> SUFFICES ASSUME IInv, NEW p \in Procs, report(err[p]) = "ExitDenied"
               PROVE  did[p] \cap Changes = {}
    BY DEF RefusedTouchesNothing
  <2>1. err[p] \in Refusals
    BY DEF report, Refusals
  <2>2. QED
    BY <2>1 DEF IInv, Fits, ChangesFitStep, ChangedBy
<1>2. QED
  BY <1>1, Invariance, PTL

(***************************************************************************)
(* A connect that stages in a directory of its own (no -dir) runs the      *)
(* installer of its own group, however many others download and install at *)
(* the same time, to directories of their own or to a shared one.          *)
(***************************************************************************)
THEOREM PrivateStagingInstallsOwn == Spec => []InstallsOwnAgent
<1>1. IInv => InstallsOwnAgent
  BY DEF IInv, Fits, ChildFitsStep, InstallsOwnAgent
<1>2. QED
  BY <1>1, Invariance, PTL

-----------------------------------------------------------------------------
\* The phases the contract sees, and the phases after a step of p.
Phases == [p \in Procs |-> Phase(p)]

LEMMA PhaseStep ==
  ASSUME TypeOK, NEW p \in Procs, Step(p)
  PROVE  Phases' = [Phases EXCEPT ![p] = Phase(p)']
<1>1. ASSUME NEW q \in Procs, q # p PROVE Phase(q)' = Phase(q)
  BY <1>1, OthersUnchanged DEF SameState, Phase, report
<1>2. QED
  BY <1>1 DEF Phases

LEMMA SameEffects == Effects = Contract!Changing \cup Contract!Observing
BY DEF Effects, Changes, Contract!Changing, Contract!Observing

\* What command c is for is among what has been done.
Achieved(c, done) == \E goal \in Contract!Goals(c) : goal \subseteq done

LEMMA CommandRefines ==
  ASSUME IInv, IInv', NEW p \in Procs, Step(p),
         NEW effects \in SUBSET Effects, Did(p, effects), UNCHANGED <<cmd, elevated>>,
         pc[p] \notin {"idle", "done"}, pc'[p] # "idle",
         (pc'[p] = "done" /\ err'[p] = "nil") => Achieved(cmd[p], did'[p])
  PROVE  Contract!ContractNext
<1>1. Phases' = [Phases EXCEPT ![p] = Phase(p)'] /\ Phases[p] = "busy"
  BY PhaseStep DEF IInv, Phases, Phase
<1>2. /\ did' = [did EXCEPT ![p] = did'[p]]
      /\ did[p] \subseteq did'[p]
      /\ did'[p] \subseteq Effects
  BY DEF Did, IInv, TypeOK
<1>3. /\ "ran installer" \in did'[p] => elevated[p]
      /\ err'[p] \in Refusals => ~ChangedBy(did'[p])
      /\ ~({"found", "ran installer"} \subseteq did'[p])
  BY DEF IInv, Fits, ChangesFitStep, WorkFitsStep
<1>4. Contract!Do(p)
  BY <1>2, <1>3, SameEffects DEF Contract!Do
<1>5. CASE pc'[p] # "done"
  <2>1. Phase(p)' = "busy"
    BY <1>5 DEF Phase
  <2>2. UNCHANGED Phases
    BY <1>1, <2>1 DEF Phases
  <2>3. Contract!Act(p)
    BY <1>1, <1>4, <2>2 DEF Contract!Act, Phases
  <2>4. QED
    BY <2>3 DEF Contract!ContractNext
<1>6. CASE pc'[p] = "done"
  <2>1. Phase(p)' = report(err[p])'
    BY <1>6 DEF Phase
  <2>2. \/ report(err[p])' = "ExitOK" /\ err'[p] = "nil"
        \/ report(err[p])' = "ExitDenied" /\ err'[p] \in Refusals
        \/ report(err[p])' = "ExitError"
    BY DEF report, Refusals
  <2>3. CASE report(err[p])' = "ExitOK" /\ err'[p] = "nil"
    <3>1. \E goal \in Contract!Goals(cmd[p]) : goal \subseteq did'[p]
      BY <1>6, <2>3 DEF Achieved
    <3>2. QED
      BY <1>1, <1>4, <2>1, <2>3, <3>1 DEF Contract!Return, Contract!ContractNext, Phases
  <2>4. CASE report(err[p])' = "ExitDenied" /\ err'[p] \in Refusals
    <3>1. did'[p] \cap Contract!Changing = {}
      BY <1>3, <2>4 DEF ChangedBy, Changes, Contract!Changing
    <3>2. QED
      BY <1>1, <1>4, <2>1, <2>4, <3>1 DEF Contract!Return, Contract!ContractNext, Phases
  <2>5. CASE report(err[p])' = "ExitError"
    BY <1>1, <1>4, <2>1, <2>5 DEF Contract!Return, Contract!ContractNext, Phases
  <2>6. QED
    BY <2>2, <2>3, <2>4, <2>5
<1>7. QED
  BY <1>5, <1>6

\* A step that does nothing the history records.
LEMMA NothingDone ==
  ASSUME TypeOK, NEW p \in Procs, did' = did
  PROVE  {} \in SUBSET Effects /\ Did(p, {})
BY DEF TypeOK, Did

\* What a command is for, by what it has done at the end.
LEMMA GoalsMet ==
  ASSUME NEW done
  PROVE  /\ "up" \in done /\ ("found" \in done \/ "installed" \in done) =>
              Achieved("connect", done)
         /\ "stop accepted" \in done /\ "seen down" \in done =>
              Achieved("disconnect", done)
         /\ "removed" \in done => Achieved("uninstall", done)
         /\ "asked" \in done => Achieved("status", done)
<1>1. /\ {"found", "up"} \in Contract!Goals("connect")
      /\ {"installed", "up"} \in Contract!Goals("connect")
      /\ {"stop accepted", "seen down"} \in Contract!Goals("disconnect")
      /\ {"removed"} \in Contract!Goals("uninstall")
      /\ {"asked"} \in Contract!Goals("status")
  BY DEF Contract!Goals
<1>2. ASSUME NEW c, NEW goal \in Contract!Goals(c), goal \subseteq done
      PROVE  Achieved(c, done)
  BY <1>2 DEF Achieved
<1>3. QED
  BY <1>1, <1>2

\* A step that goes on without an error does not end the command with one.
LEMMA StaysBusy ==
  ASSUME TypeOK, NEW p \in Procs, NEW e,
         NEW next \in {"download", "register", "uninstall", "await", "poll"},
         NEW handler \in {"cleanup", "done"}, Proceed(p, e, next, handler)
  PROVE  pc'[p] # "idle" /\ ~(pc'[p] = "done" /\ err'[p] = "nil")
BY ProceedEffect

LEMMA StepRefines ==
  ASSUME IInv, IInv', NEW p \in Procs, Step(p)
  PROVE  Contract!ContractNext \/ UNCHANGED <<Phases, cmd, elevated, did>>
<1>0. TypeOK /\ TypeOK' /\ Fits(p) /\ Fits(p)'
  BY DEF IInv
<1>1. ASSUME NEW command \in Commands, Run(p, command) PROVE Contract!ContractNext
  <2>1. Phases' = [Phases EXCEPT ![p] = Phase(p)'] /\ Phases[p] = "idle"
    BY <1>0, <1>1, PhaseStep DEF Phases, Phase, Run
  <2>2. pc'[p] \in {"stop", "locate", "status"}
    BY <1>0, <1>1 DEF Run, Goto, TypeOK
  <2>3. Phase(p)' = "busy"
    BY <2>2 DEF Phase
  <2>4. \E c \in {"connect", "disconnect", "uninstall", "status"} :
          cmd' = [cmd EXCEPT ![p] = c]
    BY <1>1, MeshctlAssumption DEF Run
  <2>5. Contract!Enter(p)
    BY <1>1, <2>1, <2>3, <2>4 DEF Contract!Enter, Phases, Run
  <2>6. QED
    BY <2>5 DEF Contract!ContractNext
<1>2. CASE Exit(p) \/ Rerun(p)
  <2>1. Phases' = [Phases EXCEPT ![p] = Phase(p)'] /\ Phases[p] = Phase(p)
    BY <1>0, PhaseStep DEF Phases
  <2>2. Phase(p)' = "idle"
    BY <1>0, <1>2, RenewEffect DEF Phase, Exit, Rerun
  <2>3. Phase(p) # "idle"
    BY <1>2 DEF Phase, report, Exit, Rerun
  <2>4. Contract!Leave(p)
    BY <1>2, <2>1, <2>2, <2>3 DEF Contract!Leave, Phases, Exit, Rerun, Renew
  <2>5. QED
    BY <2>4 DEF Contract!ContractNext
<1>3. CASE Killed(p)
  <2>1. pc'[p] = "killed" /\ pc[p] \notin {"idle", "done"} /\ UNCHANGED <<cmd, elevated, did>>
    BY <1>0, <1>3 DEF Killed, Goto, settings, TypeOK
  <2>2. QED
    BY <1>0, <2>1, NothingDone, CommandRefines
<1>4. CASE ContextEnds(p) \/ KillChild(p) \/ ChildStep(p)
  <2>1. UNCHANGED <<pc, err, cmd, elevated, did>>
    BY <1>4 DEF ContextEnds, KillChild, ChildStep, procVars
  <2>2. UNCHANGED Phases
    BY <2>1 DEF Phases, Phase, report
  <2>3. QED
    BY <2>1, <2>2
<1>5. CASE EnsureInstalled(p) \/ ShowStatus(p)
  <2>1. PICK e \in Errs, effects \in {{}, {"found"}, {"asked"}} :
          /\ Did(p, effects)
          /\ \/ /\ cmd[p] = "connect"
                /\ \E next \in {"staging", "start"} : Proceed(p, e, next, "done")
             \/ /\ cmd[p] = "status"
                /\ Proceed(p, e, "done", "done")
                /\ e = "nil" => effects = {"asked"}
    BY <1>5 DEF EnsureInstalled, ShowStatus
  <2>2. effects \in SUBSET Effects
    BY DEF Effects
  <2>3. pc[p] = "status" /\ UNCHANGED <<cmd, elevated>>
    BY <1>5 DEF EnsureInstalled, ShowStatus, settings
  <2>4. /\ pc'[p] \in {"staging", "start", "done"}
        /\ (pc'[p] = "done" /\ err'[p] = "nil") => Achieved(cmd[p], did'[p])
    <3>1. ASSUME NEW next \in {"staging", "start"}, Proceed(p, e, next, "done")
          PROVE  /\ pc'[p] \in {"staging", "start", "done"}
                 /\ (pc'[p] = "done" /\ err'[p] = "nil") => Achieved(cmd[p], did'[p])
      BY <1>0, <3>1, ProceedEffect
    <3>2. CASE /\ cmd[p] = "status"
               /\ Proceed(p, e, "done", "done")
               /\ e = "nil" => effects = {"asked"}
      <4>1. err'[p] = e /\ pc'[p] = "done"
        BY <1>0, <3>2, ProceedEffect
      <4>2. e = "nil" => "asked" \in did'[p]
        BY <1>0, <2>1, <3>2, DidEffect
      <4>3. e = "nil" => Achieved(cmd[p], did'[p])
        BY <3>2, <4>2, GoalsMet
      <4>4. QED
        BY <4>1, <4>3
    <3>3. QED
      BY <2>1, <3>1, <3>2
  <2>5. QED
    BY <2>1, <2>2, <2>3, <2>4, CommandRefines
<1>6. CASE Stage(p) \/ Download(p) \/ Locate(p) \/ Wait(p) \/ WaitDone(p)
  <2>1. pc'[p] # "idle" /\ ~(pc'[p] = "done" /\ err'[p] = "nil")
    <3>1. CASE Stage(p)
      <4>1. PICK e \in {"nil", "failed"} : Proceed(p, e, "download", "done")
        BY <3>1 DEF Stage
      <4>2. QED
        BY <1>0, <4>1, StaysBusy
    <3>2. CASE Download(p)
      <4>1. PICK e \in {"nil", "failed", "ErrDownloadUnauthorized"} :
              Proceed(p, e, "register", "cleanup")
        BY <3>2 DEF Download, afterFailure
      <4>2. QED
        BY <1>0, <4>1, StaysBusy
    <3>3. CASE Locate(p)
      <4>1. PICK e \in Errs : Proceed(p, e, "uninstall", "done")
        BY <3>3, ElevationAnswers DEF Locate, Errs
      <4>2. QED
        BY <1>0, <4>1, StaysBusy
    <3>4. CASE Wait(p) \/ WaitDone(p)
      <4>1. PICK e \in {"nil", "context error"} : Proceed(p, e, "poll", "done")
        BY <3>4 DEF Wait, WaitDone
      <4>2. QED
        BY <1>0, <4>1, StaysBusy
    <3>5. QED
      BY <1>6, <3>1, <3>2, <3>3, <3>4
  <2>2. /\ pc[p] \notin {"idle", "done"}
        /\ UNCHANGED <<cmd, elevated, did>>
    BY <1>6 DEF Stage, Download, Locate, Wait, WaitDone, settings, machine
  <2>3. QED
    BY <1>0, <2>1, <2>2, NothingDone, CommandRefines
<1>7. CASE Install(p) \/ Uninstall(p)
  <2>1. PICK handler \in {"cleanup", "done"}, effects \in {{}, {"ran installer"}} :
          /\ \E e \in Errs : Proceed(p, e, "await", handler)
          /\ Did(p, effects)
    <3>1. did' = did => Did(p, {})
      BY <1>0, NothingDone
    <3>2. {"nil", "failed", "context error", "ErrNotElevated"} \subseteq Errs
      BY DEF Errs
    <3>3. ASSUME NEW switch, NEW exe, NEW handler \in {"cleanup", "done"},
                 Launch(p, switch, exe, handler)
          PROVE  /\ \E e \in Errs : Proceed(p, e, "await", handler)
                 /\ Did(p, {}) \/ Did(p, {"ran installer"})
      BY <3>1, <3>2, <3>3 DEF Launch
    <3>4. CASE Install(p)
      <4>1. CASE requireElevation(p) = "nil"
        BY <1>7, <3>3, <3>4, <4>1 DEF Install
      <4>2. CASE requireElevation(p) # "nil"
        BY <3>1, <3>2, <3>4, <4>2, ElevationAnswers DEF Install
      <4>3. QED
        BY <4>1, <4>2
    <3>5. CASE Uninstall(p)
      BY <3>3, <3>5 DEF Uninstall
    <3>6. QED
      BY <1>7, <3>4, <3>5
  <2>2. effects \in SUBSET Effects
    BY DEF Effects, Changes
  <2>3. /\ pc[p] \notin {"idle", "done"}
        /\ UNCHANGED <<cmd, elevated>>
    BY <1>7 DEF Install, Uninstall, settings
  <2>4. pc'[p] # "idle" /\ ~(pc'[p] = "done" /\ err'[p] = "nil")
    BY <1>0, <2>1, StaysBusy
  <2>5. QED
    BY <2>1, <2>2, <2>3, <2>4, CommandRefines
<1>8. CASE Await(p)
  <2>1. PICK e \in installerResult(p) : Proceed(p, e, afterInstaller(p), afterInstaller(p))
    BY <1>8 DEF Await
  <2>2. e = "nil" => child[p].at = "ok"
    BY DEF installerResult
  <2>3. PICK effects \in {{}, {"installed"}, {"removed"}} :
          /\ Did(p, effects)
          /\ (child[p].at = "ok" /\ cmd[p] # "connect") => effects = {"removed"}
    BY <1>8 DEF Await
  <2>4. effects \in SUBSET Effects
    BY DEF Effects
  <2>5. /\ pc[p] = "await" /\ cmd[p] \in {"connect", "uninstall"}
        /\ UNCHANGED <<cmd, elevated>>
    BY <1>0, <1>8 DEF Await, settings, Fits, StepFitsCommand
  <2>6. err'[p] = e /\ pc'[p] = afterInstaller(p)
    BY <1>0, <2>1, ProceedEffect
  <2>7. (e = "nil" /\ cmd[p] = "uninstall") => "removed" \in did'[p]
    BY <1>0, <2>2, <2>3, DidEffect
  <2>8. /\ pc'[p] # "idle"
        /\ (pc'[p] = "done" /\ err'[p] = "nil") => Achieved(cmd[p], did'[p])
    BY <2>5, <2>6, <2>7, GoalsMet DEF afterInstaller
  <2>9. QED
    BY <2>3, <2>4, <2>5, <2>8, CommandRefines
<1>9. CASE Cleanup(p)
  <2>1. /\ pc[p] = "cleanup" /\ UNCHANGED <<err, cmd, elevated, did>>
        /\ pc'[p] = IF err[p] = "nil" THEN "start" ELSE "done"
    BY <1>0, <1>9 DEF Cleanup, settings, Goto, TypeOK
  <2>2. QED
    BY <1>0, <2>1, NothingDone, CommandRefines
<1>10. CASE Start(p)
  <2>1. PICK e \in Errs, up \in {{}, {"up"}}, started \in {{}, {"started"}} :
          /\ Proceed(p, e, "done", "done")
          /\ Did(p, up \cup started)
          /\ e = "nil" => up = {"up"}
    BY <1>10 DEF Start
  <2>2. up \cup started \in SUBSET Effects
    BY DEF Effects, Changes
  <2>3. /\ pc[p] = "start" /\ cmd[p] = "connect"
        /\ "found" \in did[p] \/ "installed" \in did[p]
        /\ UNCHANGED <<cmd, elevated>>
    BY <1>0, <1>10 DEF Start, settings, Fits, StepFitsCommand, WorkFitsStep
  <2>4. err'[p] = e /\ pc'[p] = "done"
    BY <1>0, <2>1, ProceedEffect
  <2>5. did'[p] = did[p] \cup (up \cup started)
    BY <1>0, <2>1, DidEffect
  <2>6. /\ e = "nil" => "up" \in did'[p]
        /\ "found" \in did'[p] \/ "installed" \in did'[p]
    BY <2>1, <2>3, <2>5
  <2>7. e = "nil" => Achieved(cmd[p], did'[p])
    BY <2>3, <2>6, GoalsMet
  <2>8. QED
    BY <2>1, <2>2, <2>3, <2>4, <2>7, CommandRefines
<1>11. CASE Stop(p)
  <2>1. PICK e \in Errs,
             accepted \in {{}, {"stop accepted"}}, stopped \in {{}, {"stopped"}} :
          /\ Proceed(p, e, "poll", "done")
          /\ Did(p, accepted \cup stopped)
    BY <1>11 DEF Stop
  <2>2. accepted \cup stopped \in SUBSET Effects
    BY DEF Effects, Changes
  <2>3. pc[p] = "stop" /\ UNCHANGED <<cmd, elevated>>
    BY <1>11 DEF Stop, settings
  <2>4. pc'[p] # "idle" /\ ~(pc'[p] = "done" /\ err'[p] = "nil")
    BY <1>0, <2>1, StaysBusy
  <2>5. QED
    BY <2>1, <2>2, <2>3, <2>4, CommandRefines
<1>12. CASE Poll(p)
  <2>1. PICK e \in Errs, next \in {"wait", "done"}, seen \in {{}, {"seen down"}} :
          /\ Proceed(p, e, next, "done")
          /\ Did(p, seen)
          /\ (e = "nil" /\ next = "done") => seen = {"seen down"}
    BY <1>12 DEF Poll
  <2>2. seen \in SUBSET Effects
    BY DEF Effects
  <2>3. /\ pc[p] = "poll" /\ cmd[p] = "disconnect" /\ "stop accepted" \in did[p]
        /\ UNCHANGED <<cmd, elevated>>
    BY <1>0, <1>12 DEF Poll, settings, Fits, StepFitsCommand, WorkFitsStep
  <2>4. /\ err'[p] = e /\ pc'[p] \in {"wait", "done"}
        /\ (e = "nil" /\ pc'[p] = "done") => next = "done"
    BY <1>0, <2>1, ProceedEffect
  <2>5. did'[p] = did[p] \cup seen
    BY <1>0, <2>1, DidEffect
  <2>6. (e = "nil" /\ pc'[p] = "done") =>
          "stop accepted" \in did'[p] /\ "seen down" \in did'[p]
    BY <2>1, <2>3, <2>4, <2>5
  <2>7. (e = "nil" /\ pc'[p] = "done") => Achieved(cmd[p], did'[p])
    BY <2>3, <2>6, GoalsMet
  <2>8. QED
    BY <2>1, <2>2, <2>3, <2>4, <2>7, CommandRefines
<1>13. QED
  BY <1>1, <1>2, <1>3, <1>4, <1>5, <1>6, <1>7, <1>8, <1>9, <1>10, <1>11, <1>12
     DEF Step, CommandStep

(***************************************************************************)
(* meshagentctl keeps CommandContract, for any number of processes: every  *)
(* step of a command, of an installer or of the service is one the         *)
(* contract allows, or one it does not see.  So an exit status 0 means     *)
(* that all the command is for was done, and a 3 that nothing was.         *)
(***************************************************************************)
THEOREM Refinement == Spec => ImplementsContract
<1>1. Init => Contract!ContractInit
  BY DEF Init, Contract!ContractInit, Phase
<1>2. IInv /\ IInv' /\ [Next]_vars => [Contract!ContractNext]_(Contract!contractVars)
  <2> SUFFICES ASSUME IInv, IInv', [Next]_vars
               PROVE  Contract!ContractNext \/ UNCHANGED <<Phases, cmd, elevated, did>>
    BY DEF Contract!contractVars, Phases
  <2>1. ASSUME NEW p \in Procs, Step(p)
        PROVE  Contract!ContractNext \/ UNCHANGED <<Phases, cmd, elevated, did>>
    BY <2>1, StepRefines
  <2>2. CASE World \/ UNCHANGED vars
    BY <2>2 DEF World, vars, procVars, Phases, Phase, report
  <2>3. QED
    BY <2>1, <2>2 DEF Next, Step
<1>3. QED
  BY <1>1, <1>2, Invariance, PTL DEF Spec, ImplementsContract, Contract!ContractSpec

-----------------------------------------------------------------------------
(***************************************************************************)
(* Off Windows (doc.go:30: everything but downloading is "Windows-only").  *)
(* A command gets as far as its first question or its check of the token,  *)
(* and the device stays as it was: nothing is staged, downloaded, run,     *)
(* registered or removed, and no command claims to have succeeded.         *)
(***************************************************************************)
Refusing(p) ==
  /\ pc[p] \in {"idle", "status", "locate", "stop", "done", "killed"}
  /\ pc[p] = "done" => err[p] # "nil"
  /\ did[p] = {}
  /\ child[p] = NoChild

DeviceUntouched ==
  /\ state = "absent" /\ marked = FALSE
  /\ staged = {}
  /\ \A place \in Procs \cup {"shared"} : agentAt[place] = "none"
  /\ enrolled = "none"

AllRefused ==
  /\ DeviceUntouched
  /\ \A p \in Procs : did[p] = {} /\ (pc[p] = "done" => report(err[p]) # "ExitOK")

OffWindows == DeviceUntouched /\ \A p \in Procs : Refusing(p)

\* Every call on the service is answered with an error.
LEMMA Unsupported ==
  ASSUME ~Windows, NEW p, NEW o, NEW e, NEW s
  PROVE  /\ OnService(o, e, s) =>
              e # "nil" /\ s = "absent" /\ UNCHANGED smVars
         /\ OnServiceInTime(p, o, e, s) =>
              e # "nil" /\ s = "absent" /\ UNCHANGED smVars
BY DEF OnService, OnServiceInTime

\* A command that meets an error at its first call is done, and did nothing.
LEMMA EndsRefused ==
  ASSUME TypeOK, NEW p \in Procs, Refusing(p), NEW e, e # "nil", NEW next,
         Proceed(p, e, next, "done"), did' = did \/ Did(p, {}), child' = child
  PROVE  Refusing(p)'
<1>1. did'[p] = did[p]
  BY DEF TypeOK, Did
<1>2. QED
  BY <1>1, ProceedEffect DEF Refusing

LEMMA StepOffWindows ==
  ASSUME ~Windows, TypeOK, DeviceUntouched, NEW p \in Procs, Refusing(p), Step(p)
  PROVE  DeviceUntouched' /\ Refusing(p)'
<1>1. ASSUME NEW command \in Commands, Run(p, command)
      PROVE  DeviceUntouched' /\ Refusing(p)'
  BY <1>1 DEF Run, Goto, machine, smVars, TypeOK, DeviceUntouched, Refusing
<1>2. CASE EnsureInstalled(p)
  <2>1. PICK e \in Errs, s \in States :
          /\ OnServiceInTime(p, "Status", e, s)
          /\ Proceed(p, e, IF s = "absent" THEN "staging" ELSE "start", "done")
          /\ Did(p, IF e = "nil" /\ s # "absent" THEN {"found"} ELSE {})
    BY <1>2 DEF EnsureInstalled
  <2>2. e # "nil" /\ UNCHANGED smVars
    BY <2>1, Unsupported
  <2>3. Refusing(p)'
    BY <1>2, <2>1, <2>2, EndsRefused DEF EnsureInstalled, machine
  <2>4. QED
    BY <1>2, <2>2, <2>3 DEF EnsureInstalled, machine, smVars, DeviceUntouched
<1>3. CASE ShowStatus(p)
  <2>1. PICK e \in Errs, s \in States :
          /\ OnServiceInTime(p, "Status", e, s)
          /\ Proceed(p, e, "done", "done")
          /\ Did(p, IF e = "nil" THEN {"asked"} ELSE {})
    BY <1>3 DEF ShowStatus
  <2>2. e # "nil" /\ UNCHANGED smVars
    BY <2>1, Unsupported
  <2>3. Refusing(p)'
    BY <1>3, <2>1, <2>2, EndsRefused DEF ShowStatus, machine
  <2>4. QED
    BY <1>3, <2>2, <2>3 DEF ShowStatus, machine, smVars, DeviceUntouched
<1>4. CASE Locate(p)
  <2>1. requireElevation(p) = "ErrNotElevated"
    BY DEF requireElevation
  <2>2. Proceed(p, "ErrNotElevated", "uninstall", "done") /\ UNCHANGED smVars
    BY <1>4, <2>1 DEF Locate
  <2>3. Refusing(p)'
    BY <1>4, <2>2, EndsRefused DEF Locate, machine
  <2>4. QED
    BY <1>4, <2>2, <2>3 DEF Locate, machine, smVars, DeviceUntouched
<1>5. CASE Stop(p)
  <2>1. PICK e \in Errs, s \in States :
          /\ OnService("Stop", e, s)
          /\ Proceed(p, e, "poll", "done")
          /\ Did(p, (IF e = "nil" THEN {"stop accepted"} ELSE {})
                      \cup (IF e = "nil" /\ state = "running" THEN {"stopped"} ELSE {}))
    BY <1>5 DEF Stop
  <2>2. e # "nil" /\ UNCHANGED smVars
    BY <2>1, Unsupported
  <2>3. Did(p, {})
    BY <2>1, <2>2
  <2>4. Refusing(p)'
    BY <1>5, <2>1, <2>2, <2>3, EndsRefused DEF Stop, machine
  <2>5. QED
    BY <1>5, <2>2, <2>4 DEF Stop, machine, smVars, DeviceUntouched
<1>6. CASE \/ Stage(p) \/ Download(p) \/ Install(p) \/ Uninstall(p) \/ Await(p)
           \/ KillChild(p) \/ Cleanup(p) \/ Start(p) \/ Poll(p) \/ Wait(p)
           \/ WaitDone(p)
  <2>1. pc[p] \notin {"staging", "download", "register", "uninstall", "await",
                      "cleanup", "start", "poll", "wait"}
    BY DEF Refusing
  <2>2. QED
    BY <1>6, <2>1 DEF Stage, Download, Install, Uninstall, Await, KillChild,
                      Cleanup, Start, Poll, Wait, WaitDone
<1>7. CASE Exit(p)
  BY <1>7 DEF Exit, Renew, Goto, machine, smVars, TypeOK, DeviceUntouched, Refusing
<1>8. CASE Rerun(p)
  <2>1. agentAt' = [agentAt EXCEPT ![p] = "none"] /\ staged' = staged \ {p}
        /\ UNCHANGED <<enrolled, smVars>>
    BY <1>8 DEF Rerun
  <2>2. DeviceUntouched'
    BY <2>1 DEF smVars, TypeOK, DeviceUntouched
  <2>3. Refusing(p)'
    BY <1>8 DEF Rerun, Renew, Goto, SetChild, TypeOK, Refusing
  <2>4. QED
    BY <2>2, <2>3
<1>9. CASE Killed(p) \/ ContextEnds(p)
  BY <1>9 DEF Killed, ContextEnds, Goto, machine, smVars, TypeOK, DeviceUntouched,
              Refusing
<1>10. CASE ChildStep(p)
  <2>1. child[p].switch = "none" /\ ~Running(p)
    BY DEF Refusing, NoChild, Running
  <2>2. QED
    BY <1>10, <2>1 DEF ChildStep, Registers, StartsAgent, StopsAgent, DeletesAgent,
                       ChildFails
<1>11. QED
  BY <1>1, <1>2, <1>3, <1>4, <1>5, <1>6, <1>7, <1>8, <1>9, <1>10
     DEF Step, CommandStep

(***************************************************************************)
(* Off Windows no command, run by any number of processes in any order,    *)
(* changes anything or exits with 0.                                       *)
(***************************************************************************)
THEOREM OffWindowsAllIsRefused ==
  ASSUME ~Windows
  PROVE  Spec => []AllRefused
<1>1. Init => OffWindows
  BY DEF Init, OffWindows, DeviceUntouched, Refusing
<1>2. TypeOK /\ OffWindows /\ [Next]_vars => OffWindows'
  <2> SUFFICES ASSUME TypeOK, OffWindows, [Next]_vars PROVE OffWindows'
    OBVIOUS
  <2>1. ASSUME NEW p \in Procs, Step(p) PROVE OffWindows'
    <3>1. DeviceUntouched' /\ Refusing(p)'
      BY <2>1, StepOffWindows DEF OffWindows
    <3>2. ASSUME NEW q \in Procs, q # p PROVE Refusing(q)'
      BY <2>1, <3>2, OthersUnchanged DEF OffWindows, Refusing, SameState
    <3>3. QED
      BY <3>1, <3>2 DEF OffWindows
  <2>2. CASE World
    BY <2>2 DEF World, StartDone, ServiceDies, StopBegins, StopDone, Reap,
                OffWindows, DeviceUntouched
  <2>3. CASE UNCHANGED vars
    BY <2>3 DEF vars, procVars, smVars, OffWindows, DeviceUntouched, Refusing
  <2>4. QED
    BY <2>1, <2>2, <2>3 DEF Next, Step
<1>3. OffWindows => AllRefused
  BY DEF OffWindows, AllRefused, Refusing, report
<1>4. QED
  BY <1>1, <1>2, <1>3, TypeCorrect, PTL DEF Spec
=============================================================================

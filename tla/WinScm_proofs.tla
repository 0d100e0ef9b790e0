---------------------------- MODULE WinScm_proofs ----------------------------
(***************************************************************************)
(* Proofs about WinScm, for any set of callers: it releases every handle,  *)
(* and it implements the atomic calls of OpsContract.                      *)
(***************************************************************************)
EXTENDS WinScm, TLAPS

(***************************************************************************)
(* Exactly who holds which handle, and who has been answered, at each      *)
(* step.  Whether afterOpen finds a service handle depends on whether the  *)
(* open has been answered with an error.                                   *)
(***************************************************************************)
HandlesFitStep ==
  \A c \in Callers :
    /\ c \in manager <=> pc[c] \in {"openService", "afterOpen"}
    /\ c \in handle <=>
         \/ pc[c] \in {"call", "binaryPath", "discard", "abandon"}
         \/ pc[c] = "afterOpen" /\ reply[c] = NoReply

AnswersFitStep ==
  \A c \in Callers :
    /\ op[c] = "none" <=> pc[c] = "idle"
    /\ pc[c] \in {"idle", "connectManager", "openService", "call"} =>
         reply[c] = NoReply

\* A handle keeps the service: what a caller queries is there.
OpenServiceStays == handle \cup leaked # {} => state # "absent"

IInv == TypeOK /\ HandlesFitStep /\ AnswersFitStep /\ OpenServiceStays

-----------------------------------------------------------------------------
\* An error every operation may answer with is an answer; so is a state.
LEMMA AnswersAreReplies ==
  /\ \A e \in {"nil", "ErrNotInstalled"} \cup Failures :
       Answer(e) \in Replies /\ Answer(e) # NoReply
  /\ \A s \in States : describe(s) \in Replies /\ describe(s) # NoReply
<1>1. ASSUME NEW e \in {"nil", "ErrNotInstalled"} \cup Failures
      PROVE  Answer(e) \in Replies /\ Answer(e) # NoReply
  <2>1. "absent" \in States
    BY DEF States
  <2>2. Answer(e) \in Replies
    BY <2>1 DEF Answer, Replies
  <2>3. Answer(e).err = e /\ NoReply.err = "none" /\ e # "none"
    BY DEF Answer, NoReply, Failures
  <2>4. QED
    BY <2>2, <2>3
<1>2. ASSUME NEW s \in States
      PROVE  describe(s) \in Replies /\ describe(s) # NoReply
  <2>1. describe(s) \in Replies
    BY DEF describe, Replies
  <2>2. describe(s).err = "nil" /\ NoReply.err = "none"
    BY DEF describe, NoReply
  <2>3. QED
    BY <2>1, <2>2
<1>3. QED
  BY <1>1, <1>2

\* A refused open is a refusal of each operation, which has changed nothing.
LEMMA RefusalIsACall ==
  ASSUME NEW o \in Operations, UNCHANGED smVars
  PROVE  /\ openFailed(o, "REFUSED") = Answer("REFUSED")
         /\ Call(o, Answer("REFUSED"))
<1>1. openFailed(o, "REFUSED") = Answer("REFUSED")
  BY DEF openFailed, absentOrError, notInstalledOrError
<1>2. Call(o, Answer("REFUSED"))
  BY DEF Operations, Call, StartCall, StopCall, StatusCall, smVars
<1>3. QED
  BY <1>1, <1>2

\* An open that finds no service, or is refused, answers the operation.
LEMMA FailedOpenIsACall ==
  ASSUME NEW o \in Operations, NEW err \in Errors, OpenService(err), err # "nil"
  PROVE  openFailed(o, err) \in Replies /\ Call(o, openFailed(o, err))
<1>1. UNCHANGED smVars
  BY DEF OpenService
<1>2. CASE err = "REFUSED"
  BY <1>1, <1>2, RefusalIsACall, AnswersAreReplies DEF Failures
<1>3. CASE err = "SERVICE_DOES_NOT_EXIST"
  <2>1. state = "absent"
    BY <1>3 DEF OpenService
  <2>2. CASE o = "Status"
    <3>1. openFailed(o, err) = Answer("nil")
      BY <1>3, <2>2 DEF openFailed, absentOrError
    <3>2. Answer("nil") = [err |-> "nil", status |-> state]
      BY <2>1 DEF Answer
    <3>3. QED
      BY <1>1, <2>2, <3>1, <3>2, AnswersAreReplies DEF Call, StatusCall
  <2>3. CASE o # "Status"
    <3>1. openFailed(o, err) = Answer("ErrNotInstalled")
      BY <1>3, <2>3 DEF openFailed, notInstalledOrError
    <3>2. QED
      BY <1>1, <2>1, <2>3, <3>1, AnswersAreReplies
         DEF Operations, Call, StartCall, StopCall, smVars
  <2>4. QED
    BY <2>2, <2>3
<1>4. QED
  BY <1>2, <1>3 DEF OpenService

\* The two calls that change the service answer as the contract says.
LEMMA StartIsACall ==
  ASSUME NEW err \in Errors, StartService(err)
  PROVE  startAnswer(err) \in Replies /\ StartCall(startAnswer(err))
<1>1. startAnswer(err) \in Replies
  <2>1. err \in {"nil", "SERVICE_ALREADY_RUNNING", "SERVICE_MARKED_FOR_DELETE",
                 "REFUSED"}
    BY DEF StartService
  <2>2. QED
    BY <2>1, AnswersAreReplies DEF startAnswer, Failures
<1>2. StartCall(startAnswer(err))
  BY DEF StartService, StartCall, startAnswer
<1>3. QED
  BY <1>1, <1>2

LEMMA StopIsACall ==
  ASSUME NEW err \in Errors, StopControl(err)
  PROVE  stopAnswer(err) \in Replies /\ StopCall(stopAnswer(err))
<1>1. stopAnswer(err) \in Replies
  <2>1. err \in {"nil", "SERVICE_NOT_ACTIVE", "SERVICE_CANNOT_ACCEPT_CTRL",
                 "REFUSED"}
    BY DEF StopControl
  <2>2. QED
    BY <2>1, AnswersAreReplies DEF stopAnswer, Failures
<1>2. StopCall(stopAnswer(err))
  BY DEF StopControl, StopCall, stopAnswer
<1>3. QED
  BY <1>1, <1>2

LEMMA StepSMTypes ==
  ASSUME SMTypeOK, [Next]_vars
  PROVE  SMTypeOK'
<1> USE DEF SMTypeOK, States, Registered
<1>1. ASSUME NEW c \in Callers, start(c) PROVE SMTypeOK'
  BY <1>1 DEF start, StartService
<1>2. ASSUME NEW c \in Callers, control(c) PROVE SMTypeOK'
  BY <1>2 DEF control, StopControl
<1>3. ASSUME World PROVE SMTypeOK'
  BY <1>3 DEF World, Environment, StartDone, ServiceDies, StopBegins, StopDone,
              CreateService, DeleteService, Reap
<1>4. CASE UNCHANGED smVars
  BY <1>4 DEF smVars
<1>5. QED
  BY <1>1, <1>2, <1>3, <1>4
     DEF Next, vars, opsVars, Begin, Invoke, connectManager, openService,
         OpenService, afterOpen, abandon, query, binaryPath, discard, Return,
         Leave, Exit

-----------------------------------------------------------------------------
(***************************************************************************)
(* Each step of the system calls is a step of the contract, or none.       *)
(***************************************************************************)
LEMMA StepIsAContractStep ==
  ASSUME IInv, [Next]_vars
  PROVE  [OpsNext]_opsVars
<1> USE DEF IInv
<1>1. ASSUME NEW c \in Callers, NEW o \in Operations, Begin(c, o)
      PROVE  OpsNext
  BY <1>1 DEF Begin, OpsNext
<1>2. ASSUME NEW c \in Callers, NEW r \in Replies, pc[c] # "idle",
             reply[c] = NoReply, Call(op[c], r), SetReply(c, r), UNCHANGED op
      PROVE  OpsNext
  <2>1. op[c] # "none"
    BY <1>2 DEF AnswersFitStep
  <2>2. Perform(c)
    BY <1>2, <2>1 DEF Perform, SetReply
  <2>3. QED
    BY <2>2 DEF OpsNext
<1>3. ASSUME NEW c \in Callers, pc[c] # "idle" PROVE op[c] \in Operations
  BY <1>3 DEF AnswersFitStep, TypeOK, OpsTypeOK
<1>4. Answer("REFUSED") \in Replies
  BY AnswersAreReplies DEF Failures
<1>5. ASSUME NEW c \in Callers, connectManager(c) PROVE [OpsNext]_opsVars
  <2>1. CASE UNCHANGED reply
    BY <1>5, <2>1 DEF connectManager, opsVars
  <2>2. CASE SetReply(c, openFailed(op[c], "REFUSED"))
    <3>1. reply[c] = NoReply /\ pc[c] # "idle"
      BY <1>5 DEF connectManager, At, AnswersFitStep
    <3>2. UNCHANGED <<op, smVars>>
      BY <1>5 DEF connectManager
    <3>3. /\ Call(op[c], Answer("REFUSED"))
          /\ SetReply(c, Answer("REFUSED"))
      BY <1>3, <2>2, <3>1, <3>2, RefusalIsACall
    <3>4. QED
      BY <1>2, <1>4, <3>1, <3>2, <3>3
  <2>3. QED
    BY <1>5, <2>1, <2>2 DEF connectManager
<1>6. ASSUME NEW c \in Callers, openService(c) PROVE [OpsNext]_opsVars
  <2>1. PICK err \in Errors :
          /\ OpenService(err)
          /\ IF err = "nil"
               THEN handle' = handle \cup {c} /\ UNCHANGED reply
               ELSE SetReply(c, openFailed(op[c], err)) /\ UNCHANGED handle
    BY <1>6 DEF openService
  <2>2. CASE err = "nil"
    BY <1>6, <2>1, <2>2 DEF openService, OpenService, opsVars
  <2>3. CASE err # "nil"
    <3>1. reply[c] = NoReply /\ pc[c] # "idle" /\ UNCHANGED op
      BY <1>6 DEF openService, At, AnswersFitStep
    <3>2. /\ openFailed(op[c], err) \in Replies
          /\ Call(op[c], openFailed(op[c], err))
          /\ SetReply(c, openFailed(op[c], err))
      BY <1>3, <2>1, <2>3, <3>1, FailedOpenIsACall
    <3>3. QED
      BY <1>2, <3>1, <3>2
  <2>4. QED
    BY <2>2, <2>3
<1>7. ASSUME NEW c \in Callers, afterOpen(c) PROVE [OpsNext]_opsVars
  <2>1. UNCHANGED <<op, smVars>> /\ pc[c] # "idle"
    BY <1>7 DEF afterOpen, At
  <2>2. CASE UNCHANGED reply
    BY <2>1, <2>2 DEF opsVars
  <2>3. CASE reply[c] = NoReply /\ SetReply(c, openFailed(op[c], "REFUSED"))
    <3>1. /\ Call(op[c], Answer("REFUSED"))
          /\ SetReply(c, Answer("REFUSED"))
      BY <1>3, <2>1, <2>3, RefusalIsACall
    <3>2. QED
      BY <1>2, <1>4, <2>1, <2>3, <3>1
  <2>4. QED
    BY <1>7, <2>2, <2>3 DEF afterOpen
<1>8. ASSUME NEW c \in Callers, start(c) PROVE [OpsNext]_opsVars
  <2>1. PICK err \in Errors : StartService(err) /\ SetReply(c, startAnswer(err))
    BY <1>8 DEF start
  <2>2. /\ startAnswer(err) \in Replies
        /\ Call(op[c], startAnswer(err))
    BY <1>8, <2>1, StartIsACall DEF start, Call
  <2>3. QED
    BY <1>2, <1>8, <2>1, <2>2 DEF start, At, AnswersFitStep
<1>9. ASSUME NEW c \in Callers, control(c) PROVE [OpsNext]_opsVars
  <2>1. PICK err \in Errors : StopControl(err) /\ SetReply(c, stopAnswer(err))
    BY <1>9 DEF control
  <2>2. /\ stopAnswer(err) \in Replies
        /\ Call(op[c], stopAnswer(err))
    BY <1>9, <2>1, StopIsACall DEF control, Call
  <2>3. QED
    BY <1>2, <1>9, <2>1, <2>2 DEF control, At, AnswersFitStep
<1>10. ASSUME NEW c \in Callers, query(c) PROVE [OpsNext]_opsVars
  <2>1. /\ reply[c] = NoReply /\ pc[c] # "idle" /\ op[c] = "Status"
        /\ UNCHANGED <<op, smVars>>
    BY <1>10 DEF query, At, AnswersFitStep
  <2>2. PICK r \in {describe(state), Answer("REFUSED")} : SetReply(c, r)
    BY <1>10 DEF query
  <2>3. r \in Replies
    BY <1>4, <2>2, AnswersAreReplies DEF TypeOK, OpsTypeOK, SMTypeOK
  <2>4. Call(op[c], r)
    BY <2>1, <2>2 DEF Call, StatusCall, describe
  <2>5. QED
    BY <1>2, <2>1, <2>2, <2>3, <2>4
<1>11. ASSUME NEW c \in Callers, abandon(c) \/ binaryPath(c) \/ discard(c)
       PROVE  UNCHANGED opsVars
  BY <1>11 DEF abandon, binaryPath, discard, opsVars
<1>12. ASSUME NEW c \in Callers, Return(c) \/ Exit(c) PROVE [OpsNext]_opsVars
  BY <1>12 DEF Return, Exit, OpsNext, opsVars
<1>13. ASSUME World PROVE OpsNext
  BY <1>13 DEF World, Elsewhere, OpsNext
<1>14. CASE UNCHANGED vars
  BY <1>14 DEF vars
<1>15. QED
  BY <1>1, <1>5, <1>6, <1>7, <1>8, <1>9, <1>10, <1>11, <1>12, <1>13, <1>14
     DEF Next

LEMMA InitIInv == Init => IInv
<1> SUFFICES ASSUME Init PROVE IInv
  OBVIOUS
<1>1. TypeOK
  BY DEF Init, TypeOK, OpsTypeOK, OpsInit, SMInit, SMTypeOK, Steps
<1>2. HandlesFitStep /\ AnswersFitStep /\ OpenServiceStays
  BY DEF Init, OpsInit, HandlesFitStep, AnswersFitStep, OpenServiceStays
<1>3. QED
  BY <1>1, <1>2 DEF IInv

(***************************************************************************)
(* The contract keeps its own types, whatever implements it.               *)
(***************************************************************************)
LEMMA ContractTypes ==
  ASSUME OpsTypeOK, SMTypeOK', [OpsNext]_opsVars
  PROVE  OpsTypeOK'
<1> USE DEF OpsTypeOK
<1>1. ASSUME NEW c \in Callers, NEW o \in Operations, Invoke(c, o)
      PROVE  OpsTypeOK'
  BY <1>1 DEF Invoke
<1>2. ASSUME NEW c \in Callers, Perform(c) PROVE OpsTypeOK'
  BY <1>2 DEF Perform
<1>3. ASSUME NEW c \in Callers, Leave(c) PROVE OpsTypeOK'
  BY <1>3 DEF Leave
<1>4. ASSUME Elsewhere PROVE OpsTypeOK'
  BY <1>4 DEF Elsewhere
<1>5. CASE UNCHANGED opsVars
  BY <1>5 DEF opsVars
<1>6. QED
  BY <1>1, <1>2, <1>3, <1>4, <1>5 DEF OpsNext

LEMMA StepTypes == IInv /\ [Next]_vars => TypeOK'
<1> SUFFICES ASSUME IInv, [Next]_vars PROVE TypeOK'
  OBVIOUS
<1>1. OpsTypeOK'
  BY StepIsAContractStep, StepSMTypes, ContractTypes
     DEF IInv, TypeOK, OpsTypeOK
<1>2. pc' \in [Callers -> Steps]
  <2> USE DEF IInv, TypeOK, Steps, Goto
  <2>1. ASSUME NEW c \in Callers, afterOpen(c) PROVE pc' \in [Callers -> Steps]
    BY <2>1 DEF afterOpen, afterClose
  <2>2. QED
    BY <2>1 DEF Next, vars, Begin, connectManager, openService, abandon, start,
               control, query, binaryPath, discard, Return, Exit, World
<1>3. manager' \subseteq Callers /\ handle' \subseteq Callers /\ leaked' \subseteq Callers
  BY DEF IInv, TypeOK, Next, vars, Begin, connectManager, openService, afterOpen,
         closeService, abandon, start, control, query, binaryPath, discard, Return,
         Exit, World
<1>4. QED
  BY <1>1, <1>2, <1>3 DEF TypeOK

LEMMA StepHandles == IInv /\ [Next]_vars => (HandlesFitStep /\ AnswersFitStep)'
<1> DEFINE Fit == HandlesFitStep /\ AnswersFitStep
<1> SUFFICES ASSUME IInv, [Next]_vars PROVE Fit'
  OBVIOUS
<1> USE DEF IInv, TypeOK, OpsTypeOK, HandlesFitStep, AnswersFitStep, At, Goto,
            SetReply
<1>1. ASSUME NEW c \in Callers, NEW o \in Operations, Begin(c, o) PROVE Fit'
  <2>1. o # "none"
    BY DEF Operations
  <2>2. QED
    BY <1>1, <2>1 DEF Begin, Invoke
<1>2. \A o \in Operations, err \in Errors :
        (OpenService(err) /\ err # "nil") => openFailed(o, err) # NoReply
  BY FailedOpenIsACall, AnswersAreReplies
     DEF OpenService, openFailed, absentOrError, notInstalledOrError, Failures
<1>3. ASSUME NEW c \in Callers, connectManager(c) PROVE Fit'
  BY <1>3 DEF connectManager
<1>4. ASSUME NEW c \in Callers, openService(c) PROVE Fit'
  <2>1. PICK err \in Errors :
          /\ OpenService(err)
          /\ IF err = "nil"
               THEN handle' = handle \cup {c} /\ UNCHANGED reply
               ELSE SetReply(c, openFailed(op[c], err)) /\ UNCHANGED handle
    BY <1>4 DEF openService
  <2>2. op[c] \in Operations
    BY <1>4 DEF openService
  <2>3. CASE err = "nil"
    BY <1>4, <2>1, <2>3 DEF openService
  <2>4. CASE err # "nil"
    BY <1>2, <1>4, <2>1, <2>2, <2>4 DEF openService
  <2>5. QED
    BY <2>3, <2>4
<1>5. ASSUME NEW c \in Callers, afterOpen(c) PROVE Fit'
  <2>1. PICK next \in afterClose(c) :
          /\ Goto(c, next)
          /\ IF reply[c] # NoReply \/ next = "call"
               THEN UNCHANGED reply
               ELSE SetReply(c, openFailed(op[c], "REFUSED"))
    BY <1>5 DEF afterOpen
  <2>2. CASE reply[c] # NoReply
    BY <1>5, <2>1, <2>2 DEF afterOpen, afterClose
  <2>3. CASE reply[c] = NoReply
    BY <1>5, <2>1, <2>3 DEF afterOpen, afterClose
  <2>4. QED
    BY <2>2, <2>3
<1>6. ASSUME NEW c \in Callers, abandon(c) \/ discard(c) PROVE Fit'
  BY <1>6 DEF abandon, discard, closeService
<1>7. ASSUME NEW c \in Callers, start(c) \/ control(c) PROVE Fit'
  BY <1>7 DEF start, control
<1>8. ASSUME NEW c \in Callers, query(c) \/ binaryPath(c) PROVE Fit'
  BY <1>8 DEF query, binaryPath
<1>9. ASSUME NEW c \in Callers, Return(c) PROVE Fit'
  BY <1>9 DEF Return, Leave
<1>10. ASSUME NEW c \in Callers, Exit(c) PROVE Fit'
  BY <1>10 DEF Exit, Leave, opsVars
<1>11. ASSUME World PROVE Fit'
  BY <1>11 DEF World
<1>12. CASE UNCHANGED vars
  BY <1>12 DEF vars, opsVars
<1>13. QED
  BY <1>1, <1>3, <1>4, <1>5, <1>6, <1>7, <1>8, <1>9, <1>10, <1>11, <1>12
     DEF Next

LEMMA StepOpenService == IInv /\ [Next]_vars => OpenServiceStays'
<1> SUFFICES ASSUME IInv, [Next]_vars PROVE OpenServiceStays'
  OBVIOUS
<1> USE DEF IInv, OpenServiceStays
<1>1. ASSUME NEW c \in Callers, openService(c) PROVE OpenServiceStays'
  BY <1>1 DEF openService, OpenService, Registered, smVars
<1>2. ASSUME NEW c \in Callers, start(c) \/ control(c) PROVE OpenServiceStays'
  BY <1>2 DEF start, control, StartService, StopControl
<1>3. ASSUME NEW c \in Callers, abandon(c) \/ discard(c) PROVE OpenServiceStays'
  BY <1>3 DEF abandon, discard, closeService, smVars
<1>4. ASSUME World PROVE OpenServiceStays'
  BY <1>4 DEF World, Environment, StartDone, ServiceDies, StopBegins, StopDone,
              CreateService, DeleteService, Reap
<1>5. ASSUME NEW c \in Callers, Exit(c) PROVE OpenServiceStays'
  BY <1>5 DEF Exit, Leave, opsVars, smVars
<1>6. QED
  BY <1>1, <1>2, <1>3, <1>4, <1>5
     DEF Next, vars, opsVars, smVars, Begin, Invoke, connectManager, afterOpen,
         query, binaryPath, Return, Leave

LEMMA Invariance == Spec => []IInv
<1>1. IInv /\ [Next]_vars => IInv'
  BY StepTypes, StepHandles, StepOpenService DEF IInv
<1>2. QED
  BY <1>1, InitIInv, PTL DEF Spec

-----------------------------------------------------------------------------
(***************************************************************************)
(* The state of the system calls keeps its types; in particular no answer  *)
(* carries an SCM code the contract rules out.                             *)
(***************************************************************************)
THEOREM TypeCorrect == Spec => []TypeOK
<1>1. IInv => TypeOK
  BY DEF IInv
<1>2. QED
  BY <1>1, Invariance, PTL

(***************************************************************************)
(* For any number of callers and any failures: an operation that returns   *)
(* holds no handle.                                                        *)
(***************************************************************************)
THEOREM ReleasesHandles == Spec => []HandlesReleased
<1>1. IInv => HandlesReleased
  BY DEF IInv, HandlesFitStep, AnswersFitStep, HandlesReleased
<1>2. QED
  BY <1>1, Invariance, PTL

(***************************************************************************)
(* No operation uses or closes a handle it does not hold.                  *)
(***************************************************************************)
THEOREM HoldsWhatItUses == Spec => []UsesWhatItHolds
<1>1. IInv => UsesWhatItHolds
  BY DEF IInv, HandlesFitStep, UsesWhatItHolds
<1>2. QED
  BY <1>1, Invariance, PTL

(***************************************************************************)
(* The system calls implement the atomic calls of agentservice.Ops: every  *)
(* behavior of WinScm, seen through op, reply and the service, is one of   *)
(* OpsContract.                                                            *)
(***************************************************************************)
THEOREM Refinement == Spec => ImplementsOps
<1>1. Init => OpsInit
  BY DEF Init
<1>2. IInv /\ [Next]_vars => [OpsNext]_opsVars
  BY StepIsAContractStep
<1>3. QED
  BY <1>1, <1>2, Invariance, PTL DEF Spec, ImplementsOps, OpsSpec
=============================================================================

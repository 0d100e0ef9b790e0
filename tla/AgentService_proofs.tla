------------------------ MODULE AgentService_proofs ------------------------
(***************************************************************************)
(* Proofs about AgentService, for any set of clients.                      *)
(***************************************************************************)
EXTENDS AgentService, TLAPS

(***************************************************************************)
(* The strengthening of StaysDown.  A method has a result only once it is  *)
(* done; only Disconnect stops and polls; and from the moment its stop has *)
(* been accepted, the service is not on its way up unless it was started   *)
(* again: that is what makes "not running" mean "down" to the poll.        *)
(***************************************************************************)
ResultOnlyWhenDone == \A c \in Clients : pc[c] # "done" => result[c] = "none"

StepFits(step, m) ==
  /\ step = "enter" => m \in {"Status", "Connect"}
  /\ step = "start" => m = "Connect"
  /\ step = "query" => m \in {"Status", "Disconnect"}
  /\ step \in {"stop", "wait"} => m = "Disconnect"

StepFitsMethod == \A c \in Clients : StepFits(pc[c], method[c])

NotComingUp ==
  \A c \in Clients :
    (method[c] = "Disconnect" /\ ~restarted[c]
       /\ (pc[c] \in {"query", "wait"} \/ result[c] = "nil")) =>
      state # "start pending"

IInv ==
  /\ TypeOK
  /\ ResultOnlyWhenDone
  /\ StepFitsMethod
  /\ NotComingUp
  /\ StaysDown

-----------------------------------------------------------------------------
\* The SCM calls keep its two variables within their types.
LEMMA CallTypes ==
  ASSUME SMTypeOK, NEW r \in Replies, StartCall(r) \/ StopCall(r) \/ StatusCall(r)
  PROVE  SMTypeOK'
BY DEF SMTypeOK, StartCall, StopCall, StatusCall, smVars, States, Registered

\* So does everything that happens outside the program.
LEMMA EnvironmentTypes ==
  ASSUME SMTypeOK, NEW h \in BOOLEAN, Environment(h)
  PROVE  SMTypeOK'
BY DEF SMTypeOK, Environment, StartDone, ServiceDies, StopBegins, StopDone,
       CreateService, DeleteService, Reap, States, Registered

\* Every answer of an Ops call is an error a method may return.
LEMMA RepliesAreResults ==
  ASSUME NEW r \in Replies
  PROVE  r.err \in Results
BY DEF Replies, Results, Failures

\* An answer carries the error it was made from.
LEMMA AnswerErr ==
  ASSUME NEW e
  PROVE  Answer(e).err = e
BY DEF Answer

\* A status that was read without an error names the state.
LEMMA StatusIsState ==
  ASSUME NEW r \in Replies, StatusCall(r), r.err = "nil"
  PROVE  r.status = state
<1>1. CASE r = [err |-> "nil", status |-> state]
  BY <1>1
<1>2. CASE r = Answer("REFUSED")
  BY <1>2, AnswerErr
<1>3. QED
  BY <1>1, <1>2 DEF StatusCall

\* A stop starts nothing, and is refused while the service is starting.
LEMMA StopStartsNothing ==
  ASSUME NEW r \in Replies, StopCall(r)
  PROVE  /\ state' = "start pending" => state = "start pending"
         /\ state' = "running" => state = "running"
         /\ r.err = "nil" => state' # "start pending"
<1>1. /\ Answer("nil").err = "nil"
      /\ Answer("ErrNotInstalled").err = "ErrNotInstalled"
      /\ Answer("SERVICE_CANNOT_ACCEPT_CTRL").err = "SERVICE_CANNOT_ACCEPT_CTRL"
      /\ Answer("REFUSED").err = "REFUSED"
  BY AnswerErr
<1>2. /\ state' = "start pending" => state = "start pending"
      /\ state' = "running" => state = "running"
  BY DEF StopCall
<1>3. r.err = "nil" => state' # "start pending"
  BY <1>1 DEF StopCall
<1>4. QED
  BY <1>2, <1>3

\* Nothing outside the program starts the service.
LEMMA EnvironmentStartsNothing ==
  ASSUME SMTypeOK, NEW h \in BOOLEAN, Environment(h)
  PROVE  /\ state' = "start pending" => state = "start pending"
         /\ state' = "running" => state \in {"start pending", "running"}
BY DEF SMTypeOK, Environment, StartDone, ServiceDies, StopBegins, StopDone,
       CreateService, DeleteService, Reap

LEMMA InitIInv == Init => IInv
<1> SUFFICES ASSUME Init PROVE IInv
  OBVIOUS
<1>1. TypeOK
  BY DEF Init, TypeOK, SMInit, SMTypeOK, Steps, Results
<1>2. ResultOnlyWhenDone /\ StepFitsMethod /\ NotComingUp /\ StaysDown
  BY DEF Init, ResultOnlyWhenDone, StepFitsMethod, StepFits, NotComingUp, StaysDown
<1>3. QED
  BY <1>1, <1>2 DEF IInv

LEMMA StepTypes == TypeOK /\ [Next]_vars => TypeOK'
<1> SUFFICES ASSUME TypeOK, [Next]_vars PROVE TypeOK'
  OBVIOUS
<1> USE DEF TypeOK, Steps, Methods
<1>1. ASSUME NEW c \in Clients, NEW m \in Methods, Begin(c, m) PROVE TypeOK'
  BY <1>1 DEF Begin, Goto, smVars, SMTypeOK
<1>2. ASSUME NEW c \in Clients, Enter(c) PROVE TypeOK'
  BY <1>2 DEF Enter, Goto, Finish, Results, smVars, SMTypeOK
<1>3. ASSUME NEW c \in Clients, Start(c) PROVE TypeOK'
  <2>1. PICK r \in Replies : StartCall(r) /\ Finish(c, r.err)
    BY <1>3 DEF Start
  <2>2. QED
    BY <1>3, <2>1, CallTypes, RepliesAreResults DEF Start, Finish
<1>4. ASSUME NEW c \in Clients, Stop(c) PROVE TypeOK'
  <2>1. PICK r \in Replies : StopCall(r) /\ afterStop(c, r.err)
    BY <1>4 DEF Stop
  <2>2. QED
    BY <1>4, <2>1, CallTypes, RepliesAreResults DEF Stop, afterStop, Finish, Goto
<1>5. ASSUME NEW c \in Clients, Query(c) PROVE TypeOK'
  <2>1. PICK r \in Replies : StatusCall(r) /\ Finish(c, r.err)
    BY <1>5 DEF Query
  <2>2. QED
    BY <1>5, <2>1, CallTypes, RepliesAreResults DEF Query, Finish
<1>6. ASSUME NEW c \in Clients, Poll(c) PROVE TypeOK'
  <2>1. PICK r \in Replies : StatusCall(r) /\ tick(c, r)
    BY <1>6 DEF Poll
  <2>2. QED
    BY <1>6, <2>1, CallTypes, RepliesAreResults DEF Poll, tick, Finish, Goto
<1>7. ASSUME NEW c \in Clients, WaitTick(c) PROVE TypeOK'
  BY <1>7 DEF WaitTick, Goto, smVars, SMTypeOK
<1>8. ASSUME NEW c \in Clients, WaitDone(c) PROVE TypeOK'
  BY <1>8 DEF WaitDone, Finish, Results, smVars, SMTypeOK
<1>9. ASSUME NEW c \in Clients, Return(c) PROVE TypeOK'
  BY <1>9 DEF Return, Goto, Results, smVars, SMTypeOK
<1>10. ASSUME NEW c \in Clients, ContextEnds(c) PROVE TypeOK'
  BY <1>10 DEF ContextEnds, smVars, SMTypeOK
<1>11. ASSUME World PROVE TypeOK'
  BY <1>11, EnvironmentTypes DEF World, clientVars
<1>12. ASSUME UNCHANGED vars PROVE TypeOK'
  BY <1>12 DEF vars, clientVars, smVars, SMTypeOK
<1>13. QED
  BY <1>1, <1>2, <1>3, <1>4, <1>5, <1>6, <1>7, <1>8, <1>9, <1>10, <1>11, <1>12
     DEF Next, ClientStep

Shape == ResultOnlyWhenDone /\ StepFitsMethod
Down == NotComingUp /\ StaysDown

\* A client goes on to a step of its method, with an error only if it is done.
LEMMA StaysInShape ==
  ASSUME TypeOK, Shape, NEW c \in Clients, NEW step, NEW e,
         pc' = [pc EXCEPT ![c] = step], result' = [result EXCEPT ![c] = e],
         method' = method, step # "done" => e = "none", StepFits(step, method[c])
  PROVE  Shape'
<1>1. ResultOnlyWhenDone'
  BY DEF TypeOK, Shape, ResultOnlyWhenDone
<1>2. StepFitsMethod'
  BY DEF TypeOK, Shape, StepFitsMethod
<1>3. QED
  BY <1>1, <1>2 DEF Shape

(***************************************************************************)
(* The step starts nothing, and where it leaves the client, in the polling *)
(* loop or with a success, the service is no longer coming up.             *)
(***************************************************************************)
LEMMA StaysBelow ==
  ASSUME TypeOK, Down, NEW c \in Clients, NEW step, NEW e,
         pc' = [pc EXCEPT ![c] = step], result' = [result EXCEPT ![c] = e],
         method' = method,
         \A d \in Clients : d # c => restarted'[d] = restarted[d],
         state' = "start pending" => state = "start pending",
         state' = "running" => state \in {"start pending", "running"},
         (method[c] = "Disconnect" /\ ~restarted'[c] /\ step \in {"query", "wait"}) =>
           state' # "start pending",
         (method[c] = "Disconnect" /\ ~restarted'[c] /\ e = "nil") =>
           state' \notin {"start pending", "running"}
  PROVE  Down'
<1> SUFFICES ASSUME NEW d \in Clients, method[d] = "Disconnect", ~restarted'[d]
             PROVE  /\ pc'[d] \in {"query", "wait"} => state' # "start pending"
                    /\ result'[d] = "nil" => state' \notin {"start pending", "running"}
  BY DEF Down, NotComingUp, StaysDown
<1>1. CASE d = c
  BY <1>1 DEF TypeOK
<1>2. CASE d # c
  <2>1. pc'[d] = pc[d] /\ result'[d] = result[d] /\ ~restarted[d]
    BY <1>2 DEF TypeOK
  <2>2. /\ pc[d] \in {"query", "wait"} => state # "start pending"
        /\ result[d] = "nil" => state \notin {"start pending", "running"}
    BY <2>1 DEF Down, NotComingUp, StaysDown
  <2>3. QED
    BY <2>1, <2>2
<1>3. QED
  BY <1>1, <1>2

\* A result that is left alone, as the two lemmas want it.
LEMMA SameResult ==
  ASSUME TypeOK, Shape, NEW c \in Clients, pc[c] # "done", UNCHANGED result
  PROVE  result' = [result EXCEPT ![c] = "none"] /\ result[c] = "none"
BY DEF TypeOK, Shape, ResultOnlyWhenDone

LEMMA StepIInv == IInv /\ [Next]_vars => IInv'
<1> SUFFICES ASSUME IInv, [Next]_vars PROVE IInv'
  OBVIOUS
<1> DEFINE Rest == Shape /\ Down
<1>0. TypeOK' /\ TypeOK /\ Shape /\ Down
  BY StepTypes DEF IInv, Shape, Down
<1> SUFFICES Rest'
  BY <1>0 DEF IInv, Shape, Down
<1>1. ASSUME NEW c \in Clients, NEW m \in Methods, Begin(c, m) PROVE Rest'
  <2>1. /\ pc[c] = "idle" /\ result[c] = "none" /\ UNCHANGED <<result, restarted, state>>
        /\ pc' = [pc EXCEPT ![c] = IF m = "Disconnect" THEN "stop" ELSE "enter"]
        /\ method' = [method EXCEPT ![c] = m]
    BY <1>0, <1>1 DEF Begin, Goto, smVars, Shape, ResultOnlyWhenDone
  <2>2. ASSUME NEW d \in Clients, d # c
        PROVE  pc'[d] = pc[d] /\ method'[d] = method[d]
    BY <1>0, <2>1, <2>2 DEF TypeOK
  <2>3. /\ pc'[c] = (IF m = "Disconnect" THEN "stop" ELSE "enter")
        /\ method'[c] = m /\ StepFits(pc'[c], m)
    BY <1>0, <2>1 DEF TypeOK, StepFits, Methods
  <2>4. Shape'
    BY <1>0, <2>1, <2>2, <2>3 DEF Shape, ResultOnlyWhenDone, StepFitsMethod
  <2>5. Down'
    <3>1. pc'[c] \notin {"query", "wait"} /\ result'[c] # "nil"
      BY <2>1, <2>3
    <3>2. QED
      BY <1>0, <2>1, <2>2, <3>1 DEF Down, NotComingUp, StaysDown
  <2>6. QED
    BY <2>4, <2>5
<1>2. ASSUME NEW c \in Clients, Enter(c) PROVE Rest'
  <2>1. pc[c] = "enter" /\ method[c] \in {"Status", "Connect"}
        /\ UNCHANGED <<method, restarted, state>>
    BY <1>0, <1>2 DEF Enter, smVars, Shape, StepFitsMethod, StepFits
  <2>2. PICK step, e : /\ pc' = [pc EXCEPT ![c] = step]
                       /\ result' = [result EXCEPT ![c] = e]
                       /\ step # "done" => e = "none"
                       /\ StepFits(step, method[c])
    <3>1. CASE ctx[c] = "ended"
      <4>1. Finish(c, "context error") /\ StepFits("done", method[c])
        BY <1>2, <3>1 DEF Enter, StepFits
      <4>2. QED
        BY <4>1 DEF Finish
    <3>2. CASE ctx[c] # "ended"
      <4> DEFINE step == IF method[c] = "Connect" THEN "start" ELSE "query"
      <4>1. Goto(c, step) /\ UNCHANGED result /\ StepFits(step, method[c])
        BY <1>2, <2>1, <3>2 DEF Enter, StepFits
      <4>2. result' = [result EXCEPT ![c] = "none"]
        BY <1>0, <2>1, <4>1, SameResult
      <4>3. QED
        BY <4>1, <4>2 DEF Goto
    <3>3. QED
      BY <3>1, <3>2
  <2>3. QED
    BY <1>0, <2>1, <2>2, StaysInShape, StaysBelow
<1>3. ASSUME NEW c \in Clients, Start(c) PROVE Rest'
  <2>1. PICK r \in Replies : StartCall(r) /\ Finish(c, r.err)
    BY <1>3 DEF Start
  <2>2. /\ pc[c] = "start" /\ method[c] = "Connect" /\ UNCHANGED method
        /\ restarted' = [d \in Clients |-> restarted[d] \/ Started]
    BY <1>0, <1>3 DEF Start, Shape, StepFitsMethod, StepFits
  <2>3. Shape'
    <3>1. StepFits("done", method[c])
      BY DEF StepFits
    <3>2. QED
      BY <1>0, <2>1, <2>2, <3>1, StaysInShape DEF Finish
  <2>4. Down'
    <3>1. CASE Started
      BY <2>2, <3>1 DEF Down, NotComingUp, StaysDown
    <3>2. CASE ~Started
      <4>1. state' = state /\ \A d \in Clients : restarted'[d] = restarted[d]
        BY <1>0, <2>1, <2>2, <3>2 DEF StartCall, Started, TypeOK
      <4>2. QED
        BY <1>0, <2>1, <2>2, <4>1, StaysBelow DEF Finish
    <3>3. QED
      BY <3>1, <3>2
  <2>5. QED
    BY <2>3, <2>4
<1>4. ASSUME NEW c \in Clients, Stop(c) PROVE Rest'
  <2>1. PICK r \in Replies : StopCall(r) /\ afterStop(c, r.err)
    BY <1>4 DEF Stop
  <2>2. /\ state' = "start pending" => state = "start pending"
        /\ state' = "running" => state = "running"
        /\ r.err = "nil" => state' # "start pending"
    BY <2>1, StopStartsNothing
  <2>3. /\ pc[c] = "stop" /\ method[c] = "Disconnect" /\ UNCHANGED method
        /\ \A d \in Clients : d # c => restarted'[d] = restarted[d]
    BY <1>0, <1>4 DEF Stop, Shape, StepFitsMethod, StepFits, TypeOK
  <2>4. StepFits("query", method[c]) /\ StepFits("done", method[c])
    BY <2>3 DEF StepFits
  <2>5. CASE r.err = "nil"
    <3>1. pc' = [pc EXCEPT ![c] = "query"] /\ UNCHANGED result
      BY <2>1, <2>5 DEF afterStop, Goto
    <3>2. result' = [result EXCEPT ![c] = "none"]
      BY <1>0, <2>3, <3>1, SameResult
    <3>3. Shape'
      BY <1>0, <2>3, <2>4, <3>1, <3>2, StaysInShape
    <3>4. Down'
      BY <1>0, <2>2, <2>3, <2>5, <3>1, <3>2, StaysBelow
    <3>5. QED
      BY <3>3, <3>4
  <2>6. CASE r.err # "nil"
    <3>1. pc' = [pc EXCEPT ![c] = "done"] /\ result' = [result EXCEPT ![c] = r.err]
      BY <2>1, <2>6 DEF afterStop, Finish
    <3>2. Shape'
      BY <1>0, <2>3, <2>4, <3>1, StaysInShape
    <3>3. Down'
      BY <1>0, <2>2, <2>3, <2>6, <3>1, StaysBelow
    <3>4. QED
      BY <3>2, <3>3
  <2>7. QED
    BY <2>5, <2>6
<1>5. ASSUME NEW c \in Clients, Query(c) PROVE Rest'
  <2>1. PICK r \in Replies : StatusCall(r) /\ Finish(c, r.err)
    BY <1>5 DEF Query
  <2>2. /\ method[c] = "Status" /\ StepFits("done", method[c])
        /\ UNCHANGED <<method, restarted, state>>
    BY <1>5, <2>1 DEF Query, StatusCall, smVars, StepFits
  <2>3. QED
    BY <1>0, <2>1, <2>2, StaysInShape, StaysBelow DEF Finish
<1>6. ASSUME NEW c \in Clients, Poll(c) PROVE Rest'
  <2>1. PICK r \in Replies : StatusCall(r) /\ tick(c, r)
    BY <1>6 DEF Poll
  <2>2. r.err = "nil" => r.status = state
    BY <2>1, StatusIsState
  <2>3. /\ pc[c] = "query" /\ method[c] = "Disconnect"
        /\ UNCHANGED <<method, restarted, state>>
        /\ StepFits("wait", method[c]) /\ StepFits("done", method[c])
    BY <1>6, <2>1 DEF Poll, StatusCall, smVars, StepFits
  <2>4. ~restarted[c] => state # "start pending"
    BY <1>0, <2>3 DEF Down, NotComingUp
  <2>5. CASE r.err # "nil" \/ stopped(r.status)
    <3>1. pc' = [pc EXCEPT ![c] = "done"] /\ result' = [result EXCEPT ![c] = r.err]
      BY <2>1, <2>5 DEF tick, Finish
    <3>2. r.err = "nil" => state # "running"
      BY <2>2, <2>5 DEF stopped
    <3>3. Shape'
      BY <1>0, <2>3, <3>1, StaysInShape
    <3>4. Down'
      BY <1>0, <2>3, <2>4, <3>1, <3>2, StaysBelow
    <3>5. QED
      BY <3>3, <3>4
  <2>6. CASE ~(r.err # "nil" \/ stopped(r.status))
    <3>1. pc' = [pc EXCEPT ![c] = "wait"] /\ UNCHANGED result
      BY <2>1, <2>6 DEF tick, Goto
    <3>2. result' = [result EXCEPT ![c] = "none"]
      BY <1>0, <2>3, <3>1, SameResult
    <3>3. Shape'
      BY <1>0, <2>3, <3>1, <3>2, StaysInShape
    <3>4. Down'
      BY <1>0, <2>3, <2>4, <3>1, <3>2, StaysBelow
    <3>5. QED
      BY <3>3, <3>4
  <2>7. QED
    BY <2>5, <2>6
<1>7. ASSUME NEW c \in Clients, WaitTick(c) PROVE Rest'
  <2>1. /\ pc[c] = "wait" /\ pc' = [pc EXCEPT ![c] = "query"]
        /\ method[c] = "Disconnect" /\ StepFits("query", method[c])
        /\ UNCHANGED <<method, result, restarted, state>>
    BY <1>0, <1>7 DEF WaitTick, Goto, smVars, Shape, StepFitsMethod, StepFits
  <2>2. result' = [result EXCEPT ![c] = "none"]
    BY <1>0, <2>1, SameResult
  <2>3. ~restarted[c] => state # "start pending"
    BY <1>0, <2>1 DEF Down, NotComingUp
  <2>4. QED
    BY <1>0, <2>1, <2>2, <2>3, StaysInShape, StaysBelow
<1>8. ASSUME NEW c \in Clients, WaitDone(c) PROVE Rest'
  <2>1. /\ pc' = [pc EXCEPT ![c] = "done"]
        /\ result' = [result EXCEPT ![c] = "context error"]
        /\ UNCHANGED <<method, restarted, state>> /\ StepFits("done", method[c])
    BY <1>8 DEF WaitDone, Finish, smVars, StepFits
  <2>2. QED
    BY <1>0, <2>1, StaysInShape, StaysBelow
<1>9. ASSUME NEW c \in Clients, Return(c) PROVE Rest'
  <2>1. /\ pc' = [pc EXCEPT ![c] = "idle"] /\ method' = [method EXCEPT ![c] = "none"]
        /\ result' = [result EXCEPT ![c] = "none"] /\ UNCHANGED <<restarted, state>>
    BY <1>9 DEF Return, Goto, smVars
  <2>2. ASSUME NEW d \in Clients, d # c
        PROVE  pc'[d] = pc[d] /\ method'[d] = method[d] /\ result'[d] = result[d]
    BY <1>0, <2>1, <2>2 DEF TypeOK
  <2>3. pc'[c] = "idle" /\ method'[c] = "none" /\ result'[c] = "none"
    BY <1>0, <2>1 DEF TypeOK
  <2>4. Shape'
    BY <1>0, <2>2, <2>3 DEF Shape, ResultOnlyWhenDone, StepFitsMethod, StepFits
  <2>5. Down'
    <3>1. pc'[c] \notin {"query", "wait"} /\ result'[c] # "nil"
      BY <2>3
    <3>2. QED
      BY <1>0, <2>1, <2>2, <3>1 DEF Down, NotComingUp, StaysDown
  <2>6. QED
    BY <2>4, <2>5
<1>10. ASSUME NEW c \in Clients, ContextEnds(c) PROVE Rest'
  BY <1>0, <1>10 DEF ContextEnds, smVars, Shape, ResultOnlyWhenDone, StepFitsMethod,
                     Down, NotComingUp, StaysDown
<1>11. ASSUME World PROVE Rest'
  <2>1. UNCHANGED clientVars
    BY <1>11 DEF World
  <2>2. /\ state' = "start pending" => state = "start pending"
        /\ state' = "running" => state \in {"start pending", "running"}
    BY <1>0, <1>11, EnvironmentStartsNothing DEF World, TypeOK
  <2>3. QED
    BY <1>0, <2>1, <2>2 DEF clientVars, Shape, ResultOnlyWhenDone, StepFitsMethod,
                            Down, NotComingUp, StaysDown
<1>12. ASSUME UNCHANGED vars PROVE Rest'
  BY <1>0, <1>12 DEF vars, clientVars, smVars, Shape, ResultOnlyWhenDone,
                     StepFitsMethod, Down, NotComingUp, StaysDown
<1>13. QED
  BY <1>1, <1>2, <1>3, <1>4, <1>5, <1>6, <1>7, <1>8, <1>9, <1>10, <1>11, <1>12
     DEF Next, ClientStep

-----------------------------------------------------------------------------
(***************************************************************************)
(* The Controller's state keeps its types, whatever the number of clients. *)
(***************************************************************************)
THEOREM TypeCorrect == Spec => []TypeOK
<1>1. Init => TypeOK
  BY InitIInv DEF IInv
<1>2. QED
  BY <1>1, StepTypes, PTL DEF Spec

(***************************************************************************)
(* After a Disconnect that succeeded, a service nobody has started since   *)
(* is neither running nor coming up, for any number of clients that start, *)
(* stop and poll it at the same time.                                      *)
(***************************************************************************)
THEOREM DisconnectKeepsDown == Spec => []StaysDown
<1>1. IInv => StaysDown
  BY DEF IInv
<1>2. QED
  BY <1>1, InitIInv, StepIInv, PTL DEF Spec

-----------------------------------------------------------------------------
\* The contract's calls are those of ServiceOps on the same service.
LEMMA ContractCalls ==
  ASSUME NEW r
  PROVE  /\ StartCall(r) => Contract!StartCall(r)
         /\ StopCall(r) => Contract!StopCall(r)
         /\ StatusCall(r) => Contract!StatusCall(r)
BY DEF StartCall, StopCall, StatusCall, Contract!StartCall, Contract!StopCall,
       Contract!StatusCall, Answer, Contract!Answer, smVars, Contract!smVars

LEMMA ContractReplies == Replies = Contract!Replies
BY DEF Replies, Contract!Replies, Failures, Contract!Failures, States,
       Contract!States, Registered, Contract!Registered

LEMMA ContractEnvironment == World => Contract!Environment(FALSE)
BY DEF World, Environment, StartDone, ServiceDies, StopBegins, StopDone,
       CreateService, DeleteService, Reap, Registered, Contract!Environment,
       Contract!StartDone, Contract!ServiceDies, Contract!StopBegins,
       Contract!StopDone, Contract!CreateService, Contract!DeleteService,
       Contract!Reap, Contract!Registered

\* A client that goes on to a step changes its own entry of Doing.
LEMMA DoingAfter ==
  ASSUME NEW c \in Clients, NEW step, pc \in [Clients -> Steps],
         pc' = [pc EXCEPT ![c] = step],
         \A d \in Clients \ {c} : method'[d] = method[d]
  PROVE  Doing' = [Doing EXCEPT ![c] = Doing'[c]]
BY DEF Doing

LEMMA InitRefines == Init => Contract!ControlInit
<1> SUFFICES ASSUME Init PROVE Contract!ControlInit
  OBVIOUS
<1>1. Doing = [c \in Clients |-> "none"]
  BY DEF Init, Doing
<1>2. Contract!SMInit
  BY DEF Init, SMInit, Contract!SMInit, States, Contract!States, Registered,
         Contract!Registered
<1>3. QED
  BY <1>1, <1>2 DEF Init, Contract!ControlInit

(***************************************************************************)
(* Every step of a Controller is one of the contract, or none: reading a   *)
(* context that is live, and waiting for the next poll, are none.          *)
(***************************************************************************)
LEMMA StepRefines ==
  IInv /\ [Next]_vars => [Contract!ControlNext]_(Contract!controlVars)
<1> SUFFICES ASSUME IInv, [Next]_vars
             PROVE  Contract!ControlNext \/ UNCHANGED Contract!controlVars
  OBVIOUS
<1> USE DEF IInv, TypeOK, StepFitsMethod, StepFits
<1>1. ASSUME NEW c \in Clients, NEW m \in Methods, Begin(c, m)
      PROVE  Contract!Invoke(c, m)
  <2>1. pc' = [pc EXCEPT ![c] = IF m = "Disconnect" THEN "stop" ELSE "enter"]
        /\ method' = [method EXCEPT ![c] = m]
    BY <1>1 DEF Begin, Goto
  <2>2. Doing' = [Doing EXCEPT ![c] = Doing'[c]]
    BY <2>1, DoingAfter
  <2>3. Doing[c] = "none" /\ Doing'[c] = m
    BY <1>1, <2>1 DEF Begin, Doing, Steps
  <2>4. QED
    BY <1>1, <2>2, <2>3
       DEF Begin, smVars, Contract!Invoke, Contract!Become, Contract!smVars
<1>2. ASSUME NEW c \in Clients, Enter(c)
      PROVE  Contract!Refuse(c) \/ UNCHANGED Contract!controlVars
  <2>1. CASE ctx[c] = "ended"
    <3>1. Doing' = [Doing EXCEPT ![c] = Doing'[c]]
      BY <1>2, <2>1, DoingAfter DEF Enter, Finish
    <3>2. Doing[c] \in {"Status", "Connect"} /\ Doing'[c] = "answered"
      BY <1>2, <2>1 DEF Enter, Finish, Doing, Steps
    <3>3. QED
      BY <1>2, <2>1, <3>1, <3>2
         DEF Enter, Finish, smVars, Contract!Refuse, Contract!Reply,
             Contract!Become, Contract!smVars
  <2>2. CASE ctx[c] # "ended"
    <3>1. UNCHANGED Doing
      BY <1>2, <2>2 DEF Enter, Goto, Doing, Steps
    <3>2. QED
      BY <1>2, <2>2, <3>1
         DEF Enter, smVars, Contract!controlVars, Contract!smVars
  <2>3. QED
    BY <2>1, <2>2
<1>3. ASSUME NEW c \in Clients, Start(c) PROVE Contract!Happen(c)
  <2>1. PICK r \in Replies : StartCall(r) /\ Finish(c, r.err)
    BY <1>3 DEF Start
  <2>2. Doing' = [Doing EXCEPT ![c] = Doing'[c]]
    BY <1>3, <2>1, DoingAfter DEF Start, Finish
  <2>3. Doing[c] = "Connect" /\ Doing'[c] = "answered"
    BY <1>3, <2>1 DEF Start, Finish, Doing, Steps
  <2>4. Contract!Reply(c, r.err)
    BY <2>1, <2>2, <2>3 DEF Finish, Contract!Reply, Contract!Become
  <2>5. Contract!StartCall(r) /\ r \in Contract!Replies /\ UNCHANGED ctx
    BY <1>3, <2>1, ContractCalls, ContractReplies DEF Start
  <2>6. QED
    BY <2>3, <2>4, <2>5 DEF Contract!Happen
<1>4. ASSUME NEW c \in Clients, Stop(c) PROVE Contract!AskToStop(c)
  <2>1. PICK r \in Replies : StopCall(r) /\ afterStop(c, r.err)
    BY <1>4 DEF Stop
  <2>2. Contract!StopCall(r) /\ r \in Contract!Replies /\ UNCHANGED <<method, ctx>>
    BY <1>4, <2>1, ContractCalls, ContractReplies DEF Stop
  <2>3. Doing[c] = "Disconnect"
    BY <1>4 DEF Stop, Doing, Steps
  <2>4. CASE r.err = "nil"
    <3>1. Doing' = [Doing EXCEPT ![c] = Doing'[c]]
      BY <2>1, <2>2, <2>4, DoingAfter DEF afterStop, Goto
    <3>2. Doing'[c] = "stopping"
      BY <1>4, <2>1, <2>2, <2>4 DEF Stop, afterStop, Goto, Doing, Steps
    <3>3. Contract!Become(c, "stopping") /\ UNCHANGED result
      BY <2>1, <2>4, <3>1, <3>2 DEF afterStop, Contract!Become
    <3>4. QED
      BY <2>2, <2>3, <2>4, <3>3 DEF Contract!AskToStop
  <2>5. CASE r.err # "nil"
    <3>1. Doing' = [Doing EXCEPT ![c] = Doing'[c]]
      BY <2>1, <2>2, <2>5, DoingAfter DEF afterStop, Finish
    <3>2. Doing'[c] = "answered"
      BY <1>4, <2>1, <2>2, <2>5 DEF Stop, afterStop, Finish, Doing, Steps
    <3>3. Contract!Reply(c, r.err)
      BY <2>1, <2>5, <3>1, <3>2 DEF afterStop, Finish, Contract!Reply, Contract!Become
    <3>4. QED
      BY <2>2, <2>3, <2>5, <3>3 DEF Contract!AskToStop
  <2>6. QED
    BY <2>4, <2>5
<1>5. ASSUME NEW c \in Clients, Query(c) PROVE Contract!Happen(c)
  <2>1. PICK r \in Replies : StatusCall(r) /\ Finish(c, r.err)
    BY <1>5 DEF Query
  <2>2. Doing' = [Doing EXCEPT ![c] = Doing'[c]]
    BY <1>5, <2>1, DoingAfter DEF Query, Finish
  <2>3. Doing[c] = "Status" /\ Doing'[c] = "answered"
    BY <1>5, <2>1 DEF Query, Finish, Doing, Steps
  <2>4. Contract!Reply(c, r.err)
    BY <2>1, <2>2, <2>3 DEF Finish, Contract!Reply, Contract!Become
  <2>5. Contract!StatusCall(r) /\ r \in Contract!Replies /\ UNCHANGED ctx
    BY <1>5, <2>1, ContractCalls, ContractReplies DEF Query
  <2>6. QED
    BY <2>3, <2>4, <2>5 DEF Contract!Happen
<1>6. ASSUME NEW c \in Clients, Poll(c)
      PROVE  \/ Contract!SeeItDown(c) \/ Contract!GiveUp(c)
             \/ UNCHANGED Contract!controlVars
  <2>1. PICK r \in Replies : StatusCall(r) /\ tick(c, r)
    BY <1>6 DEF Poll
  <2>2. UNCHANGED <<method, ctx, smVars>>
    BY <1>6, <2>1 DEF Poll, StatusCall
  <2>3. Doing[c] = "stopping"
    BY <1>6 DEF Poll, Doing, Steps
  <2>4. CASE r.err # "nil" \/ stopped(r.status)
    <3>1. Finish(c, r.err)
      BY <2>1, <2>4 DEF tick
    <3>2. Doing' = [Doing EXCEPT ![c] = Doing'[c]] /\ Doing'[c] = "answered"
      <4>1. pc' = [pc EXCEPT ![c] = "done"]
        BY <3>1 DEF Finish
      <4>2. Doing' = [Doing EXCEPT ![c] = Doing'[c]]
        BY <2>2, <4>1, DoingAfter
      <4>3. Doing'[c] = "answered"
        BY <2>2, <4>1 DEF Doing
      <4>4. QED
        BY <4>2, <4>3
    <3>3. Contract!Reply(c, r.err)
      BY <3>1, <3>2 DEF Finish, Contract!Reply, Contract!Become
    <3>4. CASE r.err = "nil"
      <4>1. state # "running"
        BY <2>1, <2>4, <3>4, StatusIsState DEF stopped
      <4>2. QED
        BY <2>2, <2>3, <3>3, <3>4, <4>1
           DEF smVars, Contract!SeeItDown, Contract!smVars
    <3>5. CASE r.err # "nil"
      <4>1. r.err = "REFUSED"
        BY <2>1, <3>5, AnswerErr DEF StatusCall
      <4>2. QED
        BY <2>2, <2>3, <3>3, <4>1 DEF smVars, Contract!GiveUp, Contract!smVars
    <3>6. QED
      BY <3>4, <3>5
  <2>5. CASE ~(r.err # "nil" \/ stopped(r.status))
    <3>1. pc' = [pc EXCEPT ![c] = "wait"] /\ UNCHANGED result
      BY <2>1, <2>5 DEF tick, Goto
    <3>2. UNCHANGED Doing
      BY <1>6, <2>2, <3>1 DEF Poll, Doing, Steps
    <3>3. QED
      BY <2>2, <3>1, <3>2 DEF smVars, Contract!controlVars, Contract!smVars
  <2>6. QED
    BY <2>4, <2>5
<1>7. ASSUME NEW c \in Clients, WaitTick(c) PROVE UNCHANGED Contract!controlVars
  <2>1. UNCHANGED Doing
    BY <1>7 DEF WaitTick, Goto, Doing, Steps
  <2>2. QED
    BY <1>7, <2>1 DEF WaitTick, smVars, Contract!controlVars, Contract!smVars
<1>8. ASSUME NEW c \in Clients, WaitDone(c) PROVE Contract!GiveUp(c)
  <2>1. Doing' = [Doing EXCEPT ![c] = Doing'[c]]
    BY <1>8, DoingAfter DEF WaitDone, Finish
  <2>2. Doing[c] = "stopping" /\ Doing'[c] = "answered"
    BY <1>8 DEF WaitDone, Finish, Doing, Steps
  <2>3. QED
    BY <1>8, <2>1, <2>2
       DEF WaitDone, Finish, smVars, Contract!GiveUp, Contract!Reply,
           Contract!Become, Contract!smVars
<1>9. ASSUME NEW c \in Clients, Return(c) PROVE Contract!Leave(c)
  <2>1. Doing' = [Doing EXCEPT ![c] = Doing'[c]]
    BY <1>9, DoingAfter DEF Return, Goto
  <2>2. Doing[c] = "answered" /\ Doing'[c] = "none"
    BY <1>9 DEF Return, Goto, Doing, Steps
  <2>3. QED
    BY <1>9, <2>1, <2>2
       DEF Return, smVars, Contract!Leave, Contract!Become, Contract!smVars
<1>10. ASSUME NEW c \in Clients, ContextEnds(c) PROVE Contract!Expire(c)
  <2>1. UNCHANGED Doing /\ Doing[c] \notin {"none", "answered"}
    BY <1>10 DEF ContextEnds, Doing, Steps, Methods
  <2>2. QED
    BY <1>10, <2>1 DEF ContextEnds, smVars, Contract!Expire, Contract!smVars
<1>11. ASSUME World PROVE Contract!Elsewhere
  <2>1. UNCHANGED Doing
    BY <1>11 DEF World, clientVars, Doing
  <2>2. QED
    BY <1>11, <2>1, ContractEnvironment DEF World, clientVars, Contract!Elsewhere
<1>12. ASSUME UNCHANGED vars PROVE UNCHANGED Contract!controlVars
  BY <1>12 DEF vars, clientVars, smVars, Doing, Contract!controlVars, Contract!smVars
<1>13. QED
  BY <1>1, <1>2, <1>3, <1>4, <1>5, <1>6, <1>7, <1>8, <1>9, <1>10, <1>11, <1>12
     DEF Next, ClientStep, Methods, Contract!ControlNext

(***************************************************************************)
(* A Controller keeps to ControlContract for any number of clients: its    *)
(* answers are the service's, at one instant of the call; a context error  *)
(* of Status or Connect has touched nothing; and a Disconnect without an   *)
(* error has had its stop accepted and then seen the service not running.  *)
(***************************************************************************)
THEOREM Refinement == Spec => ImplementsControl
<1>1. Spec => []IInv
  BY InitIInv, StepIInv, PTL DEF Spec
<1>2. QED
  BY <1>1, InitRefines, StepRefines, PTL
     DEF Spec, ImplementsControl, Contract!ControlSpec
=============================================================================

---------------------------- MODULE AgentService ----------------------------
(***************************************************************************)
(* internal/infrastructure/agentservice/funcs.go: the Controller behind    *)
(* Client.Status, Client.Connect and Client.Disconnect, called by several  *)
(* clients (goroutines, or meshagentctl processes) on one machine.  The    *)
(* calls on Ops are the atomic ones of ServiceOps; between them the        *)
(* service, its installer, the other clients and the contexts move.        *)
(***************************************************************************)
EXTENDS ServiceOps

CONSTANT Clients    \* callers of the Controller

VARIABLES
  pc,         \* what each client does next
  method,     \* the Controller method it is in, or "none"
  ctx,        \* its context: "live", or "ended" by a deadline or a signal
  result,     \* the error the method returned
  restarted   \* the service was started since the client's stop (history)

clientVars == <<pc, method, ctx, result, restarted>>
vars == <<clientVars, smVars>>

Methods == {"Status", "Connect", "Disconnect"}

Steps == {"idle", "enter", "start", "stop", "query", "wait", "done"}

Results == {"none", "nil", "ErrNotInstalled", "context error"} \cup Failures

TypeOK ==
  /\ SMTypeOK
  /\ pc \in [Clients -> Steps]
  /\ method \in [Clients -> Methods \cup {"none"}]
  /\ ctx \in [Clients -> {"live", "ended"}]
  /\ result \in [Clients -> Results]
  /\ restarted \in [Clients -> BOOLEAN]

Init ==
  /\ SMInit
  /\ pc = [c \in Clients |-> "idle"]
  /\ method = [c \in Clients |-> "none"]
  /\ ctx = [c \in Clients |-> "live"]
  /\ result = [c \in Clients |-> "none"]
  /\ restarted = [c \in Clients |-> FALSE]

-----------------------------------------------------------------------------
Goto(c, step) == pc' = [pc EXCEPT ![c] = step]

Finish(c, err) ==
  /\ pc' = [pc EXCEPT ![c] = "done"]
  /\ result' = [result EXCEPT ![c] = err]

(***************************************************************************)
(* stopped: the poll ends on any status that is not Running, so on "stop   *)
(* pending" and on a service that is no longer there too.                  *)
(***************************************************************************)
stopped(s) == s # "running"

\* Mutant: the result of Stop is dropped and the polling starts regardless.
afterStop_Ignores(c, err) ==
  /\ Goto(c, "query")
  /\ UNCHANGED result

\* Disconnect starts polling only once Stop has succeeded.
afterStop(c, err) ==
  IF err = "nil"
    THEN Goto(c, "query") /\ UNCHANGED result
    ELSE Finish(c, err)

\* A method is called with a context that is live, or has ended already.
\* Disconnect does not look at it before it stops the service.
Begin(c, m) ==
  /\ pc[c] = "idle"
  /\ method' = [method EXCEPT ![c] = m]
  /\ \E x \in {"live", "ended"} : ctx' = [ctx EXCEPT ![c] = x]
  /\ Goto(c, IF m = "Disconnect" THEN "stop" ELSE "enter")
  /\ UNCHANGED <<result, restarted, smVars>>

\* ctx.Err() at the head of Status and Connect.
Enter(c) ==
  /\ pc[c] = "enter"
  /\ IF ctx[c] = "ended"
       THEN Finish(c, "context error")
       ELSE /\ Goto(c, IF method[c] = "Connect" THEN "start" ELSE "query")
            /\ UNCHANGED result
  /\ UNCHANGED <<method, ctx, restarted, smVars>>

Started == state = "stopped" /\ state' = "start pending"

\* ops.Start: Connect does not wait for the service to come up.
Start(c) ==
  /\ pc[c] = "start"
  /\ \E r \in Replies :
       /\ StartCall(r)
       /\ Finish(c, r.err)
  /\ restarted' = [d \in Clients |-> restarted[d] \/ Started]
  /\ UNCHANGED <<method, ctx>>

Stop(c) ==
  /\ pc[c] = "stop"
  /\ \E r \in Replies :
       /\ StopCall(r)
       /\ afterStop(c, r.err)
  /\ restarted' = [restarted EXCEPT ![c] = FALSE]
  /\ UNCHANGED <<method, ctx>>

\* Status returns what it reads ...
Query(c) ==
  /\ pc[c] = "query" /\ method[c] = "Status"
  /\ \E r \in Replies : StatusCall(r) /\ Finish(c, r.err)
  /\ UNCHANGED <<method, ctx, restarted>>

\* Mutant of tick: the state read is returned where the error belongs.
tick_ReturnsState(c, r) ==
  IF stopped(r.status)
    THEN Finish(c, r.status)
    ELSE Goto(c, "wait") /\ UNCHANGED result

\* ... and Disconnect polls it: tick reads once, and waits unless the read
\* failed or the service has stopped.
tick(c, r) ==
  IF r.err # "nil" \/ stopped(r.status)
    THEN Finish(c, r.err)
    ELSE Goto(c, "wait") /\ UNCHANGED result

Poll(c) ==
  /\ pc[c] = "query" /\ method[c] = "Disconnect"
  /\ \E r \in Replies : StatusCall(r) /\ tick(c, r)
  /\ UNCHANGED <<method, ctx, restarted>>

\* wait: the ticker fires ...
WaitTick(c) ==
  /\ pc[c] = "wait"
  /\ Goto(c, "query")
  /\ UNCHANGED <<method, ctx, result, restarted, smVars>>

\* Mutant of WaitDone: the wait looks at the ticker only.
WaitDone_Never(c) == pc[c] = "wait" /\ FALSE /\ UNCHANGED vars

\* Mutant of WaitDone: the end of the context is taken for the end of the wait.
WaitDone_Swallows(c) ==
  /\ pc[c] = "wait"
  /\ ctx[c] = "ended"
  /\ Finish(c, "nil")
  /\ UNCHANGED <<method, ctx, restarted, smVars>>

\* ... or the context has ended; a select with both ready takes either.
WaitDone(c) ==
  /\ pc[c] = "wait"
  /\ ctx[c] = "ended"
  /\ Finish(c, "context error")
  /\ UNCHANGED <<method, ctx, restarted, smVars>>

Return(c) ==
  /\ pc[c] = "done"
  /\ Goto(c, "idle")
  /\ method' = [method EXCEPT ![c] = "none"]
  /\ result' = [result EXCEPT ![c] = "none"]
  /\ UNCHANGED <<ctx, restarted, smVars>>

ContextEnds(c) ==
  /\ pc[c] \notin {"idle", "done"}
  /\ ctx[c] = "live"
  /\ ctx' = [ctx EXCEPT ![c] = "ended"]
  /\ UNCHANGED <<pc, method, result, restarted, smVars>>

\* The SCM and the service's own process; no handle stays open between calls.
World == Environment(FALSE) /\ UNCHANGED clientVars

ClientStep(c) ==
  Enter(c) \/ Start(c) \/ Stop(c) \/ Query(c) \/ Poll(c)
  \/ WaitTick(c) \/ WaitDone(c) \/ Return(c)

Next ==
  \/ \E c \in Clients :
       \/ \E m \in Methods : Begin(c, m)
       \/ ClientStep(c)
       \/ ContextEnds(c)
  \/ World

Spec == Init /\ [][Next]_vars

(***************************************************************************)
(* Code that has been entered runs on, and every context ends: the command *)
(* line derives each from WithTimeout.  Go's select takes a ready case at  *)
(* random, so a wait entered again and again with an ended context takes   *)
(* that case at last.                                                      *)
(***************************************************************************)
Fairness ==
  \A c \in Clients :
    /\ WF_vars(ClientStep(c))
    /\ WF_vars(ContextEnds(c))
    /\ SF_vars(WaitDone(c))

FairSpec == Spec /\ Fairness

-----------------------------------------------------------------------------
(***************************************************************************)
(* When Disconnect returns without an error and nobody has started the     *)
(* service since its stop was accepted, the service is neither running nor *)
(* on its way up: what the poll saw cannot have been the moment between a  *)
(* start and the service running.                                          *)
(***************************************************************************)
StaysDown ==
  \A c \in Clients :
    (method[c] = "Disconnect" /\ result[c] = "nil" /\ ~restarted[c]) =>
      state \notin {"start pending", "running"}

(***************************************************************************)
(* Disconnect comes back, whatever the service does and whoever restarts   *)
(* it: a service that never stops is abandoned when the context ends.      *)
(***************************************************************************)
DisconnectReturns ==
  \A c \in Clients : method[c] = "Disconnect" ~> method[c] = "none"

(***************************************************************************)
(* Every call of a Controller keeps to ControlContract, however the        *)
(* clients overlap: what it answers, the service said at one instant of    *)
(* the call; a context error is told of a context that has ended, before   *)
(* Status or Connect has touched the service but after Disconnect has; and *)
(* a Disconnect answers "nil" only if it has had its stop accepted, and    *)
(* has afterwards seen the service not running.                            *)
(***************************************************************************)
Doing ==
  [c \in Clients |->
    CASE pc[c] = "idle" -> "none"
      [] pc[c] = "done" -> "answered"
      [] pc[c] \in {"query", "wait"} /\ method[c] = "Disconnect" -> "stopping"
      [] OTHER -> method[c]]

Contract == INSTANCE ControlContract WITH doing <- Doing, answer <- result

ImplementsControl == Contract!ControlSpec

(***************************************************************************)
(* agentservice/funcs.go:61: Disconnect "stops the service and waits for   *)
(* it to reach the stopped state" (consts.go: StateStopped "is the service *)
(* state after a successful Disconnect").                                  *)
(***************************************************************************)
DisconnectLeavesStopped ==
  \A c \in Clients :
    (method[c] = "Disconnect" /\ result[c] = "nil" /\ ~restarted[c]) =>
      state \in {"stopped", "absent"}

-----------------------------------------------------------------------------
(***************************************************************************)
(* A machine on its best behaviour: the service neither dies nor stops     *)
(* unasked, no call is refused, nothing is uninstalled, and a start or a   *)
(* stop that has begun completes.                                          *)
(***************************************************************************)
Cooperative ==
  /\ ~ServiceDies
  /\ ~DeleteService
  /\ StopBegins => \E c \in Clients : method[c] = "Disconnect"
  /\ \A c \in Clients : result'[c] # "REFUSED" /\ ctx'[c] = "live"

CooperativeSpec ==
  /\ Init
  /\ [][Next /\ Cooperative]_vars
  /\ WF_vars(StartDone /\ World)
  /\ WF_vars(StopDone /\ World)
  /\ \A c \in Clients : WF_vars(ClientStep(c) /\ Cooperative)

(***************************************************************************)
(* README.md:22: connect "makes sure the service is running".  On such a   *)
(* machine a Connect that returned nil is followed by the service running, *)
(* unless someone disconnects it again.                                    *)
(***************************************************************************)
ConnectBringsUp ==
  \A c \in Clients :
    (method[c] = "Connect" /\ result[c] = "nil") ~>
      \/ state = "running"
      \/ \E d \in Clients : method[d] = "Disconnect"
=============================================================================

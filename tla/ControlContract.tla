--------------------------- MODULE ControlContract ---------------------------
(***************************************************************************)
(* What a Controller promises the callers of its methods.  Status and      *)
(* Connect either refuse a context that has ended, or are one call of      *)
(* ServiceOps.  Disconnect is past recall once its stop has been accepted: *)
(* then it sees the service down, or gives up and leaves it to stop.       *)
(***************************************************************************)
EXTENDS ServiceOps

CONSTANT Clients    \* callers of the Controller

VARIABLES
  doing,    \* the method each client is in, "stopping" or "answered"
  ctx,      \* its context: "live" or "ended"
  answer    \* the error it gets, "none" until there is an answer

controlVars == <<doing, ctx, answer, smVars>>

ControlInit ==
  /\ SMInit
  /\ doing = [c \in Clients |-> "none"]
  /\ ctx = [c \in Clients |-> "live"]
  /\ answer = [c \in Clients |-> "none"]

-----------------------------------------------------------------------------
Become(c, what) == doing' = [doing EXCEPT ![c] = what]

Reply(c, err) ==
  /\ Become(c, "answered")
  /\ answer' = [answer EXCEPT ![c] = err]

Invoke(c, m) ==
  /\ doing[c] = "none"
  /\ Become(c, m)
  /\ \E x \in {"live", "ended"} : ctx' = [ctx EXCEPT ![c] = x]
  /\ UNCHANGED <<answer, smVars>>

\* Only these two methods can turn back before they touch the service.
Refuse(c) ==
  /\ doing[c] \in {"Status", "Connect"}
  /\ ctx[c] = "ended"
  /\ Reply(c, "context error")
  /\ UNCHANGED <<ctx, smVars>>

\* Status or Connect happens in one instant, and answers what that said.
Happen(c) ==
  /\ \E r \in Replies :
       /\ \/ doing[c] = "Status" /\ StatusCall(r)
          \/ doing[c] = "Connect" /\ StartCall(r)
       /\ Reply(c, r.err)
  /\ UNCHANGED ctx

\* A Disconnect whose stop is not accepted has no other answer to give.
AskToStop(c) ==
  /\ doing[c] = "Disconnect"
  /\ \E r \in Replies :
       /\ StopCall(r)
       /\ IF r.err = "nil"
            THEN Become(c, "stopping") /\ UNCHANGED answer
            ELSE Reply(c, r.err)
  /\ UNCHANGED ctx

SeeItDown(c) ==
  /\ doing[c] = "stopping"
  /\ state # "running"
  /\ Reply(c, "nil")
  /\ UNCHANGED <<ctx, smVars>>

\* The context has ended, or the service can no longer be asked.
GiveUp(c) ==
  /\ doing[c] = "stopping"
  /\ \/ ctx[c] = "ended" /\ Reply(c, "context error")
     \/ Reply(c, "REFUSED")
  /\ UNCHANGED <<ctx, smVars>>

Leave(c) ==
  /\ doing[c] = "answered"
  /\ Become(c, "none")
  /\ answer' = [answer EXCEPT ![c] = "none"]
  /\ UNCHANGED <<ctx, smVars>>

Expire(c) ==
  /\ doing[c] \notin {"none", "answered"}
  /\ ctx' = [ctx EXCEPT ![c] = "ended"]
  /\ UNCHANGED <<doing, answer, smVars>>

\* The service and its installer.
Elsewhere == Environment(FALSE) /\ UNCHANGED <<doing, ctx, answer>>

ControlNext ==
  \/ \E c \in Clients :
       \/ \E m \in {"Status", "Connect", "Disconnect"} : Invoke(c, m)
       \/ Refuse(c) \/ Happen(c) \/ AskToStop(c)
       \/ SeeItDown(c) \/ GiveUp(c) \/ Leave(c) \/ Expire(c)
  \/ Elsewhere

ControlSpec == ControlInit /\ [][ControlNext]_controlVars
=============================================================================

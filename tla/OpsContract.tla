----------------------------- MODULE OpsContract -----------------------------
(***************************************************************************)
(* The calls of ServiceOps, made by concurrent callers: each takes effect  *)
(* and is answered in one instant between its invocation and its return.   *)
(* WinScm, which makes the Windows system calls one by one, implements it; *)
(* AgentService and Meshctl rely on it.                                    *)
(***************************************************************************)
EXTENDS ServiceOps

CONSTANT Callers    \* goroutines or processes that call an Ops

VARIABLES
  op,       \* the operation each caller has invoked, or "none"
  reply     \* its answer, NoReply until the operation has taken effect

opsVars == <<op, reply, smVars>>

NoReply == [err |-> "none", status |-> "absent"]

OpsTypeOK ==
  /\ SMTypeOK
  /\ op \in [Callers -> Operations \cup {"none"}]
  /\ reply \in [Callers -> Replies \cup {NoReply}]

-----------------------------------------------------------------------------
OpsInit ==
  /\ SMInit
  /\ op = [c \in Callers |-> "none"]
  /\ reply = [c \in Callers |-> NoReply]

Invoke(c, o) ==
  /\ op[c] = "none"
  /\ op' = [op EXCEPT ![c] = o]
  /\ UNCHANGED <<reply, smVars>>

\* The instant at which the operation happens.
Perform(c) ==
  /\ op[c] # "none"
  /\ reply[c] = NoReply
  /\ \E r \in Replies :
       /\ Call(op[c], r)
       /\ reply' = [reply EXCEPT ![c] = r]
  /\ UNCHANGED op

\* The caller takes the answer, or its process ends at any point of the call.
Leave(c) ==
  /\ op[c] # "none"
  /\ op' = [op EXCEPT ![c] = "none"]
  /\ reply' = [reply EXCEPT ![c] = NoReply]
  /\ UNCHANGED smVars

\* The service and its installer; what holds the service in use is not told.
Elsewhere ==
  /\ \E handleOpen \in BOOLEAN : Environment(handleOpen)
  /\ UNCHANGED <<op, reply>>

OpsNext ==
  \/ \E c \in Callers :
       \/ \E o \in Operations : Invoke(c, o)
       \/ Perform(c)
       \/ Leave(c)
  \/ Elsewhere

OpsSpec == OpsInit /\ [][OpsNext]_opsVars
=============================================================================

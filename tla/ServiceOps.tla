----------------------------- MODULE ServiceOps -----------------------------
(***************************************************************************)
(* What agentservice.Ops promises its callers: a missing service is        *)
(* ErrNotInstalled, starting a started service and stopping a stopped one  *)
(* succeed, and a call that fails changed nothing.  Each call is a         *)
(* relation between the service before, the service after and the answer.  *)
(***************************************************************************)
EXTENDS ServiceManager

Operations == {"Start", "Stop", "Status"}

\* Errors a caller can meet; %w keeps the SCM's code in the chain.
Failures ==
  {"REFUSED", "SERVICE_MARKED_FOR_DELETE", "SERVICE_CANNOT_ACCEPT_CTRL"}

\* A lifecycle.Status is named by the state in it: Installed is
\* status # "absent", Running is status = "running".
Replies ==
  [err : {"nil", "ErrNotInstalled"} \cup Failures, status : States]

\* An answer that carries the zero Status.
Answer(err) == [err |-> err, status |-> "absent"]

-----------------------------------------------------------------------------
(***************************************************************************)
(* The calls, as relations between the service and the answer r.           *)
(***************************************************************************)
StartCall(r) ==
  /\ \/ /\ state = "stopped"
        /\ ~marked
        /\ r = Answer("nil")
        /\ state' = "start pending"
     \/ /\ \/ state \notin {"absent", "stopped"} /\ r = Answer("nil")
           \/ state = "absent" /\ r = Answer("ErrNotInstalled")
           \/ /\ state = "stopped"
              /\ marked
              /\ r = Answer("SERVICE_MARKED_FOR_DELETE")
           \/ r = Answer("REFUSED")
        /\ UNCHANGED state
  /\ UNCHANGED marked

StopCall(r) ==
  /\ \/ /\ state = "running"
        /\ r = Answer("nil")
        /\ state' \in {"running", "stop pending"}
     \/ /\ \/ state = "stopped" /\ r = Answer("nil")
           \/ state = "absent" /\ r = Answer("ErrNotInstalled")
           \/ /\ state \in {"start pending", "stop pending"}
              /\ r = Answer("SERVICE_CANNOT_ACCEPT_CTRL")
           \/ r = Answer("REFUSED")
        /\ UNCHANGED state
  /\ UNCHANGED marked

StatusCall(r) ==
  /\ \/ r = [err |-> "nil", status |-> state]
     \/ r = Answer("REFUSED")
  /\ UNCHANGED smVars

Call(o, r) ==
  \/ o = "Start" /\ StartCall(r)
  \/ o = "Stop" /\ StopCall(r)
  \/ o = "Status" /\ StatusCall(r)
=============================================================================

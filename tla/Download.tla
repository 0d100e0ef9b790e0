------------------------------ MODULE Download ------------------------------
(***************************************************************************)
(* What Client.Download promises, whatever the network and the file system *)
(* do: the caller's agent appears at the target path at once and complete, *)
(* or the call fails and the target is what it was.  MeshServer implements *)
(* it; Meshctl relies on it.                                               *)
(***************************************************************************)
CONSTANT Downloaders   \* calls that share one destination directory

VARIABLES
  phase,    \* "idle", "busy", "placed" or "failed", for each call
  agent     \* whose agent the target path holds, or "none"

downloadVars == <<phase, agent>>

DownloadInit ==
  /\ phase = [d \in Downloaders |-> "idle"]
  /\ agent = "none"

Enter(d) ==
  /\ phase[d] = "idle"
  /\ phase' = [phase EXCEPT ![d] = "busy"]
  /\ UNCHANGED agent

Place(d) ==
  /\ phase[d] = "busy"
  /\ phase' = [phase EXCEPT ![d] = "placed"]
  /\ agent' = d

Refuse(d) ==
  /\ phase[d] = "busy"
  /\ phase' = [phase EXCEPT ![d] = "failed"]
  /\ UNCHANGED agent

\* The caller has the outcome, or its process is killed.
Forget(d) ==
  /\ phase[d] # "idle"
  /\ phase' = [phase EXCEPT ![d] = "idle"]
  /\ UNCHANGED agent

DownloadNext ==
  \E d \in Downloaders : Enter(d) \/ Place(d) \/ Refuse(d) \/ Forget(d)

DownloadSpec == DownloadInit /\ [][DownloadNext]_downloadVars
=============================================================================

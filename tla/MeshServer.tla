----------------------------- MODULE MeshServer -----------------------------
(***************************************************************************)
(* internal/infrastructure/meshserver/funcs.go: Client.Download, with its  *)
(* staging (stage), its HTTP exchange (get, readBody, checkStatus,         *)
(* verifiedCopy, drainClose) and its file system steps (promote,           *)
(* discardTemp).  Several downloads share one destination directory, and   *)
(* with it one target path: the name depends on the architecture alone.    *)
(* Any step may fail, any process may be killed between two of them.       *)
(***************************************************************************)
CONSTANT Downloaders   \* concurrent downloads, each of its own device group

VARIABLES
  pc,       \* the next step of each download
  ctx,      \* its context: "live" or "ended"
  reply,    \* the server's answer to it: its kind, before a byte of the body
  stream,   \* what the server has sent of its body; "broken": the connection
  body,     \* whether resp.Body is "none", "open" or "closed"
  temp,     \* its partial file, or NoFile
  open,     \* downloads whose temp is an open os.File
  errs,     \* the errors joined into its result
  target,   \* the file at the target path, or NoFile
  litter    \* whether a partial file is left that no download owns any more

net == <<ctx, reply, stream, body>>
disk == <<temp, open, target, litter>>
vars == <<pc, errs, net, disk>>

\* A refusal, and a good status followed by an agent, something else, or
\* less than the two bytes of the MZ header.
Kinds == {"unauthorized", "other status", "agent", "not PE", "short"}

NoFile == [of |-> "none", part |-> "none", exec |-> FALSE]

\* How much of the agent a file holds; "junk" is something else, complete.
Parts == {"empty", "partial", "whole", "junk"}

\* An agent on disk: whose it is, how much of it is there, whether 0700.
Files ==
  [of : Downloaders, part : Parts, exec : BOOLEAN]

Streams == {"none", "silent", "flowing", "ended", "broken"}

Errors ==
  {"stage", "request", "ErrDownloadUnauthorized", "HTTPError",
   "InvalidBinaryError", "read", "write", "drain", "close body",
   "close temp", "chmod", "rename", "remove"}

Steps ==
  {"idle", "mkdir", "createTemp", "send", "status", "peek", "copy", "drain",
   "close", "chmod", "rename", "discardClose", "discardRemove", "done"}

TypeOK ==
  /\ pc \in [Downloaders -> Steps]
  /\ ctx \in [Downloaders -> {"live", "ended"}]
  /\ reply \in [Downloaders -> Kinds \cup {"none"}]
  /\ stream \in [Downloaders -> Streams]
  /\ body \in [Downloaders -> {"none", "open", "closed"}]
  /\ temp \in [Downloaders -> Files \cup {NoFile}]
  /\ open \subseteq Downloaders
  /\ errs \in [Downloaders -> SUBSET Errors]
  /\ target \in Files \cup {NoFile}
  /\ litter \in BOOLEAN

Init ==
  /\ pc = [d \in Downloaders |-> "idle"]
  /\ ctx = [d \in Downloaders |-> "live"]
  /\ reply = [d \in Downloaders |-> "none"]
  /\ stream = [d \in Downloaders |-> "none"]
  /\ body = [d \in Downloaders |-> "none"]
  /\ temp = [d \in Downloaders |-> NoFile]
  /\ open = {}
  /\ errs = [d \in Downloaders |-> {}]
  /\ target = NoFile
  /\ litter = FALSE

-----------------------------------------------------------------------------
Goto(d, step) == pc' = [pc EXCEPT ![d] = step]

Fail(d, err, step) ==
  /\ errs' = [errs EXCEPT ![d] = @ \cup {err}]
  /\ Goto(d, step)

SetTemp(d, file) == temp' = [temp EXCEPT ![d] = file]

Download(d) ==
  /\ pc[d] = "idle"
  /\ Goto(d, "mkdir")
  /\ \E x \in {"live", "ended"} : ctx' = [ctx EXCEPT ![d] = x]
  /\ UNCHANGED <<errs, reply, stream, body, disk>>

\* stage: os.MkdirAll, which a failed download leaves behind ...
MkdirAll(d) ==
  /\ pc[d] = "mkdir"
  /\ \/ Goto(d, "createTemp") /\ UNCHANGED errs
     \/ Fail(d, "stage", "done")
  /\ UNCHANGED <<net, disk>>

\* ... and os.CreateTemp, which never returns a name in use.
CreateTemp(d) ==
  /\ pc[d] = "createTemp"
  /\ \/ /\ SetTemp(d, [of |-> d, part |-> "empty", exec |-> FALSE])
        /\ open' = open \cup {d}
        /\ Goto(d, "send")
        /\ UNCHANGED errs
     \/ /\ Fail(d, "stage", "done")
        /\ UNCHANGED <<temp, open>>
  /\ UNCHANGED <<net, target, litter>>

\* transport.send: a response arrives, if the server gives one ...
Responds(d) ==
  /\ pc[d] = "send"
  /\ ctx[d] = "live"
  /\ \E k \in Kinds : reply' = [reply EXCEPT ![d] = k]
  /\ stream' = [stream EXCEPT ![d] = "silent"]
  /\ body' = [body EXCEPT ![d] = "open"]
  /\ Goto(d, "status")
  /\ UNCHANGED <<errs, ctx, disk>>

\* ... or the connection fails: without a response there is no body to close.
ConnectionFails(d) ==
  /\ pc[d] = "send"
  /\ Fail(d, "request", "discardClose")
  /\ UNCHANGED <<net, disk>>

\* The context ends a request that is not answered.
SendEnds(d) == ctx[d] = "ended" /\ ConnectionFails(d)

\* Mutant: a refused status returns before the deferred drainClose is set up.
refused_Early(d, err) == Fail(d, err, "discardClose")

\* Mutant: the server's status is returned where a typed error belongs.
refused_Raw(d, err) == Fail(d, reply[d], "drain")

refused(d, err) == Fail(d, err, "drain")

checkStatus(d) ==
  /\ pc[d] = "status"
  /\ \/ reply[d] = "unauthorized" /\ refused(d, "ErrDownloadUnauthorized")
     \/ reply[d] = "other status" /\ refused(d, "HTTPError")
     \/ /\ reply[d] \notin {"unauthorized", "other status"}
        /\ Goto(d, "peek")
        /\ UNCHANGED errs
  /\ UNCHANGED <<net, disk>>

\* Mutant: the request was built without the context.
ReadFails_NoContext(d) == stream[d] = "broken"

\* A read of the body fails when the connection broke or the context ended.
ReadFails(d) == stream[d] = "broken" \/ ctx[d] = "ended"

\* Mutant: any body is taken for an agent.
isAgent_Any(kind) == TRUE

\* The MZ header: a server that answers 200 with an error page is found out.
isAgent(kind) == kind = "agent"

\* Peek waits for two bytes, for the end of a shorter body or for a failure.
verifyHeader(d) ==
  /\ pc[d] = "peek"
  /\ \/ /\ stream[d] \in {"flowing", "ended"} /\ reply[d] # "short"
        /\ IF isAgent(reply[d])
             THEN Goto(d, "copy") /\ UNCHANGED errs
             ELSE Fail(d, "InvalidBinaryError", "drain")
     \/ stream[d] = "ended" /\ reply[d] = "short"
          /\ Fail(d, "InvalidBinaryError", "drain")
     \/ ReadFails(d) /\ Fail(d, "read", "drain")
  /\ UNCHANGED <<net, disk>>

-----------------------------------------------------------------------------
\* io.Copy: a chunk now and then, until the body ends or a read or write fails.
CopyChunk(d) ==
  /\ pc[d] = "copy"
  /\ temp[d].part = "empty"
  /\ SetTemp(d, [temp[d] EXCEPT !.part = "partial"])
  /\ UNCHANGED <<pc, errs, net, open, target, litter>>

CopyEnds(d) ==
  /\ pc[d] = "copy"
  /\ stream[d] = "ended"
  /\ SetTemp(d, [temp[d] EXCEPT
                   !.part = IF reply[d] = "agent" THEN "whole" ELSE "junk"])
  /\ Goto(d, "drain")
  /\ UNCHANGED <<errs, net, open, target, litter>>

CopyFails(d) ==
  /\ pc[d] = "copy"
  /\ ReadFails(d)
  /\ Fail(d, "read", "drain")
  /\ UNCHANGED <<net, disk>>

\* The disk is full.
WriteFails(d) ==
  /\ pc[d] = "copy"
  /\ Fail(d, "write", "drain")
  /\ UNCHANGED <<net, disk>>

\* Mutant: the error of the drain takes the place of the one before it.
joined_Last(before, new) == IF new = {} THEN before ELSE new

joined(before, new) == before \cup new

(***************************************************************************)
(* The deferred drainClose reads what is left of the body, however long,   *)
(* and closes it.  Its error joins the one the exchange had; without any,  *)
(* the file is promoted.                                                   *)
(***************************************************************************)
drainClose(d) ==
  /\ pc[d] = "drain"
  /\ \E new \in {{}, {"drain"}, {"close body"}} :
       /\ IF new = {"drain"} THEN ReadFails(d) ELSE stream[d] = "ended"
       /\ errs' = [errs EXCEPT ![d] = joined(errs[d], new)]
  /\ body' = [body EXCEPT ![d] = "closed"]
  /\ stream' = [stream EXCEPT ![d] = "none"]
  /\ Goto(d, IF errs'[d] = {} THEN "close" ELSE "discardClose")
  /\ UNCHANGED <<ctx, reply, disk>>

-----------------------------------------------------------------------------
\* promote: os.File.Close gives the file up even when it reports an error ...
promoteClose(d) ==
  /\ pc[d] = "close"
  /\ open' = open \ {d}
  /\ \/ Goto(d, "chmod") /\ UNCHANGED errs
     \/ Fail(d, "close temp", "discardClose")
  /\ UNCHANGED <<net, temp, target, litter>>

\* ... then the execute bit ...
promoteChmod(d) ==
  /\ pc[d] = "chmod"
  /\ \/ /\ temp[d] # NoFile
        /\ SetTemp(d, [temp[d] EXCEPT !.exec = TRUE])
        /\ Goto(d, "rename")
        /\ UNCHANGED errs
     \/ Fail(d, "chmod", "discardClose") /\ UNCHANGED temp
  /\ UNCHANGED <<net, open, target, litter>>

\* Mutant of promoteRename: the old agent is removed to make room.
promoteRename_RemovesFirst(d) ==
  /\ pc[d] = "rename"
  /\ \/ /\ temp[d] # NoFile
        /\ target' = temp[d]
        /\ SetTemp(d, NoFile)
        /\ Goto(d, "done")
        /\ UNCHANGED errs
     \/ /\ Fail(d, "rename", "discardClose")
        /\ target' = NoFile
        /\ UNCHANGED temp
  /\ UNCHANGED <<net, open, litter>>

\* ... then the rename, which replaces whatever the target path held.
promoteRename(d) ==
  /\ pc[d] = "rename"
  /\ \/ /\ temp[d] # NoFile
        /\ target' = temp[d]
        /\ SetTemp(d, NoFile)
        /\ Goto(d, "done")
        /\ UNCHANGED errs
     \/ /\ Fail(d, "rename", "discardClose")
        /\ UNCHANGED <<temp, target>>
  /\ UNCHANGED <<net, open, litter>>

\* discardTemp closes the file unless promote has (os.ErrClosed is ignored) ...
discardClose(d) ==
  /\ pc[d] = "discardClose"
  /\ open' = open \ {d}
  /\ Goto(d, "discardRemove")
  /\ \/ UNCHANGED errs
     \/ d \in open /\ errs' = [errs EXCEPT ![d] = @ \cup {"close temp"}]
  /\ UNCHANGED <<net, temp, target, litter>>

\* Mutant of discardRemove: any error of the removal is taken for a file that
\* is gone.
discardRemove_Silent(d) ==
  /\ pc[d] = "discardRemove"
  /\ SetTemp(d, NoFile) \/ UNCHANGED temp
  /\ Goto(d, "done")
  /\ UNCHANGED <<errs, net, open, target, litter>>

\* ... and removes it; a file that is gone already (os.ErrNotExist) is fine.
discardRemove(d) ==
  /\ pc[d] = "discardRemove"
  /\ \/ /\ SetTemp(d, NoFile)
        /\ Goto(d, "done")
        /\ UNCHANGED errs
     \/ /\ temp[d] # NoFile
        /\ Fail(d, "remove", "done")
        /\ UNCHANGED temp
  /\ UNCHANGED <<net, open, target, litter>>

-----------------------------------------------------------------------------
\* A file its download no longer knows of: nothing removes it later.
Disown(d) ==
  /\ litter' = (litter \/ temp[d] # NoFile)
  /\ temp' = [temp EXCEPT ![d] = NoFile]

Reset(d) ==
  /\ Goto(d, "idle")
  /\ errs' = [errs EXCEPT ![d] = {}]
  /\ reply' = [reply EXCEPT ![d] = "none"]
  /\ stream' = [stream EXCEPT ![d] = "none"]
  /\ body' = [body EXCEPT ![d] = "none"]
  /\ ctx' = [ctx EXCEPT ![d] = "live"]

Return(d) ==
  /\ pc[d] = "done"
  /\ Disown(d)
  /\ Reset(d)
  /\ UNCHANGED <<open, target>>

\* The process is killed: what it had open is closed, its files stay.
Killed(d) ==
  /\ pc[d] \notin {"idle", "done"}
  /\ Disown(d)
  /\ open' = open \ {d}
  /\ Reset(d)
  /\ UNCHANGED target

\* The server sends, finishes or vanishes; it may also do none of these.
ServerSends(d) ==
  /\ \/ /\ stream[d] = "silent"
        /\ stream' = [stream EXCEPT ![d] = "flowing"]
     \/ /\ stream[d] = "flowing"
        /\ stream' = [stream EXCEPT ![d] = "ended"]
     \/ /\ stream[d] \in {"silent", "flowing"}
        /\ stream' = [stream EXCEPT ![d] = "broken"]
  /\ UNCHANGED <<pc, errs, ctx, reply, body, disk>>

\* Another program, such as a virus scanner, takes a file that is not open.
FileVanishes(d) ==
  /\ d \notin open
  /\ temp[d] # NoFile
  /\ SetTemp(d, NoFile)
  /\ UNCHANGED <<pc, errs, net, open, target, litter>>

ContextEnds(d) ==
  /\ pc[d] \notin {"idle", "done"}
  /\ ctx[d] = "live"
  /\ ctx' = [ctx EXCEPT ![d] = "ended"]
  /\ UNCHANGED <<pc, errs, reply, stream, body, disk>>

\* What may happen, but need not.
Network(d) ==
  Responds(d) \/ ConnectionFails(d) \/ ServerSends(d) \/ WriteFails(d)

Exchange(d) ==
  \/ SendEnds(d) \/ checkStatus(d) \/ verifyHeader(d)
  \/ CopyChunk(d) \/ CopyEnds(d) \/ CopyFails(d) \/ drainClose(d)

Filing(d) ==
  \/ MkdirAll(d) \/ CreateTemp(d)
  \/ promoteClose(d) \/ promoteChmod(d) \/ promoteRename(d)
  \/ discardClose(d) \/ discardRemove(d)

Next ==
  \E d \in Downloaders :
    \/ Download(d) \/ Exchange(d) \/ Filing(d) \/ Return(d)
    \/ Network(d) \/ Killed(d) \/ FileVanishes(d) \/ ContextEnds(d)

Spec == Init /\ [][Next]_vars

(***************************************************************************)
(* The code runs on and what bounds the request ends it: the context, to   *)
(* which the command line gives a timeout, or the timeout of the           *)
(* http.Client resolveDoer makes (ctx stands for both).  Nothing is        *)
(* assumed of the server, which may leave a request unanswered or a body   *)
(* unfinished, nor of the disk.                                            *)
(***************************************************************************)
Fairness ==
  \A d \in Downloaders :
    /\ WF_vars(Exchange(d) \/ Filing(d) \/ Return(d))
    /\ WF_vars(ContextEnds(d))

FairSpec == Spec /\ Fairness

-----------------------------------------------------------------------------
(***************************************************************************)
(* At no moment, not even between the steps of two downloads into the same *)
(* directory or after a kill, does the target path hold anything but a     *)
(* complete agent that may be executed.                                    *)
(***************************************************************************)
TargetWhole ==
  target # NoFile => target.part = "whole" /\ target.exec

(***************************************************************************)
(* meshserver/funcs.go:74: "a failed download leaves nothing behind".      *)
(* When Download returns its partial file is gone, unless it reports that  *)
(* it could not remove it; only a kill leaves one without a word.          *)
(***************************************************************************)
NothingLeftBehind ==
  \A d \in Downloaders :
    (pc[d] = "done" /\ temp[d] # NoFile) => "remove" \in errs[d]

(***************************************************************************)
(* meshserver/funcs.go:180: "every exit path both consumes and closes" the *)
(* body.  Nothing is held once Download has returned, and the partial file *)
(* is not open when it is renamed, which Windows would refuse.             *)
(***************************************************************************)
ResourcesReleased ==
  \A d \in Downloaders :
    /\ body[d] = "open" =>
         pc[d] \in {"status", "peek", "copy", "drain"}
    /\ d \in open => pc[d] \notin {"idle", "done", "chmod", "rename"}

(***************************************************************************)
(* A refusal for lack of authorization reaches the caller as               *)
(* ErrDownloadUnauthorized, which the command line turns into exit status  *)
(* 3, whatever else goes wrong while the download is unwound.              *)
(***************************************************************************)
RefusalReported ==
  \A d \in Downloaders :
    (pc[d] = "done" /\ reply[d] = "unauthorized") =>
      "ErrDownloadUnauthorized" \in errs[d]

(***************************************************************************)
(* The whole exchange amounts to the two outcomes of Download: a call that *)
(* reports no error has placed its own agent, and one that reports any has *)
(* left the target alone.                                                  *)
(***************************************************************************)
Outcome(d) ==
  IF pc[d] = "done"
    THEN IF errs[d] = {} THEN "placed" ELSE "failed"
    ELSE IF pc[d] = "idle" THEN "idle" ELSE "busy"

Abstract ==
  INSTANCE Download WITH
    phase <- [d \in Downloaders |-> Outcome(d)],
    agent <- target.of

ImplementsDownload == Abstract!DownloadSpec

(***************************************************************************)
(* Every download comes back (or is killed), even from a server that stops *)
(* sending in the middle of a body that is only being drained.             *)
(***************************************************************************)
DownloadReturns ==
  \A d \in Downloaders : pc[d] # "idle" ~> pc[d] = "idle"
=============================================================================

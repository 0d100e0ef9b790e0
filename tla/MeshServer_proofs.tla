-------------------------- MODULE MeshServer_proofs --------------------------
(***************************************************************************)
(* Proofs about MeshServer, for any set of concurrent downloads.           *)
(***************************************************************************)
EXTENDS MeshServer, TLAPS

(***************************************************************************)
(* The inductive invariant: what each download has on disk, has been told  *)
(* and has gone wrong, at each of its steps.                               *)
(***************************************************************************)
Unanswered == {"idle", "mkdir", "createTemp", "send"}

\* While the file is open nobody can take it away, and it is this download's.
FileFitsStep(d) ==
  /\ temp[d] # NoFile => temp[d].of = d
  /\ pc[d] \in {"send", "status", "peek", "copy", "drain", "close"} =>
       d \in open /\ temp[d] # NoFile
  /\ pc[d] \in {"idle", "mkdir", "createTemp"} => temp[d] = NoFile

\* A file on its way to the target has been copied to the end, and is an agent.
PromotedIsWhole(d) ==
  /\ (\/ pc[d] = "drain" /\ errs[d] = {}
      \/ pc[d] \in {"close", "chmod", "rename"} /\ temp[d] # NoFile)
       => temp[d].part = "whole"
  /\ (pc[d] = "rename" /\ temp[d] # NoFile) => temp[d].exec
  /\ pc[d] = "copy" => reply[d] = "agent"

\* A download goes on while it has no error, and is unwound because of one.
ErrorsFitStep(d) ==
  /\ pc[d] \in Unanswered \cup {"status", "peek", "copy", "close", "chmod", "rename"}
       => errs[d] = {}
  /\ pc[d] \in {"discardClose", "discardRemove"} => errs[d] # {}
  /\ (pc[d] = "done" /\ temp[d] # NoFile) => "remove" \in errs[d]

\* From the moment the status is known, a refusal is among the errors.
RefusalKept(d) ==
  /\ pc[d] \in Unanswered => reply[d] = "none"
  /\ (reply[d] = "unauthorized" /\ pc[d] # "status") =>
       "ErrDownloadUnauthorized" \in errs[d]

\* The body is open during the exchange only, the file until it is complete.
HeldForUse(d) ==
  /\ body[d] = "open" => pc[d] \in {"status", "peek", "copy", "drain"}
  /\ d \in open =>
       pc[d] \in {"send", "status", "peek", "copy", "drain", "close", "discardClose"}

Consistent(d) ==
  /\ FileFitsStep(d)
  /\ PromotedIsWhole(d)
  /\ ErrorsFitStep(d)
  /\ RefusalKept(d)
  /\ HeldForUse(d)

IInv ==
  /\ TypeOK
  /\ \A d \in Downloaders : Consistent(d)
  /\ TargetWhole

-----------------------------------------------------------------------------
\* The steps of one download, from its call to its return.
Step(d) ==
  \/ Download(d) \/ MkdirAll(d) \/ CreateTemp(d) \/ Responds(d)
  \/ ConnectionFails(d) \/ checkStatus(d) \/ verifyHeader(d) \/ CopyChunk(d)
  \/ CopyEnds(d) \/ CopyFails(d) \/ WriteFails(d) \/ drainClose(d)
  \/ promoteClose(d) \/ promoteChmod(d) \/ promoteRename(d) \/ discardClose(d)
  \/ discardRemove(d) \/ Return(d) \/ Killed(d) \/ ServerSends(d)
  \/ FileVanishes(d) \/ ContextEnds(d)

LEMMA NextIsStep == Next => \E d \in Downloaders : Step(d)
BY DEF Next, Step, Exchange, Filing, Network, SendEnds

LEMMA NoFileIsNoFile == NoFile \notin Files
BY DEF NoFile, Files, Parts

LEMMA InitIInv == Init => IInv
<1> SUFFICES ASSUME Init PROVE IInv
  OBVIOUS
<1>1. TypeOK
  BY DEF Init, TypeOK, Steps, Streams, Errors
<1>2. ASSUME NEW d \in Downloaders PROVE Consistent(d)
  BY DEF Init, Consistent, FileFitsStep, PromotedIsWhole, ErrorsFitStep,
         RefusalKept, HeldForUse
<1>3. TargetWhole
  BY DEF Init, TargetWhole
<1>4. QED
  BY <1>1, <1>2, <1>3 DEF IInv

\* The files the steps write are files.
LEMMA FilesWritten ==
  ASSUME NEW f \in Files, NEW p \in Parts
  PROVE  /\ [f EXCEPT !.part = p] \in Files
         /\ [f EXCEPT !.exec = TRUE] \in Files
BY DEF Files

\* Failing keeps pc and errs within their types; so does going on.
LEMMA FailTypes ==
  ASSUME TypeOK, NEW d \in Downloaders, NEW err \in Errors, NEW step \in Steps,
         Fail(d, err, step)
  PROVE  pc' \in [Downloaders -> Steps] /\ errs' \in [Downloaders -> SUBSET Errors]
<1>1. errs[d] \cup {err} \in SUBSET Errors
  BY DEF TypeOK
<1>2. QED
  BY <1>1 DEF TypeOK, Fail, Goto

LEMMA StepTypes == IInv /\ [Next]_vars => TypeOK'
<1> SUFFICES ASSUME TypeOK, \A d \in Downloaders : Consistent(d), [Next]_vars
             PROVE  TypeOK'
  BY DEF IInv
<1>0. CASE UNCHANGED vars
  BY <1>0 DEF vars, net, disk, TypeOK
<1> SUFFICES ASSUME NEW d \in Downloaders, Step(d) PROVE TypeOK'
  BY <1>0, NextIsStep
<1> DEFINE Control == /\ pc' \in [Downloaders -> Steps]
                      /\ errs' \in [Downloaders -> SUBSET Errors]
<1>a. ASSUME NEW err, NEW step, Fail(d, err, step), err \in Errors, step \in Steps
      PROVE  Control
  BY <1>a, FailTypes
<1>b. ASSUME NEW step, Goto(d, step), step \in Steps, UNCHANGED errs
      PROVE  Control
  BY <1>b DEF Goto, TypeOK
<1>c. /\ {"stage", "request", "ErrDownloadUnauthorized", "HTTPError",
          "InvalidBinaryError", "read", "write", "drain", "close body",
          "close temp", "chmod", "rename", "remove"} \subseteq Errors
      /\ {"idle", "mkdir", "createTemp", "send", "status", "peek", "copy",
          "drain", "close", "chmod", "rename", "discardClose",
          "discardRemove", "done"} \subseteq Steps
  BY DEF Errors, Steps
<1>d. UNCHANGED net => /\ ctx' \in [Downloaders -> {"live", "ended"}]
                       /\ reply' \in [Downloaders -> Kinds \cup {"none"}]
                       /\ stream' \in [Downloaders -> Streams]
                       /\ body' \in [Downloaders -> {"none", "open", "closed"}]
  BY DEF net, TypeOK
<1>e. UNCHANGED disk => /\ temp' \in [Downloaders -> Files \cup {NoFile}]
                        /\ open' \subseteq Downloaders
                        /\ target' \in Files \cup {NoFile}
                        /\ litter' \in BOOLEAN
  BY DEF disk, TypeOK
<1>1. CASE Download(d)
  BY <1>1, <1>b, <1>c, <1>e DEF Download, TypeOK
<1>2. CASE MkdirAll(d)
  <2>1. Control
    BY <1>2, <1>a, <1>b, <1>c DEF MkdirAll
  <2>2. QED
    BY <1>2, <1>d, <1>e, <2>1 DEF MkdirAll, TypeOK
<1>3. CASE CreateTemp(d)
  <2>1. [of |-> d, part |-> "empty", exec |-> FALSE] \in Files
    BY DEF Files, Parts
  <2>2. Control
    BY <1>3, <1>a, <1>b, <1>c DEF CreateTemp
  <2>3. temp' \in [Downloaders -> Files \cup {NoFile}]
    BY <1>3, <2>1 DEF CreateTemp, SetTemp, TypeOK
  <2>4. open' \subseteq Downloaders
    BY <1>3 DEF CreateTemp, TypeOK
  <2>5. QED
    BY <1>3, <1>d, <2>2, <2>3, <2>4 DEF CreateTemp, TypeOK
<1>4. CASE Responds(d)
  <2>1. Control
    BY <1>4, <1>b, <1>c DEF Responds
  <2>2. QED
    BY <1>4, <1>e, <2>1 DEF Responds, TypeOK, Streams
<1>5. CASE ConnectionFails(d)
  BY <1>5, <1>a, <1>c, <1>d, <1>e DEF ConnectionFails, TypeOK
<1>6. CASE checkStatus(d)
  <2>1. Control
    BY <1>6, <1>a, <1>b, <1>c DEF checkStatus, refused
  <2>2. QED
    BY <1>6, <1>d, <1>e, <2>1 DEF checkStatus, TypeOK
<1>7. CASE verifyHeader(d)
  <2>1. Control
    BY <1>7, <1>a, <1>b, <1>c DEF verifyHeader
  <2>2. QED
    BY <1>7, <1>d, <1>e, <2>1 DEF verifyHeader, TypeOK
<1>8. CASE CopyChunk(d)
  <2>1. temp[d] \in Files
    BY <1>8 DEF CopyChunk, Consistent, FileFitsStep, TypeOK
  <2>2. [temp[d] EXCEPT !.part = "partial"] \in Files
    BY <2>1, FilesWritten DEF Parts
  <2>3. QED
    BY <1>8, <1>d, <2>2 DEF CopyChunk, SetTemp, TypeOK
<1>9. CASE CopyEnds(d)
  <2>1. temp[d] \in Files
    BY <1>9 DEF CopyEnds, Consistent, FileFitsStep, TypeOK
  <2>2. [temp[d] EXCEPT !.part = IF reply[d] = "agent" THEN "whole" ELSE "junk"]
           \in Files
    BY <2>1, FilesWritten DEF Parts
  <2>3. Control
    BY <1>9, <1>b, <1>c DEF CopyEnds
  <2>4. QED
    BY <1>9, <1>d, <2>2, <2>3 DEF CopyEnds, SetTemp, TypeOK
<1>10. CASE CopyFails(d) \/ WriteFails(d)
  BY <1>10, <1>a, <1>c, <1>d, <1>e DEF CopyFails, WriteFails, TypeOK
<1>11. CASE drainClose(d)
  <2>1. PICK new \in {{}, {"drain"}, {"close body"}} :
          errs' = [errs EXCEPT ![d] = joined(errs[d], new)]
    BY <1>11 DEF drainClose
  <2>2. joined(errs[d], new) \in SUBSET Errors
    BY <1>c DEF joined, TypeOK
  <2>3. pc' \in [Downloaders -> Steps]
    BY <1>11, <1>c DEF drainClose, Goto, TypeOK
  <2>4. QED
    BY <1>11, <1>e, <2>1, <2>2, <2>3 DEF drainClose, TypeOK, Streams
<1>12. CASE promoteClose(d)
  <2>1. Control
    BY <1>12, <1>a, <1>b, <1>c DEF promoteClose
  <2>2. QED
    BY <1>12, <1>d, <2>1 DEF promoteClose, TypeOK
<1>13. CASE promoteChmod(d)
  <2>1. Control
    BY <1>13, <1>a, <1>b, <1>c DEF promoteChmod
  <2>2. temp[d] # NoFile => [temp[d] EXCEPT !.exec = TRUE] \in Files
    <3>1. temp[d] \in Files \cup {NoFile}
      BY DEF TypeOK
    <3>2. QED
      BY <3>1, FilesWritten DEF Parts
  <2>3. temp' \in [Downloaders -> Files \cup {NoFile}]
    BY <1>13, <2>2 DEF promoteChmod, SetTemp, TypeOK
  <2>4. QED
    BY <1>13, <1>d, <2>1, <2>3 DEF promoteChmod, TypeOK
<1>14. CASE promoteRename(d)
  <2>1. Control
    BY <1>14, <1>a, <1>b, <1>c DEF promoteRename
  <2>2. QED
    BY <1>14, <1>d, <2>1 DEF promoteRename, SetTemp, TypeOK
<1>15. CASE discardClose(d)
  <2>1. errs[d] \cup {"close temp"} \in SUBSET Errors
    BY <1>c DEF TypeOK
  <2>2. Control
    BY <1>15, <1>c, <2>1 DEF discardClose, Goto, TypeOK
  <2>3. QED
    BY <1>15, <1>d, <2>2 DEF discardClose, TypeOK
<1>16. CASE discardRemove(d)
  <2>1. Control
    BY <1>16, <1>a, <1>b, <1>c DEF discardRemove
  <2>2. QED
    BY <1>16, <1>d, <2>1 DEF discardRemove, SetTemp, TypeOK
<1>17. CASE Return(d) \/ Killed(d)
  <2>1. Disown(d) /\ Reset(d) /\ UNCHANGED target
    BY <1>17 DEF Return, Killed
  <2>2. litter' \in BOOLEAN
    BY <2>1 DEF Disown
  <2>3. temp' \in [Downloaders -> Files \cup {NoFile}]
    BY <2>1 DEF Disown, TypeOK
  <2>4. open' \subseteq Downloaders
    BY <1>17 DEF Return, Killed, TypeOK
  <2>5. Control
    BY <2>1, <1>c DEF Reset, Goto, TypeOK
  <2>6. QED
    BY <2>1, <2>2, <2>3, <2>4, <2>5 DEF Reset, TypeOK, Streams
<1>18. CASE ServerSends(d)
  BY <1>18, <1>e DEF ServerSends, TypeOK, Streams
<1>19. CASE FileVanishes(d)
  BY <1>19, <1>d DEF FileVanishes, SetTemp, TypeOK
<1>20. CASE ContextEnds(d)
  BY <1>20, <1>e DEF ContextEnds, TypeOK
<1>21. QED
  BY <1>1, <1>2, <1>3, <1>4, <1>5, <1>6, <1>7, <1>8, <1>9, <1>10, <1>11, <1>12,
     <1>13, <1>14, <1>15, <1>16, <1>17, <1>18, <1>19, <1>20 DEF Step
-----------------------------------------------------------------------------
\* A step of one download leaves the others' state alone.
LEMMA OthersUnchanged ==
  ASSUME TypeOK, NEW d \in Downloaders, Step(d), NEW e \in Downloaders, e # d
  PROVE  /\ pc'[e] = pc[e] /\ errs'[e] = errs[e] /\ reply'[e] = reply[e]
         /\ temp'[e] = temp[e] /\ (e \in open' <=> e \in open)
         /\ body'[e] = body[e]
<1> USE DEF TypeOK, Goto, Fail, SetTemp, net, disk
<1>1. CASE Download(d) \/ MkdirAll(d) \/ CreateTemp(d) \/ Responds(d)
  BY <1>1 DEF Download, MkdirAll, CreateTemp, Responds
<1>2. CASE ConnectionFails(d) \/ checkStatus(d) \/ verifyHeader(d)
  BY <1>2 DEF ConnectionFails, checkStatus, refused, verifyHeader
<1>3. CASE CopyChunk(d) \/ CopyEnds(d) \/ CopyFails(d) \/ WriteFails(d)
  BY <1>3 DEF CopyChunk, CopyEnds, CopyFails, WriteFails
<1>4. CASE drainClose(d) \/ promoteClose(d) \/ promoteChmod(d) \/ promoteRename(d)
  BY <1>4 DEF drainClose, promoteClose, promoteChmod, promoteRename
<1>5. CASE discardClose(d) \/ discardRemove(d) \/ Return(d) \/ Killed(d)
  BY <1>5 DEF discardClose, discardRemove, Return, Killed, Disown, Reset
<1>6. CASE ServerSends(d) \/ FileVanishes(d) \/ ContextEnds(d)
  BY <1>6 DEF ServerSends, FileVanishes, ContextEnds
<1>7. QED
  BY <1>1, <1>2, <1>3, <1>4, <1>5, <1>6 DEF Step

\* What the helpers of the steps do to the download that takes the step.
LEMMA HelperEffects ==
  ASSUME TypeOK, NEW d \in Downloaders
  PROVE  /\ \A step : Goto(d, step) => pc'[d] = step
         /\ \A err, step : Fail(d, err, step) =>
              /\ pc'[d] = step /\ errs'[d] = errs[d] \cup {err}
              /\ err \in errs'[d] /\ errs'[d] # {}
         /\ \A file : SetTemp(d, file) => temp'[d] = file
BY DEF TypeOK, Goto, Fail, SetTemp

\* Writing to a file leaves whose it is, and what is not written, as it was.
LEMMA FileUpdates ==
  ASSUME NEW f \in Files, NEW p
  PROVE  /\ [f EXCEPT !.part = p].of = f.of /\ [f EXCEPT !.part = p].part = p
         /\ [f EXCEPT !.exec = TRUE].of = f.of
         /\ [f EXCEPT !.exec = TRUE].part = f.part
         /\ [f EXCEPT !.exec = TRUE].exec
BY DEF Files

\* A step leaves its own download's state consistent.
LEMMA StepConsistent ==
  ASSUME TypeOK, NEW d \in Downloaders, Consistent(d), Step(d)
  PROVE  Consistent(d)'
<1> USE DEF TypeOK, Consistent, FileFitsStep, PromotedIsWhole, ErrorsFitStep,
         RefusalKept, HeldForUse, Unanswered
<1>1. CASE Download(d)
  BY <1>1 DEF Download, Goto, disk
<1>2. CASE MkdirAll(d)
  BY <1>2 DEF MkdirAll, Fail, Goto, net, disk
<1>3. CASE CreateTemp(d)
  <2>1. [of |-> d, part |-> "empty", exec |-> FALSE] # NoFile
    BY DEF NoFile
  <2>2. QED
    BY <1>3, <2>1, HelperEffects DEF CreateTemp, net
<1>4. CASE Responds(d)
  BY <1>4 DEF Responds, Goto, disk, Kinds
<1>5. CASE ConnectionFails(d)
  BY <1>5, HelperEffects DEF ConnectionFails, net, disk
<1>6. CASE checkStatus(d)
  <2>1. CASE reply[d] \in {"unauthorized", "other status"}
    <3>1. /\ pc'[d] = "drain" /\ errs'[d] # {}
          /\ reply[d] = "unauthorized" => "ErrDownloadUnauthorized" \in errs'[d]
      BY <1>6, <2>1, HelperEffects DEF checkStatus, refused
    <3>2. QED
      BY <1>6, <3>1 DEF checkStatus, net, disk
  <2>2. CASE reply[d] \notin {"unauthorized", "other status"}
    BY <1>6, <2>2, HelperEffects DEF checkStatus, net, disk
  <2>3. QED
    BY <2>1, <2>2
<1>7. CASE verifyHeader(d)
  BY <1>7, HelperEffects DEF verifyHeader, isAgent, net, disk
<1>8. CASE CopyChunk(d)
  <2>1. temp[d] \in Files /\ temp'[d] = [temp[d] EXCEPT !.part = "partial"]
    BY <1>8, HelperEffects DEF CopyChunk
  <2>2. temp'[d].of = d
    BY <2>1, <1>8, FileUpdates DEF CopyChunk
  <2>3. QED
    BY <1>8, <2>1, <2>2, FilesWritten, NoFileIsNoFile DEF CopyChunk, Parts, net
<1>9. CASE CopyEnds(d)
  <2>1. /\ temp[d] \in Files
        /\ temp'[d] = [temp[d] EXCEPT !.part = "whole"]
        /\ pc'[d] = "drain"
    BY <1>9, HelperEffects DEF CopyEnds
  <2>2. temp'[d].of = d /\ temp'[d].part = "whole"
    BY <2>1, <1>9, FileUpdates DEF CopyEnds
  <2>3. temp'[d] # NoFile
    BY <2>2 DEF NoFile
  <2>4. QED
    BY <1>9, <2>1, <2>2, <2>3 DEF CopyEnds, net
<1>10. CASE CopyFails(d) \/ WriteFails(d)
  <2>1. pc'[d] = "drain" /\ errs'[d] # {} /\ errs[d] \subseteq errs'[d]
    BY <1>10, HelperEffects DEF CopyFails, WriteFails
  <2>2. QED
    BY <1>10, <2>1 DEF CopyFails, WriteFails, net, disk
<1>11. CASE drainClose(d)
  <2>1. PICK new : errs' = [errs EXCEPT ![d] = joined(errs[d], new)]
    BY <1>11 DEF drainClose
  <2>2. errs'[d] = errs[d] \cup new
    BY <2>1 DEF joined
  <2>3. /\ pc[d] = "drain" /\ UNCHANGED <<temp, open, ctx, reply>>
        /\ body' = [body EXCEPT ![d] = "closed"]
        /\ stream' = [stream EXCEPT ![d] = "none"]
        /\ pc' = [pc EXCEPT ![d] = IF errs'[d] = {} THEN "close" ELSE "discardClose"]
    BY <1>11 DEF drainClose, Goto, disk
  <2>4. /\ body'[d] = "closed" /\ stream'[d] = "none"
        /\ pc'[d] = (IF errs'[d] = {} THEN "close" ELSE "discardClose")
    BY <2>3
  <2>5. FileFitsStep(d)' /\ PromotedIsWhole(d)' /\ ErrorsFitStep(d)'
    BY <2>2, <2>3, <2>4
  <2>6. RefusalKept(d)' /\ HeldForUse(d)'
    BY <2>2, <2>3, <2>4
  <2>7. QED
    BY <2>5, <2>6
<1>12. CASE promoteClose(d)
  <2>1. \/ pc'[d] = "chmod" /\ errs'[d] = errs[d]
        \/ pc'[d] = "discardClose" /\ errs'[d] = errs[d] \cup {"close temp"}
    BY <1>12, HelperEffects DEF promoteClose
  <2>2. /\ pc[d] = "close" /\ d \notin open'
        /\ UNCHANGED <<temp, ctx, reply, stream, body>>
    BY <1>12 DEF promoteClose, net
  <2>3. QED
    BY <2>1, <2>2
<1>13. CASE promoteChmod(d)
  <2>1. CASE Fail(d, "chmod", "discardClose") /\ UNCHANGED temp
    BY <1>13, <2>1, HelperEffects DEF promoteChmod, net
  <2>2. CASE /\ temp[d] # NoFile
             /\ SetTemp(d, [temp[d] EXCEPT !.exec = TRUE])
             /\ Goto(d, "rename")
             /\ UNCHANGED errs
    <3>1. /\ temp'[d] = [temp[d] EXCEPT !.exec = TRUE]
          /\ pc'[d] = "rename"
      BY <2>2, HelperEffects
    <3>2. temp'[d].of = d /\ temp'[d].part = "whole" /\ temp'[d].exec
      BY <1>13, <2>2, <3>1, FileUpdates DEF promoteChmod
    <3>3. QED
      BY <1>13, <2>2, <3>1, <3>2 DEF promoteChmod, net
  <2>3. QED
    BY <1>13, <2>1, <2>2 DEF promoteChmod
<1>14. CASE promoteRename(d)
  BY <1>14 DEF promoteRename, SetTemp, Fail, Goto, net
<1>15. CASE discardClose(d)
  BY <1>15 DEF discardClose, Goto, net
<1>16. CASE discardRemove(d)
  BY <1>16 DEF discardRemove, SetTemp, Fail, Goto, net
<1>17. CASE Return(d) \/ Killed(d)
  BY <1>17 DEF Return, Killed, Disown, Reset, Goto
<1>18. CASE ServerSends(d)
  BY <1>18 DEF ServerSends, disk
<1>19. CASE FileVanishes(d)
  BY <1>19 DEF FileVanishes, SetTemp, net
<1>20. CASE ContextEnds(d)
  BY <1>20 DEF ContextEnds, disk
<1>21. QED
  BY <1>1, <1>2, <1>3, <1>4, <1>5, <1>6, <1>7, <1>8, <1>9, <1>10, <1>11, <1>12,
     <1>13, <1>14, <1>15, <1>16, <1>17, <1>18, <1>19, <1>20 DEF Step

\* Only the rename writes the target, and it moves a whole agent there.
LEMMA TargetOnlyRenamed ==
  ASSUME NEW d \in Downloaders, Step(d)
  PROVE  target' = target \/ (promoteRename(d) /\ temp[d] # NoFile /\ target' = temp[d])
BY DEF Step, Download, MkdirAll, CreateTemp, Responds, ConnectionFails,
       checkStatus, verifyHeader, CopyChunk, CopyEnds, CopyFails, WriteFails,
       drainClose, promoteClose, promoteChmod, promoteRename, discardClose,
       discardRemove, Return, Killed, ServerSends, FileVanishes, ContextEnds,
       Reset, disk

LEMMA Inductive == IInv /\ [Next]_vars => IInv'
<1> SUFFICES ASSUME IInv, [Next]_vars PROVE IInv'
  OBVIOUS
<1>1. TypeOK'
  BY StepTypes
<1>2. CASE UNCHANGED vars
  BY <1>1, <1>2 DEF vars, net, disk, IInv, TypeOK, Consistent, FileFitsStep,
                    PromotedIsWhole, ErrorsFitStep, RefusalKept, HeldForUse,
                    TargetWhole
<1>3. CASE Next
  <2> PICK d \in Downloaders : Step(d)
    BY <1>3, NextIsStep
  <2>1. ASSUME NEW e \in Downloaders PROVE Consistent(e)'
    <3>1. CASE e = d
      BY <3>1, StepConsistent DEF IInv
    <3>2. CASE e # d
      BY <3>2, OthersUnchanged DEF IInv, Consistent, FileFitsStep,
           PromotedIsWhole, ErrorsFitStep, RefusalKept, HeldForUse
    <3>3. QED
      BY <3>1, <3>2
  <2>2. TargetWhole'
    <3>1. CASE target' = target
      BY <3>1 DEF IInv, TargetWhole
    <3>2. CASE promoteRename(d) /\ temp[d] # NoFile /\ target' = temp[d]
      BY <3>2 DEF IInv, Consistent, PromotedIsWhole, promoteRename, TargetWhole
    <3>3. QED
      BY <3>1, <3>2, TargetOnlyRenamed
  <2>3. QED
    BY <1>1, <2>1, <2>2 DEF IInv
<1>4. QED
  BY <1>2, <1>3

LEMMA Invariance == Spec => []IInv
<1>1. QED
  BY InitIInv, Inductive, PTL DEF Spec

-----------------------------------------------------------------------------
\* The variables keep the types TypeOK gives them.
THEOREM TypeCorrect == Spec => []TypeOK
<1>1. IInv => TypeOK
  BY DEF IInv
<1>2. QED
  BY <1>1, Invariance, PTL

(***************************************************************************)
(* However many downloads share the directory, in whatever order their     *)
(* steps happen, fail or are cut short by a kill, the target path never    *)
(* holds anything but a complete, executable agent.                        *)
(***************************************************************************)
THEOREM TargetIsWhole == Spec => []TargetWhole
<1>1. IInv => TargetWhole
  BY DEF IInv
<1>2. QED
  BY <1>1, Invariance, PTL

(***************************************************************************)
(* A download that has returned has removed its partial file or says that  *)
(* it could not.                                                           *)
(***************************************************************************)
THEOREM LeavesNothingBehind == Spec => []NothingLeftBehind
<1>1. IInv => NothingLeftBehind
  BY DEF IInv, Consistent, ErrorsFitStep, NothingLeftBehind
<1>2. QED
  BY <1>1, Invariance, PTL

(***************************************************************************)
(* A refusal by the server is among the errors Download returns, whatever  *)
(* the drain, the close and the removal of the partial file add to it.     *)
(***************************************************************************)
THEOREM ReportsRefusal == Spec => []RefusalReported
<1>1. IInv => RefusalReported
  BY DEF IInv, Consistent, RefusalKept, RefusalReported
<1>2. QED
  BY <1>1, Invariance, PTL

(***************************************************************************)
(* A download that has returned holds neither the response's body nor its  *)
(* file, and the file is closed when it is renamed.                        *)
(***************************************************************************)
THEOREM ReleasesResources == Spec => []ResourcesReleased
<1>1. IInv => ResourcesReleased
  BY DEF IInv, Consistent, HeldForUse, ResourcesReleased
<1>2. QED
  BY <1>1, Invariance, PTL

-----------------------------------------------------------------------------
\* The abstract phases, and the abstract state after a step of d.
Phase == [d \in Downloaders |-> Outcome(d)]

LEMMA PhaseStep ==
  ASSUME TypeOK, NEW d \in Downloaders, Step(d)
  PROVE  Phase' = [Phase EXCEPT ![d] = Outcome(d)']
<1>1. ASSUME NEW e \in Downloaders, e # d PROVE Outcome(e)' = Outcome(e)
  BY <1>1, OthersUnchanged DEF Outcome
<1>2. QED
  BY <1>1 DEF Phase

\* A step that neither starts nor ends the call is not seen from outside.
LEMMA Unseen ==
  ASSUME TypeOK, NEW d \in Downloaders, Step(d), target' = target,
         Outcome(d)' = Outcome(d)
  PROVE  UNCHANGED <<Phase, target.of>>
<1>1. Phase' = [Phase EXCEPT ![d] = Phase[d]]
  BY PhaseStep DEF Phase
<1>2. QED
  BY <1>1 DEF Phase

LEMMA StepRefines ==
  ASSUME IInv, NEW d \in Downloaders, Step(d)
  PROVE  \/ Abstract!DownloadNext
         \/ UNCHANGED <<Phase, target.of>>
<1> USE DEF IInv
<1>1. Phase' = [Phase EXCEPT ![d] = Outcome(d)'] /\ Phase[d] = Outcome(d)
  BY PhaseStep DEF Phase
<1>2. CASE pc[d] = "idle" /\ pc'[d] \notin {"idle", "done"} /\ target' = target
  <2>1. Abstract!Enter(d)
    BY <1>1, <1>2 DEF Abstract!Enter, Phase, Outcome
  <2>2. QED
    BY <2>1 DEF Abstract!DownloadNext
<1>3. CASE /\ pc[d] \notin {"idle", "done"} /\ pc'[d] = "done"
           /\ errs'[d] # {} /\ target' = target
  <2>1. Abstract!Refuse(d)
    BY <1>1, <1>3 DEF Abstract!Refuse, Phase, Outcome
  <2>2. QED
    BY <2>1 DEF Abstract!DownloadNext
<1>4. CASE /\ pc[d] \notin {"idle", "done"} /\ pc'[d] = "done"
           /\ errs'[d] = {} /\ target'.of = d
  <2>1. Abstract!Place(d)
    BY <1>1, <1>4 DEF Abstract!Place, Phase, Outcome
  <2>2. QED
    BY <2>1 DEF Abstract!DownloadNext
<1>5. CASE pc[d] # "idle" /\ pc'[d] = "idle" /\ target' = target
  <2>1. Abstract!Forget(d)
    BY <1>1, <1>5 DEF Abstract!Forget, Phase, Outcome
  <2>2. QED
    BY <2>1 DEF Abstract!DownloadNext
<1>6. CASE /\ \/ pc'[d] = pc[d] /\ errs'[d] = errs[d]
              \/ pc[d] \notin {"idle", "done"} /\ pc'[d] \notin {"idle", "done"}
           /\ target' = target
  <2>1. Outcome(d)' = Outcome(d)
    BY <1>6 DEF Outcome
  <2>2. QED
    BY <1>6, <2>1, Unseen
<1> USE HelperEffects DEF TypeOK, net, disk
<1>7. CASE Download(d)
  BY <1>7, <1>2 DEF Download
<1>8. CASE MkdirAll(d) \/ CreateTemp(d)
  BY <1>8, <1>3, <1>6 DEF MkdirAll, CreateTemp
<1>9. CASE Responds(d) \/ ConnectionFails(d) \/ checkStatus(d) \/ verifyHeader(d)
  <2>1. CASE Responds(d) \/ ConnectionFails(d)
    BY <2>1, <1>6 DEF Responds, ConnectionFails
  <2>2. CASE checkStatus(d)
    <3>1. pc'[d] \in {"peek", "drain"}
      BY <2>2 DEF checkStatus, refused
    <3>2. QED
      BY <2>2, <3>1, <1>6 DEF checkStatus
  <2>3. CASE verifyHeader(d)
    <3>1. pc'[d] \in {"copy", "drain"}
      BY <2>3 DEF verifyHeader
    <3>2. QED
      BY <2>3, <3>1, <1>6 DEF verifyHeader
  <2>4. QED
    BY <1>9, <2>1, <2>2, <2>3
<1>10. CASE CopyChunk(d) \/ CopyEnds(d) \/ CopyFails(d) \/ WriteFails(d)
  BY <1>10, <1>6 DEF CopyChunk, CopyEnds, CopyFails, WriteFails
<1>11. CASE drainClose(d)
  BY <1>11, <1>6 DEF drainClose
<1>12. CASE promoteClose(d) \/ promoteChmod(d) \/ discardClose(d)
  <2>1. CASE promoteClose(d)
    <3>1. pc'[d] \in {"chmod", "discardClose"}
      BY <2>1 DEF promoteClose
    <3>2. QED
      BY <2>1, <3>1, <1>6 DEF promoteClose
  <2>2. CASE promoteChmod(d)
    <3>1. pc'[d] \in {"rename", "discardClose"}
      BY <2>2 DEF promoteChmod
    <3>2. QED
      BY <2>2, <3>1, <1>6 DEF promoteChmod
  <2>3. CASE discardClose(d)
    BY <2>3, <1>6 DEF discardClose
  <2>4. QED
    BY <1>12, <2>1, <2>2, <2>3
<1>13. CASE promoteRename(d)
  BY <1>13, <1>4, <1>6 DEF promoteRename, Consistent, FileFitsStep, ErrorsFitStep
<1>14. CASE discardRemove(d)
  BY <1>14, <1>3 DEF discardRemove, Consistent, ErrorsFitStep
<1>15. CASE Return(d) \/ Killed(d)
  BY <1>15, <1>5 DEF Return, Killed, Reset
<1>16. CASE ServerSends(d) \/ FileVanishes(d) \/ ContextEnds(d)
  BY <1>16, <1>6 DEF ServerSends, FileVanishes, ContextEnds
<1>17. QED
  BY <1>7, <1>8, <1>9, <1>10, <1>11, <1>12, <1>13, <1>14, <1>15, <1>16 DEF Step

(***************************************************************************)
(* Client.Download keeps what Download promises: every step of the whole   *)
(* exchange is invisible from outside, or starts a call, or places the     *)
(* caller's own agent at once, or fails and leaves the target, or ends it. *)
(***************************************************************************)
THEOREM Refinement == Spec => ImplementsDownload
<1>1. Init => Abstract!DownloadInit
  BY DEF Init, Abstract!DownloadInit, Outcome, NoFile
<1>2. IInv /\ [Next]_vars => [Abstract!DownloadNext]_(Abstract!downloadVars)
  <2> SUFFICES ASSUME IInv, [Next]_vars
               PROVE  Abstract!DownloadNext \/ UNCHANGED <<Phase, target.of>>
    BY DEF Abstract!downloadVars, Phase
  <2>1. CASE UNCHANGED vars
    BY <2>1 DEF vars, net, disk, Phase, Outcome
  <2>2. CASE Next
    BY <2>2, NextIsStep, StepRefines
  <2>3. QED
    BY <2>1, <2>2
<1>3. QED
  BY <1>1, <1>2, Invariance, PTL DEF Spec, ImplementsDownload, Abstract!DownloadSpec
=============================================================================

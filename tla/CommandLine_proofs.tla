-------------------------- MODULE CommandLine_proofs --------------------------
(***************************************************************************)
(* Proofs about CommandLine, for any arguments and any number of them.     *)
(***************************************************************************)
EXTENDS CommandLine, Positions_proofs, SequenceTheorems

Methods == AgentCalls \cup InstallerCalls

Values == {t.value : t \in Tokens}

Refusals == {"ErrNotElevated", "ErrDownloadUnauthorized"}

Last == calls[Len(calls)]

(***************************************************************************)
(* The strengthening.  The calls are those of the command, one after the   *)
(* other until one fails; what report makes an exit status of is what the  *)
(* last of them answered, or an error of the Runner's own; and an Agent    *)
(* that was there stays, and is what an open Installer is filled with.     *)
(***************************************************************************)
CallsTyped ==
  calls \in Seq([method : Methods, seam : Seams, err : CallErrors])

StepFitsLine ==
  /\ pc = "Status" => line.command \in {"connect", "status"}
  /\ pc \in {"Download", "Install", "Connect"} => line.command = "connect"
  /\ pc = "Disconnect" => line.command = "disconnect"
  /\ pc = "Uninstall" => line.command = "uninstall"
  /\ pc = "Encode" => line.command = "status"
  /\ pc = "idle" => calls = <<>>
  /\ exit # "none" <=> pc = "returned"

OneFails ==
  /\ \A n \in DOMAIN calls : calls[n].err # "nil" => n = Len(calls)
  /\ pc \in Methods \cup {"Encode"} => \A n \in DOMAIN calls : calls[n].err = "nil"

ReportFits ==
  /\ pc = "Encode" => calls # <<>> /\ Last.method = "Status" /\ err = "nil"
  /\ pc = "report" =>
       /\ err = "nil" =>
            calls # <<>> /\ Last.method = Goal[line.command] /\ Last.err = "nil"
       /\ err \in Refusals <=> calls # <<>> /\ Last.err \in Refusals

ExitFits ==
  pc = "returned" =>
    /\ exit = "ExitUsage" =>
         calls = <<>> /\ agent = before.agent /\ installer = before.installer
    /\ (exit = "ExitOK" /\ calls # <<>>) =>
         Last.method = Goal[line.command] /\ Last.err = "nil"
    /\ exit = "ExitDenied" <=> calls # <<>> /\ Last.err \in Refusals

SeamsFit ==
  before.agent.kind # "none" =>
    /\ agent = before.agent
    /\ installer \in {before.agent, before.installer}
    /\ \A n \in DOMAIN calls : calls[n].seam \in {before.agent, before.installer}

EnvTyped == env \in [server : {"", "from env"}, group : {"", "from env"}]

IInv ==
  /\ TypeOK
  /\ EnvTyped
  /\ CallsTyped
  /\ StepFitsLine
  /\ OneFails
  /\ ReportFits
  /\ ExitFits
  /\ SeamsFit

-----------------------------------------------------------------------------
LEMMA PlainSeams ==
  \A k \in {"none", "agent", "both", "installer", "neither"} : Seam(k) \in Seams
BY DEF Seams

LEMMA NoPositions == DOMAIN <<>> = {}
<1>1. <<>> \in Seq({}) /\ Len(<<>>) = 0
  OBVIOUS
<1>2. DOMAIN <<>> = 1 .. 0
  BY <1>1
<1>3. QED
  BY <1>2

LEMMA InitIInv == Init => IInv
<1> SUFFICES ASSUME Init PROVE IInv
  OBVIOUS
<1>0. calls = <<>> /\ DOMAIN calls = {}
  BY NoPositions DEF Init
<1>1. TypeOK
  <2>1. Seam("none") \in Seams
    BY PlainSeams
  <2>2. /\ agent \in Seams /\ installer \in Seams
        /\ before \in [agent : Seams, installer : Seams]
    BY <2>1 DEF Init
  <2>3. QED
    BY <1>0, <2>2 DEF Init, TypeOK, CallErrors
<1>2. EnvTyped /\ CallsTyped
  <2>1. CallsTyped
    BY <1>0 DEF CallsTyped
  <2>2. QED
    BY <2>1 DEF Init, EnvTyped
<1>3. StepFitsLine /\ OneFails
  <2>1. pc = "idle" /\ exit = "none"
    BY DEF Init
  <2>2. QED
    BY <1>0, <2>1
       DEF StepFitsLine, OneFails, Methods, AgentCalls, InstallerCalls
<1>4. ReportFits /\ ExitFits
  BY DEF Init, ReportFits, ExitFits
<1>5. SeamsFit
  BY DEF Init, SeamsFit, Seam
<1>6. QED
  BY <1>1, <1>2, <1>3, <1>4, <1>5 DEF IInv

\* The arguments of a line are a sequence of tokens, and so are its flags.
LEMMA FlagsAreTokens ==
  ASSUME NEW l \in Lines
  PROVE  /\ l.rest \in Seq(Tokens)
         /\ Read(l.command, l.rest) \in Seq(Tokens)
<1> DEFINE rest == l.rest
           stops == Stops(l.command, rest)
<1>1. rest \in Seq(Tokens)
  <2>1. PICK n \in 0 .. MaxTokens : rest \in [1 .. n -> Tokens]
    BY DEF Lines
  <2>2. n \in Nat
    BY <2>1, CommandLineAssumption
  <2>3. QED
    BY <2>1, <2>2
<1>2. CASE stops = {}
  BY <1>1, <1>2 DEF Read
<1>3. CASE stops # {}
  <2>1. stops \subseteq 1 .. Len(rest) /\ Len(rest) \in Nat
    BY <1>1 DEF Stops
  <2>2. Min(stops) \in 1 .. Len(rest)
    <3> HIDE DEF stops, rest
    <3>1. stops \subseteq Nat
      BY <2>1
    <3>2. QED
      BY <1>3, <2>1, <3>1, MinIsMember
  <2>3. SubSeq(rest, 1, Min(stops) - 1) \in Seq(Tokens)
    <3> HIDE DEF stops, rest
    <3>1. QED
      BY <1>1, <2>1, <2>2, SubSeqProperties
  <2>4. QED
    BY <1>1, <1>3, <2>3 DEF Read
<1>4. QED
  BY <1>2, <1>3

\* A flag has a value that was given, or its default.
LEMMA ValueWasGiven ==
  ASSUME NEW flags \in Seq(Tokens), NEW name, NEW default
  PROVE  Value(flags, name, default) \in Values \cup {default}
<1> DEFINE given == {i \in DOMAIN flags : flags[i].name = name}
<1>1. CASE given = {}
  BY <1>1 DEF Value
<1>2. CASE given # {}
  <2>1. Max(given) \in given
    <3>1. given \subseteq 0 .. Len(flags) /\ Len(flags) \in Nat
      OBVIOUS
    <3>2. QED
      <4> HIDE DEF given
      <4>1. QED
        BY <1>2, <3>1, MaxIsMember
  <2>2. flags[Max(given)] \in Tokens
    BY <2>1
  <2>3. Value(flags, name, default) = flags[Max(given)].value
    BY <1>2 DEF Value
  <2>4. QED
    BY <2>2, <2>3 DEF Values
<1>3. QED
  BY <1>1, <1>2

\* The client that wireFromOptions makes is for a server and group of these.
LEMMA ClientTyped ==
  ASSUME EnvTyped, NEW l \in Lines,
         requireOptions(Options(l.command, l.rest))
  PROVE  Client(Options(l.command, l.rest)) \in Seams
<1> DEFINE o == Options(l.command, l.rest)
<1>1. /\ o.server \in Values \cup {env.server, "https://localhost"}
      /\ o.group \in Values \cup {env.group, "local"}
  <2> DEFINE flags == Read(l.command, l.rest)
  <2>1. flags \in Seq(Tokens)
    BY FlagsAreTokens
  <2>2. /\ Value(flags, "server", env.server) \in Values \cup {env.server}
        /\ Value(flags, "group", env.group) \in Values \cup {env.group}
    <3> HIDE DEF flags
    <3>1. QED
      BY <2>1, ValueWasGiven
  <2>3. /\ o.server \in {Value(flags, "server", env.server), "https://localhost"}
        /\ o.group \in {Value(flags, "group", env.group), "local"}
    BY DEF Options, fallback
  <2>4. QED
    BY <2>2, <2>3
<1>2. o.server # "" /\ o.group # ""
  BY DEF requireOptions
<1>3. /\ o.server \in {"https://localhost", "from env"} \cup Values
      /\ o.group \in {"local", "from env"} \cup Values
  BY <1>1, <1>2 DEF EnvTyped
<1>4. QED
  BY <1>3 DEF Client, Seams, Values


\* A call that is made becomes the last one and leaves the others alone.
CallRecords == [method : Methods, seam : Seams, err : CallErrors]

LEMMA OneMoreCall ==
  ASSUME CallsTyped, NEW c \in CallRecords, calls' = Append(calls, c)
  PROVE  /\ CallsTyped'
         /\ calls' # <<>>
         /\ Last' = c
         /\ Len(calls') = Len(calls) + 1
         /\ \A n \in DOMAIN calls' :
              \/ n = Len(calls') /\ calls'[n] = c
              \/ n \in DOMAIN calls /\ calls'[n] = calls[n]
<1>1. calls \in Seq(CallRecords)
  BY DEF CallsTyped, CallRecords
<1>2. /\ calls' \in Seq(CallRecords)
      /\ Len(calls') = Len(calls) + 1
      /\ \A n \in 1 .. Len(calls) : calls'[n] = calls[n]
      /\ calls'[Len(calls) + 1] = c
  BY <1>1, AppendProperties
<1>3. Len(calls) \in Nat /\ DOMAIN calls = 1 .. Len(calls)
      /\ DOMAIN calls' = 1 .. Len(calls')
  BY <1>1, <1>2
<1>4. calls' # <<>>
  BY <1>2, <1>3, NoPositions
<1>5. QED
  BY <1>2, <1>3, <1>4 DEF CallsTyped, CallRecords, Last

\* What the wiring of the seams gives.
LEMMA SeamsWired ==
  ASSUME TypeOK, EnvTyped, NEW l \in Lines
  PROVE  LET o == Options(l.command, l.rest)
             s == ensureSeams(o)
         IN  /\ s.agent \in Seams /\ s.installer \in Seams
             /\ ~s.ok => s.agent = agent /\ s.installer = installer
             /\ agent.kind # "none" =>
                  s.agent = agent /\ s.installer \in {agent, installer}
<1> DEFINE o == Options(l.command, l.rest)
<1>1. requireOptions(o) => Client(o) \in Seams
  BY ClientTyped
<1>2. agent \in Seams /\ installer \in Seams
  BY DEF TypeOK
<1> DEFINE s == ensureSeams(o)
<1> HIDE DEF o
<1>3. /\ s.agent \in Seams /\ s.installer \in Seams
      /\ ~s.ok => s.agent = agent /\ s.installer = installer
      /\ agent.kind # "none" =>
           s.agent = agent /\ s.installer \in {agent, installer}
  <2>1. CASE wired(o)
    BY <1>2, <2>1 DEF ensureSeams, bindInstaller
  <2>2. CASE ~wired(o)
    BY <1>1, <1>2, <2>2 DEF ensureSeams, wireClient, wired
  <2>3. QED
    BY <2>1, <2>2
<1>4. QED
  BY <1>3 DEF o

LEMMA RunKeeps ==
  ASSUME IInv, NEW l \in Lines, Run(l.command, l.rest)
  PROVE  IInv'
<1> DEFINE s == ensureSeams(Options(l.command, l.rest))
<1>0. /\ pc = "idle" /\ calls = <<>> /\ exit = "none"
      /\ UNCHANGED <<env, calls, err>>
      /\ before' = [agent |-> agent, installer |-> installer]
  BY DEF IInv, StepFitsLine, Run
<1>1. /\ s.agent \in Seams /\ s.installer \in Seams
      /\ ~s.ok => s.agent = agent /\ s.installer = installer
      /\ agent.kind # "none" =>
           s.agent = agent /\ s.installer \in {agent, installer}
  BY SeamsWired DEF IInv
<1>2. l = [command |-> l.command, rest |-> l.rest]
  BY DEF Lines
<1>3. line' = l
  BY <1>2 DEF Run
<1>4. out' \in {"nil", "given", "discard"}
  BY DEF Run, IInv, TypeOK
<1> HIDE DEF s
<1>5. \/ /\ exit' \in {"ExitUsage", "ExitOK"} /\ pc' = "returned"
         /\ UNCHANGED <<agent, installer>>
      \/ /\ agent' = s.agent /\ installer' = s.installer
         /\ l.command \in DOMAIN FirstCall
         /\ pc' = FirstCall[l.command] /\ exit' = exit
      \/ /\ agent' = s.agent /\ installer' = s.installer /\ ~s.ok
         /\ exit' = "ExitUsage" /\ pc' = "returned"
  BY DEF Run, End, s
<1>6. l.command \in DOMAIN FirstCall =>
        \/ l.command = "connect" /\ FirstCall[l.command] = "Status"
        \/ l.command = "status" /\ FirstCall[l.command] = "Status"
        \/ l.command = "disconnect" /\ FirstCall[l.command] = "Disconnect"
        \/ l.command = "uninstall" /\ FirstCall[l.command] = "Uninstall"
  BY DEF FirstCall
<1>7. DOMAIN calls' = {} /\ calls' = <<>>
  BY <1>0, NoPositions
<1>8. /\ agent' \in Seams /\ installer' \in Seams
      /\ agent.kind # "none" => agent' = agent /\ installer' \in {agent, installer}
      /\ exit' = "ExitUsage" => agent' = agent /\ installer' = installer
      /\ exit' \in {"none", "ExitUsage", "ExitOK"}
      /\ \/ pc' = "returned" /\ exit' # "none"
         \/ pc' = "Status" /\ l.command \in {"connect", "status"} /\ exit' = "none"
         \/ pc' = "Disconnect" /\ l.command = "disconnect" /\ exit' = "none"
         \/ pc' = "Uninstall" /\ l.command = "uninstall" /\ exit' = "none"
  BY <1>0, <1>1, <1>5, <1>6 DEF IInv, TypeOK
<1>9. TypeOK'
  BY <1>0, <1>3, <1>4, <1>7, <1>8
     DEF IInv, TypeOK, AgentCalls, InstallerCalls
<1>10. EnvTyped' /\ CallsTyped'
  BY <1>0 DEF IInv, EnvTyped, CallsTyped
<1>11. StepFitsLine' /\ OneFails' /\ ReportFits'
  BY <1>3, <1>7, <1>8 DEF StepFitsLine, OneFails, ReportFits
<1>12. ExitFits' /\ SeamsFit'
  BY <1>0, <1>7, <1>8 DEF ExitFits, SeamsFit
<1>13. QED
  BY <1>9, <1>10, <1>11, <1>12 DEF IInv


\* Where a call that succeeded leads.
LEMMA AfterCalls ==
  ASSUME NEW method \in Methods, NEW next \in After(method),
         method = "Status" => line.command \in {"connect", "status"}
  PROVE  \/ /\ next \in {"Connect", "Download"} /\ line.command = "connect"
            /\ method = "Status"
         \/ /\ next \in {"Encode", "report"} /\ line.command = "status"
            /\ method = "Status"
         \/ next = "Install" /\ method = "Download"
         \/ next = "Connect" /\ method = "Install"
         \/ next = "report" /\ method \in {"Connect", "Disconnect", "Uninstall"}
<1>1. CASE method = "Status" /\ line.command = "connect"
  BY <1>1 DEF After
<1>2. CASE method = "Status" /\ line.command = "status"
  BY <1>2 DEF After
<1>3. CASE method = "Download"
  BY <1>3 DEF After
<1>4. CASE method = "Install"
  BY <1>4 DEF After
<1>5. CASE method \in {"Connect", "Disconnect", "Uninstall"}
  BY <1>5 DEF After
<1>6. QED
  BY <1>1, <1>2, <1>3, <1>4, <1>5 DEF Methods, AgentCalls, InstallerCalls

\* A call answers, or is not made for want of a seam.
LEMMA CallKeeps ==
  ASSUME IInv, NEW method, Call(method)
  PROVE  IInv'
<1>0. /\ pc = method /\ method \in Methods
      /\ UNCHANGED <<agent, installer, out, env, before, line, exit>>
  BY DEF Call, Methods, runner
<1>1. /\ exit = "none" /\ \A n \in DOMAIN calls : calls[n].err = "nil"
      /\ agent \in Seams /\ installer \in Seams
  BY <1>0 DEF IInv, StepFitsLine, OneFails, TypeOK, Methods, AgentCalls,
              InstallerCalls
<1>2. SeamOf(method) \in {agent, installer}
  BY DEF SeamOf
<1>3. CASE /\ err' = "no seam" /\ pc' = "report" /\ UNCHANGED calls
  <2>1. calls # <<>> => Last.err = "nil"
    <3>1. calls # <<>> => Len(calls) \in DOMAIN calls
      BY DEF IInv, CallsTyped
    <3>2. QED
      BY <1>1, <3>1 DEF Last
  <2>2. TypeOK' /\ EnvTyped' /\ CallsTyped'
    BY <1>0, <1>3 DEF IInv, TypeOK, EnvTyped, CallsTyped
  <2>3. StepFitsLine' /\ OneFails'
    BY <1>0, <1>1, <1>3
       DEF StepFitsLine, OneFails, Methods, AgentCalls, InstallerCalls
  <2>4. ReportFits' /\ ExitFits' /\ SeamsFit'
    <3>1. Last' = Last
      BY <1>3 DEF Last
    <3>2. QED
      BY <1>0, <1>3, <2>1, <3>1
         DEF IInv, ReportFits, ExitFits, SeamsFit, Refusals
  <2>5. QED
    BY <2>2, <2>3, <2>4 DEF IInv
<1>4. ASSUME NEW e \in CallErrors,
             calls' = Append(calls,
               [method |-> method, seam |-> SeamOf(method), err |-> e]),
             err' = e,
             pc' \in IF e = "nil" THEN After(method) ELSE {handler(method)}
      PROVE  IInv'
  <2> DEFINE c == [method |-> method, seam |-> SeamOf(method), err |-> e]
  <2>1. c \in CallRecords
    BY <1>0, <1>1, <1>2 DEF CallRecords
  <2>2. /\ CallsTyped' /\ calls' # <<>> /\ Last' = c
        /\ Len(calls') = Len(calls) + 1
        /\ \A n \in DOMAIN calls' :
             \/ n = Len(calls') /\ calls'[n] = c
             \/ n \in DOMAIN calls /\ calls'[n] = calls[n]
    BY <1>4, <2>1, OneMoreCall DEF IInv
  <2>0. method = "Status" => line.command \in {"connect", "status"}
    BY <1>0 DEF IInv, StepFitsLine
  <2>3. pc' # "report" =>
          /\ e = "nil"
          /\ \/ /\ pc' \in {"Connect", "Download"} /\ line.command = "connect"
                /\ method = "Status"
             \/ pc' = "Encode" /\ line.command = "status" /\ method = "Status"
             \/ pc' = "Install" /\ method = "Download"
             \/ pc' = "Connect" /\ method = "Install"
    <3>1. CASE e # "nil"
      BY <1>4, <3>1 DEF handler
    <3>2. CASE e = "nil"
      <4>1. pc' \in After(method)
        BY <1>4, <3>2
      <4>2. QED
        BY <1>0, <2>0, <3>2, <4>1, AfterCalls
    <3>3. QED
      BY <3>1, <3>2
  <2>4. (pc' = "report" /\ e = "nil") =>
          \/ method = "Status" /\ line.command = "status"
          \/ method \in {"Connect", "Disconnect", "Uninstall"}
    <3>1. e = "nil" => pc' \in After(method)
      BY <1>4
    <3>2. QED
      BY <1>0, <2>0, <3>1, AfterCalls
  <2>5. c.method = method /\ c.err = e /\ c.seam = SeamOf(method)
    OBVIOUS
  <2>6. method \in {"Download", "Install"} => line.command = "connect"
    BY <1>0 DEF IInv, StepFitsLine
  <2>7. /\ method = "Connect" => line.command = "connect"
        /\ method = "Disconnect" => line.command = "disconnect"
        /\ method = "Uninstall" => line.command = "uninstall"
    BY <1>0 DEF IInv, StepFitsLine
  <2> HIDE DEF c
  <2>8. /\ pc' \in {"Connect", "Download", "Install", "Encode", "report"}
        /\ pc' \in {"Connect", "Download", "Install"} => line.command = "connect"
        /\ pc' = "Encode" => line.command = "status"
    BY <2>3, <2>6
  <2>9. \A n \in DOMAIN calls' :
          /\ calls'[n].err \in CallErrors
          /\ calls'[n].err # "nil" => n = Len(calls') /\ e # "nil"
          /\ \/ calls'[n].seam \in {agent, installer}
             \/ n \in DOMAIN calls /\ calls'[n].seam = calls[n].seam
    BY <1>1, <1>2, <1>4, <2>2, <2>5 DEF CallErrors
  <2>10. TypeOK'
    BY <1>0, <1>4, <2>8, <2>9
       DEF IInv, TypeOK, AgentCalls, InstallerCalls
  <2>11. StepFitsLine' /\ OneFails'
    BY <1>0, <1>1, <2>3, <2>8, <2>9
       DEF StepFitsLine, OneFails, Methods, AgentCalls, InstallerCalls
  <2>12. ReportFits'
    <3>1. (pc' = "report" /\ e = "nil") => method = Goal[line.command]
      BY <2>4, <2>7 DEF Goal
    <3>2. pc' = "Encode" => method = "Status" /\ e = "nil"
      BY <2>3
    <3>3. QED
      BY <1>0, <1>4, <2>2, <2>5, <3>1, <3>2 DEF ReportFits, Refusals
  <2>13. ExitFits'
    BY <2>8 DEF ExitFits
  <2>14. SeamsFit'
    BY <1>0, <2>9 DEF IInv, SeamsFit
  <2>15. EnvTyped'
    BY <1>0 DEF IInv, EnvTyped
  <2>16. QED
    BY <2>2, <2>10, <2>11, <2>12, <2>13, <2>14, <2>15 DEF IInv
<1>5. QED
  BY <1>3, <1>4 DEF Call


\* The end of the calls, with an error of the Runner's own or without.
LEMMA OwnErrorKeeps ==
  ASSUME IInv, pc \in {"Download", "Encode"},
         UNCHANGED <<runner, env, before, line, calls, exit>>,
         \/ pc' = "report" /\ err' = "failed"
         \/ pc = "Encode" /\ pc' \in {"report", "panicked"} /\ err' = err
  PROVE  IInv'
<1>1. /\ exit = "none" /\ \A n \in DOMAIN calls : calls[n].err = "nil"
      /\ pc = "Encode" =>
           /\ calls # <<>> /\ Last.method = "Status" /\ err = "nil"
           /\ line.command = "status"
  BY DEF IInv, StepFitsLine, OneFails, ReportFits, Methods, AgentCalls
<1>2. calls # <<>> => Last.err = "nil"
  <2>1. calls # <<>> => Len(calls) \in DOMAIN calls
    BY DEF IInv, CallsTyped
  <2>2. QED
    BY <1>1, <2>1 DEF Last
<1>3. Last' = Last /\ UNCHANGED <<agent, installer, out>>
  BY DEF Last, runner
<1>4. TypeOK' /\ EnvTyped' /\ CallsTyped'
  BY <1>3 DEF IInv, TypeOK, EnvTyped, CallsTyped, CallErrors
<1>5. StepFitsLine' /\ OneFails'
  BY <1>1 DEF IInv, StepFitsLine, OneFails, Methods, AgentCalls, InstallerCalls
<1>6. ReportFits' /\ ExitFits' /\ SeamsFit'
  BY <1>1, <1>2, <1>3 DEF IInv, ReportFits, ExitFits, SeamsFit, Goal, Refusals
<1>7. QED
  BY <1>4, <1>5, <1>6 DEF IInv

LEMMA ReportKeeps == IInv /\ Report => IInv'
<1> SUFFICES ASSUME IInv, Report PROVE IInv'
  OBVIOUS
<1>1. /\ pc = "report" /\ pc' = "returned" /\ exit' = report(err)
      /\ UNCHANGED <<agent, installer, out, env, before, line, calls, err>>
  BY DEF Report, End, runner
<1>2. /\ exit' \in {"ExitOK", "ExitError", "ExitDenied"}
      /\ exit' = "ExitOK" => err = "nil"
      /\ exit' = "ExitDenied" <=> err \in Refusals
  BY <1>1 DEF report, Refusals
<1>3. Last' = Last
  BY <1>1 DEF Last
<1>4. TypeOK' /\ EnvTyped' /\ CallsTyped'
  BY <1>1, <1>2 DEF IInv, TypeOK, EnvTyped, CallsTyped
<1>5. StepFitsLine' /\ OneFails' /\ ReportFits' /\ SeamsFit'
  BY <1>1, <1>2
     DEF IInv, StepFitsLine, OneFails, ReportFits, SeamsFit, Methods,
         AgentCalls, InstallerCalls
<1>6. ExitFits'
  BY <1>1, <1>2, <1>3 DEF IInv, ReportFits, ExitFits
<1>7. QED
  BY <1>4, <1>5, <1>6 DEF IInv

\* A Runner that is run again, or another one.
LEMMA ResetKeeps == IInv /\ (Reuse \/ Renew) => IInv'
<1> SUFFICES ASSUME IInv, Reuse \/ Renew PROVE IInv'
  OBVIOUS
<1>1. /\ pc' = "idle" /\ line' = NoLine /\ calls' = <<>> /\ err' = "nil"
      /\ exit' = "none" /\ env' = env
      /\ before' = [agent |-> Seam("none"), installer |-> Seam("none")]
  BY DEF Reuse, Renew, Reset
<1>2. agent' \in Seams /\ installer' \in Seams /\ out' \in {"nil", "given", "discard"}
  <2>1. CASE Reuse
    BY <2>1 DEF Reuse, runner, IInv, TypeOK
  <2>2. CASE Renew
    BY <2>2, PlainSeams DEF Renew, NewRunner
  <2>3. QED
    BY <2>1, <2>2
<1>3. DOMAIN calls' = {}
  BY <1>1, NoPositions
<1>4. before' \in [agent : Seams, installer : Seams]
  BY <1>1, PlainSeams
<1>5. TypeOK'
  BY <1>1, <1>2, <1>3, <1>4 DEF TypeOK, CallErrors
<1>6. EnvTyped' /\ CallsTyped'
  <2>1. CallsTyped'
    BY <1>1 DEF CallsTyped
  <2>2. QED
    BY <1>1, <2>1 DEF IInv, EnvTyped
<1>7. StepFitsLine' /\ OneFails' /\ ReportFits' /\ ExitFits'
  BY <1>1, <1>3
     DEF StepFitsLine, OneFails, ReportFits, ExitFits, Methods, AgentCalls,
         InstallerCalls
<1>8. SeamsFit'
  BY <1>1 DEF SeamsFit, Seam
<1>9. QED
  BY <1>5, <1>6, <1>7, <1>8 DEF IInv

LEMMA Inductive == IInv /\ [Next]_vars => IInv'
<1> SUFFICES ASSUME IInv, [Next]_vars PROVE IInv'
  OBVIOUS
<1>1. CASE \E l \in Lines : Run(l.command, l.rest)
  BY <1>1, RunKeeps
<1>2. CASE \E method \in AgentCalls \cup InstallerCalls : Call(method)
  BY <1>2, CallKeeps
<1>3. CASE StagingFails
  BY <1>3, OwnErrorKeeps DEF StagingFails
<1>4. CASE Encode
  BY <1>4, OwnErrorKeeps DEF Encode
<1>5. CASE Report
  BY <1>5, ReportKeeps
<1>6. CASE Reuse \/ Renew
  BY <1>6, ResetKeeps
<1>7. CASE UNCHANGED vars
  <2>1. Last' = Last
    BY <1>7 DEF vars, Last
  <2>2. UNCHANGED <<agent, installer, out, env, before, line, pc, calls, err, exit>>
    BY <1>7 DEF vars, runner
  <2>3. TypeOK' /\ EnvTyped' /\ CallsTyped' /\ SeamsFit'
    <3>1. TypeOK'
      BY <2>2 DEF IInv, TypeOK
    <3>2. EnvTyped' /\ CallsTyped'
      BY <2>2 DEF IInv, EnvTyped, CallsTyped
    <3>3. SeamsFit'
      BY <2>2 DEF IInv, SeamsFit
    <3>4. QED
      BY <3>1, <3>2, <3>3
  <2>4. StepFitsLine' /\ OneFails' /\ ReportFits' /\ ExitFits'
    BY <2>1, <2>2 DEF IInv, StepFitsLine, OneFails, ReportFits, ExitFits
  <2>5. QED
    BY <2>3, <2>4 DEF IInv
<1>8. QED
  BY <1>1, <1>2, <1>3, <1>4, <1>5, <1>6, <1>7 DEF Next

LEMMA Invariance == Spec => []IInv
  BY InitIInv, Inductive, PTL DEF Spec

-----------------------------------------------------------------------------
(***************************************************************************)
(* The variables of the Runner keep their types, whatever the arguments:   *)
(* its seams hold what they were given, or a client for a server and a     *)
(* group that the arguments, the environment or the local commands name.   *)
(***************************************************************************)
THEOREM TypeCorrect == Spec => []TypeOK
<1>1. IInv => TypeOK
  BY DEF IInv
<1>2. QED
  BY <1>1, Invariance, PTL

(***************************************************************************)
(* A command line that exits with 2 has made no call and has left the      *)
(* Runner as it was, for any number of arguments.                          *)
(***************************************************************************)
THEOREM UsageIsHarmless == Spec => []UsageTouchesNothing
<1>1. IInv => UsageTouchesNothing
  BY DEF IInv, StepFitsLine, ExitFits, UsageTouchesNothing
<1>2. QED
  BY <1>1, Invariance, PTL

(***************************************************************************)
(* With an Agent in its seam a Runner calls what its seams held, and never *)
(* a client of its own, for any number of arguments.                       *)
(***************************************************************************)
THEOREM AgentShields == Spec => []InjectedAgentShields
<1>1. IInv => InjectedAgentShields
  BY DEF IInv, SeamsFit, InjectedAgentShields
<1>2. QED
  BY <1>1, Invariance, PTL

(***************************************************************************)
(* Nothing follows a call that failed, and the exit status is what the     *)
(* last call makes it, for any number of arguments.                        *)
(***************************************************************************)
THEOREM ExitIsTrue == Spec => []ExitTellsTruth
<1>1. IInv => ExitTellsTruth
  BY DEF IInv, StepFitsLine, OneFails, ExitFits, Last, Refusals, ExitTellsTruth
<1>2. QED
  BY <1>1, Invariance, PTL

-----------------------------------------------------------------------------
(***************************************************************************)
(* A further strengthening for ServedAsAsked: while a Runner that came     *)
(* without an Agent makes its calls, its command line has been parsed,     *)
(* both its seams hold the client of this line's options, and it downloads *)
(* and installs only for a connect.                                        *)
(***************************************************************************)
Accepted == parsed(line.command, line.rest) = "ok"

ServedFits ==
  before.agent.kind = "none" =>
    /\ pc \in Methods =>
         Accepted /\ agent = Client(opts) /\ installer = Client(opts)
    /\ \A n \in DOMAIN calls :
         /\ Accepted
         /\ calls[n].seam = Client(opts)
         /\ calls[n].method \in {"Download", "Install"} => line.command = "connect"

LEMMA ServedInit == Init => ServedFits
<1> SUFFICES ASSUME Init PROVE ServedFits
  OBVIOUS
<1>1. DOMAIN calls = {} /\ pc \notin Methods
  BY NoPositions DEF Init, Methods, AgentCalls, InstallerCalls
<1>2. QED
  BY <1>1 DEF ServedFits

LEMMA ServedRun ==
  ASSUME IInv, NEW l \in Lines, Run(l.command, l.rest)
  PROVE  ServedFits'
<1> DEFINE o == Options(l.command, l.rest)
<1>1. calls' = <<>> /\ UNCHANGED env /\ before'.agent = agent
  BY DEF Run, IInv, StepFitsLine
<1>2. opts' = o
  BY <1>1 DEF Run, opts, Options, fallback
<1>3. DOMAIN calls' = {}
  BY <1>1, NoPositions
<1>4. ASSUME agent.kind = "none", pc' \in Methods
      PROVE  Accepted' /\ agent' = Client(o) /\ installer' = Client(o)
  <2>1. pc' # "returned"
    BY <1>4 DEF Methods, AgentCalls, InstallerCalls
  <2>2. /\ ensureSeams(o).ok
        /\ agent' = ensureSeams(o).agent /\ installer' = ensureSeams(o).installer
    BY <2>1 DEF Run, End
  <2>3. ensureSeams(o) = wireClient(o)
    BY <1>4 DEF ensureSeams, wired
  <2>4. Accepted'
    <3>1. parsed(l.command, l.rest) = "ok"
      BY <2>1 DEF Run, End
    <3>2. line'.command = l.command /\ line'.rest = l.rest
      BY DEF Run
    <3>3. QED
      BY <3>1, <3>2 DEF Accepted, parsed, Stops
  <2> HIDE DEF o
  <2>5. QED
    BY <2>2, <2>3, <2>4 DEF wireClient
<1>5. QED
  BY <1>1, <1>2, <1>3, <1>4 DEF ServedFits

\* A line that stays has the same options and the same verdict.
LEMMA LineKept ==
  ASSUME UNCHANGED <<env, line>>
  PROVE  opts' = opts /\ Accepted' = Accepted
<1>1. opts' = opts
  BY DEF opts, Options, fallback
<1>2. Accepted' = Accepted
  BY DEF Accepted, parsed, Stops
<1>3. QED
  BY <1>1, <1>2

LEMMA ServedCall ==
  ASSUME IInv, ServedFits, NEW method, Call(method)
  PROVE  ServedFits'
<1>1. /\ pc = method /\ method \in Methods
      /\ UNCHANGED <<agent, installer, env, before, line>>
  BY DEF Call, Methods, runner
<1>2. opts' = opts /\ Accepted' = Accepted
  BY <1>1, LineKept
<1>3. method \in {"Download", "Install"} => line.command = "connect"
  BY <1>1 DEF IInv, StepFitsLine
<1>4. CASE UNCHANGED calls /\ pc' = "report"
  BY <1>1, <1>2, <1>4 DEF ServedFits, Methods, AgentCalls, InstallerCalls
<1>5. ASSUME NEW e \in CallErrors,
             calls' = Append(calls,
               [method |-> method, seam |-> SeamOf(method), err |-> e])
      PROVE  ServedFits'
  <2> DEFINE c == [method |-> method, seam |-> SeamOf(method), err |-> e]
  <2>1. agent \in Seams /\ installer \in Seams
    BY DEF IInv, TypeOK
  <2>2. c \in CallRecords
    BY <1>1, <2>1 DEF CallRecords, SeamOf
  <2>3. \A n \in DOMAIN calls' :
          calls'[n] = c \/ (n \in DOMAIN calls /\ calls'[n] = calls[n])
    BY <1>5, <2>2, OneMoreCall DEF IInv
  <2>4. c.method = method /\ c.seam \in {agent, installer}
    BY DEF SeamOf
  <2> HIDE DEF c
  <2>5. ASSUME before.agent.kind = "none"
        PROVE  /\ Accepted /\ agent = Client(opts) /\ installer = Client(opts)
               /\ \A n \in DOMAIN calls' :
                    /\ calls'[n].seam = Client(opts)
                    /\ calls'[n].method \in {"Download", "Install"} =>
                         line.command = "connect"
    BY <1>1, <1>3, <2>3, <2>4, <2>5 DEF ServedFits
  <2>6. QED
    BY <1>1, <1>2, <2>5 DEF ServedFits
<1>6. QED
  BY <1>4, <1>5 DEF Call

LEMMA ServedInductive == IInv /\ ServedFits /\ [Next]_vars => ServedFits'
<1> SUFFICES ASSUME IInv, ServedFits, [Next]_vars PROVE ServedFits'
  OBVIOUS
<1>1. CASE \E l \in Lines : Run(l.command, l.rest)
  BY <1>1, ServedRun
<1>2. CASE \E method \in AgentCalls \cup InstallerCalls : Call(method)
  BY <1>2, ServedCall
<1>3. CASE StagingFails \/ Encode \/ Report
  <2>1. /\ UNCHANGED <<env, before, line, calls>>
        /\ pc' \in {"report", "panicked", "returned"}
    BY <1>3 DEF StagingFails, Encode, Report, End
  <2>2. opts' = opts /\ Accepted' = Accepted
    BY <2>1, LineKept
  <2>3. QED
    BY <2>1, <2>2 DEF ServedFits, Methods, AgentCalls, InstallerCalls
<1>4. CASE Reuse \/ Renew
  <2>1. calls' = <<>> /\ pc' = "idle"
    BY <1>4 DEF Reuse, Renew, Reset
  <2>2. DOMAIN calls' = {}
    BY <2>1, NoPositions
  <2>3. QED
    BY <2>1, <2>2 DEF ServedFits, Methods, AgentCalls, InstallerCalls
<1>5. CASE UNCHANGED vars
  <2>1. UNCHANGED <<agent, installer, env, before, line, pc, calls>>
    BY <1>5 DEF vars, runner
  <2>2. opts' = opts /\ Accepted' = Accepted
    BY <2>1, LineKept
  <2>3. QED
    BY <2>1, <2>2 DEF ServedFits
<1>6. QED
  BY <1>1, <1>2, <1>3, <1>4, <1>5 DEF Next

\* Of a line that was accepted, flag.Parse has read just what stands ahead of
\* the first argument that is no flag.
LEMMA ReadIsAhead ==
  ASSUME line \in Lines, line.command = "connect", Accepted
  PROVE  LET flags == Read(line.command, line.rest)
         IN  DOMAIN flags = Ahead /\ \A i \in Ahead : flags[i] = line.rest[i]
<1> DEFINE rest == line.rest
           stops == Stops("connect", rest)
           flags == Read("connect", rest)
           known == FlagsOf("connect")
<1>1. rest \in Seq(Tokens) /\ flags \in Seq(Tokens)
  BY FlagsAreTokens
<1>2. /\ DOMAIN rest = 1 .. Len(rest) /\ Len(rest) \in Nat
      /\ Ahead = {i \in DOMAIN rest : \A j \in 1 .. i : rest[j].name \in known}
      /\ \A i \in DOMAIN rest : rest[i].name \notin known => i \in stops
  <2>1. Ahead = {i \in DOMAIN rest : \A j \in 1 .. i : rest[j].name \in known}
    BY DEF Ahead
  <2>2. \A i \in DOMAIN rest : rest[i].name \notin known => i \in stops
    BY DEF Stops
  <2>3. QED
    BY <1>1, <2>1, <2>2
<1>3. CASE stops = {}
  <2>1. flags = rest
    BY <1>3 DEF Read
  <2> HIDE DEF known, stops, flags, rest
  <2>2. \A i \in 1 .. Len(rest) : i \in Ahead
    BY <1>2, <1>3
  <2>3. DOMAIN rest = Ahead
    BY <1>2, <2>2
  <2>4. QED
    BY <2>1, <2>3 DEF flags, rest
<1>4. CASE stops # {}
  <2>1. /\ flags = SubSeq(rest, 1, Min(stops) - 1)
        /\ stops \subseteq 1 .. Len(rest)
    <3>1. flags = SubSeq(rest, 1, Min(stops) - 1)
      BY <1>4 DEF Read
    <3>2. stops \subseteq DOMAIN rest
      BY DEF Stops
    <3>3. QED
      BY <1>2, <3>1, <3>2
  <2>2. rest[Min(stops)].name = ""
    <3> HIDE DEF known, flags
    <3>1. parsed("connect", rest) = "ok"
      BY DEF Accepted
    <3>2. QED
      BY <1>4, <3>1 DEF parsed
  <2>3. "" \notin known
    BY DEF FlagsOf
  <2> HIDE DEF known, stops, flags, rest
  <2>4. PICK k \in 1 .. Len(rest) : k = Min(stops) /\ \A i \in stops : k <= i
    <3>1. stops \subseteq Nat
      BY <1>2, <2>1
    <3>2. QED
      BY <1>4, <2>1, <3>1, MinIsMember
  <2>5. \A i \in 1 .. k - 1 : i \in 1 .. Len(rest) /\ rest[i].name \in known
    <3>1. \A i \in 1 .. k - 1 : i \in 1 .. Len(rest) /\ ~(k <= i)
      BY <1>2, <2>4
    <3>2. QED
      BY <1>2, <2>4, <3>1
  <2>6. Ahead = 1 .. k - 1
    <3>1. ASSUME NEW i \in 1 .. k - 1 PROVE i \in Ahead
      <4>1. 1 .. i \subseteq 1 .. k - 1
        BY <2>4
      <4>2. QED
        BY <1>2, <2>5, <4>1
    <3>2. ASSUME NEW i \in Ahead PROVE i \in 1 .. k - 1
      <4>1. i \in 1 .. Len(rest) /\ \A j \in 1 .. i : rest[j].name \in known
        BY <1>2
      <4>2. k \notin 1 .. i
        BY <2>2, <2>3, <2>4, <4>1
      <4>3. QED
        BY <1>2, <2>4, <4>1, <4>2
    <3>3. QED
      BY <3>1, <3>2
  <2>7. PICK m \in Nat : m = k - 1 /\ m <= Len(rest)
    BY <1>2, <2>4
  <2>8. flags = SubSeq(rest, 1, m) /\ Ahead = 1 .. m
    BY <2>1, <2>4, <2>6, <2>7
  <2>9. \A i \in 1 .. m : rest[i] \in Tokens
    <3>1. \A i \in 1 .. m : i \in 1 .. Len(rest)
      BY <1>2, <2>7
    <3>2. QED
      BY <1>1, <3>1, ElementOfSeq
  <2>10. /\ Len(flags) = IF 1 <= m THEN m - 1 + 1 ELSE 0
         /\ \A i \in 1 .. m - 1 + 1 : flags[i] = rest[1 + i - 1]
    BY <2>8, <2>9, SubSeqProperties
  <2>11. m - 1 + 1 = m /\ (~(1 <= m) => m = 0) /\ \A i \in 1 .. m : 1 + i - 1 = i
    OBVIOUS
  <2>12. Len(flags) = m /\ \A i \in 1 .. m : flags[i] = rest[i]
    BY <2>10, <2>11
  <2>13. DOMAIN flags = 1 .. m
    BY <1>1, <2>12, LenProperties
  <2>14. QED
    BY <2>8, <2>12, <2>13 DEF flags, rest
<1>5. QED
  BY <1>3, <1>4

\* So the value an option has is the one that decides.
LEMMA ValueDecides ==
  ASSUME line \in Lines, line.command = "connect", Accepted, NEW name, NEW default
  PROVE  Decided(name, default, Value(Read(line.command, line.rest), name, default))
<1> DEFINE flags == Read(line.command, line.rest)
           given == {i \in DOMAIN flags : flags[i].name = name}
<1>1. /\ flags \in Seq(Tokens)
      /\ DOMAIN flags = Ahead
      /\ \A i \in Ahead : flags[i] = line.rest[i]
  BY FlagsAreTokens, ReadIsAhead
<1>2. CASE given = {}
  <2>1. Value(flags, name, default) = default
    BY <1>2 DEF Value
  <2>2. \A i \in Ahead : line.rest[i].name # name
    BY <1>1, <1>2
  <2>3. QED
    BY <2>1, <2>2 DEF Decided
<1>3. CASE given # {}
  <2>1. given \subseteq 0 .. Len(flags) /\ Len(flags) \in Nat
    BY <1>1
  <2>2. Max(given) \in given /\ \A i \in given : Max(given) >= i
    <3> HIDE DEF given
    <3>1. QED
      BY <1>3, <2>1, MaxIsMember
  <2>3. Value(flags, name, default) = flags[Max(given)].value
    BY <1>3 DEF Value
  <2>4. PICK i \in given : i = Max(given) /\ \A j \in given : j <= i
    <3>1. \A i \in given : i \in Nat
      BY <2>1
    <3>2. QED
      BY <2>2, <3>1
  <2>5. /\ i \in Ahead /\ line.rest[i].name = name
        /\ line.rest[i].value = Value(flags, name, default)
        /\ \A j \in Ahead : line.rest[j].name = name => j <= i
    BY <1>1, <2>3, <2>4
  <2>6. QED
    BY <2>5 DEF Decided
<1>4. QED
  BY <1>2, <1>3

(***************************************************************************)
(* A Runner that came with neither seam downloads from the server, and for *)
(* the group, that its line's last flag ahead of any argument that is no   *)
(* flag gives, else the environment, for any number of arguments.          *)
(***************************************************************************)
THEOREM ServesAsAsked == Spec => []ServedAsAsked
<1>1. Spec => []ServedFits
  BY ServedInit, ServedInductive, Invariance, PTL DEF Spec
<1>2. IInv /\ ServedFits => ServedAsAsked
  <2> SUFFICES ASSUME IInv, ServedFits, before.agent.kind = "none",
                      NEW n \in DOMAIN calls,
                      calls[n].method \in {"Download", "Install"}
               PROVE  /\ line.command = "connect"
                      /\ Decided("server", env.server, calls[n].seam.server)
                      /\ Decided("group", env.group, calls[n].seam.group)
    BY DEF ServedAsAsked
  <2>1. line.command = "connect" /\ calls[n].seam = Client(opts) /\ Accepted
    BY DEF ServedFits
  <2>2. line \in Lines
    <3>1. line \in Lines \cup {NoLine}
      BY DEF IInv, TypeOK
    <3>2. NoLine.command # "connect"
      BY DEF NoLine
    <3>3. QED
      BY <2>1, <3>1, <3>2
  <2>3. /\ calls[n].seam.server =
             Value(Read(line.command, line.rest), "server", env.server)
        /\ calls[n].seam.group =
             Value(Read(line.command, line.rest), "group", env.group)
    BY <2>1 DEF Client, opts, Options, fallback
  <2>4. QED
    BY <2>1, <2>2, <2>3, ValueDecides
<1>3. QED
  BY <1>1, <1>2, Invariance, PTL
=============================================================================

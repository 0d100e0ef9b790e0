----------------------------- MODULE CommandLine -----------------------------
(***************************************************************************)
(* internal/cli: a Runner from its arguments to its exit status (Run,      *)
(* dispatch, parseInto, ensureSeams, report), with the calls each command  *)
(* makes on the two seams, Agent and Installer, that tests and embedders   *)
(* may fill.  Whatever answers a call may fail; what the calls do to a     *)
(* device is in Meshctl.  A Runner may be run again.                       *)
(***************************************************************************)
EXTENDS Naturals, Sequences, FiniteSetsExt

CONSTANTS
  Tokens,      \* arguments after the command: flags with their values
  MaxTokens    \* how many of them a command line has

ASSUME CommandLineAssumption ==
  /\ Tokens \subseteq [name : STRING, value : STRING]
  /\ MaxTokens \in Nat

VARIABLES
  agent,       \* Runner.Agent
  installer,   \* Runner.Installer
  out,         \* Runner.Out: "nil", "given" or "discard"
  env,         \* MESHAGENT_SERVER and MESHAGENT_GROUP
  before,      \* the seams when the command was run (history)
  line,        \* the command line, or NoLine
  pc,          \* the next call of the command
  calls,       \* the calls it has made, with what they returned (history)
  err,         \* the error it returns
  exit         \* the exit status, or "none" before the end

runner == <<agent, installer, out>>
vars == <<runner, env, before, line, pc, calls, err, exit>>

(***************************************************************************)
(* What a seam holds: nothing, a value that is an Agent, an Installer,     *)
(* both or neither of them, or a meshagent.Client for a server and group.  *)
(***************************************************************************)
Seam(kind) == [kind |-> kind, server |-> "", group |-> ""]

Client(opts) ==
  [kind |-> "client", server |-> opts.server, group |-> opts.group]

Agents == {"agent", "both", "client"}
Installers == {"installer", "both", "client"}

Lines ==
  [command : {"none", "help", "unknown", "connect", "disconnect", "status",
              "uninstall"},
   rest : UNION {[1 .. n -> Tokens] : n \in 0 .. MaxTokens}]

NoLine == [command |-> "idle", rest |-> <<>>]

AgentCalls == {"Status", "Download", "Connect", "Disconnect"}
InstallerCalls == {"Install", "Uninstall"}

\* A new Runner, as Run makes it for the program or an embedder for a test.
NewRunner ==
  /\ agent' \in {Seam(k) : k \in {"none", "agent", "both", "neither"}}
  /\ installer' \in {Seam(k) : k \in {"none", "installer", "neither"}}
  /\ out' \in {"nil", "given"}

Init ==
  /\ agent = Seam("none")
  /\ installer = Seam("none")
  /\ out = "given"
  /\ env \in [server : {"", "from env"}, group : {"", "from env"}]
  /\ before = [agent |-> Seam("none"), installer |-> Seam("none")]
  /\ line = NoLine
  /\ pc = "idle"
  /\ calls = <<>>
  /\ err = "nil"
  /\ exit = "none"

-----------------------------------------------------------------------------
\* newFlagSet and newServerFlagSet: the flags each command knows.
FlagsOf(command) ==
  {"service-name", "timeout"}
    \cup (IF command = "connect" THEN {"server", "group"} ELSE {})
    \cup (IF command = "status" THEN {"json"} ELSE {})

\* flag.Parse (external) reads flags up to the first argument that is none,
\* the first one it cannot read, or a plea for help.
Stops(command, rest) ==
  {i \in DOMAIN rest :
     rest[i].name \notin FlagsOf(command) \/ rest[i].value = "malformed"}

Read(command, rest) ==
  LET stops == Stops(command, rest)
  IN  IF stops = {} THEN rest ELSE SubSeq(rest, 1, Min(stops) - 1)

parsed(command, rest) ==
  LET stops == Stops(command, rest)
      last == rest[Min(stops)]
  IN  IF stops = {} \/ last.name = "" THEN "ok"
      ELSE IF last.name = "h" THEN "ErrHelp" ELSE "bad"

\* The last value given to a flag, or its default.
Value(flags, name, default) ==
  LET given == {i \in DOMAIN flags : flags[i].name = name}
  IN  IF given = {} THEN default ELSE flags[Max(given)].value

\* Mutant: the environment goes before the command line.
fallback_First(flags, name, fromEnv) ==
  IF fromEnv = "" THEN Value(flags, name, "") ELSE fromEnv

fallback(flags, name, fromEnv) == Value(flags, name, fromEnv)

\* connect's Options, or those of localOptions and statusCmd, whose client
\* is for a server that is never asked.
Options(command, rest) ==
  LET flags == Read(command, rest)
      bound == command = "connect"
  IN  [server |-> IF bound THEN fallback(flags, "server", env.server)
                           ELSE "https://localhost",
       group |-> IF bound THEN fallback(flags, "group", env.group)
                          ELSE "local",
       serviceName |-> Value(flags, "service-name", "Mesh Agent"),
       asJSON |-> Value(flags, "json", "false") = "true"]

opts == Options(line.command, line.rest)

requireOptions(o) == o.server # "" /\ o.group # "" /\ o.serviceName # ""

\* meshagent.New refuses some servers; what it refuses is in Facade.
newFails(o) == o.server = "not a URL"

-----------------------------------------------------------------------------
End(code) == exit' = code /\ pc' = "returned"

\* bindInstaller: an Agent that can install fills the other seam as well.
bindInstaller ==
  [ok |-> TRUE, agent |-> agent,
   installer |-> IF installer.kind = "none" /\ agent.kind = "both"
                   THEN agent ELSE installer]

\* Mutant: the client is assigned before New's error is looked at.
wireClient_Early(o) ==
  IF requireOptions(o)
    THEN [ok |-> ~newFails(o), agent |-> Client(o), installer |-> Client(o)]
    ELSE [ok |-> FALSE, agent |-> agent, installer |-> installer]

\* wireFromOptions: one client for both seams, or a problem of the options.
wireClient(o) ==
  IF requireOptions(o) /\ ~newFails(o)
    THEN [ok |-> TRUE, agent |-> Client(o), installer |-> Client(o)]
    ELSE [ok |-> FALSE, agent |-> agent, installer |-> installer]

\* Mutant: a client is wired for whichever seam is still open.
wired_Both(o) == agent.kind # "none" /\ installer.kind # "none"

\* ensureSeams: an Agent that is there is used as it is.
wired(o) == agent.kind # "none"

ensureSeams(o) == IF wired(o) THEN bindInstaller ELSE wireClient(o)

\* localOp and the two other commands: the call each begins with.
FirstCall ==
  [connect |-> "Status", status |-> "Status", disconnect |-> "Disconnect",
   uninstall |-> "Uninstall"]

(***************************************************************************)
(* Run: without a command, or with one that is unknown or cannot be        *)
(* parsed, it prints how it is used; otherwise it wires the seams, which   *)
(* can turn out to be a problem of the command line too.                   *)
(***************************************************************************)
Run(command, rest) ==
  LET o == Options(command, rest)
      verdict == parsed(command, rest)
      seams == ensureSeams(o)
      known == command \in DOMAIN FirstCall
  IN  /\ pc = "idle"
      /\ line' = [command |-> command, rest |-> rest]
      /\ before' = [agent |-> agent, installer |-> installer]
      /\ out' = IF out = "nil" /\ agent.kind = "none" /\ installer.kind = "none"
                  THEN "discard" ELSE out
      /\ \/ /\ command \in {"none", "unknown"} \/ (known /\ verdict = "bad")
            /\ End("ExitUsage") /\ UNCHANGED <<agent, installer>>
         \/ /\ command = "help" \/ (known /\ verdict = "ErrHelp")
            /\ End("ExitOK") /\ UNCHANGED <<agent, installer>>
         \/ /\ known /\ verdict = "ok"
            /\ agent' = seams.agent /\ installer' = seams.installer
            /\ IF seams.ok
                 THEN pc' = FirstCall[command] /\ UNCHANGED exit
                 ELSE End("ExitUsage")
      /\ UNCHANGED <<env, calls, err>>

\* The seam a call needs, and whether what it holds has the method.
SeamOf(method) == IF method \in InstallerCalls THEN installer ELSE agent

Able(method) ==
  SeamOf(method).kind \in IF method \in InstallerCalls THEN Installers ELSE Agents

\* Mutant: an agent that could not be installed is started all the same.
handler_Ignores(method) == IF method = "Install" THEN "Connect" ELSE "report"

\* Where an error leads.
handler(method) == "report"

\* Where success leads; Status tells connect whether to install.
After(method) ==
  CASE method = "Status" /\ line.command = "connect" -> {"Connect", "Download"}
    [] method = "Status" /\ line.command = "status" ->
         {IF opts.asJSON THEN "Encode" ELSE "report"}
    [] method = "Download" -> {"Install"}
    [] method = "Install" -> {"Connect"}
    [] method \in {"Connect", "Disconnect", "Uninstall"} -> {"report"}

CallErrors == {"nil", "ErrNotElevated", "ErrDownloadUnauthorized", "failed"}

\* withAgent and withInstaller: one call on a seam, if it holds what it must.
Call(method) ==
  /\ pc = method /\ method \in AgentCalls \cup InstallerCalls
  /\ IF Able(method)
       THEN \E e \in CallErrors :
              /\ calls' = Append(calls,
                   [method |-> method, seam |-> SeamOf(method), err |-> e])
              /\ err' = e
              /\ pc' \in IF e = "nil" THEN After(method) ELSE {handler(method)}
       ELSE /\ err' = "no seam"
            /\ pc' = "report"
            /\ UNCHANGED calls
  /\ UNCHANGED <<runner, env, before, line, exit>>

\* No staging directory, no download.
StagingFails ==
  /\ pc = "Download"
  /\ err' = "failed"
  /\ pc' = "report"
  /\ UNCHANGED <<runner, env, before, line, calls, exit>>

\* encode: the writer may fail, and a nil one is called all the same.
Encode ==
  /\ pc = "Encode"
  /\ \/ out = "nil" /\ pc' = "panicked" /\ UNCHANGED err
     \/ out # "nil" /\ pc' = "report" /\ UNCHANGED err
     \/ out = "given" /\ pc' = "report" /\ err' = "failed"
  /\ UNCHANGED <<runner, env, before, line, calls, exit>>

\* Mutant: an error without a case of its own has no exit status either.
report_Raw(e) ==
  CASE e = "nil" -> "ExitOK"
    [] e \in {"ErrNotElevated", "ErrDownloadUnauthorized"} -> "ExitDenied"
    [] OTHER -> e

\* report: the exit status of an error that is not about the command line.
report(e) ==
  CASE e = "nil" -> "ExitOK"
    [] e \in {"ErrNotElevated", "ErrDownloadUnauthorized"} -> "ExitDenied"
    [] OTHER -> "ExitError"

Report ==
  /\ pc = "report"
  /\ End(report(err))
  /\ UNCHANGED <<runner, env, before, line, calls, err>>

Reset ==
  /\ pc' = "idle"
  /\ line' = NoLine
  /\ calls' = <<>>
  /\ err' = "nil"
  /\ exit' = "none"
  /\ before' = [agent |-> Seam("none"), installer |-> Seam("none")]
  /\ UNCHANGED env

\* Its owner may run it again, with what it holds by now ...
Reuse == pc = "returned" /\ Reset /\ UNCHANGED runner

\* ... or makes a new one.
Renew == pc \in {"idle", "returned", "panicked"} /\ Reset /\ NewRunner

Next ==
  \/ \E l \in Lines : Run(l.command, l.rest)
  \/ \E method \in AgentCalls \cup InstallerCalls : Call(method)
  \/ StagingFails \/ Encode \/ Report \/ Reuse \/ Renew

Spec == Init /\ [][Next]_vars

-----------------------------------------------------------------------------
Seams ==
  {Seam(k) : k \in {"none", "agent", "both", "installer", "neither"}} \cup
  [kind : {"client"},
   server : {"https://localhost", "from env"} \cup {t.value : t \in Tokens},
   group : {"local", "from env"} \cup {t.value : t \in Tokens}]

TypeOK ==
  /\ agent \in Seams
  /\ installer \in Seams
  /\ out \in {"nil", "given", "discard"}
  /\ before \in [agent : Seams, installer : Seams]
  /\ line \in Lines \cup {NoLine}
  /\ pc \in AgentCalls \cup InstallerCalls \cup
              {"idle", "Encode", "report", "returned", "panicked"}
  /\ \A n \in DOMAIN calls : calls[n].err \in CallErrors
  /\ err \in CallErrors \cup {"no seam"}
  /\ exit \in {"none", "ExitOK", "ExitError", "ExitUsage", "ExitDenied"}

(***************************************************************************)
(* A command line that exits with 2 has made no call, and has left both    *)
(* seams as they were: the next run does not find half a client in them.   *)
(* (Run may have put io.Discard in Out.)                                   *)
(***************************************************************************)
UsageTouchesNothing ==
  exit = "ExitUsage" =>
    /\ calls = <<>>
    /\ agent = before.agent
    /\ installer = before.installer

(***************************************************************************)
(* cli/types.go:55: "Agent overrides the client the commands drive".  With *)
(* an Agent in its seam a Runner never makes a client of its own, which    *)
(* would act on the machine a test runs on: every call goes to what the    *)
(* seams held, or to the Agent where it can install and nothing else does. *)
(***************************************************************************)
InjectedAgentShields ==
  before.agent.kind # "none" =>
    \A n \in DOMAIN calls : calls[n].seam \in {before.agent, before.installer}

\* The arguments ahead of the first that is no flag of connect ...
Ahead ==
  {i \in DOMAIN line.rest :
     \A j \in 1 .. i : line.rest[j].name \in FlagsOf("connect")}

\* ... of which the last to give a flag decides, or the environment if none does.
Decided(name, fromEnv, value) ==
  \/ \E i \in Ahead :
       /\ line.rest[i].name = name /\ line.rest[i].value = value
       /\ \A j \in Ahead : line.rest[j].name = name => j <= i
  \/ /\ \A i \in Ahead : line.rest[i].name # name
     /\ value = fromEnv

(***************************************************************************)
(* A Runner that comes with neither seam downloads and installs for a      *)
(* connect only, from the server and for the group its command line gives: *)
(* the last of each that stands before the first argument that is no flag, *)
(* else the environment's.  What follows such an argument has no say.  The *)
(* client that the local commands make with placeholders downloads nothing.*)
(***************************************************************************)
ServedAsAsked ==
  (before.agent.kind = "none" /\ before.installer.kind = "none") =>
    \A n \in DOMAIN calls : calls[n].method \in {"Download", "Install"} =>
      /\ line.command = "connect"
      /\ Decided("server", env.server, calls[n].seam.server)
      /\ Decided("group", env.group, calls[n].seam.group)

\* The call that a command is for.
Goal ==
  [connect |-> "Connect", status |-> "Status", disconnect |-> "Disconnect",
   uninstall |-> "Uninstall"]

(***************************************************************************)
(* Nothing follows a call that failed, and the exit status tells the truth *)
(* about the calls: success only after the one the command is for, refused *)
(* exactly when the last call was.                                         *)
(***************************************************************************)
ExitTellsTruth ==
  /\ \A n \in DOMAIN calls : calls[n].err # "nil" => n = Len(calls)
  /\ (exit = "ExitOK" /\ calls # <<>>) =>
       /\ calls[Len(calls)].method = Goal[line.command]
       /\ calls[Len(calls)].err = "nil"
  /\ exit = "ExitDenied" <=>
       /\ pc = "returned" /\ calls # <<>>
       /\ calls[Len(calls)].err \in {"ErrNotElevated", "ErrDownloadUnauthorized"}
=============================================================================

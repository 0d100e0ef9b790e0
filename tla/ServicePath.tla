----------------------------- MODULE ServicePath -----------------------------
(***************************************************************************)
(* How the program of a service is found: an installer registers the       *)
(* service with a command line, winscm cuts the path out of it             *)
(* (binaryPath, ExecutableFrom), and agentinstall looks at what it got     *)
(* before it runs it (installedBinary).                                    *)
(***************************************************************************)
EXTENDS Text

CONSTANTS
  Paths,      \* executables a service may be registered with
  Arguments   \* what may follow them in the command line

quoteMark == "\""

\* No path on Windows holds a quote, starts or ends in a blank.
ASSUME ServicePathAssumption ==
  /\ Paths \subseteq Seq(STRING) \ {<<>>}
  /\ \A p \in Paths :
       At(p, {quoteMark}) = {} /\ p[1] \notin Blank /\ p[Len(p)] \notin Blank
  /\ Arguments \subseteq Seq(STRING)

\* Windows starts all of these, an unquoted path with blanks in it included.
Registrations == [path : Paths, args : Arguments, quoted : BOOLEAN]

NotRegistered == [path |-> <<>>, args |-> <<>>, quoted |-> FALSE]

\* The ImagePath an installer writes.
CommandLine(r) ==
  (IF r.quoted THEN <<quoteMark>> \o r.path \o <<quoteMark>> ELSE r.path)
    \o (IF r.args = <<>> THEN <<>> ELSE <<Space>> \o r.args)

\* Mutant: the last quote is taken for the closing one.
quotedExecutable_Last(commandLine) ==
  LET quotes == At(commandLine, {quoteMark})
      last == CHOOSE i \in quotes : \A j \in quotes : j <= i
  IN  SubSeq(commandLine, 2, last - 1)

\* firstToken adds the rest of the line and takes it off again.
quotedExecutable(commandLine) ==
  Cut(SubSeq(commandLine, 2, Len(commandLine)), quoteMark).before

unquotedExecutable(commandLine) == Cut(commandLine, Space).before

ExecutableFrom(commandLine) ==
  LET trimmed == TrimSpace(commandLine)
  IN  IF HasPrefix(trimmed, <<quoteMark>>)
        THEN quotedExecutable(trimmed)
        ELSE unquotedExecutable(trimmed)

\* binaryPath: a service that is not there, or whose configuration cannot be
\* read, has an empty path.
binaryPath(r, readable) ==
  IF readable /\ r # NotRegistered THEN ExecutableFrom(CommandLine(r)) ELSE <<>>

\* installedBinary: what stops an uninstall before it runs anything.
installedBinary(r, path) ==
  CASE r = NotRegistered -> "ErrNotInstalled"
    [] r # NotRegistered /\ path = <<>> -> "ErrUnknownServicePath"
    [] OTHER -> "nil"

\* What the cut at the first space cannot mislead.
Unambiguous(r) == r.quoted \/ At(r.path, {Space}) = {}
=============================================================================

------------------------------- MODULE Facade -------------------------------
(***************************************************************************)
(* Package meshagent (src/funcs.go): New, which validates a Config and     *)
(* wires a Client, and the Client's methods, each of which hands the call  *)
(* to one adapter; with what the adapters put into their requests: the     *)
(* names of artifact, the locator of meshserver and meshpath's Endpoint,   *)
(* and the program that Status shows and Uninstall runs, by ServicePath.   *)
(* What the adapters do with a call is in the other modules.               *)
(***************************************************************************)
EXTENDS ServicePath, Integers

CONSTANTS
  Urls,     \* server URLs, as url.Parse sees them
  Archs     \* values of Config.Arch, 0 for none

ASSUME FacadeAssumption ==
  /\ Urls \subseteq [scheme : STRING, host : STRING, path : Seq(STRING),
                     tail : BOOLEAN]
  /\ Archs \subseteq Int

VARIABLES
  goarch,    \* runtime.GOARCH of the build
  config,    \* the Config given to New
  result,    \* New's error, or "none" before it is called
  client,    \* the Client it returned, or NoClient
  request,   \* the last request of an adapter, or NoRequest
  answer     \* the last call of the Client, or NoAnswer

vars == <<goarch, config, result, client, request, answer>>

Flags == {"", "both", "interactive", "background"}

\* A value that none of the constants names; a ServiceName is not modelled.
Configs ==
  [url : Urls, group : {Space, "g"}, arch : Archs,
   flags : Flags \cup {"unknown"}, cookie : {"", "c"}]

-----------------------------------------------------------------------------
ArchWindows32 == 3
ArchWindows64 == 4
ArchWindowsARM64 == 43

\* Mutant: no architecture is refused.
Valid_Any(arch) == arch \in Int

Valid(arch) == arch \in {ArchWindows32, ArchWindows64, ArchWindowsARM64}

archForGOARCH(name) ==
  CASE name = "386" -> ArchWindows32
    [] name = "arm64" -> ArchWindowsARM64
    [] OTHER -> ArchWindows64

\* Mutant: the fallback's name for one architecture too many.
BinaryName_Fallback(arch) ==
  IF arch = ArchWindows32 THEN "meshagent32.exe" ELSE "meshagent64.exe"

BinaryName(arch) ==
  CASE arch = ArchWindows32 -> "meshagent32.exe"
    [] arch = ArchWindowsARM64 -> "meshagentarm64.exe"
    [] OTHER -> "meshagent64.exe"

Wire(flags) ==
  CASE flags = "both" -> 0
    [] flags = "interactive" -> 1
    [] OTHER -> 2

\* Mutant: the zero value is taken for an architecture.
resolveArch_Raw(value) == value

resolveArch(value) == IF value = 0 THEN archForGOARCH(goarch) ELSE value

\* Mutant: an unset value is left to Wire and MeshCentral's own default.
resolveFlags_Unset(value) == IF value = "" THEN "both" ELSE value

resolveFlags(value) == IF value = "" THEN "background" ELSE value

-----------------------------------------------------------------------------
(***************************************************************************)
(* The URLs of package net/url (external).  A raw URL is its scheme, its   *)
(* host, its path with "%2F" as one character, and whether a query follows *)
(* that.  Parsing decodes the path and keeps the raw one; printing uses    *)
(* the raw one as long as it still decodes to the path, and otherwise      *)
(* encodes the path, in which a slash is a slash.                          *)
(***************************************************************************)
decoded(path) == [i \in DOMAIN path |-> IF path[i] = "%2F" THEN "/" ELSE path[i]]

parse(raw) ==
  [scheme |-> raw.scheme, host |-> raw.host,
   path |-> decoded(raw.path), rawPath |-> raw.path]

escapedPath(url) ==
  IF decoded(url.rawPath) = url.path THEN url.rawPath ELSE url.path

\* A query shields the slash in front of it; without a path, only the
\* slashes before an absent host are left to trim.
trimmed(raw) ==
  IF raw.tail THEN raw ELSE [raw EXCEPT !.path = TrimRight(@, "/")]

blank(raw) == raw.scheme = "" /\ raw.host = "" /\ raw.path = <<>> /\ ~raw.tail

(***************************************************************************)
(* requireConfig and validateConfig, then parseServerURL and               *)
(* checkServerURL: each check in its order, with the error of one that     *)
(* fails.                                                                  *)
(***************************************************************************)
checks(cfg) ==
  <<[err |-> "errServerURLRequired", ok |-> ~blank(cfg.url)],
    [err |-> "errGroupIDRequired", ok |-> cfg.group # Space],
    [err |-> "errBadArch", ok |-> Valid(resolveArch(cfg.arch))],
    [err |-> "errBadInstallFlags", ok |-> resolveFlags(cfg.flags) \in Flags],
    [err |-> "parse", ok |-> cfg.url.host # "malformed"],
    [err |-> "errBadScheme", ok |-> cfg.url.scheme \in {"http", "https"}],
    [err |-> "errMissingHost", ok |-> cfg.url.host # ""]>>

Problems ==
  {"errServerURLRequired", "errGroupIDRequired", "errBadArch",
   "errBadInstallFlags", "parse", "errBadScheme", "errMissingHost"}

firstProblem(cfg) ==
  LET failed == {n \in DOMAIN checks(cfg) : ~checks(cfg)[n].ok}
  IN  IF failed = {} THEN "nil" ELSE checks(cfg)[Min(failed)].err

-----------------------------------------------------------------------------
NoClient == [arch |-> 0]

NoRequest == [endpoint |-> "none"]

NoAnswer == [method |-> "none"]

Init ==
  /\ goarch \in {"386", "amd64", "arm64"}
  /\ config \in Configs
  /\ result = "none"
  /\ client = NoClient
  /\ request = NoRequest
  /\ answer = NoAnswer

\* newClient: what the adapters keep of the configuration.
newClient(cfg) ==
  [serverURL |-> parse(trimmed(cfg.url)),
   group |-> cfg.group,
   authCookie |-> cfg.cookie,
   arch |-> resolveArch(cfg.arch),
   installFlags |-> resolveFlags(cfg.flags)]

New ==
  /\ result = "none"
  /\ result' = firstProblem(config)
  /\ client' = IF result' = "nil" THEN newClient(config) ELSE NoClient
  /\ UNCHANGED <<goarch, config, request, answer>>

\* Mutant: the separator is added whatever the prefix ends in.
joinPath_Untrimmed(prefix, name) == prefix \o <<"/", name>>

joinPath(prefix, name) == TrimRight(prefix, "/") \o <<"/", name>>

\* Endpoint: only the path and the query of the server's URL are replaced.
Endpoint(base, name) ==
  escapedPath([base EXCEPT !.path = joinPath(base.path, name)])

\* Mutant: the flags are sent only when they are the default.
agents_Inverted ==
  IF Wire(client.installFlags) # 0
    THEN [id |-> client.arch, meshid |-> client.group]
    ELSE [id |-> client.arch, meshid |-> client.group,
          installflags |-> Wire(client.installFlags)]

\* locator.agents: the query of a download; flags that are 0 are not sent.
agents ==
  IF Wire(client.installFlags) = 0
    THEN [id |-> client.arch, meshid |-> client.group]
    ELSE [id |-> client.arch, meshid |-> client.group,
          installflags |-> Wire(client.installFlags)]

\* locator.settings: here the id is the group's.
settings == [id |-> client.group]

\* send: the request for one of the two endpoints.
send(endpoint, query) ==
  request' = [endpoint |-> endpoint,
              scheme |-> client.serverURL.scheme,
              host |-> client.serverURL.host,
              path |-> Endpoint(client.serverURL, endpoint),
              query |-> query,
              cookie |-> client.authCookie]

Methods ==
  {"Download", "Settings", "Install", "Uninstall", "Connect", "Disconnect",
   "Status"}

\* What an adapter may report, of the errors that package meshagent exports.
PortErrors ==
  {"nil", "ErrUnsupportedPlatform", "ErrNotElevated", "ErrNotInstalled",
   "ErrDownloadUnauthorized", "ErrUnknownServicePath", "failed"}

(***************************************************************************)
(* A method's result: the adapter's error, which the %w of every layer     *)
(* passes on, and beside it the registration the adapter found and the     *)
(* path it shows, or runs.                                                 *)
(***************************************************************************)
Answer(method, err, r, path) ==
  answer' = [method |-> method, err |-> err, registered |-> r, path |-> path]

Download(err) ==
  /\ client # NoClient /\ answer = NoAnswer
  /\ send("meshagents", agents)
  /\ Answer("Download", err, NotRegistered, <<>>)
  /\ UNCHANGED <<goarch, config, result, client>>

Settings(err) ==
  /\ client # NoClient /\ answer = NoAnswer
  /\ send("meshsettings", settings)
  /\ Answer("Settings", err, NotRegistered, <<>>)
  /\ UNCHANGED <<goarch, config, result, client>>

\* Install, Connect and Disconnect, and what fails before a status is read.
Local(method, err) ==
  /\ client # NoClient /\ answer = NoAnswer
  /\ Answer(method, err, NotRegistered, <<>>)
  /\ UNCHANGED <<goarch, config, result, client, request>>

\* Status: the registration as it is at the time of the call.
Status(r, readable) ==
  /\ client # NoClient /\ answer = NoAnswer
  /\ Answer("Status", "nil", r, binaryPath(r, readable))
  /\ UNCHANGED <<goarch, config, result, client, request>>

\* Uninstall: one look at the registration, then its program is run.
Uninstall(r, readable) ==
  /\ client # NoClient /\ answer = NoAnswer
  /\ LET path == binaryPath(r, readable)
         problem == installedBinary(r, path)
     IN  IF problem # "nil"
           THEN Answer("Uninstall", problem, r, <<>>)
           ELSE \E err \in {"nil", "failed"} : Answer("Uninstall", err, r, path)
  /\ UNCHANGED <<goarch, config, result, client, request>>

\* The caller has the answer; a Client keeps nothing of a call.
Return ==
  /\ answer # NoAnswer
  /\ answer' = NoAnswer
  /\ request' = NoRequest
  /\ UNCHANGED <<goarch, config, result, client>>

Next ==
  \/ New \/ Return
  \/ \E err \in PortErrors :
       \/ Download(err) \/ Settings(err)
       \/ \E method \in {"Install", "Connect", "Disconnect"} :
            Local(method, err)
       \/ err # "nil" /\ \E method \in {"Status", "Uninstall"} :
            Local(method, err)
  \/ \E r \in Registrations \cup {NotRegistered}, readable \in BOOLEAN :
       Status(r, readable) \/ Uninstall(r, readable)

Spec == Init /\ [][Next]_vars

-----------------------------------------------------------------------------
Queries ==
  [id : {3, 4, 43}, meshid : {"g"}] \cup
  [id : {3, 4, 43}, meshid : {"g"}, installflags : {1, 2}] \cup
  [id : {"g"}]

TypeOK ==
  /\ config \in Configs
  /\ result \in Problems \cup {"none", "nil"}
  /\ client # NoClient =>
       /\ result = "nil"
       /\ client.arch \in {3, 4, 43}
       /\ client.installFlags \in Flags \ {""}
  /\ request # NoRequest => request.query \in Queries
  /\ answer # NoAnswer => answer.err \in PortErrors

(***************************************************************************)
(* What a MeshCentral server makes of the request for an agent (external): *)
(* an absent flag is 0, which offers everything to the device's user.      *)
(***************************************************************************)
flagsReceived ==
  IF "installflags" \in DOMAIN request.query
    THEN request.query.installflags
    ELSE 0

(***************************************************************************)
(* src/types.go:37-72.  The server that is asked for an agent finds in the *)
(* request what the caller configured: its group, its architecture or the  *)
(* one the program was built for, its flags or background only.  The file  *)
(* the agent is saved in has a name no other architecture's agent has.     *)
(***************************************************************************)
RequestMeansConfig ==
  request.endpoint = "meshagents" =>
    /\ request.scheme \in {"http", "https"}
    /\ request.host = config.url.host
    /\ request.cookie = config.cookie
    /\ request.query.meshid = config.group
    /\ config.arch # 0 => request.query.id = config.arch
    /\ config.arch = 0 =>
         request.query.id = (CASE goarch = "386" -> 3
                               [] goarch = "amd64" -> 4
                               [] goarch = "arm64" -> 43)
    /\ flagsReceived =
         (CASE config.flags \in {"", "background"} -> 2
            [] config.flags = "interactive" -> 1
            [] config.flags = "both" -> 0)
    /\ \A other \in {3, 4, 43} \ {request.query.id} :
         BinaryName(other) # BinaryName(request.query.id)

(***************************************************************************)
(* src/types.go:36: "Only ServerURL and GroupID are required".  With good  *)
(* ones New fails for no field that the caller has left out, on whatever   *)
(* machine the program was built for.                                      *)
(***************************************************************************)
OnlyRequiredFields ==
  (/\ result # "none"
   /\ config.url.scheme = "https" /\ config.url.host = "h"
   /\ config.group = "g"
   /\ config.arch = 0 /\ config.flags = "") =>
     /\ result = "nil"
     /\ client # NoClient

\* The path of an end point below the prefix the caller gave.
Prefixed(name) == TrimRight(config.url.path, "/") \o <<"/", name>>

(***************************************************************************)
(* meshpath/funcs.go:13: "Any path prefix on base is preserved, which is   *)
(* how MeshCentral addresses non-default domains": with one slash between  *)
(* the prefix and the endpoint, however the caller ended the URL.  A       *)
(* prefix with an escaped slash in it is the exception: Endpoint changes   *)
(* the path but not the raw path, and the slash reaches the server as a    *)
(* plain one.                                                              *)
(***************************************************************************)
PrefixKept ==
  (request # NoRequest /\ At(config.url.path, {"%2F"}) = {}) =>
    request.path = Prefixed(request.endpoint)

(***************************************************************************)
(* winscm/scm_windows.go:188.  The program that Uninstall runs, and Status *)
(* shows, is the one the service was registered with, whatever arguments,  *)
(* further quotes and blanks follow it, when its path was quoted or has no *)
(* blank to mislead the cut; and nothing is run for a service that is not  *)
(* there or whose path cannot be told.                                     *)
(***************************************************************************)
LocatesExecutable ==
  answer # NoAnswer =>
    /\ answer.path # <<>> =>
         /\ answer.registered # NotRegistered
         /\ Unambiguous(answer.registered) =>
              answer.path = answer.registered.path
    /\ (answer.method = "Uninstall" /\ answer.err = "nil") => answer.path # <<>>
=============================================================================

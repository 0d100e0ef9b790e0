# TLA+ models of meshagent-go

`meshagent-go` downloads, installs and controls the MeshCentral agent on a
Windows machine: a Go library (package `meshagent`) and a command,
`meshagentctl`. This directory holds models of it in TLA+, the TLC
configurations that check them on small instances, and TLAPS proofs of their
main properties for every instance. Paths below are relative to the repository.

## 1. The system

| Part | State it keeps | Operations | Talks to |
|---|---|---|---|
| `internal/infrastructure/winscm` | none; handles to the service control manager (SCM) within a call | `Start`, `Stop`, `Status`, `Installed` | Windows SCM (system calls) |
| `internal/infrastructure/agentservice` | none | `Status`, `Connect`, `Disconnect` (stop, then poll) | `Ops`, that is `winscm` |
| `internal/infrastructure/meshserver` | a partial file, a response body within a call | `Download`, `Settings` | the MeshCentral server (HTTP), the file system |
| `internal/infrastructure/agentinstall` | none | `Install`, `Uninstall` | a child process (the agent's own installer), `winscm` |
| `internal/cli` | the `Runner` (its first client), a staging directory within `connect` | `connect`, `disconnect`, `uninstall`, `status` | all of the above through the facade |
| `funcs.go`, `types.go` (facade) | a validated configuration and the three ports | `New`, and one method per operation | the ports |
| `artifact`, `mshparse`, `meshpath` | none (pure functions) | names, wire identifiers, settings, end points | - |
| `lifecycle`, `agentports`, `agenterr` | none (types, sentinels) | - | - |
| `cmd/meshagentctl`, `taskotter`, `Taskfile.yml` | none | entry point; CI | - |

All lasting state is outside the program: the service in the SCM, the files on
disk, the device group on the server. The program is a set of short procedures
over that state, run by several processes at once and cut short by timeouts,
signals, failures and kills. What is hard about it:

* *Interleaving.* Between any two calls of one process, the service, the
  agent's installer and other `meshagentctl` processes move (two `connect`s
  that both find nothing installed; a `connect` during a `disconnect`; two
  downloads into one `-dir`).
* *Partial failure.* Each step can fail after the ones before it took effect:
  a handle, a body, a partial file or a staging directory must be released on
  each path, and the error that matters must survive the unwinding.
* *Stale state.* Decisions rest on one read of the service's state, and on a
  path that is run later than it was written.
* *Text.* A command line, a server's settings, a registered path and a URL are
  each cut up by a few rules of the code; a blank, a quote, a limit or a stray
  argument at the wrong place changes what the program does.
* *Waiting.* The service may never stop, the server may never finish a body,
  the installer may hang: the context has to end each of these waits.

What makes each part correct: `winscm` - concurrent system calls amount to the
atomic calls its interface documents, no handle is leaked or used after it was
closed; `agentservice` - a reported disconnect is one, and it returns;
`meshserver` - the target path holds whole agents only, and nothing else is
left; `agentinstall` and `cli` - no installer is run without privileges, one's
own agent is installed, staging is removed, the exit status tells the truth,
and each command returns; the facade and the pure functions - the server is
asked for what the caller configured, its settings are returned as it wrote
them or not at all, and what is run is what was registered.

## 2. The modules

    ServiceManager        the SCM and the one service (external)
      ServiceOps          the calls of agentservice.Ops, each one atomic relation
        OpsContract       ... made by concurrent callers (abstract specification)
          WinScm          winscm, system call by system call   => OpsContract
        ControlContract   what a Controller's callers rely on (abstract specification)
          AgentService    agentservice.Controller over ServiceOps
                                                               => ControlContract
        Meshctl           cli + agentservice + agentinstall over ServiceOps
                                                               => CommandContract
    Download              the two outcomes of a download (abstract specification)
      MeshServer          meshserver.Client.Download           => Download
    CommandContract       what an exit status promises (abstract specification)
    CommandLine           cli.Runner from its arguments to its exit status
    Text                  package strings (external)
      MshParse            mshparse, and what a .msh file means
        MeshSettings      meshserver.Client.Settings
      ServicePath         winscm.ExecutableFrom, agentinstall.installedBinary
        Facade            package meshagent, artifact, meshpath, the locator

`=>` is a refinement that is checked and proved. It is what justifies the
composition: `AgentService` and `Meshctl` use the atomic calls of `ServiceOps`,
and `Meshctl` the all-or-nothing download, in the place of the detailed
modules. `MC*` modules name the elements TLC uses, `*_proofs` hold theorems.

**ServiceManager** (external: modelled from how `winscm` uses it). `state` is
the service's state or `"absent"`, `marked` says that `DeleteService` was
called. The system calls are actions with the error they answer as a parameter
(`OpenService`, `StartService`, `StopControl`), so that a caller conjoins the
call with what it does with the answer. `Environment` is what happens without
the program: the service comes up, dies, stops, is registered, is marked for
deletion and is dropped once it is stopped and no handle to it is open. The
pause states of `stateName` are left out: the agent does not accept pause
controls. `REFUSED` is any error the callers do not tell apart.

**ServiceOps, OpsContract**. The comment of `Ops` in
`agentservice/types.go:13`: a missing service is `ErrNotInstalled`, a start of
a started and a stop of a stopped service succeed, a failing call changed
nothing. A `lifecycle.Status` is represented by the state in it (`Installed` is
`# "absent"`, `Running` is `= "running"`). `OpsContract` adds callers: an
operation is invoked, happens at one instant, and is answered.

**WinScm** (`winscm/scm_windows.go`). `pc[c]` is the system call a caller makes
next; `manager`, `handle` and `leaked` are the handles it has open, or has lost
because `CloseServiceHandle` failed. One action per system call, named after
the method of `kernel` that makes it; the deferred closes of `Open` (`afterOpen`,
`abandon`) and of the operations (`discard`) are actions of their own, since
another process may run between them. `binaryPath` reads nothing the model
keeps (what it makes of a registration is in `ServicePath`), but it separates
the query from the close.

**AgentService** (`agentservice/funcs.go`). `Enter` is the `ctx.Err()` at the
head of `Status` and `Connect` (which `Disconnect` lacks), `Start`, `Stop` and
`Query`/`Poll` the calls of `Ops`, `tick`, `WaitTick` and `WaitDone` the loop
and its `select`. `restarted[c]` is a history variable: someone has started the
service since `c`'s stop.

**ControlContract** is the Controller without its loop. `Status` and `Connect`
refuse a context that has ended or are one call of `ServiceOps`; `Disconnect` is
past recall from its accepted stop on (it has no `ctx.Err()` at its head), and
then either sees the service not running or gives up, with the context's error
or because the service cannot be asked. `AgentService` implements it with
`Doing`, where querying and waiting after the stop are one phase, "stopping".

**MeshServer** (`meshserver/funcs.go`). `reply[d]` is the kind of the server's
answer, `stream[d]` how much of the body has been sent, `temp[d]` the partial
file, `open` the partial files that are open, `errs[d]` the set of errors
joined so far (`errors.Join` keeps all of them, and `errors.Is` finds each),
`target` the file at the path all downloads share. The contents of a file are
abstracted to how much of which agent it holds. One action per file-system call
of `stage`, `promote` and `discardTemp`, and per step of the exchange; `Killed`
ends the process between any two, and `FileVanishes` is another program that
takes a file that is not open.

**Meshctl** (`cli/funcs.go`, `agentinstall/*.go`, `agentservice/funcs.go`). One
process is one run of `meshagentctl`: `Run` chooses the command, `-dir` or
private staging and the token, then each action is one call on the outside
(`EnsureInstalled`, `ShowStatus`, `Stage`, `Download`, `Install`, `Locate`,
`Uninstall`, `Await`, `Cleanup`, `Start`, `Stop`, `Poll`, `Wait`). `err[p]` is the error the
command will return and `report` the exit status it becomes. The child process
is external (`Registers`, `StartsAgent`, `StopsAgent`, `DeletesAgent`,
`ChildFails`) and runs on when its parent is killed. `did[p]` is a history
variable: what the command has done to the machine and what it has found out.
The token is looked at only where the code does, at the head of `Install` and
of `Uninstall`. Nothing of the kind stands before `Start` and `Stop`
(`OnService`): whatever the token, the SCM carries the call out or refuses it.

**CommandContract** is what a user may conclude from an exit status, without
the steps: a process enters a command, does and finds out things, and returns.
`ExitOK` takes one of the command's `Goals` (for `connect`: an agent was found,
or installed, and the service is up); `ExitDenied` takes that nothing was
changed; no installer is run without an administrator's token, nor to install
by a command that has found an agent. Starting and stopping are not tied to the
token. `Meshctl` implements it with
`Phase(p)`, which is `report(err[p])` once the command is done.

**CommandLine** (`cli/funcs.go`). A `Runner` with the seams `Agent` and
`Installer`, which tests and embedders fill, and the calls a command makes on
them. `Run` is dispatch, flags, the checks of the options and the wiring of the
seams; `Call(method)` is `withAgent` or `withInstaller` around one call, which
may answer anything; `Reuse` runs the same `Runner` again. A flag is a token
with a name and a value (package `flag` is external: it stops at the first
argument that is no flag). Timeouts, the device and the installer are in
`Meshctl` and not here.

**Text, MshParse, MeshSettings**. A text is a sequence of characters.
`MshParse` has the parser and, stated without it, the `Meaning` of a file.
`MeshSettings` is `Client.Settings` with the exchange it shares with
`Download`: the answer arrives one character at a time and may break off; the
closure reads up to the limit, parses, and only then looks at the read's error.

**ServicePath, Facade** (`funcs.go`, `types.go`, `artifact/funcs.go`,
`meshpath/funcs.go`, and the locator of `meshserver`). `New` evaluates `checks`
in the code's order; `Download` and `Settings` put into `request` what goes to
the server; each method's `Answer` has its error, the registration it looked at and the path
it found there. The methods wrap an error with `%w`, so `errors.Is` finds what
the adapter reported; the models pass errors on unchanged, and no property is
about the wrappers. `Status` and `Uninstall` look at a registration through
`ServicePath`. A URL is its scheme, host, path and whether a query follows;
"%2F" is one character of a path. `ServiceName` and `HTTPClient` are handed on
and left out.

## 3. What is checked

| Run | Instance | What it shows |
|---|---|---|
| `scm` | 2 callers | `HandlesReleased`, `UsesWhatItHolds`, and the refinement `ImplementsOps` |
| `service` | 2 clients, fair | `StaysDown`: after a successful `Disconnect` the service is not up unless someone started it since; the refinement `ImplementsControl`; `DisconnectReturns`, however often the other client restarts the service |
| `download` | 2 downloads, one directory | `TargetWhole`, `NothingLeftBehind`, `ResourcesReleased`, `RefusalReported`, and the refinement `ImplementsDownload` |
| `download_live` | 1 download, fair | `DownloadReturns`, though the server may never finish |
| `meshctl` | 2 processes, all commands, private staging | `StagingCleaned`, `InstallsOwnAgent`, `RefusedTouchesNothing`, `EnrolledByElevated`: which agent the device runs changes only while a command with an administrator's token waits for its installer, or has been killed waiting; and the refinement `ImplementsContract` |
| `meshctl_live` | 1 process, all commands, both kinds of directory, fair | `CommandReturns`, though service and installer may hang |
| `command_line` | command lines of up to 2 of 10 arguments, any seams, any environment, run after run | `UsageTouchesNothing`, `InjectedAgentShields`, `ServedAsAsked`, `ExitTellsTruth` |
| `settings` | every answer of up to 5 characters, limit 4 | `SettingsSent`: what is returned is what the server wrote, but for the one setting a cut at the limit can hit; `AllOrNothing`: a part of an answer is never returned |
| `facade` | 60480 configurations and builds, every registration | `RequestMeansConfig`, `OnlyRequiredFields`, `PrefixKept`, `LocatesExecutable` |

Each also checks, where it checks safety, the module's one `TypeOK`.

Three runs state what the documentation says and end in a counterexample:

| Run | The documentation | The code |
|---|---|---|
| `service_stopped` | `agentservice/funcs.go:61`: `Disconnect` "waits for it to reach the stopped state" | `stopped` (line 136) is `!status.Running`, true in "stop pending" |
| `service_connect` | `README.md:21`: `connect` "makes sure the service is running" | `ERROR_SERVICE_ALREADY_RUNNING` counts as success (`scm_windows.go:226`); a service in "stop pending" answers it, then stops |
| `meshctl_shared` | `agentinstall/funcs.go:26`: the binary "must be a binary downloaded for the target device group" | the path is run after `Download` has returned (`cli/funcs.go:463`); with a `-dir` that two processes share, another `connect` may have replaced what is there |

`service_connect` runs under `CooperativeSpec`, in which nothing goes wrong
outside: the service does not die, no call is refused, and starts and stops
complete. Under the plain specification the property would fail for reasons
that are not the program's.

More differences between text and code came up while modelling. The models
have the code's behaviour; no run is spent on them:

| The documentation | The code |
|---|---|
| `README.md:48`: exit status 3 is "refused for lack of privileges" | that is so of the program's own check; a start or stop that the SCM refuses is no sentinel for `reportFailure` (`cli/funcs.go:185`) and exits with 1 |
| `README.md:31`: "`connect` and `uninstall` need an Administrator prompt; `status` and `disconnect` do not" | the program checks the token before it runs the installer only (`agentinstall/funcs.go:48`); a `connect` that finds an agent asks for `SERVICE_START` (`scm_windows.go:218`) and a `disconnect` for `SERVICE_STOP` (`scm_windows.go:263`), and whether a token suffices for these is up to the service's access rights, which by default give them to administrators |
| `README.md:20`: `connect` "downloads and installs the agent if it is absent" | it asks once; an agent that another `connect` installs during the download is replaced |
| `doc.go:30`: `Uninstall` reports `ErrUnsupportedPlatform` off Windows | the check for elevation comes first and says `ErrNotElevated` |
| `cli/types.go:58`: "Installer overrides the install/uninstall seam" | without an `Agent` as well, `wireClient` replaces it (`cli/funcs.go:264`) |
| `cli/consts.go:88`: `meshagentctl <command> [flags]`, exit status 2 for a bad command line | an argument that is no flag, and the flags after it, are dropped without a word (`cli/funcs.go:343`) |
| `vars.go:27`: "ErrMissingSetting means the server's device group settings were incomplete" | nothing calls `Settings.Required`; incomplete settings are returned |
| `types.go:25`: `BinaryPath` comes "with quoting and trailing arguments stripped" | an unquoted path with a blank is cut at the blank (the exception `Unambiguous` in `LocatesExecutable`) |
| `meshpath/funcs.go:13`: "Any path prefix on base is preserved" | an escaped slash in the prefix becomes a plain one (the exception in `PrefixKept`) |

**Bounds.** Sets of two callers, clients, downloads or processes: each property
relates one actor to the service or to one shared path, and a second actor
makes any change that a third could make between two of its steps. `meshctl` has
private staging only, since both kinds of directory at once make twelve times as
many states; a shared one is in `meshctl_live`, in `meshctl_shared` and in the
proofs, which hold for any mixture. In these
modules nothing else is bounded: they have no counters, and actors return to
`"idle"` and act again, so runs are unboundedly long. The proofs lift the
number of actors. The liveness runs of `MeshServer` and `Meshctl` have one
actor, because an actor's waits depend on the server, the service and its
installer, which may do anything, and not on another actor; `AgentService` has
two, since a restart by another client is what could keep the loop going.
Symmetry is used only where no liveness is checked. Off Windows (`Windows =
FALSE`) `Meshctl` is covered by the proofs, `OffWindowsAllIsRefused` among
them, not by a run.

The modules about texts are bounded by their inputs. `MaxLength = 5` over
{"k", "=", "#", blank, newline} has repeated keys, blanks on each side,
comments, several "=" and, with `Limit = 4`, answers that just fit and answers
that are cut in a key, a value or at a newline; the real limit only sets where
the cut falls. `MaxTokens = 2` lets one argument follow another that is bad,
stray or for another command, and lets a flag be repeated. `PathLength = 3` has prefixes of
up to three segments with slashes at either end. The registrations
are quoted and unquoted paths, with and without a blank, followed by up to two
of a letter, a blank and a quote. `CHECK_DEADLOCK FALSE` is said of `facade`
only: a `New` that refuses its configuration is the end there.

**Fairness.** Code that has been entered runs on (weak fairness of each actor's
steps); each context ends (`cli` derives each from `WithTimeout`, and
`resolveDoer` gives its `http.Client` a timeout); Go's `select` picks a ready
case at random, so a wait that is entered again and again with an ended context
takes the context's case at last (strong fairness of `WaitDone`). Nothing is
assumed of the server, the service or the installer, and a killed process owes
nothing. `CommandLine` and `Facade` wait for nobody, and `Settings` waits like
`Download`; no liveness is stated of them.

**Assumptions about the outside.**
* The SCM answers `ERROR_SERVICE_ALREADY_RUNNING` to a start in any state but
  stopped, and its calls return. Which calls it refuses to which token is not
  assumed: each start and each stop may be carried out or refused.
* `os.RemoveAll` of a private staging directory fails only while a program runs
  from it; other failures are dropped by `reportRemove` and cannot be noticed.
* HTTP framing tells a complete body from a broken connection.
* The agent's installer leaves no process that holds the output pipe open
  (`CombinedOutput` would wait for it: `WaitDelay` is zero).
* `os.Rename` replaces its target in one step.
* Registered paths hold no quote, and neither start nor end in a blank.

## 4. What is proved

For every set of callers, clients or downloads in `WinScm`, `AgentService` and
`MeshServer`, which assume nothing of their constants; in the other modules
from their named assumptions, which TLC evaluates on every run:
`MeshctlAssumption` (the commands and directories are of those the program has,
and no process is called "none" or "shared"), `CommandLineAssumption` and
`SettingsAssumption` (types only), `FacadeAssumption` (types only) and
`ServicePathAssumption` (a path on Windows is not empty, holds no quote and has
no blank at either end).

* `WinScm_proofs`: `TypeCorrect`, `ReleasesHandles`, `HoldsWhatItUses` and
  `Refinement` (`Spec => OpsSpec`). The inductive invariant says which of the
  two handles a caller has at each step, and which replies it may have by then.
  `HandlesReleased` alone is not inductive: that the manager's handle is gone
  after `afterOpen` follows only from where each caller got it. The refinement
  takes the system call on the handle as the instant of the operation, or the
  step that fails when there is no such call; that the service cannot be
  dropped in between needs the invariant that an operation past `Open` holds a
  handle.
* `AgentService_proofs`: `TypeCorrect`, `DisconnectKeepsDown`
  (`Spec => []StaysDown`) and `Refinement` (`Spec => ImplementsControl`). The
  invariant follows a disconnecting client from its accepted stop: unless
  someone restarted the service, it is no longer starting, so a state that is
  not "running" is down for good. Whatever one client does, two lemmas carry
  the invariant over a step (`StaysInShape`, `StaysBelow`). It also says which method each step belongs
  to (`StepFitsMethod`); the refinement needs that to know that only a
  `Disconnect` waits, and only after its stop was accepted. Reading a context
  that is live and waiting for the ticker are steps the contract does not see.
* `MeshServer_proofs`: `TypeCorrect`, `TargetIsWhole`, `LeavesNothingBehind`,
  `ReportsRefusal`, `ReleasesResources`, and `Refinement`
  (`Spec => Abstract!DownloadSpec`). The invariant (`Consistent(d)` for each
  download) ties a download's file, its errors, its answer and what it has open
  to its step: the file that reaches `rename` was copied to the end from an
  agent's body, no step before `rename` has an error, and each step of the
  unwinding has one. A step of one download leaves the others' state alone
  (`OthersUnchanged`), so `StepConsistent` treats one download at a time, and
  only the rename writes the target (`TargetOnlyRenamed`). In the refinement a
  download is busy from its call on, the rename is the placing, and every other
  last step has an error to show.

* `Meshctl_proofs`: `TypeCorrect`, `CleansStaging`, `EnrolledBehindToken`
  (`Spec => EnrolledByElevated`), `RefusedChangesNothing`,
  `PrivateStagingInstallsOwn` and `Refinement` (`Spec => ImplementsContract`), on Windows and
  elsewhere, and `OffWindowsAllIsRefused`: without Windows each command ends at
  its first question or its check of the token, nothing on the device changes,
  and no command exits with 0. The inductive invariant is `TypeOK` and, for each process,
  `Fits(p)`: it is at steps of its own command only (`StepFitsCommand`); a child
  belongs to an elevated process and is awaited, so that none runs when the
  cleanup comes, and a private place holds the process's own agent
  (`ChildFitsStep`); a staging directory lives
  from staging to cleanup (`StagingFitsStep`); a refusal is met before the first
  change, and an installer is behind a check of the token (`ChangesFitStep`); what a
  command counts on at its last step it has done by then (`WorkFitsStep`).
  `StagingCleaned` alone is not inductive, since `Cleanup` succeeds only when
  the process's own child has ended. A step of one process leaves the facts
  about another alone (`OthersUnchanged`, `SameStateFits`), so `StepFits` and
  `StepRefines` treat one process and one action at a time.

* `CommandLine_proofs`, for any arguments and any number of them:
  `TypeCorrect`, `UsageIsHarmless`, `AgentShields`, `ServesAsAsked` and
  `ExitIsTrue`, which are all of the run's invariants. The inductive invariant
  says which calls a command can be at (`StepFitsLine`), that the calls before
  the present one succeeded (`OneFails`), what the error says of the last call
  when it is turned into a status (`ReportFits`, `ExitFits`), and that an Agent
  that was there stays and is all that an open Installer is filled with
  (`SeamsFit`). `InjectedAgentShields` speaks of past calls only and is not
  inductive without `SeamsFit`, which speaks of the seams that the next call
  will use. `ServedFits` adds that on a Runner without an Agent a call
  is made only on a line that was accepted, and on one client, of this very
  line's options, in both seams. `ReadIsAhead` says that what `flag.Parse` reads
  is what stands ahead of the first argument that is no flag, and `ValueDecides`
  that the last value there decides, or else the environment's.
* `MeshSettings_proofs`: `TypeCorrect`, `NothingPartial`
  (`Spec => []AllOrNothing`), `ParserIsRight` (`Pairs(t) = Meaning(t)`) and
  `SettingsAsSent` (`Spec => []SettingsSent`), for answers of any length in any
  characters and for any limit. The invariant ties the step to the errors and
  the body (`StepFits`) and the end of the stream to what has arrived
  (`StreamFits`): the read may stop at the limit, so it is `drainClose` without
  an error that shows that the whole answer is there. `ParsedFits` adds that a
  call that is past its read without an error holds the parse of the first
  `Limit` characters.

  `ParserIsRight` is about what a fold computes. The library's induction
  theorems cannot be instantiated here, so the induction is done by hand.
  `Given(lines, s)` says in closed form what a set `s` of lines sets: each key,
  with the value of the last line that sets it. It obeys the equation by which
  the fold is defined (`GivenOneMore`, `GivenIsFold`), and whatever obeys it is
  the same: were there a set of lines on which the two differ, there would be a
  least `m` such that they differ on some of the first `m`, and without its
  last line they agree (`FoldIsGiven`). What is left is that a line is a pair
  for `splitPair` exactly when it `Sets` one
  (`PairIsSetting`), and that every key and value is a substring of the text
  (`SpanIsPart`, `LinesArePart`), since `Meaning` looks for them there.
  For an answer that is cut, `LastLine` says that the text before the last line
  has the same lines but for that one, which is empty; so the two meanings
  differ in the key of the last line only (`CutMisleadsOnce`), which is what
  `SettingsSent` allows.
* `Facade_proofs`: `TypeCorrect`, `AsksAsConfigured`, `RequiresNoMore`,
  `KeepsPrefix` and `FindsExecutable`, all of the run's
  invariants, for any server URLs, architectures, paths and arguments. The
  invariant is that the client is the one `New` makes of this configuration
  after every check has passed (`ClientFits`), that a request is one of the two
  such a client sends (`RequestFits`), and that an answer's path was cut out of
  the registration beside it (`AnswerFits`). The rest is about texts of any
  length, from the library's theorems on sequences: `TrimSpace` takes nothing
  off before a line's last word (`TrimSpaceKeeps`), `Cut` ends at the first
  separator (`CutBefore`), so the path of a registration is found again
  (`ExecutableFound`); trimming slashes twice is trimming once
  (`TrimmedTwice`), and a path without an escaped slash is its own decoded form
  (`PlainStays`).
* `Positions_proofs` holds what the proofs about texts share: a set of
  positions has a least and a greatest element, which `Min` and `Max` are. It
  rests on the theorem that `<` is well-founded on `Nat`, in the form that
  speaks of a set and not of a predicate.

So every invariant and every action or refinement property of a passing run is
proved. Only model-checked are the liveness properties (`DisconnectReturns`,
`DownloadReturns`, `CommandReturns`: liveness under fairness and `ENABLED` are
out of the prover's reach) and the statements that are refuted. Two theorems
say what no run checks: `ParserIsRight`, on which `SettingsAsSent` rests, and
`OffWindowsAllIsRefused`.

## 5. What is not modelled

* `artifact.Settings.Required`, which only tests call, and `Arch.String`.
* Logging, help texts and the layout of output; `status` either encodes or
  does not.
* A `Client` that `New` did not make, and a caller's own `http.Client`.
* `lifecycle`, `agentports`, `agenterr`: types and values without behaviour;
  their values appear in the models.
* `cmd/meshagentctl` hands its arguments and its result on.
* A grandchild of the installer that keeps the output pipe open: whether there
  is one is not known from this repository.
* CI and the build.

`README.md` of the repository also describes `StartSession`, `IsInstalled` and
`ErrSessionNotRunning`; the first two do not exist and nothing returns the
third, so there is nothing to model.

## 6. What is left

* The Controller over `OpsContract` in the place of `ServiceOps`, that is with
  calls that take time, as a module that implements `AgentService`.

# A TLA+ model of agentic

`agentic` runs AI coding tools (Claude Code, Copilot, OpenCode) in containers. One
`agentic run` asks the user to trust the project, starts a network, an egress proxy and a
Docker-in-Docker sidecar for the tool, runs it, and cleans up. Several such processes run side
by side and share Docker, `$AGENTIC_HOME` and nothing else: **no lock is held anywhere**, and
any process may be killed at any point. What the code promises, it promises through labels,
grace periods, the order of its steps and re-reading; these modules state those promises and
check and prove them.

Contents: [the system](#1-the-system), [the modules](#2-the-modules),
[the runs](#3-the-runs), [the proofs](#4-the-proofs),
[where code and documentation disagree](#5-where-code-and-documentation-disagree),
[what is not modelled](#6-what-is-not-modelled), [the plan](#7-the-plan).

All paths are below `src/internal/` unless they start with `docs/`. To check a run:

    tlc -config MCSidecars_runs.cfg MCSidecars

and to check the proofs of a component: `tlapm SidecarsProofs.tla`.

## 1. The system

| Part | State it keeps | Operations | What makes it correct |
|---|---|---|---|
| Run sidecars on Docker (`runtime/docker`) | containers, networks and run dirs, tied to their run by owner labels and a start date | the sweep at a run's start, startup, cleanup, crash | a sweep never takes what a live run needs; a run that ends leaves nothing; what a killed run leaves is collected |
| Clean and prune (`usecase/clean`) | none: works from Docker's listings | `agentic prune`, `agentic clean` | keeps what active runs use |
| Egress proxy server (`network/proxy`) | one handler per connection, the access log, the leaf certificate cache | CONNECT, plain HTTP, decrypted requests, summary | only allowed traffic leaves; secrets reach their host only; the summary is right |
| Trust and approvals (`usecase/run/trust.go`, `config/state.go`) | `state.json` | ask, save; upgrade and tool update checks save to the same file | no setting is used that the user did not approve |
| Home migrations (`usecase/migrate`) | the layout of `$AGENTIC_HOME`, `.migrations.json` | one upgrade before every command | nothing the user said is lost; the recorded version is true; a retry finishes |
| Run preparation (`usecase/run`, `usecase/resolve`, `runtime/sandbox`) | the input, the RunSpec, the instructions' text | checks and prompts in order; precedence of flags, files and defaults; capabilities of the runtime; mounts, checked twice | the sandbox is the one asked for, or the user was told; secrets stay out of it |
| Configuration (`config`) | `.agenticrc.toml` layers | find, load, merge, validate; path patterns | a nearer layer wins, per field; a limited host stays limited |
| Image builds and updates (`usecase/build`, `update`, `toolupdate`; `runtime/docker/labels.go`; `config/custominstalls.go`) | images and their labels, stored custom installs, Docker's layer cache | build, update, the update a run offers, clean | an update keeps what a build installed and brings the new tool |
| Microsandbox (`usecase/run/microsandbox.go`, `runtime/microsandbox`) | image refs in `msb`, the dockerd image | build, load, remove stale refs, run | a VM runs no older image than Docker had |
| Instructions (`image/instructions`) | the tool's instructions file, a snapshot per run | snapshot, finalize, strip | the user's notes survive; a snapshot has nothing foreign |
| Self-update (`infra/selfupdate`) | the binary and its staging file | download, verify, extract, stage, rename | the binary is a whole release at every moment |
| Marketplaces (`image/marketplace`) | clones shared by projects, a usage registry | sync, record, prune | (not modelled, section 6) |
| Certificates, volumes, tool runs, infrastructure | little or none | cryptography, single commands, I/O | (not modelled, section 6) |

How they interact: the CLI checks a `docker_context` (trust), migrates the home and runs its
command (`cli/root.go`). A run prepares itself from config and `state.json`, sweeps orphans,
creates its sidecars and attaches the tool; the proxy container runs the proxy server, whose
log the run reads when the tool has ended. `prune` and `clean` sweep beside all of this. The
hard behaviours are the interleavings of these processes, listings that are stale when they are
used, kills between two steps, and files shared without a lock. `PROJECT.json` lists each
hazard at its line with the properties that cover it, or the reason none does.

## 2. The modules

| Module | What it is |
|---|---|
| `Sidecars` | runs, prunes and the Docker resources of each run |
| `SidecarOwnership` | the abstract promise `Sidecars` keeps: what a run holds disappears only once it is over |
| `ProxyServer` | the life of each connection through the egress proxy |
| `StateFile` | trust and approvals in `state.json`, shared by runs and edited by the user |
| `Migrations` | the upgrade of `$AGENTIC_HOME`, run by every command |
| `Config` | the configuration layers: finding, validating and merging them, credentials, proxy rules |
| `RunPlan` | `agentic run` from its flags and files to what the runtime starts; extends `Config` |
| `Mounts` | the checks of a mount's host path against the links on the host |
| `PathPatterns` | request paths, path rules and how servers read both |
| `Images` | builds and updates of a tool image, what they recover and from where |
| `MsbImages` | the images of microsandbox runs in Docker and `msb` |
| `Instructions` | the instructions file and the snapshots runs make of it |
| `SelfUpdate` | downloading, verifying and installing a release |
| `MCCommands` | `RunPlan`, `Mounts`, `PathPatterns`, `Images`, `MsbImages`, `Instructions` and `SelfUpdate` side by side for TLC |
| `MC…` | small constants, symmetry and configurations for TLC |
| `…Proofs` | the inductive invariants and theorems (`ImagesProofs` serves `Images` and `MsbImages`; `HostFilesProofs` `Instructions` and `SelfUpdate`; `PathsProofs` `Mounts` and `PathPatterns`) |

The model components do not share variables: each meets the others only in an assumption
named below, so they are checked separately. Definitions marked `\* mutant` are plausible bugs
of the code; substituting one for the definition it stands before must break the property that
`PROJECT.json` pairs it with.

### Sidecars

State: `exists` and `active` are what Docker and the disk hold, `age` the time since each
resource's start label, `pc` where each process is, and `seen`, `todo`, `held` the listing a
sweep works from and how old it is. A resource is a pair of kind and run (names are random).

- The sweep (`sweepOrphanedSidecars`, `sweepDindRunDirs`): `ListContainers` to `EndSweep`. One
  `docker ps` serves containers and then networks; run dirs are read *before* the live sidecars
  are asked for, as in the code. Each removal is a step of its own.
- The startup (`setupSidecars`, `startProxy`, `startDind`, `RunTool`): `CreateRunNetwork` to
  `Attach`. Every step may fail and then goes to the point of the cleanup chain the code goes to.
- The tool's end and the cleanup: `ToolExits` (`--rm`), `ToolReturns` (also a closed
  terminal, which only detaches), then dind, its dir, the proxy, the network.
- `Crash` at any point: containers live on. `SidecarExits`: a sidecar stops by itself.
- `agentic prune` (`removeUnused` per kind, in its order): `BeginPrune` to `AbortPrune`.
- Docker's rules: a network with a running container cannot be removed; `rm --force` of
  something gone succeeds, `network rm` does not; creating on a missing network fails.

*Time.* The orphan rule is "its owner is gone and it is older than `sidecarOrphanGrace`". Ages
are capped counters, so the state space is finite without a bound on the clock. `StartupMax` and
`SweepMax` bound how long a startup and one listing last; `GraceAssumption` says the grace
periods outlast both *together*. `client.go:44` names only the 90 s dind wait; the sum is what
the promise needs (the code's five minutes for sidecars, ten for run dirs, leave ample room).

Left out: the shared egress network `agentic-net`, the signal guards, a failing
`rm --force` of the tool by its own run, reuse of a pid, image removal in `clean`.

### ProxyServer

State per connection: the handler's point `pc`, the `request` line, the decrypted `inner`
request, the `authWatch` flags, whether the client is `gone`, the dialled `addr`, the last thing
`sent` upstream and the `log` entries. Each request on a kept-alive plain connection counts
as a connection; a path is "ok" (safe and matched by a rule) or "bad"; a host is in any of four
classes: exact entry, wildcard entry, path rules, credential. Which address a name resolves to is
decided at each dial, so a rebinding DNS is included. A pooled upstream connection is a fresh dial.

`HostsAssumption` states what `resolve.ProxyRules` and `loadInjector` guarantee before the proxy
starts: a credential host is always on the allowlist, and path rules imply an injector.

Actions follow the handler: `HandleConnect` / `HandleHTTP` / `RefuseHost`; `Dial`; for a tunnel
`AcceptTunnel`, `CheckServerName`, `EndSplice`; for a decrypted one `Handshake`, `ServeRequest`,
`DialInner`, `RespondInner`, `EndIntercept`; `HangUp` and `Stop` (the run removes the proxy) at
any moment. `Attempts` and `Denied` are `ReadSummary`'s counts.

Left out: parsing of rules and credential files, header scrubbing, the leaf cache, the registry
of client names, and the server's start.

### StateFile

State: the config `files` and what guarded settings each holds, `state.json` (`status`, `disk`),
and per run its point, the `layers` it read once, what it has `left` to check and the state it
loaded (`mem`). Three history variables record what the user approved, trusted and last said.

A run (`Begin`) reads all its layers once; a `root = true` file hides those above. Then comes the
`docker_context` check before the daemon is chosen, the upgrade check, and in `Prepare` trust,
settings, the tool update check and the credentials. Each answer loads, asks, and saves the *whole*
state it loaded *before* asking. `os.WriteFile` is two steps, `Truncate` and `Write`; a kill in
between leaves an empty file, overlapping writes may leave a garbled one. The user edits and
deletes config files, revokes answers and deletes `state.json` meanwhile (but not between
another process's truncation and its write). Timestamps of the checks and `--docker-context`
are left out.

### Migrations

State: the home (`home`, `version`, what is in its `old` and `new` place, the legacy `proxyDir`),
`agentic.json` and `state.json` with a `torn` flag, and per command its point, the version it
reached and what it read. `before` remembers what the home held.

Every command runs the same procedure: the context check, `Stat`, then `Baseline` or the pending
migrations one after the other, each version recorded by an atomic rename (`Record`). Moves are
checked and renamed in two steps, in any order; `agentic.json` and `state.json` are truncated and
written in two. Commands fail and are killed everywhere (`End`, `Unreadable`); the next one starts
from the version the home records. `Contexts` says whether projects set a `docker_context`, in
which case the answer is recorded *before* the migration.

### Config and RunPlan

A request is a sequence of files, the working directory's first, and the flags given. A file is a
partial function from keys to values: an unset key is one it does not have, a list is a set.
`Config` holds operators only: `FindLayers` (a `root = true` ends the search), `Valid` and
`Mergeable`, `Merge` (the nearest value of a scalar, every entry of a list), and the rules the
proxy gets (`ProxyRules`). `NormalHost` is the spelling that `normalizeHost` makes of a host.

`RunPlan` goes through the run: `LoadProject`; `CheckRuntime` and `RunnerCheck` (capabilities);
`CheckCredentials`, `RequireImage`, `Approve`, `CheckTool`; `ResolveInput`; `WriteInstructions`,
`SyncMarketplaces`, `CheckMounts`, `RunEnv`, `NewRunSpec`, `CheckProxyTrust`; then `Run` and the
runner's `PrepareHost`, `PrepareProxy`, `StartSidecars`, `RunTool`. `spec` is the RunSpec and
`launch` what the runtime makes of it; `did` the effects on the host; `warned` what the user was
told. `Launch` is what each runner's arguments say: on microsandbox `MsbLimits` rounds `cpus` up
(`WholeCpus`) and has no `pids_limit`, as `buildLimitArgs`, and `MsbRefuses` a `cpus` that is no number.
`WriteInstructions` writes a snapshot or, for a project that disabled the instructions, strips the file, and
fails where either does. The host's answers (engine, image, user, secrets) are free at each look. `PlantLink` is a
tool of another run in the same workspace that puts a link in a mounted path at any time.

Each property is stated over the request as the user wrote it (`SaidBy`, `Declared`: the nearest
file that has a say), not over the operators that compute the answer. Approvals are one step here and
`StateFile`'s in full. `recheckMounts` and the start that follows are one step: the gap that is left
between them is Docker's. Left out: ports, the order of lists, negative numbers of CPUs and every text.

### Mounts and PathPatterns

`Mounts`: a path is a sequence of names, a tree says what each path is (`WellFormed`: what is above
something is a directory), and `EvalSymlinks` follows links as the kernel does: `Unlink` goes on from where the first
link of a path leads, `Walked` does so up to `MaxHops` times. `PassesChecks` are `CheckMounts`' checks of one host path; a tool of an
earlier run plants links in the workspace (`PlantAt`). The property compares what passes with what
the daemon would resolve, where the working directory exists. Case-insensitive file systems are left out; the property says
nothing of a mount that gets to a planted link without passing through the working directory.

`PathPatterns`: a path is the sequence of its segments as sent. Constants say how the code
decodes each segment and as what a server may read it (`ServersRead`: decoded twice, without
parameters, an escaped slash). The property asks that each reading, with dot segments resolved and
slashes merged or not, matches the pattern the proxy matched. `%3F` and `%23`, which `unsafePathParts` does not
refuse, are taken as read in one way: a server that decodes a path before it cuts off the query is left out.

### Images

State: the `project`'s build settings, the `image` with what is *in* it and, separately, its
`labels`; the `store` of custom installs, whole or torn; Docker's `layers` by everything that keys
them; `latest`; when upstream was last `checked`; and the command under way. `BuildOptions`,
`UpdateOptions` and `RunOptions` are the three origins of options; `RecoverOpts`, `ApplyPullThrottle`
and `RebuildOptions` what an update makes of them. Every image has the `debian` layer below those asked for
(`BuildLayers`), whose version is kept like theirs. A command goes `ApplyUpdate`,
`SaveCustomInstalls`, `BuildTool`, `StampImageLabels`, `MarkChecked`; it can fail or be killed at
each (`Fail`). `docker inspect` may fail to tell of an image that exists, which the code takes for a
missing one: such updates (`blind`) promise nothing. One command runs at a time.

### MsbImages

Per run: the ids it looked up, the refs it listed and its VM. `InspectParent`, `InspectDockerd`,
`StartBuild` and `BuildDockerdImage` make the image with `dockerd` in it; `MicrosandboxRef`, `ImageRefs`,
`LoadIntoMicrosandbox` and `RemoveStaleRefs` bring an image into `msb`. `docker build` and
`docker save` take images *by name* when they start, so `Rebuild` and `RemoveImage` of other
commands may change what they get. A run whose dockerd image another run built meanwhile (`raced`)
is left out of `VmsAreNotStale`: the code has no answer to two such builds.

### Instructions

`place` is what is at the file's path: nothing, a file (each with a number, as `os.SameFile` sees it) or a
link a running tool put there (`Swap`). `CheckRegular` and `OpenRegular` are the two looks of
`readInstructions`; `WriteSnapshot`, `ToolWrites`, `Finalize` and `Persist` the life of a snapshot.
A text is the sequence of its parts: the two markers, the block of a run between them, notes. `StripManaged`
takes out what the code takes out: the first begin marker to the next end marker, and nothing when one of them
is missing. The file may hold a block of an earlier version, whole or without its end.

Users write while no run is under way (`kept`). Of tools two things are assumed, because without them the
code promises nothing: they add notes behind the block, as its begin marker asks, and put in no markers of
their own. They may take out either marker of their copy (`ToolTakesMarker`, at most `MaxTaken` times), which
the next runs then find in the file.

### SelfUpdate

Files carry the number of the upload they are from and whether they are whole. Updates run side
by side, are killed anywhere (`Interrupt`), and downloads are cut unnoticed; meanwhile the release
is uploaded again file by file (`Upload`). The staging path is shared, so two updates may stage at once;
`clash` records that they did, and the property leaves those behaviours out: nothing in the
code prevents a torn binary there.

### MCCommands

These modules share no variable. `part` picks the one whose steps a behaviour takes; the others
rest in an initial state. The states are those of the seven machines added up, not multiplied.

## 3. The runs

| Run | Instance | Shows |
|---|---|---|
| `runs` | 2 runs of any kind, no prune | `ActiveRunsKeepSidecars`, `EndedRunsLeaveNothing`: starting runs sweep beside each other, end, fail and crash; nobody loses a sidecar and nobody who ends leaves one |
| `prune` | 1 run, 1 prune, removals may fail, fair | `ActiveRunsKeepSidecars` and `OrphansAreCollected`: what a killed run left goes, if prunes go on and get to their end; the system implements `SidecarOwnership` step by step; no sweep touches a tool |
| `lookalike` | as `prune`, a namespace that contains a sidecar's prefix | *violated*: a live tool is removed (section 5) |
| `proxy` | 1 connection, a host of each class, 2 inner requests, fair | `OnlyAllowedTraffic`, `BlockedAddressesUnreached`, `SecretsStayHome`, `SummaryAddsUp`, `HungUpClientsEnd` |
| `unlogged` | as `proxy` | *violated*: an attempt without a log entry (section 5) |
| `approvals` | 2 runs of a project whose file changes between three contents, or one at a time in nested directories with every kind of setting | `OnlyApprovedSettings`, `AnswersAreGenuine` under interleaved saves; `OnlyTrustedDirs` with hidden layers and a `docker_context` |
| `stale` | as `approvals` | *violated*: a save undoes a revocation (section 5) |
| `migrate` | 2 commands, homes of every earlier version | `NothingVanishes`, `LayoutMatchesVersion`, `UpgradeCompletes` |
| `contexts` | 1 command in projects with a `docker_context` | *violated*: the upgrade drops answers (section 5) |
| `commands` | see below | the 18 properties of `RunPlan`, `Images`, `MsbImages`, `Instructions`, `SelfUpdate`, `Mounts` and `PathPatterns` |
| `pids` | the plans of `commands` | *violated*: a limit is dropped without a warning (section 5) |
| `flags` | two releases, two commands | *violated*: an update leaves out what its flags ask for (section 5) |

What the properties of `commands` say, by module:

- `RunPlan`: `EgressIsAsAsked`, `PathLimitsHold`, `FilesCannotLiftLimits`, `SecretsStayOut`: the sandbox
  is no more open than flags and files say, on any runtime. `NothingIsIgnoredSilently`,
  `InstructionsMatchTheRun`: user and agent know what was dropped, with the two exceptions of section 5. `BackstopNeverFires`,
  `NothingBeforeApproval`, `DryRunsStartNothing`, `MountsAreAsChecked`: the steps come in an order that
  keeps the promises of each.
- `Images`: `UpdatesForgetNothing` (layers, versions, packages, installs, unless a flag or a warning
  says so), `NewVersionsArrive` (the layer cache never brings an old tool back).
- `Instructions`: `NotesSurvive` and `SnapshotsAreClean`, while runs read, write back, fail and are killed beside each
  other, tools plant links and take out markers.
- `MsbImages`: `VmsAreNotStale`. `SelfUpdate`: `BinaryIsARelease`. `Mounts`: `MountsLeadWhereTheySay`. `PathPatterns`: `ServersReadWhatWasMatched`.

**Why the bounds are enough.** *Sidecars*: a sweep hurts one run at a time and decides from that
run's own resources, so one sweeper and one victim show every conflict; two runs give both the
sweep a run starts with and its victim, in either role, and the grace of three ticks is the
smallest that satisfies `GraceAssumption` with a startup and a listing of one tick each. Both an owner
too young to be seen and one just gone occur. *ProxyServer*: connections share nothing but `up` and
`monitor`; two inner requests are enough for a flag of the first to leak into the second. *StateFile*:
a lost update needs two writers; two values of one setting are enough for "approved, but not this
one". *Migrations*: two commands race for one item of each kind; a home starts at each version, or
does not exist. *RunPlan*: six bases (each runtime and backend, plain or with a filter and path rules) with every
pair of 51 options, over two files and the flags: a wrong precedence or a missed check shows between two
settings. *Images*: two commands and two releases: the build an update forgets, and the update. *MsbImages*:
two runs, a rebuild and a dockerd build race for one repository. *Instructions*: two sessions, two notes, three
versions of the file, and two markers taken out: both of one block, one of two, or one besides a block that came
without its end. *SelfUpdate*: two updates, one with `cosign`, two uploads. *Mounts*: two planted
links, so one may lead to the other. *PathPatterns*: every pattern of up to three of five segments; paths of up to two
segments of each odd kind, or three plain ones. The theorems of section 4 do not depend on these bounds.

**Fairness.** A process that is alive goes on: its Docker commands return and its own timeouts
fire (`WF` of each run's sweep, startup and cleanup, of a prune's steps, of time, of a
connection's `Handle`, of `MigrationStep`). Nothing is assumed of users, upstreams, tools or
kills. A handler that waits for its client or upstream is fair only once the client is gone, as
`closeNotifyConn` and `oneConnListener` make it. Where a property needs people to act, it says so
in its premise: `OrphansAreCollected` that prunes get to their end again and again,
`UpgradeCompletes` that commands go on being started and from some time on are not killed in
mid-migration. Deadlock is left unchecked where a system may stop for good: the
proxy's connections all end, and so do the runs and commands of `commands`, `pids` and `flags`.

## 4. The proofs

Each `…Proofs` module proves its theorems for every value of the constants, from the named
assumptions alone: no bound of section 3 is among them. TLC has checked the inductive invariants on the
small instances first. A property speaks of the end of a behaviour, an invariant has to say what every
step before it has in hand; the strengthening each proof needs is named here.

- **`SidecarsProofs`** (`ConstantsAssumption`, `GraceAssumption`).
  `SidecarsTypeCorrect` and `RunsKeepTheirSidecars` (`ActiveRunsKeepSidecars`, any number of runs
  and prunes). That a sweep spares a run whose tool
  it did not see follows from *when* it looked. The invariant adds that everything of a
  starting run is younger than its startup (`YoungWhileStarting`), that what a sweep did not see
  an owner for is younger than startup plus listing (`YoungWhenUnseen`, `DirYoungWhenUnseen`), so
  younger than the grace period; and that whatever a prune has marked is of a run that is over
  (`MarkedRunsAreOver`).
  `SweepsRespectOwnership` is the refinement: from the same invariant, each step of `Sidecars` is a step of
  `SidecarOwnership` or leaves it alone.
  `NothingIsLeftBehind` (`EndedRunsLeaveNothing`) assumes `~RemovalsFail`, as the run `runs` does: when Docker
  refuses a removal the code logs it and leaves the rest to a later prune. It needs `EndInv`: a run
  has only what it asked for (`OnlyWhatWasAsked`), and the cleanup is past each kind it no longer has
  (`StoppedInOrder`), wherever in the startup it began.
  `ToolsSurviveSweeps` (`ToolsAreNotSwept`) assumes that no namespace contains a sidecar's prefix
  (`Lookalike = {}`), without which the code is wrong (section 5): then no sweep ever marks a tool.
- **`ProxyServerProofs`** (`HostsAssumption`). `ProxyTypeCorrect`, `NothingElseGetsOut`
  (`OnlyAllowedTraffic`), `AddressGuardHolds` (`BlockedAddressesUnreached`), `SecretsGoHome`
  (`SecretsStayHome`). Connections are independent, so the invariant is about one: at
  each point, the checks the handler is past hold of its request, and what was sent agrees with
  them. `SummaryIsRight` (`SummaryAddsUp`) counts the log: before a connection's fate is known its log
  holds nothing that counts, from then on exactly one attempt; every later entry is of a decrypted
  request and repeats it, and none of those is a denial because only allowed hosts are decrypted (`SumInv`).
- **`StateFileProofs`** (`StateFileAssumption`). `StateFileTypeCorrect`, `SettingsAreApproved`
  (`OnlyApprovedSettings`), `DirsAreTrusted` (`OnlyTrustedDirs`), `StateIsGenuine`
  (`AnswersAreGenuine`). Every state in a run's memory or on disk holds only answers the user
  gave, so a save, however stale, writes no others; a layer a run is through with is
  approved in the content it holds.
- **`MigrationsProofs`** (`MigrationsAssumption`). `MigrationsTypeCorrect`,
  `RecordedVersionIsTrue` (`LayoutMatchesVersion`) and `UpgradeKeepsAnswers` (`NothingVanishes`
  when no project sets a `docker_context`). Everything only shrinks: what left its old place
  never returns, and a stripped `agentic.json` stays stripped, so a version that was true once stays true
  however late another command records it.
- **`RunPlanProofs`** (`RequestsAssumption`, `CpusRoundUp`, `HostsNormalizeOnce`). `ApprovalComesFirst` (`NothingBeforeApproval`),
  `DryRunsAreDry` (`DryRunsStartNothing`), `MountsAreLookedAtAgain` (`MountsAreAsChecked`) and `ChecksAgree`
  (`BackstopNeverFires`) are about the order of steps and the capabilities. The other properties compare what the
  runtime starts with what the user wrote, for any number of files with any keys:
  `TheSandboxIsAsAsked` (`EgressIsAsAsked`), `LimitedHostsStayLimited` (`PathLimitsHold`), `SecretsAreNeverSeen`
  (`SecretsStayOut`), `DroppedSettingsAreTold` (`NothingIsIgnoredSilently`), `InstructionsAreTrue`
  (`InstructionsMatchTheRun`) and `OnlyFlagsLiftLimits` (`FilesCannotLiftLimits`). The argument has two halves.
  What is merged is what was said: `FindLayers` keeps the files up to the first `root = true`
  (`VisibleIsPrefix`, `FoundLayers`), of a scalar the merge keeps the nearest (`InnermostSpeaks`,
  `NearestFileRules`), of a list every entry (`ListsAreAppended`). And what is merged is what starts: `PlanInv` carries,
  from step to step, that input, RunSpec and instructions are those of this request.
  `NothingIsIgnoredSilently` and its theorem say that the only limit of the tool that is ever lacking is `pids_limit` on
  microsandbox, the one case the code drops in silence; `InstructionsMatchTheRun` that what the agent is told of its CPUs
  is enforced as told, or rounded up in a VM (`LaunchedLimits`).
  `RequestsAssumption`: requests are sequences of files whose hosts have a normal form, the three flags that
  set the proxy's mode exclude each other (`cli/flags.go:98`), and a `--runtime` is one there is. `CpusRoundUp`: no
  number of CPUs but zero, which means no limit, rounds up to zero. `HostsNormalizeOnce`: normalizing twice is normalizing
  once. `normalizeHost` trims *one* trailing dot, so this leaves out hosts that end in two, which no DNS name does;
  of a host written with two the model does not speak.
- **`ImagesProofs`** (no assumption). `UpdatesKeepWhatWasBuilt` (`UpdatesForgetNothing`) and
  `UpdatesBringNewVersions` (`NewVersionsArrive`): `ImagesInv` says that the labels of a stamped image say what is in it,
  which options an update has recovered at each of its points (`Remembered`), and that no layer in Docker's cache was
  built with the cache bust of the command under way before it builds (`LayersFit`), so that a build which must
  renew its tool misses the cache. `NoVmIsStale` (`VmsAreNotStale`): what Docker has under a name only
  moves forward, so `MsbInv` orders the numbers of the images that a preparation has looked up, and keeps the id of
  a dockerd image under way apart from every ref and every other run (`Fits`, `Apart`).
- **`HostFilesProofs`** (`PartsDiffer`: notes, blocks and markers are different things). Two files that several
  processes read, and write as a whole.
  `UserNotesSurvive` (`NotesSurvive`) and `SnapshotsStayClean` (`SnapshotsAreClean`): a run writes back what it read
  before others wrote, so `NotesInv` adds that whatever a run has read holds the user's notes too (`SessionFits`), and
  that there were none to read where there was no file (`PlaceFits`). That taking out *one* block is enough needs to know
  what any text is like (`TextFits`): no marker comes after a note, so that no note is between two markers; no two begin
  markers come before the same end marker (`OneClosed`), so that a text without its first block has no other; and while no
  marker was taken out, all but one block in front is notes (`Tidy`). `CutOutOrder` says that what a cut leaves stands in
  its old order, `Stripped`, `Merged` and `NoteAdded` that the three ways to change a text keep this. `InstalledIsReleased` (`BinaryIsARelease`): a
  rename installs what is in the staging file, so `UpdateInv` says at each point of an update what its checks have shown
  of the archive it downloaded (with `cosign`, that its checksums are of a published release; past the checksum, that it
  is the whole archive of those checksums), and, unless two staged at once (`clash`), that an update about to
  rename finds its own archive there.
- **`PathsProofs`** (`TreesAssumption`: trees are well formed, and links are planted below the root;
  `SegmentsAssumption`: a segment the proxy does not refuse is no dot segment and is read in one way only).
  `MountsLeadThere` (`MountsLeadWhereTheySay`) and `AllowedPathsAreAsRead` (`ServersReadWhatWasMatched`), for paths of any
  length. Both are about functions on `0..n` defined from the number before, the walk of a path and the reading of a
  request: `Recursion` says that there are such functions and `Counting` what all their values share, by the
  well-ordering of the naturals. A path that exists resolves to one with no link in it (`ReallyThere`); a path is walked
  name by name as long as the next name is no link (`WalkedLonger`); and that is what the checks looked at for each name
  below the working directory (`WalkedBelow`). `ResolveKeeps`: where no segment is a dot segment, resolving changes
  nothing but empty segments.

*Model-checked only*: the liveness properties (`OrphansAreCollected`, `HungUpClientsEnd`,
`UpgradeCompletes`), because TLAPS has no proof rules for fairness that its provers could apply.

## 5. Where code and documentation disagree

Each of these is a run TLC must find violated, and a finding in `PROJECT.json`.

- `lookalike`: Docker's name filter matches any part of a name and the tool container carries the
  project label, so a tool whose namespace contains `agentic-proxy-` or the dind prefix is
  listed by `prune`, has no owner label, and is removed while it runs, though prune "keeps what
  active runs use" (`docs/usage.md:166`).
- `unlogged`: the proxy is stopped with its connections open; what they had sent is in no
  log entry, though it "logs every attempt".
- `stale`: a save writes back the state loaded before the question, so an approval the user revoked
  meanwhile returns, and the next run does not ask.
- `contexts`: a command in a project with a `docker_context` saves an answer before the home is
  migrated. The migration takes it for the remains of an earlier attempt, keeps it, and
  drops every directory trusted and every setting approved before the upgrade.
- `flags`: when the tool is current and its image was pulled within a day (or `--pull=false` is given),
  `agentic update` restamps the image and returns before it looks at `--base`, `--apt` or `--<layer>`, though
  "only an explicit" such flag "changes them" (`docs/images.md:42`).
- `pids`: `pids_limit` is required of every runtime (`capabilities.go:25`), microsandbox does not offer it, and
  `warnIgnored`, which "warns about settings the runtime ignores", has no case for it: `--pids-limit` is dropped there
  without a word.

Two more have no run of their own; the properties of `commands` are stated around them.

- The instructions name `cpus` as it was written and call it a "hard limit" (`usecase/run/instructions.go:210`);
  microsandbox rounds it up (`docs/microsandbox.md:50`), so an agent told 1.5 CPUs has 2. `InstructionsMatchTheRun`
  says so.
- "concurrent runs don't affect each other" and what a tool saved is "copied back"
  (`docs/environment-instructions.md:30`), but each run replaces the whole file by its own copy: a note that another run
  brought back meanwhile is gone. `NotesSurvive` is about notes the user wrote before the runs under way.

## 6. What is not modelled

- *Marketplaces*. What one would state, that the clone a run uses is there and whole, does not hold
  of the code: `RecordUsage` loads and saves its registry without a lock, of two clones into one
  directory the failing one removes both, a kill leaves a partial clone that only a person can remove,
  and a project whose files fail to load counts as unused. One command alone is a few lines of
  straight file handling. `RunPlan` has when a run syncs.
- *The image half of `clean` beyond a tool's own images*: sidecar images in use (`clean.go:152`), the
  shared egress network (at worst a run's startup fails), the build cache. *Signal guards*: a
  signal to `agentic` alone before the tool's container exists (`run.go:101`).
- *Excluded overlaps*: two dockerd image builds at once (`raced`), two updates staging at once
  (`clash`), two image builds of one tool at once. Tools that put markers of their own into the instructions, or
  write in front of the block: `stripManaged` would then take out notes.
- *Left out for good*: the text of Dockerfiles and instruction sections (their tests compare it
  whole); the seccomp profile and the tables of mounts; certificates and reading secrets (what a
  secret may do once read is `ProxyServer`'s); archive formats; volumes, tool runs, prompts and output;
  process, git and terminal wrappers; build files and CI.

## 7. The plan

Most important first. Modules to be proved about declare no `RECURSIVE` operator.

1. *Done*: all modules of section 2, their runs, and proofs of every safety property a passing run checks
   (section 4), with the refinement of `SidecarOwnership`.
2. `CleanAll`, on top of `Sidecars`: images in use, the shared egress network.
3. `RunSignals`: a signal to `agentic` alone before its tool's container exists.

# sbox-manager in TLA+

sbox-manager is three programs around sing-box: `sboxctl`, the agent that keeps a set of
sing-box instances of one machine; `sboxsub`, which publishes subscriptions built from what
agents export; and the traffic commands of `sboxctl`, which turn the counters of the instances
into a history in SQLite. None of them takes a lock. Timers, operators and a long-running server
start commands that read files, decide and write files, and what makes the system hard is what
happens when two of these overlap or one dies half way.

This directory models that: how the operator's files come about and are backed up, how they reach
the running services and the users' clients, how sing-box itself and the service files are
installed and purged, how bytes become records, and how the subscription server follows its
inputs. `PROJECT.json` maps every definition to the lines it stands for.

## 1. The system

### Components

| Component | Source | State it keeps | Operations |
|---|---|---|---|
| configuration set | `internal/config`, `internal/domain` | `config.yaml`, `instances/*.{yaml,yml,json}` | load (and validate across files) |
| generator | `internal/generator/singbox` | none | JSON of an instance from the set, subscription nodes |
| runtime | `internal/runtime` | `runtime/generated/sing-box/*.json`, `runtime/manifest.json` | build plan, check, apply |
| instance manager | `internal/instance`, `cli/sboxctl_t04.go` | the instance files, drafts | init, add, clone, edit, member add/remove, remove, purge |
| backup | `internal/backup`, `cli/sboxctl_t07.go` | the archive, `.bak-*` files | export, import with rollback |
| installer | `internal/install` | binary, marker, rule sets, `.previous` of each | install, update, uninstall, purge |
| service manager | `internal/service` | unit files and plists, timers, running services | install, uninstall, start, stop, restart |
| traffic | `internal/traffic`, `cli/sboxctl_t06.go` | SQLite: baselines, records | collect hourly/daily/monthly, show, watch, cleanup |
| subscription inputs | `internal/subscription`, `cli/sboxsub_t05.go` | `inputs/` | import, edit, clone, set-host, remove, clear |
| subscription server | `internal/subserver` | index and error in memory | boot, poll, reload, answer HTTP |
| rendering | `internal/subscription/render.go`, `generator/singbox/subscription.go` | none | a user's proxies in four formats |
| diagnostics, templates, output, version, scripts | | none of their own | read-only, or text |

They interact through files and processes only. A lifecycle command (`start`, `restart`) goes
through the configuration set, the generator, the runtime and the service manager in one process.
`config NAME` writes an instance and goes on with a restart of it when it runs. `uninstall all
--purge` goes through the service manager, the installer, the timers and the base-dir, and finds
what to remove in the configuration it is about to remove. The traffic commands read the
configuration set for their targets and ask each instance's stats API. `sub export` turns the
instances into nodes, which an operator carries to `sboxsub import`; `sboxsub` commands change
`inputs/` under a server that polls it.

### What is hard

* *Several files, no transaction.* An apply writes generated files one by one, then the manifest,
  then calls the services; each write is atomic (temporary file and rename), the sequence is not.
  A full apply must repair whatever an earlier one left.
* *Read, decide, write.* Every command works with what it loaded first: a plan with the manifest it
  read, a validated input file with the other files it read, a sample with a baseline that may have
  moved.
* *Partial targets.* `restart NAME` rewrites the whole manifest but must only change one entry.
* *Counters that restart.* A cumulative counter starts again at zero with its instance, and nothing
  but a smaller value tells.
* *Polling.* The server compares a snapshot of hashes with an earlier one, which is not a snapshot
  of what it loaded.
* *Not atomic by design.* A directory is listed, then read name by name, while `import` renames
  another one into its place.
* *Pairs of files.* A binary and its marker, a service and its timer, the files of a backup belong
  together and are renamed one by one; an error undoes, a kill does not, and no command looks for
  what an earlier one left.
* *Two ends, two converters.* What an inbound accepts and what a client sends come from the same
  file by different code.

### What correct means

* runtime: nothing unchecked is installed or run; an undisturbed run leaves files, manifest and
  services as configured and the next plan is empty; no file escapes the manifest; a command for
  one target touches that target only; the manifest moves between complete deployments.
* traffic: no byte is billed twice or invented; none is lost without a restart; reset marks tell
  the truth; aggregates follow their sources and cleanup does not take sources away too early.
* subscription: only a checked index is served; at rest the server serves its inputs or reports
  that it cannot; commands leave loadable inputs behind.
* configuration store: a set that loads stops loading for known causes only; allocated ports are
  free; drafts are not thrown away; an import is all or nothing and loses nothing.
* installer: a marker never describes another binary than the one beside it; success is what was
  asked for; failure leaves what was there; files somebody else put there stay.
* services: what a purge needs to find the rest goes last; an install makes everything ready.
* delivery: a user gets proxies his instance lets in, under unique names, with his own credentials.

## 2. Modules

| Module | Models | Extends |
|---|---|---|
| `ConfigModel` | the configuration as data, the cross-file rules, what the generated JSON depends on | |
| `Deployment` | abstract: the catalogue of what is deployed changes as a whole | `ConfigModel` |
| `Runtime` | the runtime, its commands step by step, changes of the configuration, services | `ConfigModel` |
| `Backup` | export, and import of a set of files with rollback, failures and kills | |
| `Store` | the configuration files, the commands that write them, the editor; composed with `Backup` | `Backup` |
| `Installer` | install, update, uninstall and purge of sing-box and rules | |
| `Services` | unit files, plists, timers, the base-dir: setup, install, uninstall, purge | |
| `Protocols` | operators: validity, generated inbounds and outbounds, nodes, proxies in each format | |
| `Delivery` | configure, restart, export, import, fetch, over `Protocols` | `Protocols` |
| `Traffic` | hourly collection, viewers, daily and monthly aggregation, cleanup, the world | |
| `SubServer` | `inputs/`, the commands on it, the server and its watcher | |
| `MCRuntime`, `MCStore`, `MCInstaller`, `MCDelivery`, `MCTraffic`, `MCSubServer` | the small instances TLC checks (`Services` needs none) | |
| `RuntimeProofs`, `BackupProofs`, `StoreProofs`, `InstallerProofs`, `ServicesProofs`, `DeliveryProofs`, `TrafficProofs`, `SubServerProofs` | theorems and their TLAPS proofs | the module named |

### ConfigModel

An instance file is `[enabled, body]`. The body is opaque but for what other files can see of it:
`Refs` (the targets of its `ref` outbounds), `Ports`, and `Exposed` (the socks5/http inbound that a
reference copies). `Loadable` is `LoadAgentConfigSet` succeeding: references resolve, ports of
enabled instances are distinct. Validity inside one file is not modelled here; `Bodies` are the
valid ones. `Generated` is the JSON: body, log level, and the endpoints copied from the instances
it references. A hash is its preimage: equality of hashes is equality of contents.

### Runtime

| Variable | In the code |
|---|---|
| `global`, `inst` | `config.yaml`, `instances/` |
| `disk`, `manifest` | `runtime/generated/sing-box/`, `runtime/manifest.json` |
| `running` | the content each service was started with |
| `pc`, `job`, `loaded`, `plan`, `todo` | one running command: its position, arguments, `AgentConfigSet`, `Plan`, remaining work |
| `disturbed` | history: someone else wrote since this command loaded |

`Lifecycle` is the load, `BuildPlan` the rest of `BuildPlan`, `CheckPlan` the sing-box check,
`ApplyChange` one iteration of `ApplyPlan`'s loop, `WriteManifest` its end, `RunService` one
iteration of `Manager.Run`. Commands interleave at each of these steps. `Abort` is a kill or an I/O
error at any of them. `EditInstance` and `RestartEdited` are `config NAME`; `EditGlobal` is
`config`; `WriteInstance` is `add`, `clone` and `member add/remove`; `RemoveInstance` and
`PurgeGenerated` are `remove [--purge]`; `StopService` is `stop`; `Respawn` is the death of a
service, after which systemd starts it again or gives up.

Taken as one step: loading the configuration set (its files are read one after the other), and a
validated write of the instance manager, which `Store` takes apart.

### Deployment

`catalogue` is what the manifest says of every instance. `DeployAll` replaces it by the complete
outcome of one loaded configuration, all of whose files were accepted; `DeployOne` changes one
entry. `Runtime` implements it with `catalogue` mapped to the manifest's contents
(`ImplementsDeployment`), when commands do not overlap.

### Backup and Store

`Backup` numbers the files in the order of an import, `config.yaml` last. `Import` is everything up
to the first change (the archive verifies and loads, and without `--force` nothing is there),
`StopInstance` one service, `BackupTarget` and `PlaceTarget` the two renames of
`replaceOneImportFile`, `UndoRemove` and `UndoRename` the two of `rollbackImportFiles`.
`PrepareFails`, `ReplaceFails`, `UndoFails` and `Kill` are the faults; `claimed`, `placed` and `kept`
are `importFile.backup`, `.installed` and the file behind the former. What a file holds and whether
a set of them loads (`Loads`) are parameters. Nothing locks the files: `Others` is any change that
other commands make to files and services, between two imports or between any two steps of one
(`Beside`). The history variables `before`, `touched` and `started` are the files when the import
began to replace them, those others changed and the instances others started while it ran; they
appear in properties only. What an import promises of a file it promises as long as nobody else
writes it.

`Store` gives them a meaning. A text is a name, whether it is enabled, its ports, whether it has a
socks5 or http inbound, the instances a group refers to, and whether strict security would refuse
it; a file may be `NAME.yaml` or `NAME.yml`. `Add`, `Clone`, `MemberAdd`, `MemberRemove`, `Remove`
and `InitConfig` load and decide, `Write` and `Delete` write later: two processes do so at once.
`Open`, `EditorEnds`, `CheckDraft`, `RenameDraft` are `config` and `config NAME` with their draft,
`OpenAdded` is `--edit`. An import runs beside all of them, at each of its steps. A file is edited
by one process at a time; `ByHand` changes a file without sboxctl; two imports at once are not
modelled. Reading the set is one step, in a load as in an export. `.json` instance files are left
out. `MaxExports` bounds the archives written, which are among those an import may take.

### Installer

`bin`, `marker`, `rules` and a `.previous` of each. A command walks its resources: `Resolve` refuses
or skips, `Fetch` downloads any content, verifies, extracts and stages it, `Clear` ... `Cleanup`
are the lines of `replacePair`, `ClearRules` ... `CleanupRules` those of `replaceRulesDir`,
`DropBin`, `UndoBin`, `UndoMarker`, `UndoRules` their error paths. `os.RemoveAll` takes entries one
by one. `CallFails` is an error of any call, `Kill` the end of the process anywhere, `MakeLink` a
link made by hand. A content stands for its sha256. The code ignores errors of its rollback; in the
model the rollback does not fail, though it can be killed. Two installers at once are not modelled.

### Services

A command is the set of calls it still has to make (`plan`), worked out from the configuration it
loaded. A call is named by its loop, the member the loop has reached and its step in the body, and
`Due` is the one before all others; every call is an action that looks at the files when its turn
comes. `loaded` is what
systemd read at its last `daemon-reload`; under launchd a plist is its own truth. `units` starts
with any units an older version wrote per instance. `setup local`, `service install/uninstall`,
`traffic timer install/uninstall/enable/disable`, `uninstall ... --purge`, `start` and `stop` are
commands. `Setup` writes a `config.yaml` where there is none; the instance files a purge cut short
left behind are loaded with it. `EditSet` is `add`, `remove` and `config`, `SetupBinary` is `setup
binary`. `Fails` is a call that cannot succeed, `Fault` one that fails or a kill; launchd switches a
timer with two calls, so that either may leave the first of them done (`CutShort`). The properties
are about files and services; there is no separate type invariant.

### Protocols and Delivery

`Protocols` has no state. `ValidInstance` is `ValidateInstance` as far as it decides about
connections; `Generate` is the sing-box configuration; `Node` the subscription node of an inbound;
`Proxies` what a user is given as sing-box, Clash (and premium-clash) or Surge, by `sboxsub` and by
`export-config`. `Accepts` says which proxies a generated inbound lets in: it models sing-box and
its clients and is external, like `Checks`. Credentials, methods and keys are names; what both
sides copy unchanged is left out. `InboundSettings` and the records it is made of are the structs
of `models.go`. `ResolveRef` builds a new outbound, as the code does, so that nothing but the name,
type, server, port and credentials of the referenced inbound gets into it.

`Delivery` puts them in time: `Configure`, `Restart`, `Export`, `Import` (merge or replace) happen
when the operator does them, so files, running instances, bundles and inputs are of different ages.
Each command is one step, as `Runtime` and `SubServer` have their failures. No type invariant
either: every variable is a value of an operator of `Protocols`.

### Traffic

One counter per instance stands for its counters per scope, name and direction: a transaction
treats them one by one in the same way. `Query` and `AddHourly` are one turn of `CollectHourly`,
with the SQLite transaction of `AddHourlyCounters` one step; `StartView`, `QueryView`,
`ReadBaseline` are `show current` and a tick of `watch current`; `StartAggregate`, `ListSources`,
`ReplaceWindow` are `collect daily` and `monthly`, which read outside the transaction that
replaces; `Cleanup` deletes before a cutoff. `Tick`, `Carry`, `Restart`, `Toggle` are the clock,
traffic, instance restarts and edits of `enabled`. Collectors and aggregators can stop anywhere
without a bound (`AbortHourly`, `AbortAggregate`). A missing baseline row counts like zero, as
in the code, where the first sample is a delta from nothing. A record with no bytes does not
exist: the code never writes one. Calendars are regular (`HoursPerDay`, `DaysPerMonth`).

The history variables `carried`, `billed`, `added` and `restarted` only appear on the right of
properties; no guard reads them but the bound on `carried`.

### SubServer

`dir` is `inputs/`: contents by name, or `Missing`. Every reader (`reading`) lists the names and
opens each one later by its path, in whatever directory is there by then. The server is at `boot`
(`New`), `watch`/`first` (the first snapshot), `wait`, `poll`, `debounce`, `reload`. `Import` with
or without `Merge`, then `SwapOut` and `SwapIn`, are `import` and `replaceInputDir` with its
rollback; `Edit`, `Check`, `WriteInput` are `input edit` and `clone`; `SetHost`, `LoadInput`,
`UpdateInputHost` are `set-host`; `RemoveInput`, `Clear`, `RemoveAll`, `Mkdir` the rest. `Touch` is
a change by hand. `Compatible` stands for `ValidateSubscriptionInputs` and the index build.

## 3. What TLC checks

| Run | Instance | Properties | Result |
|---|---|---|---|
| `RuntimeSerial` | two instances, three bodies, two global configs, any initial set; one command at a time; systemd; 2 changes, 1 fault | `QuietRunIsIdempotent`, `NoOrphans`, `ImplementsDeployment`, `TargetScope` | hold |
| `RuntimeConcurrent` | two commands at once, from one set in which instance 2 references 1; launchd; 1 change, 1 fault | `OnlyChecked`, `QuietRunConverges` | hold |
| `RuntimeOverlap` | the same on systemd, without faults | `TargetScope` | violated |
| `Store` | two instances, one of which may have a `.yml` beside its `.yaml`, three ports; two initial sets, one archive more; two processes, an import beside them; 2 commands, 1 export, 1 fault, 1 change by hand | `ImportIsAllOrNothing`, `NothingLost`, `StoppedFirst`, `LockOutsHaveCauses`, `AllocatedIsFree`, `DraftsKept` | hold |
| `Installer` | six contents (two archives, one unsafe), three names, 14 commands; 3 of them in a row, 2 faults, 1 link | `MarkerTruthful`, `DoneIsDone`, `FailureRollsBack`, `LinksAreKept` | hold |
| `Services` | two instances, two timers, systemd (with any old units) or launchd; 4 commands, 2 edits, 1 fault | `TimersHaveFiles`, `BaseOutlivesServices`, `PurgeRemoves`, `InstallReady` | hold |
| `ServicesPurge` | one instance, one timer, no faults | `PurgeStopsServices` | violated |
| `Delivery` | every inbound of `MCInbounds` (type, users, TLS, transport, auth, method, subscription) in one instance; another relays to it or competes with it; 1 edit | `Connects`, `Relays`, `OwnCredentials`, `NamesUnique` | hold |
| `TrafficHourly` | two instances, one collector, one viewer, 1 restart, 1 toggle | `NothingInvented`, `NothingLost`, `ResetIsRestart`, `UnmarkedIsPending` | hold |
| `TrafficAggregates` | one instance, five days, three months, one collector, one aggregator | `RecordsNeverInvent`, `AggregatesGrow`, `CleanupKeepsSources` | hold |
| `SubServer` | two files, two versions, two commands one after the other, 1 change by hand, 1 kill | `ServedIsChecked`, `CommandsKeepLoadable`, `Heals`, `Reports` | hold |
| `SubServerStale` | one edit beside the server | `Serves` | violated |

`RuntimeSerial`, `Store`, `Installer`, `TrafficHourly` and `SubServer` check `TypeOK` too. The
largest instances are `RuntimeConcurrent` (1.6 million states) and `Store` (1.1 million); a run takes
one to three minutes at most.

**What the properties say.** `QuietRunConverges` and `QuietRunIsIdempotent` are about a run nobody
disturbed, in a state left by anyone: earlier commands may have overlapped, died between two files,
or purged a file and left its manifest entry. TLC checks the first among overlapping restarts on
launchd; for systemd, `start` and any initial set it is proved (section 4). They rest on
`desiredAction` comparing three things (disk, manifest entry, config hash) and on the manifest being
written last. `NoOrphans` says a
generated file the manifest does not know of cannot be left behind without a crash; a later full
run would never delete it. `Heals` and `Reports` are about inputs that come to rest, with the
exception the code forces (`previous = dir`), which `Serves` shows to be a real hole.

`ImportIsAllOrNothing` is about an import that says how it ended; `NothingLost` is what remains of
it when it is killed, or when the rollback fails: the old content is still somewhere. Both speak of
each file by itself and leave out those that others wrote meanwhile, as `StoppedFirst` leaves out
the instances that others started again.

`LockOutsHaveCauses` lists what may lock an operator out (every command loads the set) and says
that nothing else does, at any step of any interleaving: a change by hand; a forced import, or one
beside which others wrote; `remove` of an instance others refer to; a write over a set other than the
one its command looked at, as `init --force` looks at none; a write beside a `NAME.yml`; the draft of
an instance, which is checked alone. `Unchecked` names the commands' share of these.

`MarkerTruthful` is what `install` relies on when it skips; `DoneIsDone` is the promise of its exit
code, also when it skipped. `BaseOutlivesServices` is the reason for the order of the purge: what
names the rest to be removed is removed last. `InstallReady` follows a `daemon-reload` that an
uninstall skipped because a repeat found nothing to remove.

`Connects` relates two converters that never meet: what `generator.go` makes of an inbound, and what
`subscription.go` and `render.go` make of the same inbound for a client. `Expressible` names,
one by one, the settings that no client of a format can be told, and `Leads` those an outbound
cannot; section 5 lists them.

**Bounds.** A reference needs two instances; three bodies give every relation between them (a port
or endpoint that changes, a reference). The plan reads the state of at most one earlier command
that was cut short and one change, so two changes and one fault reach every combination of a stale
file, a stale entry and a stale service; `RuntimeConcurrent` puts a second command between any two
steps. In `Store` two commands put one write between another's load and write, or a command, an
edit or a change by hand between any two steps of an import; three files and `config.yaml` give an
import files that are replaced, new and left out. In `Installer` three commands are one that is
cut short, one that meets what it left, and one that trusts the marker of the second; the second
fault may hit the undoing of the first. In `Services` four commands are setup, start, an uninstall
or purge cut short, and what is run after it. `Delivery` starts with every inbound and needs one
edit to make the ages of files, running instances, bundles and inputs differ. Two bytes and one
restart are enough for a counter to pass its old baseline again. Five days of one hour with months
of two days make every retention cut inside the horizon. Two files, of which both at version `b`
conflict, give every kind of directory: loadable, not loadable, empty, missing. Bounds are guards
on `changes`, `commands`, `edits`, `hand`, `exported`, `links`, `faults`, `restarts`, `toggles`,
`writes`, `touches`, the clock and the bytes; all runs set `CHECK_DEADLOCK FALSE` because a system
whose operator issues no further command and whose clock has reached its bound may stop.
`RuntimeConcurrent` and `Store` use the symmetry of their processes.

**Fairness.** Only `SubServer` assumes any: `WF_vars(ServerStep)`, the watcher's goroutine, which
loops on a ticker for as long as the process lives. Nobody promises that a command finishes, that
an operator acts or that the server is started, and the liveness properties do not need it.

**Mutants.** Beside definitions there are variants commented "Mutant": a dropped comparison, a lost
carry-over, a swapped operand, a file removed too early. With one of them in place of its definition
the run finds the property violated; each property has one.

## 4. What TLAPS proves

For all values of the constants.

`RuntimeProofs`, for any number of instances and (but for the last item) of overlapping commands, on
either service manager, with any accepted set of contents:

* `TypeCorrect`, `OnlyCheckedAlways`. `OnlyChecked` is not inductive: the invariant `SafeInv` adds
  what a command knows by where it is. It loaded a loadable set (`LoadedOK`), its plan wants exactly
  what that set generates (`PlannedOK`), and past the check all of it is accepted (`CheckedOK`).
* `QuietRunsConverge`, `QuietRunsAreIdempotent`. The invariant `QuietInv` follows an undisturbed
  command step by step: the configuration and the manifest are still the ones it loaded; files it
  does not change are already as wanted; those not in `todo` any more are written; after
  `WriteManifest` the manifest agrees; then, service by service, so does what runs. Every other
  process's step either leaves these alone or sets `disturbed`.

* `NothingIsOrphaned`, `CommandsStayInScope` and the refinement, `RuntimeImplementsDeployment`, under
  `OneCommand`, for any instances and contents. The invariant `SerialInv` says that the manifest a
  plan was built from still stands when it is applied, that what the plan deletes is in that
  manifest and in scope, and that every file on disk is in the manifest or wanted by the apply under
  way (`Accounted`). The refinement needs no more: `WriteManifest` is `DeployAll` or `DeployOne`,
  every other step leaves the catalogue alone. Two commands break all three: `RuntimeOverlap` shows
  it for `TargetScope`.

`BackupProofs`, for any number of files, any contents, any meaning of "loads" and any number of
faults, over `BackupSpec`: one import at a time, and beside it, between any two of its steps, any change
of any files and services by others:

* `TypeCorrect` is not inductive as it stands: the loops stop at `config.yaml` because the archive
  has one (`HasConfig`).
* `AllOrNothing`, `NothingIsLost` from `ImportInv`, which gives each file a shape by where the import
  is: behind `at` it is `Done` (new content in place, old one in its backup), at `at` half way, ahead
  `Old`; undoing, the files behind are `Undoable` and those ahead `Cleared` or restored. A failing
  undo or a kill weakens the shape to `Safe`, which is `NothingLost` for that file. The shapes are
  those of files nobody else touched (`Alone`, `ShapeBeside`).
* `StopsFirst` from the loop of `stopRunningImportInstances`.

`StoreProofs`, for any instances, texts, ports and number of processes and faults, over `Store`,
where an import meets the commands that write the same files:

* `ImportsBesideCommands`: a step of a command is, to an import, a change beside it, so that
  everything above carries over.
* `StoreTypes`, `LockOutsExplained`, `AllocationsAreFree`, `DraftsAreKept`. The invariant `StoreInv`
  is `ImportInv` with what a command knows by where it is: every editing command has a draft of its
  own (`ProcsOK`), what it goes to write is acceptable to the set it saw (`Decided`), and a checked
  `config.yaml` loads with the instances it saw (`Checks`). The three action properties follow from it.
* `LockOutsExplained` takes the writers one by one. A removal nobody refers to leaves a set that
  loads (`RestLoads`), a write or rename that breaks one is `Unchecked` (`UncheckedBreaks`), and an
  import without `--force` that nobody touched has nothing to break until its last rename
  (`NothingToBreak`, from `ConfigComesLast`): without a `config.yaml` no set loads.

`InstallerProofs`, for any archives and sources, any requests and any number of commands, links,
failing calls and kills:

* `TypeCorrect`, `MarkersAreTruthful`, `FailuresRollBack`, `LinksStay`. The invariant `Inductive`
  adds to the types that every pair of file and marker anywhere describes itself (`Truthful`: in
  place, about to be put in place, and as it was before), and what has been moved where by now
  (`PairStages`, `RulesStages`). `LinksStay` is an action property from the same invariant.
* `SuccessIsDone`, from an invariant of its own (`Progress`): a resource of the command is still in
  its list or is as it was asked for (`Paid`), and what a step is about to put in place is what was
  asked for (`Working`).
* The proof of `MarkersAreTruthful` shows what it does not need: a `.previous` left by a killed
  command may hold anything, because a rollback only uses a backup the same command made.

`ServicesProofs`, for any number of instances and timers, any units of older versions, any number of
commands, edits, failing calls and kills, under systemd and launchd:

* `TimersKeepFiles`, `BaseGoesLast`, `PurgeIsComplete`, `InstallIsReady`. The invariant `ServicesInv`
  says of everything a command has to write, remove, stop or reload that it is done or its call is
  still in the plan (`Purging`, `Installing`), and of what must not come early that the calls before
  it are not (`TimersSafe`, `BaseSafe`).
* The order of a command is `Before`, a lexicographic order of calls. A step only makes a call that is
  `Due`, so a removal that is planned after another cannot happen while the other is in the plan; no
  proof looks at the plan as a list.

`DeliveryProofs`, for any instances, users and start configurations, any settings of an inbound, and
any number of edits, restarts, exports and imports in any order:

* `ClientsConnect`, `RelaysConnect`, `CredentialsAreOwn`, `ProxyNamesUnique`. The first two rest on
  `ConfOK` (the files have the fields of their types and load together): `Accepts` is proved of what
  `Generate` and `Node` make of one and the same valid inbound, protocol by protocol. The third rests
  on `CredentialsOK`: in every bundle and among the inputs, however old, a credential stands beside its
  user. The fourth holds because the inputs stay `Mergeable`. These are the proofs that are about
  converters rather than interleavings.
* `DeliveryAssumption` says of the texts a file may hold that their fields are typed and that a
  credential is given to one user only.

`TrafficProofs`, for any number of instances and commands, any calendar, retentions and bounds:

* `TrafficTypes` (with a bound that makes it inductive: an instance's counter never shows more than
  it carried) and `NoRecordInvents`. The invariant `ClaimsInv` says the same of the sums an aggregator
  holds between its read and its transaction. A month's sum is over days whose records may be of
  different ages; that it stays below what the hours were given is `SumOfParts`.
* `AggregatesOnlyGrow`, under `OneAggregator`: while all hours of a window are within the retention,
  the record, the sum in flight and the parts are in this order (`GrowInv`). It needs that days are
  kept as long as their hours (`FreshIsKept`), which is `cleanupCutoff`'s maximum of two retentions.
* `CleanupLeavesSources` is arithmetic of days and months (`SourcesAreKept`).
* `BillsAreCarried`, `NoLossWithoutRestart`, `ResetsAreRestarts`, `UnmarkedShowsArePending`, under
  `OneCollector`. The invariant `AccountInv` adds `Pending` (what is billed, the delta a sample in
  flight will bill and what the counter gained since do not exceed what was carried, used or lost)
  and `Ordered` (without a restart, baseline <= sample <= counter). Its arithmetic is three lemmas
  about `Delta`.
* `OneCollector` and `OneAggregator` are needed: with two, TLC finds `ResetIsRestart`,
  `NothingInvented`, `NothingLost` and `AggregatesGrow` violated (section 5). The code does not
  enforce either.
* Sums are the library's `SumFunctionOnSet`. The lemmas about it (a member taken out, a member that
  grows, two sets, parts) rest on an induction over the subsets of a finite set, `SetInduction`, which
  takes a set where the library's theorem takes a predicate, and comes from the least element of the
  subset order.

`SubServerProofs`, for any files, versions and number of commands:

* `TypeCorrect`, and `ServedAlwaysChecked`: the served index passed the checks, whatever changes
  under the server while it reads. The property is inductive by itself.
* `CommandsStayLoadable`, under `OneEditor` and `Hereditary` (no inputs, and fewer inputs, are never
  worse: `ValidateSubscriptionInputs` checks inputs one by one and in pairs). The invariant `KeepInv`
  says for every position of a command what the directory is (`Loadable`, or `Missing` between the
  renames) and what it is about to become; `ReadSoFar` ties what was read to what is there.

The proofs assume `ConfigAssumption`, `RuntimeAssumption`, `BackupAssumption`, `StoreAssumption`,
`InstallerAssumption`, `ServicesAssumption`, `ProtocolsAssumption`, `DeliveryAssumption`,
`TrafficAssumption` and `SubServerAssumption`, which TLC evaluates in every run of these modules, and
the hypotheses named above: `OneCommand`, `OneCollector`, `OneAggregator`, `OneEditor`, `Hereditary`.
The first four say how many commands run and hold in the run that checks the property.

Only model-checked: the liveness of the subscription server (`Heals`, `Reports`), for which TLAPS has
no rule that reaches through fairness. Every other property of a run that holds is a theorem.

## 5. What the models found

Shown by runs:

1. *A target restart can undo another's manifest entry* (`RuntimeOverlap`): the entries of the other
   instances come from the manifest read when the plan was built.
2. *The watcher can miss a change for good* (`SubServerStale`).
3. *A purge leaves services running* (`ServicesPurge`): it stops the instances that are configured
   and whose service file is there, not one that was removed while it ran, nor one whose unit an
   earlier uninstall removed, nor any when `config.yaml` is missing. Their base-dir goes all the
   same. With no instance configured the template unit stays as well.

Seen while modelling, each a counterexample TLC gives when the property is stated without its
exception or the bound raised:

* *Overlapping collections bill twice* (`Collectors` of two): the older sample is committed second
  and taken for a reset.
* *`show current` can show stored bytes*: the counter is read before the baseline.
* *`ALL` is not all*: it means the enabled instances; one disabled between its hourly and daily
  collection is never aggregated.
* *A subscription import is not atomic*: killed between its two renames it leaves no `inputs/`.
* With two aggregators of the same window the older sum replaces the newer one, until the next
  collection.

Read in the code while modelling, and how the models deal with it:

* Store. `config NAME` checks its draft alone, `remove` nothing: either can make the set unloadable.
  The union of a forced import and the files it does not replace is never validated. A rollback
  reports an error for a backup whose rename failed, although nothing was lost. `init --force` does
  not look at the instances. `pruneEditableYAMLNode` drops an empty `api.token` and
  `traffic.scopes`. An editor that fails on a fresh draft discards what was saved in it. A name that
  contains `.draft`, `.tmp` or `.swp` gives a file no command ever loads, but `export` takes.
* Installer. The payload's sha256 in the marker is written and never read. After a killed install
  the next one may delete a `.previous` that is the only copy. `install` without `--archive-member`
  accepts whatever member is installed (`DoneIsDone` says so). A link to a directory that holds a
  marker counts as managed; links are modelled without one.
* Delivery, the exclusions in `Expressible`: a listener on loopback with a subscription; a
  shadowsocks user's method other than the server's; VLESS vision without TLS; REALITY without a
  public key, or with a short id that is not in `short_ids`; TLS in Clash and Surge, which drop it;
  transports they do not have (the instances check ws and
  grpc, which Clash has); the shadowsocks methods `2022-*` (`TwoKeys`), whose proxies need the server's
  and the user's key together and are given the user's only. In `Leads`: a reference carries no TLS. `sing-box check` refuses TLS
  on shadowsocks and socks5 inbounds, which validation accepts.
* Delivery, names: a user's tag `proxy` and remarks `auto`, `AllProxy`, `DIRECT`, `Final` collide with
  the templates' own groups, which are not modelled. A merging import never removes the nodes of an
  instance that is gone. A clone keeps a custom remark and tag, so that the next export of both
  fails. `export-config` renders without the checks of an export: `NamesUnique` is about `sboxsub`.

## 6. Not modelled

* Templates, output, diagnostics, packaging: conversions to text or read-only.
* The formats of single fields (`domain/validation.go`: UUIDs, hosts, paths, intervals) and DNS: they
  relate no two pieces of state.
* The wording of Clash, Surge and sing-box documents, their groups and rules, and a user's own
  templates.
* HTTP routes and the access token: functions of the request and the index.
* The service of `sboxsub`, and `enable`, `disable`, `status`, `logs` of services.
* Two installers, or two imports, at once: no lock excludes them, and nothing promises anything
  about them. A load or an export that others write beside: it is one step.
* Wide integers: counters are natural numbers. The code keeps them in 64 bits, which a
  count of bytes does not reach.
* Manifests edited by hand: the command stops with an error.

## 7. Plan

Done: configuration and deployment (`ConfigModel`, `Deployment`, `Runtime`), the store and its
backup (`Store`, `Backup`), installation (`Installer`, `Services`), delivery (`Protocols`,
`Delivery`), accounting (`Traffic`) and publication (`SubServer`), with the proofs above.

1. `Calendar`: the default windows of the timers over months of different lengths, and the schema
   of records per scope and name.
2. `Store` refined to `Runtime`'s configuration: its writes are the changes `Runtime` allows.
3. The routes of the subscription server: token, user and format of a request, against the index
   that is being replaced.
4. Proofs: what the watcher knows at each of its positions, the safety part of `Heals` and `Reports`;
   the refinement of 2.

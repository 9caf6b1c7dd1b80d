# Verification of EMI Analyzer

EMI Analyzer lets a user submit *runs* (parse a board, solve a region, simulate a discharge, ...)
to a control plane, which hands each run to a *worker* over a WebSocket or a poll. The worker
claims the run, posts progress, uploads artifacts straight to object storage and reports the
end. What is hard to get right, and what this project is about, is who holds a run, what a late
or repeated request may still do, whether every run ends and every stop takes effect, what a
stage may publish as a result, what the local app leaves behind, and the few decisions of the
worker that nobody notices when they are wrong.

Everything here is TLA+ checked with TLC; the theorems are checked with TLAPS.

    tlc -workers 2 -config run_control.cfg MCRunControl.tla
    tlapm RunProofs.tla

## 1. Inventory

Paths are relative to the repository. "Hard" names the behaviour a unit test hardly reaches.

| Component | State it keeps | Operations | Hard | What makes it correct |
|---|---|---|---|---|
| Run control plane: `server/emi/api_agent.go`, `auth.go`, `types.go`, `service.go`, `local/sqlitestore.go` | `emi_runs` (status, owner key, jti, claimed_at, progress, summary), `emi_artifacts`; signed run tokens and PUT URLs are stateless | create, stop, retry, mint, refresh, claim, progress, upload, complete, sweep, restart | handlers read the row, decide, then write in another statement; tokens outlive claims | one holder at a time; done is final; a retry takes a run away; every claimed run ends |
| Worker: `worker/emi_worker/runner.py`, `client.py`, `stages/__init__.py` | queue, `_seen`, `_stop_requested`, one job per thread | discover, enqueue, mint, claim, stage, upload, complete, fail | push races poll; requests fail or lose their answer; stop arrives at any moment; process killed | no attempt worked on twice; a run it started is finished; a waiting run is taken |
| Hub and dispatch: `server/emi/hub.go`, `ws.go`, submit and retry of `api_user.go` | `conns`, `byKid`, each connection's capabilities, `emi_workers.capabilities` | register, unregister, list and push pending, hello, keepalive, dispatch, admission | reconnect overlaps the old socket's cleanup; submit overlaps connect; dead TCP | the indexes agree; no run falls in the gap; no phantom worker |
| Boards and uploads: `api_user.go`, `objectkeys.go`, store | boards, content-addressed uploads shared between them | upload, create, look up, delete board and project | check-then-delete against a new board on the same bytes | no live board loses its upload |
| File blob store: `local/fileblob.go` | an object file and its content type | signed PUT and GET, delete | two files per object | a GET serves one upload |
| Local app: `cmd/emi-local/main.go`, `worker.go`, `local/keys.go` | worker container, its key, restart channel | start, watch, restart, stop | Stop races the supervision loop; a docker command that was cut off is carried out later; the app is killed | what is left behind cannot connect; a worker comes back |
| Discovery: `endpoint.go`, `server/localapp`, desktop sidecar | the endpoint file | publish, take back, attach or start | two apps, one file | the app started last is found |
| Plugin's window: `kicad-plugin/emi_analyzer/single.py`, `app.py` | lock file, request file | acquire, heartbeat, ask to show, release | presses race to take a stale lock over; a window hangs or dies | one window; every press is answered |
| openEMS monitor: `openems/run.py` | counters over the log, the ABORT file | read a line, abort, cancel | dips of the energy while the source is on; a stop or a lost run in the middle of a line | an earned end; no diverging run published |
| Stages: `stages/*.py`, `openems/post.py` | files to upload, the manifest | progress, refuse, build and upload artifacts | a stop between two looks; one artifact of several fails | done means whole; usable means settled |
| Compliance gate: `compliance/`, `drivers/`, `stages/compliance.py` | none | assemble paths, check what is missing, score | many independent things may be missing | a margin is of the whole product |
| Net topology: `topology.py` | a graph per net | build, find paths | joins of tracks, vias, pads, pours | a path is real and the shortest |
| Conducted discovery: `conducted/rail.py`, `regulators.py`, `rules/emc.py` | none | find regulators, follow the rail, attach | each is decided from the other | regulators are what they are |
| Grid: `openems/mesh.py`, `openems/model.py` | none | merge, fill, smooth, pad | required lines closer than a cell; two sides filling one gap | every copper edge on a line; no needlessly small cell |
| Gerber nets: `raster.py`, `gerber/connectivity.py` | islands per layer, nets of islands, pads | label, align, assign, attach | a point beside its copper; an antipad; a netlist in coordinates of its own | copper has its own net or none; a pin is its pad |
| Component models and drivers: `components/`, `drivers/`, `openems/model.py` (`_plan_elements`), `server/emi/components.go` | none | choose the documents, match parts, place elements; read a capture | several documents answer for one part; a capture ends before the scan | the right document answers; a number is never better than what it came from |
| Layout rules: `rules/`, `webapp/src/lib/rulesSettings.ts` | none | merge settings, run the rules, weigh, cut and sort | three layers of settings and groups of nets; one rule fails halfway | a rule does what its settings say; what was found is not lost |
| Matched signals: `rules/matching.py`, `rules/stubs.py`, `impedance.py` | none | pairs, lanes, skew, stubs | names that say two things | a pair is whole; a spread is real |
| Plugin and app: `kicad-plugin/.../controller.py`, `project.py`, `boardio.py`, `client.py` | the remembered project, a client of the app | open, rescan, follow | each call may fail or be done and fail; the app moves; projects are deleted | one board file is one project |
| Field solving, circuit simulation, parsers of KiCad and Gerber files, geometry | none across runs | compute | floating point, text | out of TLC's reach |
| Postgres store, S3 driver, features, estimates, compare, MCP, clients, the rest of the web app and of the plugin's window | rows and views | CRUD, validation | none the parts above do not have | see `PROJECT.json` |

How they interact: a user's handler inserts or changes a row and then pushes to a connection
chosen by the hub; the hub only ever pushes offers and stop requests, and everything with a side
effect comes back as a REST call. A worker calls with its key until it has minted a run token,
and with the token afterwards. Storage is reached with signed URLs, beside the control plane. The
sweeper is a ticker of the server. The local app runs that server, one worker in a container that
connects back with a key issued for it, and a file that says where it is; the KiCad plugin and the
desktop shell find it there. Inside the worker, a stage runs in one of the worker's threads and
starts openEMS as a process of its own.

Each hazard of the code, with its line and the properties that cover it, is in
`PROJECT.json` under `hazards`; those without a property say why.

## 2. Modules

| Module | Models |
|---|---|
| `RunLifecycle` | abstract: what the control plane promises about a run |
| `RunControl` | the control plane with any holders of tokens; refines `RunLifecycle` |
| `Runner` | extends `RunControl` with the real worker processes |
| `Dispatch` | the hub, its handlers and the submit path |
| `Boards` | uploads, boards, projects and their deletion, over the database and the object store |
| `SolveMonitor` | `run_openems`: the loop over the solver's log, ABORT and the verdict |
| `Stages` | extends `SolveMonitor` with the six stages around it |
| `LocalApp` | the local app's process, its supervisor, Docker, the endpoint file |
| `SingleWindow` | the plugin's single window |
| `OpenBoard` | a press of Open or Rescan, from the editor's board to a project in the app |
| `Compliance`, `Topology`, `Conducted`, `Mesh`, `Nets` | the compliance gate, the paths of a net, the conducted scan's discovery, the solver's grid, net names of a Gerber board |
| `Components`, `Drivers` | which document models a capacitor and where its element goes; what a driver is taken for |
| `Settings`, `Strip`, `Checks`, `Findings` | the layout rules: their settings, what they know of a board, the rules, the list a user reads; each extends the one before |
| `Matching` | pairs, lanes, skew and stubs |
| `Decisions` | the decisions of `Compliance`, `Topology`, `Components` and `Drivers` as a system of one step: a question, and the answer it gets |
| `RunProofs` (of `RunControl` and `Runner`), `DispatchProofs`, `BoardsProofs`, `StagesProofs`, `LocalAppProofs`, `PluginProofs`, `ComplianceProofs`, `DecisionProofs` | theorems |
| `MCRunControl`, `MCRunner`, `MCDispatch`, `MCBoards`, `MCStages`, `MCLocalApp`, `MCPlugin` | instances for TLC |
| `MCDecisions` with `MCLayout`, `MCParts`, `MCRules`, `MCFindings`, `MCSignals` | inputs for the decisions, and what the answers of the other modules have to be |

### RunControl

A store operation is one SQL statement or transaction, so it is one step. A handler that reads
the row and then calls the store is two: the read leaves a record in `calls`, the store step
takes it out, and anything may happen in between. `status`, `owner`, `jti` and `overdue` are the
columns (`overdue` stands for a `claimed_at` before the sweeper's deadline). `progress`,
`summary` and `blob` do not hold data but *the jti of the attempt that wrote them*, which is
all the properties need to tell a current result from a superseded one. `tokens` and `urls` are
the unexpired run tokens and PUT URLs in the world.

| Action | Code |
|---|---|
| `CreateRun`, `RequestStop`, `RetryRun` | the submit, stop and retry handlers and their statement |
| `ReissueToken` | `handleRefreshRunToken`, and `handleMintRunToken` for the holder |
| `MintRunToken`, `ClaimRun` | `handleMintRunToken` up to the store call; the conditional UPDATE |
| `BeginCall` | `requireRunToken` |
| `UpdateRunProgress`, `CompleteRun`, `ArtifactUploadInit` | the run-token handlers after it |
| `FailCall` | a store that answers an error, or a client that hung up |
| `PutArtifact`, `ExpireUrl`, `ExpireToken`, `AgeClaim` | storage and time |
| `SweepTimedOut`, `Restart` | the sweeper; a restart (with `FailInterrupted` for the local app) |

A "done" carries one artifact and the handler's `Stat` happens with the store step; since the
bytes of a key never go away here, asking earlier allows nothing more.

### Runner

Each worker has its queue, `_seen` and `_stop_requested`, and `MaxConcurrent` threads. `pc` is
where a thread is in `_execute` and `_run_claimed`: `idle`, `mint`/`minting`, `claim`, `stage`,
`posting`, `put`, `complete`/`completing`, `fail`/`failing`; the -ing places wait for an answer.
A thread and its request are matched by the jti both carry, and a request its thread has given
up on stays with the server, which may still carry it out. Every way an answer comes back is in
the code's own branches: 409 raises `RunReassigned` (which is a `ServerError`), other statuses
`ServerError`, and the transport its own exceptions, which escape different handlers
(`AnswerError`, `GiveUp`). A stage posts progress any number of times, then uploads and returns,
or raises.

### Dispatch

Every WebSocket handler is a process that goes through `accepted`, `listing`, `sending`,
`reading`, `storing`; submitting a run is admission, insert, choice of a connection under the
lock, and a write without it. A socket has two ends: `open` (server) and `peer` (worker), and a
worker may vanish without the server knowing. A write to it may succeed into a buffer or fail.

### Boards

An upload is stored under the hash its client *claims*, so boards of several projects may share
one object; which boards exist is in the database and the objects are in the store. A request is
a process with a place (`req[u].at`), and a step is one query or one call of the object store.

| Steps | Code |
|---|---|
| `ReuseUpload` or `SignUpload`, `PutUpload`, `Abandon` | `handleCreateUpload` (it writes nothing, so one step) and the client's PUT; a URL that is never used |
| `StatUpload`, `InsertBoard`, `CreateRun` or `InsertFails` | `handleCreateBoard`: look for the object, insert the board, insert its ingest run |
| `CheckBoard`, `CreateRun`; `RetryRun` | `handleCreateRun`; `handleRetryRun` |
| `ListVersions`, `ListRunsOnVersion`, `CountSharing`, `DeleteBoard`, `EraseRuns`, `EraseUpload` | `handleDeleteBoard` |
| `ListRunsOfProject`, `ListBoardsOfProject`, `CountSharing`, `DeleteProject`, `EraseRuns`, `EraseUpload` | `handleDeleteProject` |
| `ReadInput`, `PutArtifact`, `CompleteRun`, `FailRun`, `LeaveRun` | what a run does to a board: the worker reads the upload, puts an artifact, records the hash it computed, fails, or finds its run gone |

The two handlers share the steps that the two copies of the code do alike; a deletion of a
version has `req[u].board` set and one of a project has not. The guards of `InsertBoard` and
`CreateRun` on their parents are the foreign keys. A worker may put an artifact through its URL
after its run ended or was deleted, since a signed URL is checked by the storage alone. A retry
voids what the worker before it had read: that it can no longer complete the run is RunControl's
`LostTokenStaysLost`.

Four variables are history: `verified` (what an ingest reported), `named` (keys some board has
named), `exposed` (boards recorded while a deletion that will not see them was under way, or with
no object) and `overlapped`. They say in which circumstances a property is claimed, and no action
reads them.

### SolveMonitor and Stages

A line of openEMS's log is a step: `ReadHeader`, `ReadReport`, or `EngineEnds` when the process
ends, whose log `JudgeRun` then judges. `hold` is `below`, `below_since` and `below_first_db`;
levels are steps of a decibel scale and times are timesteps, so the code's ratios and products are
differences. A callback that raises (`ProgressRaises`) leaves the loop with the process running,
and `OrphanEnds` is what becomes of it. openEMS is free to print any energies.

A stage is the list of its places (`STAGES`), read off the code from top to bottom: where it looks
for a stop and posts (`post`), asks the server (`ask`), may refuse the run (`try`), works item by
item (`each`), and what a solve does between its simulation and its upload (`BuildArtifacts`,
`AddNetwork`, `AddAntennaTerms`, `AddFarField`). What is computed in between is not there. `files`
is `artifacts.files`, `manifest` the dictionary in memory, `written` what the rendered
`manifest.json` says, `usable` the artifacts with a number marked usable.

### LocalApp

An app is a process that goes from `off` through `serving`, `up` and the places of its shutdown;
its supervisor (`sup`) goes through `startOnce` one docker command at a time, `watch` and the wait
of `Run`. A container has a key and the app that started it, and a key is `valid` or `revoked`;
`RevokeNamed` revokes every key of a data folder wherever it has been handed to. A command whose
client is gone is left with the engine (`late`) and carried out at any later time, or never.
The main thread's shutdown and the supervision loop run side by side, as they do in the code.

### SingleWindow

Every press of the toolbar button is a process, and a step is one call of the file system: `Create`
(`O_EXCL`), `Stat`, `Unlink`, `Write`, `Clear`; `Beat` and `Tick` are the two halves of the timer's
callback. Time is the age of the lock in heartbeats, and passes only while no awake window owes its
tick; a window may hang, wake and die.

### OpenBoard

What the window does with a board runs on one thread, so there is one press at a time and a step is
one call: find the app or start it, read the board, ask whether the remembered project is there,
ask whether the bytes are known, create a project, upload, record, remember. A call fails, or is done and
fails; meanwhile the board is edited, analyses end, projects are deleted, and the app quits and
comes back, perhaps on another port. `store` is the file beside the plugin that remembers the
project, `client` the port of the app it was found on. `made` and `moves` count what the property is about, and `troubles` what
excuses it. `MCPlugin` is `SingleWindow` or `OpenBoard` according to `subject`: the lock and the
window's contents share no state.

### The decisions

Pure functions, so no state: each translates the code operator by operator and ends in a
definition of what the answer should have been. `Decisions` puts a question to one of them in one
step; what may be asked is a constant (`Topics`, `Questions`), and an invariant per group of them
says what the answer has to be. `MCDecisions` has the inputs of the run and the invariants of the
modules that `Decisions` does not extend.

`Compliance` keeps, at every frequency, who says something, who says nothing and who says zero;
every radiator has one strength, so a sum of amplitudes is a sum of whole numbers. `Topology` is
a net on a line of three places and three layers. `Conducted` keeps which parts touch which nets
and what their names and part numbers suggest. `Mesh` is one axis of the solver's grid on whole
units that are small against a cell, from the copper's edges to the padded axis, so a scaled
series is rounded down; its results are the code's up to that rounding. `Nets` draws copper in
pixels, labels it run by run with the union-find of the code, and names it from netlist points at
positions in quarters of a pixel; what rasterizing a ring does is not in it.

`Components` reads component documents, orders those of a run (unsaved, the user's, shared, built
in), matches a part by value, package and part number, and places an element between its pads.
`Drivers` takes a driver document: the pulse of a trapezoid, the period of a capture, how it goes on
above its bandwidth with the edge its `rise_s` declares, and the interpolation of a spectrum. Every
level is computed from the document's numbers; only the height of one line of a wave
(`piecewise_linear_series`) is a constant, a function of the wave, its period, the edge in
terms of whose envelope it is measured and the line's number. `Settings` merges the three layers of rule settings over the
defaults, with groups of nets, and does what the app does with the same documents: show what
the next analysis runs with and write a file that gives the same. `Strip` is a board of one
dimension: places on every layer, so that a pour is an interval and a plane a stretch. `Checks`
has the rules about the return path, stitching, placement and decoupling on it, and `Findings`
runs the rules that are on, keeps what a failing one had found, weighs, overrides, sorts and
cuts. `Matching` finds pairs and lanes by name and by pin, and measures skew, impedance and stubs.

## 3. What the runs check

| Run | Instance | Shows |
|---|---|---|
| `run_control` | 1 run, 2 workers, 3 ids, 2 requests in flight | `OnlyTheHolderIsAuthorized`; `WaitingRunTakesNoToken`; `RecordedResultIsUploaded`; `DoneIsFinal`; `LostTokenStaysLost`; `ImplementsLifecycle` |
| `run_control_two` | 2 runs, 1 worker, local app | `ImplementsFairLifecycle`: with nothing fair but the sweeper and the clock, every claimed run ends |
| `runner` | 1 run, 2 workers of 2 threads, 1 fault, 1 crash | `OneThreadPerAttempt`; `StartedRunIsWorkedOn` |
| `runner_live` | 1 run, 2 workers of 1 thread, no faults | `WaitingRunIsTaken`; `WorkerEndsItsRuns` |
| `dispatch` | 1 key, 2 connections, 1 solve, two sizes of worker | `HubIsConsistent`; `ReplacedSocketIsClosed`; `NoRunFallsInTheGap`; `DeadPeerIsNoticed` |
| `boards` | 2 requests at a time, 2 projects, 2 boards, 1 run, 2 contents, 1 of them claimed | `UploadStays`; `RowsHaveTheirParents`; `ReuseIsVerified`; `NothingLeftBehind` |
| `stages` | the six kinds, every option of a solve; logs of 4 reports over 3 levels | `AbortIsEarned`; `NoClimbIsPublished`; `UsableMeansSettled`; `DoneIsWhole`; `StoppedIsNotDone`; `StopTakesEffect` |
| `plugin` | 3 presses of the button, 1 hang or death; or 3 presses of Open, 2 archives, 2 ports, 1 trouble | `OneWindow`; `PressIsAnswered`; `OneProjectPerBoard` |
| `local_app` | 2 apps on one data folder, 1 command cut off | `LeftoversCannotConnect`; `WatchedWorkerCanConnect`; `LastStartedIsFound`; `WorkerComesBack` |
| `decisions` | the inputs of section 2 | `MarginIsWhole`; `PathsAreRouted`; `RegulatorsAreKnown`; `GridIsFit`; `NetsAreKnown`; `PartsAreKnown`; `DriversAreRead`; `RulesAreObeyed` |
| `late_completion`, `unjoined_via` | small | a statement of the repository that the code does not keep; section 6 |

For every property of a passing run, `PROJECT.json` names a mutant: the definition of an action
as a plausible bug would leave it (a dropped predicate, a missing reset, a lost de-duplication),
under which TLC finds the property violated.

### Bounds, and why they are enough

* `MaxIds` bounds the jtis `newID` hands out. Three allow claim, retry, claim by the other,
  retry, claim again: a token of the first attempt can meet the third.
* `MaxCalls` bounds requests between their row check and their store step. Two is what a race
  needs. The server has no such bound, so it is a guard of the model only.
* One run in most instances: runs share no state in the control plane but the ids and the
  sweeper, and `run_control_two` has two runs for the sweeper and the restart. Two runs also
  share a worker's queue and threads; `OneThread` is proved for any number.
* `MaxFaults`, `MaxCrashes` and `MaxConcurrent` bound the failing requests, the kills and the
  threads. The theorems need none of them.
* `Conns` bounds the connections ever made: two are needed for a replacement. `PushLimit` (the
  server's 50) is above the number of runs in the instance: what happens beyond it is not
  explored, and `NoRunFallsInTheGap` says so.
* `boards`: two requests are what each of its races needs, two boards are the smallest number
  that shares an upload, in one project or in two. Two contents with one claimed hash allow a
  claim that is true and one that is not. Every id is used once, so a third board in the place
  of a deleted one is not explored by TLC; the theorems have no such bound.
* `stages`: four reports are one inside the source and the decay held for `HoldReadings`, or a dip
  and a climb after it; the divergence check needs three. The `Fallback` length of the source is
  shorter than the one openEMS reports, so a log without its line is told apart. `MaxItems` bounds what a stage works through one by one.
* `plugin`: three presses are a window, a press that takes it over and one that comes between.
  `MaxHangs` bounds windows that hang or die. `StaleS` is larger than `AskS`, as in the code: a
  press gives up asking before the lock it asked about is stale. Two hangs are not checked within
  the five minutes a run may take; the theorems have no such bound. A board with two archives is one that is edited and
  edited back, two ports are an app that comes back elsewhere, and three presses are one that makes a
  project, one in trouble and one that finds what is left.
* `local_app`: two apps on one folder are an app and its successor, or two that run at once; a
  process is run once, so a restart is the next one. Apps on different folders share only the
  endpoint file, for which two on one folder do as well. `MaxCuts` bounds commands
  that run into their timeout; those cut off by the end of an app are not bounded.
* `decisions`: Compliance has two connectors, six frequencies, all clocks and captures over them,
  every subset of antenna terms and every declaration of two cables. Topology has two tracks of
  any position on any layer, no via, one or two, a pour or up to three without tracks, and pads on
  one layer or all; of the vias that mirror each other, one. Conducted has up to three parts in
  series, each topology with its switches inside, external or in a module, and a second regulator
  behind or beside it. Mesh has one or two tracks of two widths whose edges meet, lie within a
  merge of each other or apart, pads, and stack-ups of up to six layers; `RATIO` and the other
  constants are the code's. Nets has every bitmap of four by three pixels (a run that joins two
  others needs three by two), and boards of three plated holes with pours on one or both layers, a
  pixel of clearance more than the search reaches; their netlists are in the board's coordinates
  and whole, or turned over and moved and without up to two points.
  Components has up to two of eight documents of the user's before four built in, parts of every
  combination of value, package and number these tell apart, and pads at every position to each
  other that matters. Drivers has captures of up to six samples, every pulse of a period up to
  six, captures whose odd and even harmonics have a height each, and pairs of documents of every
  kind that differ in one number or in whether it is there, from a sure, an unsure or an unknown source. Settings has the right and
  wrong values of each section in up to three layers; groups of nets are in two. The boards of the
  layout rules have nine places and two or four copper layers, with pours that cover, split or miss
  them. Matching has a memory of two lanes or two memories, and every list of up to four of eight
  names that can be half of a pair.
* Symmetry is used in safety runs only.

`boards` stops when its ids are used up, `plugin` and `local_app` when every process has ended and nothing is left;
`decisions` stops after its answer; `runner` and `runner_live` stop (`CHECK_DEADLOCK FALSE`) when the ids are used up and nothing
is left to do: a server would hand out another.

## 4. Fairness, and why the code justifies it

* `RunControl!FairSpec`: only `SweepTimedOut` and `AgeClaim`. The sweeper is a ticker that runs
  as long as the server, and time passes. No worker or user owes a step.
* `RunnerFairSpec`: the poll loop keeps asking, so `OfferRun` and `DeliverOffer` are fair; a
  work thread is a loop, so its steps are; the server answers. Strong fairness is assumed of
  one thing: a stage, however often it posts progress in between, comes to its end
  (`EndStage \/ InitUpload`). A stage is a finite computation; openEMS is given a maximum
  number of timesteps. There is no wall-clock limit in the code, so a hung simulator is not
  covered. Nothing is assumed of users, of the run timeout, of errors or of stop pushes: they
  may be lost.
* `Stages!Spec`: the worker's thread runs on (`StageStep`, starting openEMS, seeing a stop, judging
  the end), and a process that writes to a pipe nobody reads ends. The loop looks for a stop once
  per line, so `StopTakesEffect` relies on openEMS printing another line; nothing is assumed that
  makes it settle, reach its cap or end.
* `AppSpec`: the supervision loop of a live app (`Supervise`). Nothing is assumed of Docker, of
  the user or of shutdown; `WorkerComesBack` is conditional on an engine that answers.
* `WindowSpec` has none: its properties are safety.
* `DispatchSpec`: handlers and keepalive tickers run. `WaitingRunIsTaken` allows the model's ids
  to run out.

## 5. What is proved

For every value of the constants that the modules' assumptions allow, so for any number of runs,
workers, connections, requests, apps, presses, and for a log of any length:

| Module | Theorems |
|---|---|
| `RunProofs` | `TypeCorrect`, `HolderOnly`, `WaitingTakesNoToken`, `ResultIsUploaded`, `DoneNeverChanges`, `LostTokens`, `ControlPlaneImplementsLifecycle` (RunControl refines `RunLifecycle!SafeSpec`) |
| `RunProofs` | `RunnerTypeCorrect`, `WorkersKeepToTheProtocol` (real workers, faults and crashes are a behaviour of `RunControl`), `RunnerImplementsLifecycle`, `OneThread`, `StartedRunsAreWorkedOn` |
| `DispatchProofs` | `DispatchTypes`, `HubStaysConsistent`, `ReplacedSocketsAreClosed`, `NoRunIsOverlooked` |
| `BoardsProofs` | `BoardsTypeCorrect`, `RowsKeepTheirParents`, `UploadsStay`, `HeldBytesAreVerified`, `NothingIsLeftBehind` |
| `StagesProofs` | `AbortsAreEarned`, `ClimbsAreNotPublished`, `UsableNumbersAreSettled`, `DoneRunsAreWhole`, `StoppedRunsAreNotDone` |
| `LocalAppProofs` | `LeftoversAreCutOff`, `WatchedWorkerIsOwn`, `LastStartedStaysFound` |
| `PluginProofs` | `OneWindowIsOpen`, `PressesAreAnswered` (SingleWindow), `OneBoardIsOneProject` (OpenBoard) |
| `ComplianceProofs` | `AMarginIsOfTheWholeProduct` |
| `DecisionProofs` | `MarginsAreWhole`, `PathsAreRoutedRight`, `PartsAreKnownRight`, `DriversAreReadRight` (whatever may be asked); `PathsFollowTheNet`, `IslandsAreJoined`, `PartsAreModelledRight`, `PlacedElementsJoinTheirPads`, `CapturesGoOnAtTheirHeight`, `PeriodsAreTakenOnce`, `DoubtfulNumbersAreWithoutEffect`, `FrequenciesAreIndependent`, `PulsesAreAsDescribed`, `NetsArePaired`, `StubsAreBranches`, `DoubtAccusesOfNoMore` |

So every safety property of a run about something that keeps state is a theorem. So are four of
the eight about decisions, `MarginIsWhole`, `PathsAreRouted`, `PartsAreKnown` and `DriversAreRead`, for
every question that `QuestionsAssumption` allows. The other decisions and the liveness are left to TLC.

**RunControl.** `OnlyTheHolderIsAuthorized` is not inductive: a mint in flight carries an id that
will be written to a row, and nothing in the property says no token has that id already. `IInv`
adds what the code relies on: `RowInv` (owner and jti are set exactly while somebody works on a
run or has; never while it waits), `IssuedInv` (no id in use is newer than the newest handed
out), `FreshInv` (the id of a mint in flight is in no row, no token, no other mint) and `OwnerInv`
(a token that names a row's jti belongs to the row's owner). The model's ids are a counter; the
code's are 128 random bits, so the proofs assume that they do not collide.

`DoneNeverChanges`, `LostTokens` and the refinement follow from the same invariant one action at
a time. In the refinement, a sweep or a restart ends a set of runs in one abstract step, and an
expired token, a signed URL, a repeated mint or an unanswered call is a stutter.

**Runner.** `WorkersKeepToTheProtocol` needs only that a busy thread has a job. So RunControl's
theorems hold of the composition. `OneThread` rests on `AttemptInv`: an id is in a worker's queue
at most once and then no thread of it has the job (`QueueInv`), two threads of a worker never
have the same job and a job is always in `_seen` (`ThreadInv`), and a thread that holds a run has
the token it claims to hold (`TokenInv`). Two threads of different workers are told apart by
`OwnerInv`, two of one worker by `ThreadInv`: this is exactly the division of labour between
the UPDATE's predicate and the worker's `_seen`.

`StartedRunsAreWorkedOn` says that without faults no run is dropped. `WorkInv` follows an attempt
through the thread that has it: a thread that waits has its own request with the server
(`WaitsForCall`), a run in progress has a thread with the jti of its row, and whoever is about to
report "done" has stored what it reports.

**Dispatch.** The hub's tables agree because a connection is in them only while its handler runs
(`HubInv`); a handler unregisters only itself, and a replaced one finds its successor there. In
`GapInv` a waiting run is in its own handler's hands (`target`) or known to every open connection
that takes it: those that read have been sent it, those that are being sent the list have it in what is
left of theirs. It is inductive because registration comes before the list and the
insert before the choice of a connection. The theorem is claimed for no more runs than `PushLimit`.

**Boards.** `UploadStays` says that a deletion takes no object from a board it could have known
of. The argument follows a deletion through its steps. `Plan` says what is true of the request in
each place: what it listed may be gone but is no other board (`ListingHolds`); until it has
counted, its list has every board of its project that names an upload of a doomed board and is
not exposed (`Listed`); between the count and the rows' deletion, a board that names an upload
it will erase is one it is about to delete or is exposed (`Condemned`), which leaves exposed
boards only when the rows are gone (`Unnamed`). A board that appears between the steps is
recorded as exposed by `InsertBoard`, and this is where the proof would fail for a handler that
counted before listing. `RequestsHold` (what a request's fields are in each place) and `IdsOnce`
(an id of a row is used) carry it, with the finiteness of `boards` for the count.
`RowsKeepTheirParents` is inductive with the types. `HeldBytesAreVerified` ties a recorded hash to
the ingest that computed it (`VerifiedInv`: also of what a worker has read and not reported yet).
`NothingIsLeftBehind` is the other direction of `UploadsStay`, claimed while no deletion overlaps
another request: then a list is exactly what there is, and an upload is counted by its last board
(`LeftInv`).

**SolveMonitor and Stages.** The monitor keeps three numbers of a dip, and what it is asked to prove is about
the whole log: `HoldInv` says these are the length, the beginning and the first level of the dip at the end of
the log, `AbortIsOwn` that the ABORT file was written by this run, since an older one was removed.
`UsableInv` follows from them, and from there that a usable number is one of a run which settled.
`ClimbsAreNotPublished` is about `divergence_ratio`, a loop over the log and in the model a recursive
function. Induction is not available to the prover as a rule; instead the least number at
which a statement fails is taken (the naturals are well founded), which does the same for one
statement at a time: `ScanExists` (the recursion defines a function), `RatioIsTheScans`,
`ScanSeesRises` (what `peak`, `armed`, `floor` and `worst` know after k reports). It needs that timesteps
ascend, which the log's reader ensures (`Ascending`). For the stages, `PlaceInv` says what a
stage has put and noted from its position in its list of places (`SolveInv` for the optional
artifacts of a solve, `UploadInv` for the rest), and `StopInv` that a run asked to stop before the
last look has a look left or has ended.

**LocalApp.** A valid key is in the hands of an app in the middle of a start, of its container, or
of a `docker run` that was cut off (`Valid`). `ValidInv` says each such app is live and not through
with its shutdown, or was killed, and that an app alone on its folder is the only one; `StartInv` and
`WatchInv` say what an app alone knows of its own start. Shutdown revokes before it removes,
which is why a command that docker carries out later starts something that cannot connect.
`FoundInv` is about the endpoint file alone.

**SingleWindow (`PluginProofs`).** `OneWindow` is not inductive: that two windows are not open follows from the lock,
which is one file. `HoldersHoldTheLock` says that a process that has created the lock and not left
is the one the file names and its lock is fresh, unless it lapsed or a fresh lock was removed; the
proof goes through `Unlink` and `Release`, the two steps that remove a lock without looking whose it is, and
`Elapse`, which lets locks go stale. `PressesAreAnswered` needs to know of a press that asks what it may count on
(`AnswerInv`): a fresh lock has a window that ticks before the press gives up, and a lock that is
there after its own unlink has one that is still to come forward. The assumption `AskS >= 2` is the
code's: four seconds of asking, a tick each second. This proof changed the model, see section 6.

**OpenBoard (`PluginProofs`).** A counting argument: projects made and changes of the store are no more than one
each plus the troubles, where a project of concern that is not there, or a store about to name
another, is counted ahead (`CountInv`, with `Missing` and `Moving`). `HeldInv` says that the project
of the press, if it is there, has a board of the bytes that were read. It is inductive only with the
order of the calls: a project is asked for before it is created, and the store is written last.

**Decisions.** These are statements about operators, for every input and not for the inputs of
the run; a step of `Decisions` only puts the question (`Asking`).

`AMarginIsOfTheWholeProduct` compares a margin that is published with the one of the whole product,
and both are sums, minima and maxima that the code takes by loops and the model by folds. A fold is
a recursion over a set, so what it gives is shown by a smallest set for which it would give something else:
`SumsExist` and `CombinedIsSum` for the amplitude of several radiators, `Extremes` for the worst
line. The rest is what the gate is for: a radiator that says nothing at a frequency either has said zero
there or the frequency is not counted as covered, and one that is left out of a sum makes the
estimate partial (`CableGap`, `PowerGap`).

`PathsFollowTheNet` compares two searches, one over the graph the code draws of a net and one over its
copper, place by place, for any number of layers and places and any net that is drawn on them. A search
ends with the least set that holds its sources and what follows from what it holds (`Searching`; it ends
because there are finitely many pairs of a point and a length, `SettlingExists`). So what a search finds
is shown to be real by giving a set that is closed, and no induction over a path is needed. That a path
is real: an edge of the graph follows copper of its length, step by step (`Stretch`, `CopperGoesAlong`),
so what the copper's search holds is closed under the graph's edges (`PathsAreReal`). That
on a plain net no path is missed or too long: copper at a place of a track is as near as the nodes on
either side of it and the way from there allow (`TracksAreFollowed`, and `ViasAreFollowed` for the layers
of a barrel), a set that is closed under the copper and agrees with the graph's search where there are
nodes (`TracksAndViasAreFound`). It rests on every track being split at every node that lies on it, which is
what the mutant undoes. Pours are another matter: their copper joins whatever lies in it, and the graph
only pads (`PoursAreFound`).

`IslandsAreJoined` is about the labels of a raster of any size and any copper: two pixels have one
exactly if copper joins them, which is half of `NetsAreKnown`. Its invariant from run to run is
`Sound`: the runs so far are those that lie before a place of the raster (`OfTheRuns`), two that
touch have one root, and two that have one root reach the same. The second says that no join is
missed, the third that none is made up, and neither is inductive without the parents being a forest
in which they are smaller: by that a search for a root ends (`RootsExist`, `Finding`). A union makes
one tree of two and leaves the others (`UnionIs`), so joining what a run touches makes one of
those and no more (`JoinAllIs`). `RunIsAdded` is the step; that a run is all of a row's copper between two
gaps, so each pixel is in exactly one, is `RunsAre`, `RunsAreApart` and `RunOfPixel`. At the end the pixels
that share a label are a set that is shut, and so hold all that copper reaches (`Reaching`).

`PartsAreModelledRight` is about the order in which documents are asked. `InOrder`, the sorted list, is a
recursive function; that there is one is shown by a least length without (`PicksExist`). The
first document that matches answers (`FirstOf`, `LeastIndex`), so to add or remove another that does
not match changes nothing (`FirstWithoutAnother`), which needs ids that tell documents apart
(`Apart`). `PlacedElementsJoinTheirPads` does both axes by one lemma (`PlacedBetween`) and relies on
`MIN_GAP` being positive: that is why pads that overlap get no element.

`PulsesAreAsDescribed` and `PeriodsAreTakenOnce` are arithmetic, the second from what Python's
round of a quotient is (`RoundedIsNearest`). `CapturesGoOnAtTheirHeight` is about captures as
the run has them, with a height for the odd and one for the even harmonics: the octave below the
bandwidth is sampled in strides, and only because the stride is odd and shorter than the octave
(`StrideIsOdd`) are harmonics of both kinds among the samples; it needs `JOIN_HARMONICS` above 2.
`DoubtfulNumbersAreWithoutEffect` says of two documents of one kind, role and payload that a solve
gets the same from both if they differ only in numbers less certain than the document claims to be. It
goes in two halves: no number the parser takes is less certain than its driver (`NothingReadIsDoubtful`, the
largest of a finite set), so the two agree in all of those (`UsedNumbersAgree`); and the levels, the
edge above the bandwidth included (`CapturesAgree`), and the impedance of an offset are
computed from these and from the payload alone, whatever `piecewise_linear_series` is. A level that came to
depend on a number the parser does not weigh breaks the second half, a number left out of the weighing the first.
`FrequenciesAreIndependent` holds of any non-empty set of frequencies.

Three parts of `RulesAreObeyed` are theorems. `NetsArePaired`: in any list of nets no net is in two
pairs and no two that could be one are left over, although a name may end in several suffixes and those
are tried in turn. Its invariant is `PairedUpTo`, that this is so for the suffixes tried, and
`SuffixPairs` the step; that the halves of one suffix do not compete is what a name is
(`PairEndsAssumption`). `StubsAreBranches`: on any net without loops the doubled excess over every two
pads, whose least `check_test_point_stubs` takes, is twice the way from the test point to where its branch
leaves the copper between the others, for of three places one is between every two (`WithoutLoops`,
`StubIsTwiceTheBranch`); on a net with loops it need not be, and there nothing is claimed. It is about
fast nets without a budget. `DoubtAccusesOfNoMore`: whatever the formula says of an
impedance, more doubt about a layer or a wider tolerance takes nothing that fitted out of its
bounds (`DoubtFits`), so no layer is accused that was not before.

Assumptions are those named in the modules: the marks for "none" are no values of the set they
stand beside, the bounds are numbers, there is a key, the kinds of ids of `Boards` are apart and its boards
finite, a press asks for at least two ticks. For the decisions, `ComplianceAssumption` has levels
that are numbers and grids that are finite, `LibraryAssumption` a built-in library whose documents
parse (the code raises at import where one does not), `PairEndsAssumption` names with one end by
a suffix, `TopologyAssumption` a board of one layer or more on
which places count from zero, and `QuestionsAssumption` says what a question is:
a solve whose far field holds frequencies of its grid (`Estimable`), a net whose copper is on the
board, whose vias join two layers or more and whose pads are on one (`Drawn`), a part whose
documents are documents and have ids that differ (`Fittable`), a capture with whole numbers (`Capture`), or one whose lines have
a height for each parity (`Harmonic`). TLC
evaluates each of them.

**Only model-checked:**

* liveness (`WaitingRunIsTaken`, `WorkerEndsItsRuns`, `DeadPeerIsNoticed`, `StopTakesEffect`,
  `WorkerComesBack`, `ImplementsFairLifecycle`): out of the prover's reach;
* `RegulatorsAreKnown`, `GridIsFit`, of `NetsAreKnown` the names that islands, holes and pins take, and
  of `RulesAreObeyed` all but pairs, stubs and doubt: each compares a fold over a sequence, or a search over one, with a definition, which
  is induction over data; and of the nets and the grid it is claimed for boards and axes of the run's
  kind, with a clearance or a spacing that the model's constants do not state.

## 6. Findings

Two are runs that TLC ends with a counterexample:

1. `late_completion`. The jti is compared when a request is authenticated and not in the
   UPDATE that records a completion. A completion that passed the check before its run was
   swept and retried, and whose transaction comes after another worker's claim, ends the new
   attempt with the old worker's result; `types.go` says it must not.
2. `unjoined_via`. "A via joins every layer it spans" (`topology.py:273`): it joins the layers the
   file lists, and KiCad lists a through via's two outer ones, so a route that reaches it on an
   inner layer ends there.

The others were met while modelling and no run is spent on them. Of the control plane and the worker:

* a completion of a finished run that is answered with an error status is logged and forgotten
  (`runner.py:319`), where a transport error on the same call leads to `_fail`;
* a stop request that arrives when the stage is not executing stays in `_stop_requested` and stops
  a later attempt (`runner.py:185`, against "nothing carries from one run to the next");
* `handleStopRun` says a worker that misses the push finds out at its next progress post; the post
  is answered 204 and the worker reads nothing from it (`api_user.go:777`);
* `handleDeleteBoard` and `handleDeleteProject` decide which uploads are orphaned before they delete
  the rows and erase the objects after: a board recorded on the same upload in between loses its
  file (`api_user.go:511`, "only an object nobody else names is removed"). A project deleted while
  a worker holds a signed PUT leaves the artifact that lands afterwards (`api_user.go:389`);
* a PUT URL is not tied to the claim, so for its 15 minutes a superseded worker can replace the
  bytes behind a recorded result;
* two deletions of the two versions of a project each see the other in the list they read, and
  leave a project without a version, which the handler refuses to one deletion;
* two deletions of boards that share an upload each count the other's board, and the object
  stays (`NothingLeftBehind` claims it only for deletions that overlap nothing);
* a key without a stored row is said (`ws.go:48-50`) to be offered no solves; the zero
  capabilities accept every kind and size.

Of the local app and the plugin:

* two apps on one data folder, which nothing prevents, take the container and the key from each
  other; the survivor may watch the other's container by name though its key is revoked, and has
  no worker until somebody presses Restart. `WatchedWorkerCanConnect` and `WorkerComesBack` are
  claimed for an app that has its folder to itself;
* `removeEndpoint` reads the file and then removes it: an app that published in between is not
  found (`LastStartedIsFound` excuses it);
* of two presses that judge one lock stale, the slower removes the fresh lock of the faster, and
  both open a window: `O_EXCL` does not settle it (`single.py:62`). `OneWindow` names this case;
* a press that times out removes the request file, which may be another press's, and that one
  takes it for "picked up" (`single.py:108`). `PressIsAnswered` excuses it;
* `heartbeat` looks whose the lock is and then touches it (`single.py:78`). A window that hangs between the
  two while its lock is taken over, and wakes, makes fresh the stale lock of a later window that died: a press
  that sees it asks a window that is not there, and leaves. It takes two windows in trouble, so no
  run meets it; the proof of `PressesAreAnswered` did, and the model names these presses
  (`Revives`);
* a crash between creating a project and remembering it leaves a second project of the board, and
  a request that fails is taken for a project that was deleted (`project.py:140`), so that one
  board file may become several ("One board file is one project", `project.py:6`).
  `OneProjectPerBoard` allows one more for each trouble;
* `connect_app` keeps the client it has (`controller.py:59`): after the app came back on another
  port, every Rescan fails until the window is closed;
* bytes that the app holds already are found by their newest copy: if that is in another project, they
  are sent again (`project.py:150`, "Nothing is sent when the app already holds exactly these
  bytes"), and after an edit and its undo the press opens the project on the version of the
  edit: `latest_ingest` is of the bytes, "which is the one the page is showing"
  (`project.py:184`), and the page shows the newest version's.

Of the stages:

* `on_progress` may raise inside the loop that reads openEMS, which then neither ends nor waits
  for the process; it ends by itself when it next writes;
* a note that the antenna terms could not be computed is added to the manifest in memory only and
  is not in the file that is uploaded (`solve.py:431-491`);
* cable, conducted and transient stages do not look for a stop once they upload.

Of the decisions, each confirmed by running the code on the counterexample:

* a through-hole pad does not join layers, a via or a track inside a pour is not joined to it, two
  pours that overlap are joined only by a pad in both, and a
  net in two islands reports nobody unreachable. `PathsAreRouted` claims every route for the nets
  without these (`Plain`) and, for all nets, that what is reported is real;
* a boost whose output crosses a connector is taken for the power input by default, against
  "a regulator's output is never the default" (`rail.py:281`), and is then reported as a buck, with
  high confidence; a small IC on two supplies lets the rail through onto a buck's output and
  turns it into a boost, also with high confidence. `PowerTrees` leaves both out by name;
* `_smooth_ratio` says that nothing in it can shorten the timestep (`mesh.py:235`); a cell that is
  too large beside both its neighbours is filled from both sides at once, and the two series
  interleave: lines at 1, 6, 16, 33, 48 and 55 with nothing under 5 apart get a cell of 3.5.
  `GridIsFit` allows for half of the smallest. "`required` lines survive" (`mesh.py:328`) is not so
  where two pinned lines are closer than the merge spacing: a line filled in beside them displaces
  an ordinary one, by less than the spacing. And `narrow_trace_lines` moves a line by more than the
  quarter of a cell it states (`model.py:534`) when three or more jogs join one after another;
* a zone whose centroid lies on a pad or a track of another net takes that net, since
  `apply_nets` asks there and not on the zone (`connectivity.py:281`); `NetsAreKnown` leaves such
  zones out. The exact transform from the drill file (`connectivity.py:107`) loses a tie with the
  netlist as it is, and the loop that propagates names through holes (`connectivity.py:234`) finds
  every island of a group named already. `NetsAreKnown` is claimed where the transform is found;
* an uploaded spectrum that covers less than the scan leaves the gate complete for the part it
  covers, and a far field with no usable frequency leaves the board out of the sum while its port
  counts as covered. `MarginIsWhole` is claimed for periodic drivers and a far field with at
  least one usable frequency;
* the user's own documents come before the shared and these before the unsaved in
  `resolve.py:5-9`; the server puts the unsaved first (`components.go`), and the first that
  matches answers. "Adding an entry can only ever add detail" (`resolve.py:16`) is not so when it
  answers for a capacitor that had a better one, and one with only a part number answers for every
  capacitor of any value. A family's ESR is taken without a source ("a number with no source is not
  usable", `document.py`);
* of a rule's settings, 0 is accepted ("at least zero") and then means the default
  (`setting(...) or default`, `Checks!setting`); `enabled: "false"` switches a rule on; a `cables` section of
  the wrong shape is dropped without a warning, and so are the `params` of a group; the compliance stage reads the cables of the file
  only (`compliance.py:109`), where the cable stage reads project, file and run; and a project's
  group of nets beats a run's value for the whole rule;
* findings are cut to 40 of a rule before the suppressed ones are set aside, and the summary counts
  those; long nets are demoted where plane gaps and return vias were switched off or failed as they are where
  these found nothing; a gap is measured per track, so one that two tracks share may fall under the
  minimum; stitching regions are cut to 10 by size and not by severity;
* data masks are put into bytes by their index divided by 8, which is right for data lines only
  (`matching.py:204`), two lanes on one device share a strobe, and `device_of` takes the last
  designator as text; a group's delay is that of its longest member in
  millimetres, not its latest.

Of the parsers and the solver's set-up, which are not modelled: `build_model` draws a via's ring on the layers
the file names ("on every layer it spans"); arcs of capsules are inscribed ("err toward more copper",
`geometry.py`); a dielectric without a thickness is dropped, and a copper layer that the stack-up
lacks gets height 0, without a warning.

## 7. Not modelled, and why

What a stage computes: field solving, circuit simulation, cable radiation and the geometry of copper
are floating point, and the parsers of KiCad, Gerber and Excellon files turn text into lists;
both are checked by the repository's own numerical tests and fixtures. They are most of the
repository's lines: of those in Python and Go about a fifth is in the modules, nearly all of what
keeps state between steps and, of the pure code, the decisions that go wrong silently and whose
inputs can be made small. `build_model` of `openems/model.py` is the largest piece left out: what it
decides (the grid, the component elements) is in `Mesh` and `Components`, and the rest places
boxes and polygons.

In `RunControl` and `Runner`: organization scoping and feature flags (they only refuse); the poll's
limit of 25; a second dispatch of a run while its first push is still being written; token expiry
and the restart of the server inside `Runner` (both are in `RunControl`); two worker processes with
one key. `run_input` and `handleClaimRun` change nothing and stand as checks of the token. In
`Boards`: `RenameProject`, `LookupBoard`, a storage call that fails, the content-type file beside an
object, and the 1000 runs `ListRuns` stops at. In `LocalApp`: the worker inside the container, ports,
the pull of an image (a part of `Prepare`), attach-or-start of the desktop shell. In `OpenBoard`:
the selection in KiCad, the bridge to the page, and the ways of starting the app. In `Stages`: the
probes for solver features, and the wall clock (a hung simulator is stopped by nobody). In
`Compliance`: sigma terms, recommendations, source impedances. In `Topology`: the join tolerance and
widths. In `Mesh`: diagonal tracks, the errors for an empty region, and the rest of the solver's
set-up. In `Nets`: the outlines behind the pixels, the coarsening of a large board, the size a via
takes from its ring. In `Conducted`: the ladders between parts, and which of several pads is nearest.
In `Checks`: the second dimension, resonances of cables and cavities, and power necks. In `Matching`:
the words of net names, which come with the instance. The components with status `not_modelled` in
`PROJECT.json` each give their reason.

## 8. Plan

Done: everything in section 2. The ownership of a run came first because everything else relies
on it; then dispatch, boards and deletion; the monitor and the stages; the local app; the plugin;
the worker's decisions; the proofs of every safety property of what keeps state, and of four of the
eight about decisions for every input.

Next, in order:

1. More decisions for every input: an effective setting is one a document gave, a pair's halves are
   each other's (`PairsAreWhole`), a sorted list of findings leaves none out. Each
   goes over a sequence, so by a least counterexample, as in `ClimbsAreNotPublished`.
2. The refresh schedule of `client.py` against token expiry, and storage calls that fail.
3. More of the code: what the parsers keep of a board.

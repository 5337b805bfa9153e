# SystemForge in TLA+

SystemForge is a laboratory for system designs: a candidate or an engineer draws
an architecture, a simulator runs a workload with incidents through it, and the
result is scored, replayed, compared and discussed.  The program has a browser
application (`apps/web`), an HTTP control plane on PostgreSQL (`apps/api`), a
worker that executes "canonical" runs (`apps/worker`), the simulation engine they
share (`packages/sim-core`) and the data contracts (`packages/contracts`).

This directory holds TLA+ models of the parts of it whose correctness depends on
the order in which things happen or on the cases of an algorithm, TLC runs that
check them on small instances, and TLAPS proofs for every instance.

## 1. Inventory

| Component | State | Operations | Hard behaviour | Correct means | Modules |
|---|---|---|---|---|---|
| **Canonical run queue** (`postgresStore.ts`, `apps/worker/src`) | rows of `simulation_runs`; slots, threads and timers of each worker process | `queueRun`, claim, complete, fail, `maintain`, start, stop | transactions of several API replicas and statements of several workers interleave; leases expire while a slow worker still works; crashes; lost answers | the two row limits hold; a settled run keeps its outcome; one worker per run and no lost result as long as the lease covers the delays; every queued run settles | `RunQueue`, `RunLedger` |
| **Server-backed interview** (`app.ts`, `postgresStore.ts`, `useLabStore.ts`, `LabPage.tsx`) | one row of `shared_scenarios`; per tab the reveal state, the collaboration, a mutation queue, a poll, the submit loop, `sessionStorage` | open a link, hydrate, reveal, conceal, save the journal, start the clock, poll, submit a run, report its milestone | polls overtake mutations; aborted requests are still applied; handlers await between reading and writing; tabs reload | criteria are shown only when earned and then stay; a tab never goes back; everyone ends up with what the row says | `InterviewSession` |
| **API admission, solver slots, AI budget** (`app.ts`, `runSolverInThread.ts`, `aiProvider.ts`, `reserveAiUsage`, `shareScenario`) | counters of each replica; `ai_usage` and `shared_scenarios` rows | admit, release, solve in a thread, reserve, call, share | answers, errors, disconnects and timeouts race; reservations of several replicas at once | slots are neither leaked nor released twice; no budget is exceeded | `ApiAdmission` |
| **Deployment** (`migrate.ts`, readiness) | `schema_migrations`, the advisory lock, the replica's cache | skip, apply, record, probe | two releases migrate at once and die between statements | a migration is applied once and in order; a ready answer was true two seconds ago | `Startup` |
| **Backups** (`scripts/*.sh`) | dumps, evidence files, repositories, locks | scheduled backup, release gate, provisioning | scripts overlap, fail at any command, lose power | the gate passes only on a backup that restores | `Backups` |
| **In-memory store** (`memoryStore.ts`) | its own tables | all of `ControlStore` | two implementations of one interface | same calls, same answers | `ControlStores` |
| **Local simulation session** (`localSimulation.ts`, `simulation.worker.ts`) | the page's session, its safety timeout; the worker's current run | start, pause, resume, step, inject, intervene, fork, speed, finish, cancel | commands cross answers; timers; superseded sessions | one final outcome; what was shown stays; page, store and worker agree when nothing is under way | `LocalSession` |
| **Lab store: runs** (`useLabStore.ts`) | run session, result, evidence, revisions | run, fork, edit, continuations | several invocations of one async function alive at once | the result on screen is of the run and the design on screen | `LabRuns` |
| **Lab store: design** (`useLabStore.ts`) | scenario, architecture, role, undo, redo, drafts, session | hydrate, load, edit, undo, redo, replay, fork, solve, reload | awaits inside operations | no stale answer is shown; a reload restores what was there; private criteria stay private | `LabStore` |
| **Run library** (`runHistory.ts`) | one IndexedDB store, the locks of tabs | save, star, delete, import, tidy | several tabs read, change and write back the whole | no run is lost; bounds hold; starred runs survive | `RunHistory`, `RunLibrary` |
| **Evidence** (`completedRun.ts`, `replayBundle.ts`, `replayComparison.ts`) | completed runs, files, replays | complete, export, open, replay, fork, compare | files move between browsers and builds | "verified" is said of what can be reproduced | `RunEvidence` |
| **Replay page, workbench, solver and share workers** | page state, one worker per job | read files, compare, estimate, solve, decode | late answers, timeouts, stale closures | what is shown belongs to what is chosen; every job ends | `WorkerJob`, `ReplayConsole`, `RobustnessPanel` |
| **Simulation engine** (`simulate.ts`) | per component: instances, queue cohorts, switches; events, seeded incidents | one second of the loop; plan; spread request classes; sample traces; verdict | many rules touch one counter in one second; recomputation must reproduce what was shown | instance bounds, FIFO queues, told incidents, an unchanged past, conserved work | `Engine`, `EngineTwin`, `Topology`, `RequestFlow`, `TraceSampling`, `RunScores` |
| **Solver** (`solve.ts`) | the catalogue, pairs, measured candidates | build, simulate, compare | tolerant dominance; rounding | the recommendation is eligible and undominated | `Solver` |
| **Architecture editing and linting** | design, selection, past | add, copy, remove, lay out, synthesise, undo; lint | identifiers, dangling selections; two validations of one thing | a design stays well formed; what the linter passes runs | `ArchitectureEditing`, `ArchitectureLint` |
| **Scenario designer** (`ScenarioDesignerPage.tsx`, `aiCompilation.ts`) | the draft, proposals, links | edit, compile, apply, share | the user edits while answers are on their way | a proposal is applied to what it was made of; links show what they should | `ScenarioDrafting` |
| **Service worker; telemetry, catalogues; layout of pages** | - | - | - | - | not modelled (section 5) |

The browser calls the API over HTTP and polls; the API and the worker share only
PostgreSQL tables; a page and its web workers exchange messages; tabs of one
browser share local storage and IndexedDB; the interview uses the run queue (its
milestone needs a completed canonical run), and the store coordinates everything
in a tab.

## 2. How the project is put together

Parameters are constants with named assumptions, an operation is one action, and
no module that is proved about uses a RECURSIVE operator.  `RunQueue`
implements `RunLedger` and `RunHistory` implements `RunLibrary`, both checked as
properties and proved.  `EngineTwin` composes two copies of `Engine`;
`ReplayConsole` and `RobustnessPanel` extend `WorkerJob` (`Analyses` has both); the twelve runs are

| Run | Module, configuration | Parts (a behaviour is of one of them) |
|---|---|---|
| `queue_safety` | `MCRunQueue`, `RunQueueSafety.cfg` | queue |
| `queue_liveness` | `MCRunQueue`, `RunQueueLive.cfg` | queue, fair |
| `interview_after_run` | `MCServer`, `InterviewAfterRun.cfg` | interview, deployment, backups, stores |
| `interview_controlled` | `MCInterviewSession`, `InterviewControlled.cfg` | interview, fair |
| `session_safety` | `MCLocalSession`, `LocalSessionSafety.cfg` | session, replay, workbench, designer |
| `session_liveness` | `MCLocalSession`, `LocalSessionPlays.cfg` | session, replay, workbench, fair |
| `lab` | `MCLab`, `Lab.cfg` | library, runs, design, canvas, evidence |
| `api_admission` | `MCApi`, `ApiAdmission.cfg` | the API, fair |
| `engine` | `MCEngine`, `Engine.cfg` | run, plan, search, flow, score |
| `runs_late_end` | `MCLabRuns`, `LabRunsLateEnd.cfg` | expects a violation, section 6 |
| `interview_reload` | `MCInterviewSession`, `InterviewReload.cfg` | expects a violation, section 6 |
| `draft_readable` | `MCLab`, `EditingDrafts.cfg` | expects a violation, section 6 |

Components that share no state are checked by one run, each in behaviours of its
own: the variable `part` of `MCServer`, `MCLab`, `MCEngine` and `MCLocalSession` is
chosen at the start and never changes, and the other parts' variables keep their
initial values.  So a property of one component is checked on exactly the
behaviours of that component.

## 3. What is modelled and what the runs show

Bounds are the constants of a configuration; each module names them.  Deadlock is
not checked where bounds are used up or a thing properly ends: links expire, a
settled run, a deployment that is over.

### Canonical run queue: `RunQueue`, `RunLedger`

Every SQL statement is an action, because each is followed by an await and
PostgreSQL runs it on its own snapshot.  `queueRun` is `Submit` (BEGIN, waiting for
the advisory lock), `Count`, `Evict`, and `Commit` or `Rollback`.  The worker's
`runLoop` is a slot with `Poll`, `Claim` / `ClaimNothing`, `StartThread`,
`ThreadReturns` / `ThreadFails`, `Complete`, `CompleteFails`, `Fail`; `maintain` is
`SweepExpire` and `SweepPurge`; `Boot`, `Stop`, `Exit`, `Crash` are the process.  The
answer to a claim or an update may be lost after it committed (`heard`).  `SKIP
LOCKED` is a choice over the rows other statements may hold.

Time is counted in ticks: `Tick` takes one from every running lease and from the
time a slot may still spend where it is (`due`, at most `Delay` or `Timeout`).
`Prompt == 3 * Delay <= Grace` says when the 15 seconds by which a lease outlives the
job's timeout cover the three delays between a claim and its outcome.

`RunLedger` is the promise to the clients: admit within the limits, settle once,
remove settled runs only.  `RunQueue` implements it with `open` for queued or
running rows.

`queue_safety` has two submissions against limits of one row, two slots of two
processes, and a grace of exactly three delays: the smallest instance in which one
transaction counts while a row settles, is purged or evicted, and in which a run is
reclaimed by another process.  It checks `WithinLimits`, `OneWorkerPerRun`,
`WorkIsNotLost` and the refinement.  `queue_liveness` lets delays exceed the lease and
the process crash again and again: every queued run settles (`RunsSettle`), and a late
worker changes no settled row (`OutcomeIsFinal`).

Fairness: time passes; the loop polls for as long as its process runs
(`while (!stopping)`), the maintenance timer fires, a job's thread has a timer, and
`deploy/docker-compose.prod.yml` restarts containers (`restart: unless-stopped`).
Statements are strongly fair: a database that always fails settles nothing.

### Server-backed interview: `InterviewSession`

`row` is the row of `shared_scenarios`.  Each handler is split at its awaits: a PATCH
is `Check` (the route's `getScenario`) and `Update` (the store's
`UPDATE ... RETURNING`); the milestone is four queries (`MilestoneStep`).  A request
that the tab has abandoned goes on as a member of `late`, or is lost on its way.
The inner `getScenario` of `updateScenarioCollaboration` is one with the route's.

A tab has `page` (the link page, the Lab, the interview room), `reveal` and `collab`
(what it shows), `stored` (the reveal state of `systemforge:session`), `queue` and
`call` (`queueSharedScenarioMutation`), `poll` (`refreshSharedScenario`) and `loop`
(`submitCanonical`).  What runs between two awaits is one action; a reload,
a return to the Lab, a new link or another scenario drops the operations of the
session (`CancelOperations`), as the epochs and sequence numbers in the store do.
`tracked` and `reloaded` are history variables: they say whether an answer of this
tab got lost, and whether it was reloaded since the link was opened.

Journal entries are numbers of clicks; `ver` counts what `collaboration_updated_at`
times.  The candidate's cursor and notes travel together and are one value; so are
the interviewer's private notes, which no candidate response carries.

`interview_after_run`: criteria are earned before they are shown (`RevealIsEarned`),
then kept (`RevealIsKept`).  `interview_controlled`: answers never rewind a tab
(`NeverRewinds`); an interviewer whose calls were answered agrees with the row
(`HostAgrees`); the candidate who stays in the Lab catches up (`CandidateFollows`).
Both use one interviewer and one candidate.  `MaxClicks` bounds mutations, `MaxLoads`
page loads, navigations, edits and foreign milestone posts.  Two mutations are enough
for one to wait in the queue while the other is under way or abandoned; four loads
let both tabs open the link, reload and edit.

Fairness (`Fairness`): handlers and the tab's continuations run; the six-second
interval of `LabPage.tsx` fires for as long as the Lab is open; polls and their
answers are strongly fair, because a mutation aborts a poll but not for ever.
Nobody has to click, and the network may lose any single call.

### API admission: `ApiAdmission`

A request is the place its handler has reached; a statement or what runs between two
awaits is one action.  A replica counts admitted requests (`busy`), solver slots and
its AI slot; `ledger` and `links` are the rows of `ai_usage` and `shared_scenarios`,
written under advisory locks by all replicas.  Replies, exceptions, timeouts, dead
threads, disconnects, refused budgets, restarts and lost COMMITs are all paths
through the handlers.  `CountersMatch` says that the counters are exactly the
requests that hold a place; `BudgetHolds` that no day, month or cost limit and no
capacity of links is exceeded; `AdmittedEnds` that every place is given back.

Fastify is external: it is assumed to signal the end of every response.  A
terminated solver thread may outlive its slot.  What the debrief reads before it
calls the provider is one choice of failing or not.  Rows are numbered per day
instead of having random ids, the deletion of rows after 400 days is left out, and all calls cost
the same.  Two clients and two replicas (with gates of one and two) over three days of two
months make every limit bind.

### Deployment, backups, the two stores: `Startup`, `Backups`, `ControlStores`

`Startup`: two migrate runs, of an older and a newer image, statement by statement
under the session's advisory lock, each of which may die or fail anywhere and may
not hear its COMMIT; beside them a replica with its readiness cache.
`AppliedOnceInOrder` also bounds how stale a ready answer may be.

`Backups`: the scheduled backup, the release gate and provisioning with their locks,
traps and power cuts.  `GateTellsTheTruth`: a release passes only if a whole dump of
the present database, taken since the gate began, is off the host and one that is off
the host was restored for this release.  Days are ticks, retention and ages are scaled,
one provisioner runs at a time, versions of the configuration are numbered
consecutively; checks of arguments and file modes are `Fails`.

`ControlStores` makes every call of the interface to both implementations.
`StoresAgree`: same answers, and tables that mean the same.  A sum of costs is the
number of the cents it consists of.  Runs end in queued order
and nothing expires (only PostgreSQL deletes what expired); six calls per table and a
month of two days of two seconds reach every limit.

### Local simulation session: `LocalSession`

A tab plays a run that a web worker has computed.  `page` is the session object of
`startLocalSimulation` (its state, `settled`, `actionRecomputePending`, whether the
safety timeout is armed), `store` the part of the Lab store that the run fills,
`run` the worker's `active` run with its cursor and timer.  They share nothing:
`toWorker` and `toPage` are the queues of posted messages.  Each command is an
action of the user (`Pause`, `Step`, `Act`, `CaptureFork`, `OpenFork`, ...), an action of
the worker that handles it (`WorkerPause`, ...) and one of the page per answer
(`ReceivePaused`, ...), so a command crosses any answers that are under way.

The engine is a constant operator `Simulate`.  In the runs a frame is its second and
the set of actions it was computed under, an event its second and its action, if any,
so that the engine tells every schedule from every other; with `Lags = {0, 1}` an
action may already show one second before the second it targets, the case in which
`Applicable` must refuse it.  Fingerprints are compared as the values they are taken of.

`session_safety`: what was delivered stays (`ShownStaysLocked`), and page, store and
worker agree when nothing is under way (`AgreeWhenQuiet`).  Two runs of three frames, so that
a fork is opened and there is a first, a middle and a last frame; two actions are
the smallest schedule whose limit is met; two messages each way let a command cross two answers.
`session_liveness`: playback ends or is paused, every action is answered
(`WaitingEnds`).  Fairness: both event loops run and the engine returns; nobody
has to click.  The timer is strongly fair because each change of the speed restarts
it: the user leaves the speed alone for one period, 16 ms at most, now and then.

### Workers of one job: `WorkerJob`, `ReplayConsole`, `RobustnessPanel`

`WorkerJob` is the protocol shared by the comparison, the robustness estimate, the
browser's solver and the share decoder: one session settles once, by an answer, an
error, its timeout or a cancel, and terminates its worker.  `ReplayConsole` is the
replay page (what a handler sees is what was last drawn; the drawing after a file read
is a step of its own), `RobustnessPanel` the workbench and the solver gateway's
fallback; `Analyses` says which of them steps.  `AnalysesAreCurrent`: a comparison or an estimate on screen is of what is
shown beside it.  `WaitingEnds` covers them with fair timers and a fair canonical
service only: a worker may hang.  Every job has its own worker, so the worker's
"superseded" and "cancelled" branches cannot be reached; progress and the arithmetic
of summaries are left out.

### The store: `LabRuns` and `LabStore`

`LabRuns`: `runLocal` is an async function of which several invocations are alive at
once.  `rec` holds, per run, what its continuation waits for (`playing`, then
`artifact` and `adding`, or `recording`) and the state of its session.  `Start` is `runLocal` up
to its first await, with the admission checks that may refuse the run; `Complete`,
`Settles`, `TerminalRecorded`, `ArtifactMade`, `CompletedRecorded` are the pieces between
its awaits; `Edit` is any change of scenario or architecture.  The two revisions are
one number; `private` says that the scenario has private content, so that nothing is
recorded.  Three runs let two old continuations wait while a third plays; the one edit
may fall between any two of their steps.  `ResultIsCurrent`, `EvidenceNeverGoesBack`.

`LabStore`: the design of a tab with its history, what was computed from it, the
drafts and the session.  `hydrate` awaits the run library or the decoder between its
first and its last change.  `ReloadRestores` (what a reload finds), `HistoryIsCommitted`
(undo never returns to a step of a drag), `SolverFits` and `CriteriaStayPrivate` hold of a
tab that never loaded something while hydrate was still under way; `raced` marks the
others (section 6).  Drafts that cannot be read, runs and the
reveal are left out or in other modules; one tab; a history of two and six operations.

### Run library and evidence: `RunHistory`, `RunLibrary`, `RunEvidence`

`RunHistory`: one IndexedDB record that each tab reads, changes and writes back
whole, under `navigator.locks` or without; a mutation is a task of its tab's queue,
split where it awaits.  `StoreIsSound`: three bounds, one record per id and per
replay, and two outputs of the same inputs both carry the warning, also without locks.
`RunLibrary` is the promise to the user: one operation at a time, the oldest unstarred
runs make room.  `RefinesLibrary` holds where the browser has locks.  Two tabs, four
runs (two replays of one, a contradiction, a cancelled one), limits of two entries and one star.
A database that failed to open once stays closed until a reload, and every stored record is readable.

`RunEvidence`: artifacts, bundles, replays, forks and comparisons between browsers of
different engines, profiles and digests.  `EvidenceIsSound`: a replay is called
verified exactly when it made again the run it replays; a file that can be opened
is of a run that was made, says what it was made of and holds nothing private; two bundles
that this build can compare come out as they did.  A result is the record of engine,
profiles, inputs and actions, and digests do not collide.  A digest is a checksum,
not a signature.

### Simulation engine: `Engine`, `EngineTwin`, `Topology`, `RequestFlow`, `TraceSampling`, `RunScores`

`Engine` is the loop over the seconds of a run: operator actions, incidents
(scripted, injected, seeded), instances, admission, queues, retries, events and
frames.  The architecture is a tree of components that forward all they admit;
utilisation is that of throughput; shares are integer percentages.  `InstancesInBounds`,
`QueueIsFifo`, `SeededIncidentsAreTold`; `EngineTwin` runs it twice in lockstep with
the same random draws, the second time with one more action, and `PastIsFixed` says
that nothing before that action changes, which is what "delivered frames stay
locked" needs of the engine.  An API, a cache, a queue and a worker, four seconds.
Left out: cache hit rates, dependency retries, latency, cost, the wide-area and
certificate incidents.

`Topology` plans every architecture of four components with four of seven edges
(three or five where incidents and traces are asked for): bounds analysis, validation, routes,
one class's flow.  `PlanIsSound`: each component gets exactly the work of all paths to
it; seeded rules that pass validation strike where they say; and `ArchitectureLint`
finds an error wherever the engine would refuse (with the exceptions named in section 6).
Edges are reliable; a component forwards all of its work or none.

`RequestFlow`: several classes with shares, queries, caches, asynchronous links and
retries on five wirings, three seconds, a failure in any of them.  `FlowIsSound`
compares the executed numbers with sums over paths.  Fractions count in 64ths such
that nothing is rounded but the synchronous share of retries; payloads, latencies and
criticality are left out; at most one strike per second; a class with `queries > 1` is
exempt from the bound that ties retries to failures; outcomes are compared for classes
whose branches all have shares and pass no cache.

`TraceSampling`: `TraceIsATree` for the sampled trace of a class: one root, each span
under what caused it, one for every link that carried work and for every retry,
unless the trace says it is truncated.  Rates, latencies, causes are left out.

`RunScores`: verdicts, the library's numbers and the analysis under several seeds, in
units of 10^-5.  `ScoresAreSound`: a verdict means what its metric promises,
the listed number is no better than the verdict, summaries are in order, a
snapshot is of the nearest second.  Metrics rounded more finely are treated like the
listed ones; targets are as fine as the rounding; floating-point errors are ignored.

### Solver: `Solver`

`MutationCatalog`, the blueprints and pairs, the measured metrics (any choice), and
the comparison with its tolerance.  `SearchIsSound`: candidates are legal, distinct and
leave alone what they do not name; the recommendation keeps the limits, beats the
baseline, and whatever scores higher is dominated.  `FrontierIsNotEmpty`.  The settings
a strategy changes together are one flag; ties are broken by index; the ids made of
candidates' names are taken to be distinct.

### Editing, linting and drafting: `ArchitectureEditing`, `ArchitectureLint`, `ScenarioDrafting`

`ArchitectureEditing`: identifiers as sequences of parts with a length, graph,
selection and past.  A part is a word, a numbered fresh part (the clock, a UUID) or a
suffix.  `CanvasIsSound`: unique identifiers, links and
selections of what exists, a layout in which nothing overlaps.  Build mode only; names, positions (but of a layout) and most
settings are left out; two components added in one millisecond are excluded.

`ScenarioDrafting`: the editor, its assistant with the compiler behind it, and the
links.  The brief is a set of phrases; the provider's answer changes one part of the
draft in any way; an aborted request may still be answered.  `DraftingIsSound`: what
the user wrote remains, a proposal belongs to draft and form as they are, what waits
waits for something, links show the present draft to those who may see it.

## 4. What is proved

Each proof module EXTENDS the module it is about, and its theorems hold for every
value of the constants that satisfies the named assumptions.  An invariant that is
not inductive is strengthened; the strengthening was checked by TLC before its proof.

`RunQueueProofs` - for every number of runs, slots and processes, and all limits:

* `TypeCorrect`; `Inductive`: `IndInv` is an invariant.  Its parts are the advisory lock
  (one transaction at a time, whose victims are settled), the transaction's budget
  (what it counted is an upper bound of what is there, since workers only shrink
  it), the limits, the shape of rows and jobs, and the cover of a lease (the
  lease of the job in hand outlasts the time its slot may still take).  Neither
  `WithinLimits` nor `OneWorkerPerRun` is inductive alone: the first needs the budget
  between count and insert, the second the comparison of two clocks.
* `LimitsHold`, `Exclusive`, `ResultsArrive`, `OutcomesHold` and `Refinement` follow.

Assumptions: the set of runs is finite, limits and attempts are positive, times are
natural numbers.  `Exclusive` and `ResultsArrive` carry `Prompt` in their statement.

`ServerProofs`, the interview - for any number of tabs, clicks and loads, any policy:

* `TypeCorrect`, with the fact that a tab outside the session has nothing under way.
* `RevealEarned`: `EarnedInv` adds that what a handler has verified of the run stays
  true while it awaits the next query, and that every answer in flight is earned.
* `NoRewind`: `CurrentInv` places every answer that will still be applied between what
  the tab shows and the row, and excludes a poll while a mutation is queued.
* `RevealKept`: `KeptInv` relates what is shown to what is stored, and shows that no
  poll is under way in an after-run session.
* `HostSeesTheRow` (`HostAgrees`): `HostInv` says that candidates never ask for a reveal,
  that an interviewer neither marks a run nor polls but to open the link, that a tab all of
  whose calls were answered has left no reveal handler behind, that the answer with which
  it opened is not outdated, and that what it shows, or what its answer under way tells,
  is the row's flag.

Assumptions: the interviewer's and the candidate's tabs are different, the policy
is one of the three, the bounds are natural numbers, and `NoView` is no answer.

`ServerProofs`, the host - for any releases, versions of the configuration, calls and limits:

* `MigrationsApplyOnce` (`AppliedOnceInOrder`): `MigrationInv` says that only one run is past
  the advisory lock, that what it has still to apply is not recorded and all before it is, and
  that what is recorded is a beginning of the list and applied once; `ReadyInv` that what a
  query or the cache of a replica tells was true as many ticks ago as it has waited.
* `GateIsTruthful` (`GateTellsTheTruth`): `BackupInv`.  `FilesInv` says that a file has the
  name of a dump only when it is whole and is else of the one script that is dumping; `GateInv`
  what the gate has secured at each of its commands, although the scheduled backup may delete
  or replace it under the other lock; `EvidenceInv` that a status on disk names the run that
  wrote it, so that the gate does not take another's for its own.
* `StoresAlwaysAgree` (`StoresAgree`): `StoresInv`.  Runs in memory are in the order of
  their ids, the ended ones first, and rows that ended earlier have smaller ids
  (`RunsInOrder`, `RowsOfRuns`), so the run evicted as the oldest in memory is the one the
  table finds by `completed_at`; scenarios and reservations have one row each (`RowsOf`,
  `RowsOfReservations`), so counts and sums are equal (a sum is a count of cents).

Assumptions: the numbers of migrations and the times are natural numbers and one release has
the most (`StartupAssumption`), versions and bounds are numbers (`HostAssumption`), and so is
the limit of stored runs (`StoresAssumption`).

`LocalSessionProofs` - for every length of run, batch, queue and schedule:

* `Guarded`: `PageInv` adds the types of the session's fields and that a settled session
  has its timeout disarmed.  `Final` (`SettledIsFinal`): one step per action of the page.
* `Locked` (`ShownStaysLocked`) and `Agree` (`AgreeWhenQuiet`): `SessionInv` has types, the
  page's part, the control part (a phase, Starting, Playing, Ended or Failed, which page,
  store, worker and the two queues are in together, and which commands and answers may
  be under way in it) and the data part: the messages under way take the cursor that is
  shown to the worker's, in order and without a gap, so what is shown and what is on
  its way are one prefix of what the present schedule produces.  A recomputation keeps the
  delivered prefix or is refused.

The engine is any operator that returns one frame for each second and events of the
run's seconds, and for which an action changes events before the second it targets only
where it changes frames (`EventsFollowFrames`: so does any causal engine, and TLC evaluates the
assumption for the one of the runs).

* `AnalysesHold` (`AnalysesAreCurrent`), for all files, edits and jobs, on the Replay page and
  on the workbench.  `ReadsInv`: a file being read that nothing has outrun is the only
  one of its side, which still waits for it, and it will be compared with the source
  that is shown; what handlers were drawn with is what is shown or nothing
  (`ConsoleInv`).  `PanelInv`: an estimate and a call never have the worker at once.
  Nothing is needed of the messages under way: a settled job hears none of them.
  Assumed (`AnalysesAssumption`): the values that stand for "none" are no file, number or job.
* `DraftingHolds` (`DraftingIsSound`), for all briefs and answers of the provider.  `DraftingInv`
  adds that an objective has an id of its own, the user's one that was drawn and the
  compiler's none of those (`IdsInv`), that the requests and publications that will still be
  listened to are of draft, brief and form as they are (`RequestsInv`, `SharesInv`), and what a
  proposal on screen may contain (`PreviewInv`).

`FilterProofs`: what `Keep` leaves of a sequence, in which order.  `Filters` defines it by
positions; `SelectSeq` is recursive, which no prover here unfolds.

`LabProofs`, the runs - for every number of runs, edits and frames, public or private:

* `TypeCorrect`, `OnlyOnePlays`, `EvidenceKept` (`EvidenceNeverGoesBack`) and
  `ResultStaysCurrent` (`ResultIsCurrent`).  The inductive invariant adds that the store
  shows the newest run or none, so a continuation that still matches is the
  newest run's; and, for a private scenario, that the frames shown are those of the run
  that plays, counted from the fork it began with.

`RunHistoryProofs` - for any number of tabs, runs, days, entries and bytes:

* `LibraryIsSound` (`StoreIsSound`), with and without locks: `LibraryInv` says that the
  store and whatever a tab has read and is about to write back is sound and within the
  bounds.  `LibraryIsRefined` (`RefinesLibrary`): under the lock what a tab has read is the
  store, there is one such tab, and a run to be added is in no list and in one tab;
  then each write is one operation of `RunLibrary`.
* Both rest on `FitTidies`: `fitForStorage` keeps a sound set sound and takes its oldest
  unstarred runs only, however days, entries and bytes run out together.  Its lemmas:
  fewer records are sound (`FewerIsSound`), the records older than one kept are old
  (`OldestAreOld`), taking the oldest out tidies (`OldestOutTidies`), tidying twice is tidying
  (`TidiedTwice`), and stripping bundles changes neither identity nor age (`StripKeeps`).

* `EvidenceHolds` (`EvidenceIsSound`), for every set of designs, builds and browsers and any
  number of runs, files and actions.  `EvidenceInv` says that every artifact, bundle, file
  and replay under way is of one run that was made, with its result and digest, that a
  replay has repeated its source so far on the same engine and profiles, and that the
  files on disk are as they were written; a copy that was cut off, edited or taken for
  another kind of file is either refused or says the same (`CopiesAreRefused`).  Assumed: a
  design is its content and a private flag, a browser has or lacks crypto.subtle
  (`EvidenceAssumption`); and, by the model, that equal SHA-256 digests are of equal values.

`ApiAdmissionProofs` - for every set of clients and replicas and all limits:

* `AdmissionTypes`; `CountersAlwaysMatch` (`CountersMatch`): the invariant ties each place in a
  handler to what it holds; a released request is in no set.  `BudgetIsKept`
  (`BudgetHolds`): a transaction that holds the lock has counted all the rows there are, and
  nobody else inserts before it ends.

`LabProofs`, the store - for every set of architectures, length of history, number of operations:

* `ComputedIsOfDesign` (`ComputedFits`) and `DesignStays` (`DesignIsKept`), from `LabInv`:
  `LoadingInv` says that hydrate, at its await, began with a participant's empty tab, and
  that the tab stays so until another scenario is loaded or something is computed;
  `StorageInv` that drafts and session are those of the screen once hydrate is through, or
  will give way to a newer load; `RequestInv` that an answer which will still be shown is
  of the design and role on screen; `HistoryInv` that undo, redo and the end of a drag
  lead to committed designs.
* `SavedIsRestored` ties the two ends: what `persistDraft` wrote is what hydrate restores,
  whoever saved it and whether the criteria are private.

Assumptions: the default architecture is one of the architectures and `None` is no
design (`StoreAssumption`).  Tabs that met the race of section 6 are excluded, as in the runs.

`LabProofs`, the canvas - for every design it opens with, palette, and any number of edits:

* `CanvasHolds` (`CanvasIsSound`).  `EditInv` says that what is shown and everything undo
  can bring back is sound, and that no identifier in any of them ends in a fresh part not
  given out yet: that is why an added, linked or copied thing has an identifier of its
  own, after an undo too.  A proposal may name a link as another one is, and is then
  refused by `Parses`; the suffix `uniqueId` looks for exists, one more being tried than
  there are components (`UniqueIs`).
* The layout (`SoundLayout`) is clear for every graph.  That the recursion over layers
  defines distances is shown without induction, from a least counterexample
  (`LayersExist`, `DistancesAre`): a link moves at most one layer on, what no start reaches goes
  past all layers, and rows of a column grow with the place in the list (`RowsGrow`).

Assumed (`EditingAssumption`): the editor opens with a valid design whose identifiers were
written by hand, `NoId` is no identifier, the palette is of known kinds, `Undone` a number.

`SimCoreProofs`:

* `EngineInstancesInBounds` (`InstancesInBounds`), for every architecture,
  scenario and schedule of actions.  The rules of a second are applied one after
  the other by folds over sequences; each rule is shown to keep the bounds of a component.
* `EngineTellsSeeded` (`SeededIncidentsAreTold`), for every scenario, set of rules and
  random draw.  `SeedInv` adds to the property what the loop knows on its way: the
  events and frames of a second come in the loop's order and none is of a second to
  come (`LoopInv`), names differ (`NamesInv`), each plan counts what its rule did and is
  eligible again only after the pause (`PlansInv`), and every incident of a second that
  is open was told once (`ToldInv`).  The name that `generatedIncidentId` looks for exists
  by the pigeonhole principle (`FreshIsFree`: one more candidate than there are
  incidents); the incidents of a second are told in the order of `InOrder`, each once.
  Assumed: the authored incidents' ids differ, and so do the rules'
  (`InputsAssumption`, `RulesAssumption`: the schema refuses any other scenario).
* `FrontierHolds` (`FrontierIsNotEmpty`), whatever is measured.  Dominance with
  its tolerance is not transitive; but whatever dominates burdens no more, and is fitter if it
  burdens as much (`DominatorIsAhead`), so the contender of least burden, and among those
  the fittest, is on the frontier.

Only model-checked, and why:

* `RunsSettle`, `CandidateFollows`, `WaitingEnds`, `AdmittedEnds`: liveness under fairness is
  out of this prover's reach.
* `PlanIsSound`, `FlowIsSound`, `TraceIsATree`, `ScoresAreSound`: they compare what a loop has
  added up with a sum over all paths or frames, which needs induction over data.
* `QueueIsFifo`, `SearchIsSound`: sums over the past and folds over the
  candidates, induction over data again.
* `PastIsFixed`: the two engines number their incidents differently once one is injected,
  and that a product over incidents does not depend on their numbers is induction again.

## 5. Not modelled, and why

* **Service worker** (`sw.js`): little state of its own; the browser's cache and update
  rules would be most of the model.
* **Telemetry, evidence reports, catalogues**, prompts and prose of the AI features:
  tables and text.
* **Layout, forms and charts** of the pages; the acceptance and smoke scripts.
* **Floating-point estimates** of the engine (latency, cost, CPU, memory, queueing
  formulas): TLC has no such numbers, and no property of them would be exact.
* Of modelled parts: the heartbeat file and argument checks of the worker;
  validation of request bodies and the configuration of the API; unsaved text in the
  interview room; the plain snapshot of a local run, whose payload is that of a fork;
  the action log and notices of the store; string compression of share links; records
  of the library that cannot be parsed.  Section 3 names what else each module abstracts.

## 6. Where code and documents disagree

* `interview_reload`: "Server-backed interview links synchronize reveal state"
  (`ScenarioDesignerPage.tsx:766`).  `setInterviewReveal` does not update the stored
  session from which the Lab restores itself, so after a reload the interviewer's
  tab shows the old reveal state for good.
* `runs_late_end`: the catch path of `runLocal` awaits the run library and then sets
  `runState` and `localRunSession` without asking whether the store still shows its
  run (`useLabStore.ts:1437`).  Cancel a run and start the next at once, and the next one
  is shown as cancelled while it plays.
  `local-run-store.test.ts:420` has "rejects its late completion" for the other order.
* `draft_readable`: a link between two added components gets an identifier that is
  longer than the schema allows, so that the draft that was saved cannot be read back.

Seen while modelling, without a run of their own.

Store and session:
* The plain path of `hydrate` overwrites what was loaded while it awaited
  (`useLabStore.ts:607`); an edit in that time is persisted as the participant's and
  removes the interviewer's private draft; a snapshot saved in that time overwrites the
  stored list; a solve begun in it stays on screen.  `LabStore` excludes such tabs (`raced`).
* Undo after loading another scenario restores the architecture of the old one; the
  six-second refresh clears the solver's result.
* A refused local run stays "Starting…" (`localSimulation.ts:250`, `useLabStore.ts:1445`,
  `LabPage.tsx:1392`); an earlier answer clears `actionRecomputePending`
  (`localSimulation.ts:409`); the notice after a failed digest (`useLabStore.ts:1403`) may
  speak of older evidence.
* "The interviewer can follow your current phase and the shared journal"
  (`DecisionWorkbench.tsx:2076`), but nothing refreshes an interviewer's tab, and a return
  to the Lab (`LabPage.tsx:768`) blanks its journal.  A milestone is posted once
  (`useLabStore.ts:2112`); two tabs' candidate notes overwrite each other
  (`postgresStore.ts:338`).

Server:
* `docs/architecture.md:41` says the ceiling of the queue fails closed "when active work
  occupies the entire budget", but `queueRun` also refuses when a purge deletes, between
  its count and its eviction, the row it meant to evict.
* A candidate's run after the reveal never matches the shared scenario
  (`sharedScenarioBinding.ts`, `aiDebrief.ts:454`), so debrief and milestone answer 409; an
  interviewer's run is never bound to the share, so that with private criteria its
  debrief is always refused.
* The in-memory store never expires scenarios, evicts by creation instead of
  completion, and does not roll an eviction back.
* `.partial` files left by a power cut are never removed; backup and restore evidence
  compare host and tag but not the repository; the restore evidence is keyed by the new
  release's manifest although its dump has the old schema.

Engine:
* An edge into an explicit source strands work (`simulate.ts:571-575` against the comment at
  1534); a starved queue's backlog stands still (3340); whether a trace is sampled
  depends on later incidents (2385-2400); the two users of dependency retries count
  them in different units (4017-4035, 1551-1604); an offline cache still absorbs its
  hit share (2869-2932); `recoveryTimeSeconds` understates outages (3076-3087
  against 2789-2803); the fan-out bound ignores class entries in mid-graph.
* Targets finer than the verdict's rounding: a latency of 100.006 misses a target of
  100.006; a durability within 5e-7 below its target passes.
* Linter and engine differ: an explicit entry that leads nowhere is not found, links of
  share 0 are counted, values are trimmed by the linter only, seeded rules and the
  routes of request classes are not looked at.
* The solver's chains of tolerance may leave a design on the frontier with score 0; slugs
  of candidates can collide.

Library, evidence, pages:
* A title of more than 80 characters makes a run unreadable in the library
  (`runHistory.ts:514` against 247); the library's comparison shows objective deltas also
  between different engines; identifiers and revisions are limited at import only;
  forks after a reload repeat identifiers; a browser without `crypto.subtle` can neither
  export nor open bundles; a digest made with the fallback cannot be verified by a
  browser that has SHA-256, although the run is reproduced.
* `sw.js` deletes the old caches under open pages.  Duplicating a dangling selection
  adds an empty undo step; duplicates may exceed the 2,000 edges.
* The designer's Visibility select changes `visibility` but not `owner`
  (`ScenarioDesignerPage.tsx:1978`); a merge by identifier replaces an edited AI objective
  although the note says that existing objectives remain; a brief that is run again may
  repeat an identifier and be refused; `publishError` outlives edits; a cited excerpt may be a
  fragment of a longer number (`aiCompilation.ts:268`).

## 7. Running the checks

    tlc -config RunQueueSafety.cfg MCRunQueue         # and RunQueueLive.cfg
    tlc -config InterviewAfterRun.cfg MCServer
    tlc -config InterviewControlled.cfg MCInterviewSession   # and InterviewReload.cfg
    tlc -config LocalSessionSafety.cfg MCLocalSession # and LocalSessionPlays.cfg
    tlc -config Lab.cfg MCLab                         # and EditingDrafts.cfg
    tlc -config LabRunsLateEnd.cfg MCLabRuns
    tlc -config ApiAdmission.cfg MCApi
    tlc -config Engine.cfg MCEngine
    tlapm RunQueueProofs.tla                          # and the other *Proofs.tla

Each run takes less than three minutes on two cores.  `PROJECT.json` lists the runs,
the source lines behind every definition, the hazards and which properties watch
them, and for every property a mutation of the code that the property detects.

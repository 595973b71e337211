# TaskMarshal: specifications, model checking and proofs

TaskMarshal is a control plane for work done by agents. A *task* is logical
work; its authoritative input is a chain of immutable *specification versions*;
an *attempt* is one execution of one version, fenced by an *ownership epoch*.
The service decides whether a task is *ready* with eleven deterministic
policies and refuses to start an attempt when it is not.

This directory specifies the parts of it whose behaviour is hard to test: what
concurrent API requests do to the tables, which inputs the two judges of a
specification (schema and policies) let through, how tasks that depend on one
another live from their first version to an accepted candidate, what the
database guards against any writer and across migrations, what the board shows
while its handlers overlap, and what the worker's readiness marker tells. Paths
below are those of the repository.

## The system

| Component | Code | State | Operations | Interacts with | Hard behaviour | What makes it correct |
| --- | --- | --- | --- | --- | --- | --- |
| Control-plane service | `backend/taskmarshal/api/service.py`, `api/main.py`, `persistence/`, `domain/transitions.py` | tables `tasks`, `task_specifications`, `attempts`, `domain_events`; a session (stale copies) per request | create task, version it, evaluate readiness, start an attempt | database, readiness policies | requests interleave at every statement; stale copies; blind updates; conflicts on unique keys; aborts | epochs and versions without gap or repetition, attempts only on satisfied input, events exactly with their rows, statuses earned |
| Readiness policies, specification schema | `domain/readiness.py`, `api/schemas.py` | none; they read a specification row, repository, configurations, other tasks | accept a command; evaluate | service | JSON of any shape stored by others; numeric edges; two judges drifting apart | each as strict as the other; fail closed |
| Database schema, guards, migrations | `persistence/tables.py`, `migrations/versions/` | rows, revision | any statement of any writer; upgrade, downgrade | every writer | REPLACE past triggers, cascades, data that a migration trips over | recorded executions never change; preflight exact |
| Worker readiness | `worker/main.py`, `worker/health.py` | cached client, marker and temporary file | probe loop; health check in another process | Temporal, file system, container runtime | timeouts, cancellation, kill, full disk, broken connections | never expires while alive, fails closed, recovers |
| Registry | `api/service.py` (projects, repositories, agents, configurations) | five tables | create, list | service | `max(version) + 1` race per agent | versions of an agent without gap |
| Transitions after a start | `domain/transitions.py` (`apply_actor_report`, `accept_candidate`) | none | two pure functions without a caller in the service | service (later) | order of report and review | only a reviewed candidate completes a task |
| Board | `frontend/src/App.tsx` | lists, selected task, readiness, busy flag, notice | handlers with several requests each | API | answers out of order, a chain of requests that fails half way | the view shows one task; nothing is lost silently |
| Middleware, error envelopes | `api/main.py`, `api/errors.py`, `api/correlation.py` | a context variable | log, format | all requests | none beyond a request | not modelled |
| Adapters, ports | `adapters/`, `domain/ports.py` | none | ask the model; refuse | model provider, Temporal | malformed output, provider failures; not called by the service at this revision | a result only of a payload that met the contract (actor adapter in `Lifecycle`; the sandbox and workflow adapters refuse everything and are not modelled) |
| Scripts, deployment, CI | `scripts/`, `deploy/`, `docker-compose.yml`, `.github/` | files | build-time checks | - | - | not modelled |

## Modules

| Module | Kind | Models |
| --- | --- | --- |
| `ControlPlane` | detailed | the service's requests on tasks, statement by statement |
| `TaskLedger` | abstract | what the service promises about a task's history, all operations atomic |
| `ControlPlaneLedger` | refinement | reads a ledger off the tables; `ControlPlane` implements `TaskLedger` |
| `ControlPlaneGuards` | composition | reads the database of `IdentityGuards` off the tables: the service as one of its writers |
| `Registry` | detailed | projects, repositories, agents, racing configuration versions |
| `Lifecycle` | composition | tasks, versions, starts, reports and reviews on top of `Registry` |
| `Board` | composition | the frontend's handlers over `TaskLedger` |
| `Readiness` | pure algorithm and a small state machine | schema, policies, and the submit / store / evaluate steps around them |
| `IdentityGuards` | detailed | constraints, triggers, cascades and migrations |
| `WorkerHealth` | detailed, with time | probe loop, marker, health check |
| `ControlPlaneProofs`, `ControlPlaneHistoryProofs` | proofs | theorems about `ControlPlane`; the second has those about its history, the refinement, the promises without overlap and the guards |
| `RegistryProofs`, `LifecycleProofs`, `BoardProofs`, `ReadinessProofs`, `IdentityGuardsProofs`, `WorkerHealthProofs` | proofs | theorems about the module of that name |
| `MCControlPlane`, `MCControlPlaneLedger`, `MCLifecycle`, `MCBoard`, `MCReadiness`, `MCIdentityGuards` | TLC | finite instances |

How they fit together: `Readiness` says when a payload is satisfied;
`ControlPlane` takes that as a constant set and shows that racing requests
amount to atomic appends; `TaskLedger` is that view, and `Board` runs against
it. `Lifecycle` takes the requests on tasks as atomic and spends its states on
what `ControlPlane` leaves out: the dependencies between tasks, the
registry's rows, and everything after a start. `IdentityGuards` takes the service
for an arbitrary writer; `ControlPlaneGuards` shows the service to be one that its
constraints and triggers never meet.

Definitions named `Faulty...` are variants with a plausible bug. No
specification uses them; with one of them in place of the definition it is
named for, the property listed with it in `PROJECT.json` under `mutants` fails.

### ControlPlane

A request runs in a thread of its own with its own SQLAlchemy session. Three
facts about the session decide everything and are modelled as they are
(`persistence/database.py:26`): `autoflush=False`, `expire_on_commit=False`, and
the identity map, because of which a second SELECT of a loaded task returns the
loaded copy. So a request is a record with its operation, a program counter,
the task row as loaded (`task`) and what later statements need; the tables are
functions from identities to rows. `Saved` says what an UPDATE does: only columns
changed against the loaded copy are written, whatever the row holds now.

| Code | Actions |
| --- | --- |
| `create_task` | `CreateTask` |
| `get_task` at the head of the three others | `BeginSpecification`, `BeginReadiness`, `BeginStart` |
| `_create_task_specification` | `RejectReferences`; `ReadLatestVersion` (SELECT max); `CommitSpecification` (insert, pointer, demotion, event) or `ConflictSpecification` |
| `readiness` | `AnswerReadiness` (with `PersistReadiness`: status and event in a transaction of its own) |
| `_start_attempt` | `GateStart` (evaluation, with its own commit); `AdmitStart` (count of active attempts, transition) or `RefuseStart`; `CommitAttempt` (epoch, attempt, event) or `ConflictAttempt` |
| any error or loss of the process | `Abort` |

Flush and COMMIT are one step: a concurrent insert of the same unique key waits
for the other transaction and then fails, so nothing is observable in between.
With this the atomicity of a transaction is assumed: that a row is committed without
its event, or the other way round, cannot happen in the model, and `AuditMatchesRows`
says only that the code writes both on every path, conflicts and aborts included.
The readiness verdict is a function of the payload here (`Satisfied`): what
the policies read apart from dependencies is immutable, and nothing in the
service completes a task, so no payload with dependencies is satisfied. What
the verdict is for a payload is the subject of `Readiness`.

Properties that hold with any overlap of requests:

* `EpochFence` - epochs of a task's attempts are exactly `1 .. ownership_epoch`, each once.
* `CurrentIsLatest` - versions are `1 .. n`, the pointer is at `n`.
* `AttemptOnSatisfiedInput` - an attempt is bound to a specification of its task that met every policy, with that specification's configuration and hash.
* `AuditMatchesRows` - an event exactly for each row.
* `StatusIsEarned` - ready only with some satisfied version, in progress only with an attempt.
* `SessionsSound` - what a session may rely on while tables change under it.
* `OvershootBounded` - the count-then-insert race exceeds `max_concurrency` by less than the number of concurrent requests.
* `EveryRequestAnswered` - every request ends.
* `ImplementsLedger` - the service implements `TaskLedger`: racing requests produce a history of atomic appends (read off the tables by `VersionHistory` and `StartHistory`).

Promises of the documentation that hold only while requests do not overlap.
One request at a time keeps them: run `serial` checks this statement by statement
for the statuses and the input (with one request slot, so it shows no race), and `lifecycle` for readiness and the limit, with
dependencies and with attempts that end (`ReadyStaysEarned`, `SlotsRespected`). That nothing but the overlap breaks them is a theorem (`OneSlotKeepsPromises` and the more precise
ones below). Two overlapping requests break each of them, and for three of them a run of its own shows how
(for the others, a second request in `serial.cfg` does):

| Property | Promise | Broken by (run) |
| --- | --- | --- |
| `ReadyMeansCurrentSatisfied` | `docs/adr/0005-deterministic-readiness.md:16` | an evaluation around a new version (`stale_ready`) |
| `ReadinessKeepsOtherStatuses` | `docs/domain.md:22` | an evaluation around a start (`stale_readiness_write`) |
| `StartedStays` | `docs/domain.md:50` | a new version around a start |
| `ConcurrencyCap` | `api/service.py:369` | two starts on different tasks (`slot_race`) |
| `StartsOnCurrent` | `docs/domain.md:23` | a start around a new version |

### Registry

Rows of the registry are never removed, so a request that looks for its parent
and inserts is one step (`CreateProject`, `CreateAgent`, `CreateRepository`). A
configuration is numbered `max(version) + 1` of an earlier SELECT: its request is
`BeginConfiguration` and then `CommitConfiguration` or `AbandonConfiguration` (409, an
error, the process gone).

* `ConfigurationsNumbered` - an agent's configurations are `1 .. n`, each once, although requests race between the SELECT and the insert.

### Lifecycle

Extends `Registry`. `CreateTask`, `CreateSpecification`, `Evaluate` and `Start` are the
service's requests, atomic here. A version names a repository, two
configurations and a set of dependencies; that they exist is checked, and a task
cannot name itself, but circles over several tasks are accepted, as in
`_create_task_specification`. `Satisfied` is the part of the eleven policies that looks at
other rows.

What follows a start has code (`PydanticAIActorAdapter.execute`, `apply_actor_report`,
`accept_candidate`) but no caller in the service yet. Who calls is therefore
external and unconstrained: `Execute` asks the adapter for a running attempt, as
often as it likes, and keeps what it returns; `ApplyReport` applies any report, at
any time, again if it likes; `Accept` accepts any candidate. A rejected review has no
transition in the code and none here.

* `StatusMatchesAttempts` - one candidate exactly while the task awaits review, one accepted attempt exactly when it is completed, although a transition looks at one attempt and siblings' reports keep arriving.
* `OutcomesAreClaimed` - malformed output and provider failures move no attempt, and one attempt's answer moves no other.
* `AttemptsStayJustified` - what justified a start is never taken back.
* `ReadyStaysEarned` - ready always means ready on the current version. `ControlPlane` shows that this needs requests that do not overlap.
* `StartedDependenciesAcyclic` - circles of dependencies are accepted but never start.
* `SlotsRespected` - also while reports free slots in any order.
* `ReviewIsFinal` - nothing moves a completed task or its attempts.

### Board

One React component whose handlers are asynchronous functions over shared view
state. A handler in flight is a record: what it awaits (`at`), the task in its
closure, what the ledger held of it at the click, and the answers it already
has. What it sets between two awaits is one render.

| Code | Actions |
| --- | --- |
| mount effect, Refresh button | `Init`, `ClickReload` |
| task rows (not disabled while busy) | `ClickTask` |
| the forms and the start button (disabled while busy) | `SubmitSetup`, `SubmitTask`, `SubmitVersion`, `ClickStart` |
| a POST of `run` | `PostAnswered`; `CallFails`; `AnswerLost` (committed, and the browser does not hear) |
| `openTask` | `ReadDetail` and `ReadGate` in any order, at different moments; `Show` |
| `refresh` | `ReadLists`, `SetLists` |
| `catch` and `finally` of `run` and `openTask` | `Fail` |

The ledger of tasks is `TaskLedger`; projects, repositories, agents and configurations are
a counter, `setups`. A start binds any version the ledger allows: which one
the service picked under a race, the board never learns.
`OtherClient` changes both in between. `openTask` inside `run` reports its
failure and returns normally, so that `run` goes on to report success; `Fail` has
this, and the properties hold with it: what was written was written.

* `ViewOfOneTask`, `StartsWhatIsShown` - whatever order answers arrive in, the gate shown is of the task shown, and a start is of that task.
* `SuccessIsTrue`, `SuccessShowsItsWork` - a success message, of tasks as of setups, speaks of rows that were written after the click, and the list set with it holds them.
* `BusyEnds` - the one busy flag that several handlers set and clear never disables the buttons for good. Its safety part, `BusyIsWork` (some handler in flight will clear it), is proved.

### Readiness

JSON values are records with their kind; a text is a member of a small set in
which each member stands for a class (blank, with a null byte, with a line
break, absolute path, path with `..`) and has a `Length`; `Characters` are what `frozenset` makes
of a text that was stored where a list of secret references belongs. Schema validators,
policies and the service's preparation of the policy context are operators over
all thirteen fields of a specification; where Python raises
instead of answering, an operator `...Raises` says so. `MaxItems` and `MaxPaths` are the
schema's 100 and 32. What a specification refers to is a world: repositories,
configurations and tasks by their ids. The steps are `Submit` (a
command through the schema, references and `model_dump`), `StoreForeign` (a row
of another writer), `Evaluate`, and `TaskChanges` (a dependency is completed or
cancelled by another writer). Texts are what UTF-8 can encode.

* `CreatedVersionsHaveShape` - a version the API created trips no policy and satisfies every policy on its own shape.
* `ReadyRowsWouldBeAccepted` - a row that is judged ready, whoever stored it, would be accepted as a command if and only if it satisfies `AskedBySchemaOnly`: well-formed ids, `authored_by` and `constraints` (no policy reads their text), no line break in the base revision, no control character in a secret reference, no extra key in the two objects, and every maximum length. This is the whole difference between the two judges in this direction.
* `ReadyReferencesMatch` - ready implies references of the task's own project, completed at that moment.
* `MalformedEvaluatesFalse` - `docs/adr/0005-deterministic-readiness.md:30`; violated (run `malformed`): a list where the sandbox policy expects a network name raises. `ActorPolicy` and `LimitsPolicy` have the same flaw on other values.

### IdentityGuards

Seven tables, from projects and agents down to attempts, with their unique keys
(`UniqueKey`), the foreign keys that cascade (`Owner`, `OwnerColumn`) and those that do not
(`ForeignKeys`). Any writer may send any single-row INSERT, UPDATE, DELETE or REPLACE, at either
revision, and migrations run in between while writers are stopped. A statement
that violates a constraint or raises in a trigger is no step. `Delete` and
`Replace` follow SQLite's rules: REPLACE removes rows that conflict on the
primary or any unique key without firing their delete triggers, while a cascade
fires them (`Cascade`: from a project to repositories and tasks, from an agent to configurations,
from a task to specifications and attempts). On PostgreSQL there is no REPLACE and no insert guard; with
`Dialect = "postgresql"` the steps are a subset of those checked. `Upgrade(fit)` and
`Downgrade(fit)` are refused on a connection that is offline, of another database or, on SQLite, enforces foreign
keys (`~fit`), and otherwise look at the rows, with `PRAGMA foreign_key_check` on SQLite. A
migration is one step: a crash within one is not modelled.

* `ExecutionRecordStable` - at revision 0002 the identity of an attempt, its specification and its configuration never change or vanish.
* `UpgradeNeverFailsHalfway`, `DowngradeNeverRefused` - the preflight's seven queries and the foreign-key check find exactly the data that the constraints would trip over.

### WorkerHealth

Time is in seconds. `Tick` lets one pass unless a timer is due or the code is
between two statements without an await. Temporal serves, answers "not serving",
refuses or hangs; a change may leave an open connection broken for good; while the
disk fails, the write of the temporary file (`WriteFails`) or its renaming
(`ReplaceFails`) raises; the process may be interrupted (handlers run) or killed (none
does), and start again.

* `LiveMarkerNeverExpires` - timeout (5 s) and pause (3 s) fit into `MAX_AGE_SECONDS` (15 s).
* `NotReadyWithoutClient` - once it has started, a worker without a client shows no marker, also after a predecessor that was killed and left one.
* `Recovers`, `FailsClosed` - liveness in both directions.

## Runs

| Run | Question | Instance | Distinct states |
| --- | --- | --- | --- |
| `concurrent` | all safety invariants under overlap, and the refinement of `TaskLedger` | 2 tasks, 3 versions, 3 attempts, 2 requests, 4 payloads, 2 configurations | 171 000 |
| `serial` | documented promises without overlap | 2 tasks, 3 versions, 3 attempts, 1 request | 4 600 |
| `answered` | every request ends | 1 task, 2 versions, 2 attempts, 2 requests, no symmetry | 23 000 |
| `stale_ready`, `stale_readiness_write`, `slot_race` | counterexamples | 2 requests | |
| `lifecycle` | dependencies, reports, reviews, numbering | 2 tasks, 2 configurations, 2 overlapping configuration requests, 2 versions and attempts per task, 4 reports | 378 000 |
| `board` | what the board shows, reports and enables | 2 tasks, 2 overlapping handlers, 3 rows, 2 of them by others | 422 000 |
| `readiness` | schema against policies | every deviation in one field, or one part of the world | 342 000 |
| `malformed` | counterexample | every deviation in the sandbox policy, one good world | |
| `guards` | history and migrations | 2 keys per guarded table and 2 agents, rows violating each constraint | 35 000 |
| `worker` | marker | the code's 5, 3 and 15 seconds | 1 500 |

The bounds. `SpecIds`, `AttemptIds` and `Requests` bound how many rows and
overlapping requests there are. Two requests are what each of the races needs.
Three versions, and three attempts, let a stale request meet two commits of the other,
which may be of one task or of two; with two attempts `OvershootBounded` could not fail. A payload per case: two satisfied ones with
different actor configurations, one unsatisfied, one with a dangling reference;
`max_concurrency` is 1, its lowest value. In `Readiness` each policy reads one
field, so deviations in one field (two where one field refers to the other
through the world) reach every branch; maxima are as in the code for lengths of texts, with a text on
either side of each, and 2 instead of 100 and 32 for lists, with lists of three. In `IdentityGuards` two keys per table make
every collision possible and one attempt key is also a task key; the two agents have one name, so
that one replaces the other with its configurations. In `Lifecycle` two tasks
close a circle of dependencies, two versions let a task leave it again, two
attempts of a task are siblings whose reports race, four reports (`MaxReports`) are a
result for each attempt or two different ones for two of them, and two configurations
are two versions of one agent; of their settings one allows one slot and both
roles, one allows two slots and a reviewer only. In `Board` two handlers are what an overlap needs, and three
rows (`MaxCommits`), setups counted, are a task, its version and a start; other clients write
up to the second (`MaxOthers`), so that a click always finds something to do. Rows,
identities and requests are interchangeable, and safety runs use symmetry;
the runs with liveness do not. The runs stop when identities run out, which is
no deadlock: readiness requests stay possible.

Fairness. `answered` assumes weak fairness of each handler's next statement
(`Proceed`): the server has a thread per request and the database grants a lock
once the other transaction ends. Nothing is assumed about new requests
arriving. `board` assumes weak fairness of each handler (`Proceed`): every call
settles, by an answer or a rejection, and the event loop runs the handler that
awaits it. Nobody has to click, and other clients need not act. `worker` assumes that the event loop runs what is runnable and that
the clock goes on; nothing is assumed about Temporal, the disk, or the process.

## Proofs

All theorems are for any sets of tasks, identities, payloads, requests and
handlers. They rest on the named assumptions in the modules alone: a missing row
is no row (`NoRow`, `NoSpec`, `None` with their assumptions), configurations have a
`max_concurrency` between 1 and 100, a payload names a configuration, commands
are well formed, and, where something is counted, the sets counted are finite
(`BoundsAssumption`). `Readiness` asks that JSON values are well formed and hold values
(`ValuesAssumption`), that commands and rows map fields to them (`RowsAssumption`), that
"/workspace" is an absolute path without anything a validator refuses (`TextAssumption`), and that texts
have lengths and the maxima of lists are numbers (`SizeAssumption`);
`IdentityGuards` that version and epoch columns are integers (`RowsAssumption`);
`WorkerHealth` that a probe's timeout and a pause are together shorter than the marker's
age (`TimingAssumption`); `ControlPlaneGuards` that task and attempt identities, both random
UUIDs, differ (`IdentitiesAssumption`), and that a payload names a reviewer (`ReviewerAssumption`).

### ControlPlane

`TypeCorrect`, `EpochFenceHolds`, `SessionsSoundHolds`: none of the three is inductive alone; `Inv`, their conjunction, is. Types need the sessions:
a commit writes the row of the request's task, which has to exist, and an
attempt copies from the row its session pointed at. The fence needs the
sessions: a start writes `loaded epoch + 1` into the task blindly, and this is
the next epoch only because (a) the copy is never ahead of the row
(`SessionsSound`) and (b) with the epochs of the attempts being `1 .. row epoch`
a copy behind the row would find its epoch taken (`EpochFence` itself); lemma
`FreshCopy` is this argument. The sessions need the types. Each part has a
lemma per action and a step lemma; `InvStep` puts them together.

The others are inductive relative to `Inv`.

* `StartsAreFailClosed` (`AttemptOnSatisfiedInput`): the gate's verdict is about an immutable row (`InputRow`).
* `CurrentIsLatestHolds`: `latest` is the number of some row, the numbers are `1 .. n`, so a `latest` below `n` finds its successor taken, and a commit adds `n + 1` and points at it (`FreeVersion`); tasks without a row need `SpecsHaveTasks` beside it.
* `AuditMatchesRowsHolds`: each step that inserts a row inserts its event, and no other step touches either (`StepKinds`, `TaskInserted`, `SpecificationInserted`, `AttemptInserted`).
* `StatusIsEarnedHolds`: a status written from a stale copy was earned when the copy was loaded, and what earned it is never removed.
* `OvershootBoundedHolds`: active attempts and admitted requests are counted together. The sum grows only by an admission, which finds fewer active attempts than the limit while at most all requests are admitted; a commit turns an admitted request into an attempt and leaves the sum alone.
* `LedgerImplemented`: `Spec => ImplementsLedger`, the refinement. A row that stays keeps its place in the history, because its number chooses it (`VersionsKept`, `StartsKept`); a new row has the next number (`CurrentIsLatest`, `EpochFence`) and so is an append (`CommitSpecificationAppends`, `CommitAttemptAppends`). The invariant used is `HistoryInv`: `Inv` with `CurrentIsLatest`, `SpecsHaveTasks` and `AttemptOnSatisfiedInput`.

With these, every property of run `concurrent` is a theorem.

The promises that overlapping requests break are theorems under the absence of
the overlap, as a temporal hypothesis on the behaviour:

* `OneRequestPerTask` (no two requests in flight on one task) gives `CopiesCurrent`: no session's copy is stale (`CopiesStep`; the invariant of these proofs). Then a write is what it seems to be (`WritesCurrent`), and `StartedStaysInOrder`, `StartsOnCurrentInOrder`, `ReadyMeansCurrentInOrder` and `ReadinessKeepsOtherStatusesInOrder` follow. Requests on different tasks may overlap as they like.
* `OneAdmittedStart` (of each configuration no two starts between their count and their insert) gives `ConcurrencyCapInOrder`: active attempts and admitted starts are never more than the limit together.
* `OneSlotKeepsPromises`: a server with one request slot keeps all five. Its hypothesis is about the constant `Requests` and holds in run `serial`.

Together with the runs `stale_ready`, `stale_readiness_write` and `slot_race` this
locates the flaw: what the documentation promises fails only where requests
on one task, or starts of one configuration, overlap, and there it does fail.

`ServiceWithinGuards` composes the service with the database. The rows of
`ControlPlane`, read as `Database` in `ControlPlaneGuards`, meet every constraint of both
revisions in every state (`HistoryMeetsConstraints`, from `HistoryInv`) and also between
the two statements of a commit, when the new row is there and the task's row is
not yet updated (`HalfwayAccepted`); no row of the three guarded tables is
updated or deleted (`GuardedRowsStay`), so no trigger fires; and `ExecutionRecordStable`,
which `IdentityGuards` has for any writer, holds of the service. So revision 0002
costs the service nothing but the conflicts it answers. These three properties
are proved and belong to no run.

### Registry and Lifecycle

`RegistryInv` is the types, the numbering and `CallsSound`: what a request in flight
read is still a number of the agent, and the identity it will insert is its own.
`ConfigurationsNumberedHolds` follows.

`LifeInv` conjoins the registry's invariant, the properties of run `lifecycle` and
`ReportsSound` (a report is of an attempt that exists, and says what the model
claimed). The parts hold one another up because nothing is taken back:
configurations are immutable, versions are only appended, completed tasks stay
completed (`CompletedStays`, from `StatusMatchesAttempts`), so what was satisfied stays
satisfied (`SatisfiedStays`). From this follow `AttemptsStayJustified` and
`ReadyStaysEarned`. `StartedDependenciesAcyclic` follows the order of completion: a start
uses completed tasks only and the starting task is not completed, so no task,
itself included, uses it (`UsesCompleted`); a set that contains it and others has the witness of the
others (`AcyclicStep`). `ReviewIsFinalHolds` is an action property from the same invariant. All nine
properties of run `lifecycle` are theorems.

### Board

`BoardInv` has, besides the properties, what an invocation in flight knows (`Sound`):
the answers it holds are of its own task, past its last POST the rows it wrote
are there, and a list it read after that holds them. The ledger only grows
(`Grows`), so knowledge stays true whatever other handlers and clients do
(`SoundStays`). `SuccessShowsItsWorkHolds` and `StartsWhatIsShownHolds` are action
properties from the same invariant. Of run `board` only `BusyEnds` is left to TLC.

### Readiness

`ReadinessInv` carries two facts about the stored row from the step that stored it
to the last evaluation: a row of the service has the shape the policies ask for
and trips none of them (`StoredShaped`, from what the schema accepts and
`model_dump` fills in), and a ready verdict implies shape and references. The six
policies on the shape are satisfied exactly by shaped rows (`Shaped` does not
mention the world). For a shaped row with valid references, what the schema asks
is `AskedBySchemaOnly` and nothing else; `ShapedAccepted` goes through the
fields in both directions (`LimitsDiffer`, `SandboxDiffers`, `ItemsDiffer`, `ReferencesDiffer`).
The JSON values are arbitrary; a value may hold any value of `Values`.

### IdentityGuards

`GuardInv` says that the constraints of the schema at hand hold. `PreflightIsExact` is
the heart: on any typed rows the preflight finds nothing
exactly if the constraints of 0002 hold, given those of 0001; both migration
properties follow. `ExecutionRecordStableHolds` goes through the statements: updates that
touch a guarded column raise, a REPLACE on a guarded table raises because of the insert
guards, a REPLACE or DELETE of a task, project or agent would have to take specifications,
attempts or configurations along, which raises, and a foreign key keeps what is left.

### WorkerHealth

`WorkerInv` bounds the marker's age by the timers: during a pause it is no older
than the pause so far, during a probe no older than a whole pause and the probe
so far (`MarkerIsFresh`); and whoever checks or writes has a client (`ClientKept`). The
theorems hold for every timeout, pause and age that `TimingAssumption` allows.

### Only model-checked

Liveness (`EveryRequestAnswered`, `BusyEnds`, `Recovers`, `FailsClosed`) rests on fairness and
ENABLED, which the proof system does not handle, and stays with TLC. Every other
property of a run that passes is a theorem. Counterexamples (the four runs that
expect a violation) are TLC's by nature.

## Not modelled

* Deployment, scripts, CI, logging, correlation ids, error texts, list queries: pure input and output, or no state that outlives a request.
* The sandbox and workflow adapters: they refuse every call and nothing calls them at this revision.
* Whoever runs the actor adapter, applies its reports and reviews: not in the repository; external and unconstrained in `Lifecycle`. Cancelled attempts and tasks have statuses in the schema but no transition.
* The board's forms, their contents and layout.
* The formats of identifiers and other details of texts; the classes of text and the lengths above are what validators and policies distinguish.
* `artifacts`, `evidence`: no operation writes them. A crash within a migration. `domain_events` is in `ControlPlane`; its guards are those of the other immutable tables.
* A dialect's lock waits and deadlock detection: a request that loses to either is an `Abort`.

## Plan

Done: all modules above, a theorem for every safety and action property of the
passing runs, the promises without overlap, and the service under the guards.
Not done, and what it would add:

1. `Lifecycle` as an implementation of `TaskLedger` while attempts only start: what
   `Board` relies on would then also hold of tasks with dependencies and reports.
2. The difference of the two judges in the other direction: which accepted commands are
   never judged ready whatever the world.
3. Flush and COMMIT as separate steps of `ControlPlane`, with the locks of the database
   between them: the atomicity of a transaction would be checked and not assumed, at
   the price of a model of the lock manager.

---------------------------- MODULE ControlPlane ----------------------------
(***************************************************************************)
(* The control-plane service of TaskMarshal over its database: tasks,      *)
(* their versioned specifications, their attempts and the audit events,    *)
(* changed by concurrent API requests (api/service.py,                     *)
(* persistence/tables.py, domain/transitions.py).                          *)
(*                                                                         *)
(* A request runs in a thread with a database session of its own.  Each    *)
(* SELECT sees the rows committed by then; between two statements other    *)
(* requests may commit.  A Task that the session has loaded is not loaded  *)
(* again (identity map, expire_on_commit=False, autoflush=False): the      *)
(* request goes on with its own copy.  A flush together with its COMMIT is *)
(* one step: a conflicting concurrent insert waits for the other           *)
(* transaction and then fails on the unique constraint, rolling back.      *)
(***************************************************************************)
EXTENDS Integers, FiniteSets

CONSTANTS
    Tasks,           \* task ids (work ids) that may be created
    SpecIds,         \* identities of specification rows: the bound on their number
    AttemptIds,      \* identities of attempt rows: the bound on their number
    Requests,        \* API request slots: the bound on concurrent requests
    Contents,        \* specification payloads, each standing for its content_hash
    Resolvable,      \* payloads whose references exist in the task's project
    Satisfied,       \* payloads that meet all eleven readiness policies
    Configs,         \* immutable agent configurations
    ActorOf,         \* the actor configuration a payload names
    MaxConcurrency,  \* max_concurrency of each configuration
    NoRow,           \* no such row; also: no request in a slot
    NoSpec           \* the NULL current_specification_id

TaskStatus == {"draft", "ready", "in_progress", "awaiting_review", "completed",
               "cancelled"}

AttemptStatus == {"starting", "running", "candidate", "blocked", "failed", "accepted",
                  "rejected"}

ActiveStatus == {"starting", "running"}

TaskRow == [status : TaskStatus, epoch : Nat, current : SpecIds \cup {NoSpec}]

SpecRow == [work : Tasks, version : Nat \ {0}, content : Contents]

AttemptRow == [work : Tasks, spec : SpecIds, config : Configs, input : Contents,
               epoch : Nat \ {0}, status : AttemptStatus]

\* A request in flight: its operation, how far it has come (pc), the task it
\* is about, the copy of the task row its session holds, and what the later
\* statements need.
SpecificationRequest ==
    [op : {"specification"}, pc : {"loaded", "numbered"}, work : Tasks,
     task : TaskRow, id : SpecIds, content : Contents, latest : Nat]

ReadinessRequest ==
    [op : {"readiness"}, pc : {"loaded"}, work : Tasks, task : TaskRow]

StartRequest ==
    [op : {"start"}, pc : {"loaded", "gated", "admitted"}, work : Tasks,
     task : TaskRow, id : AttemptIds]

Request == SpecificationRequest \cup ReadinessRequest \cup StartRequest

ASSUME NoRowAssumption ==
    NoRow \notin TaskRow \cup SpecRow \cup AttemptRow \cup Request

ASSUME NoSpecAssumption == NoSpec \notin SpecIds

ASSUME PayloadAssumption ==
    /\ Resolvable \subseteq Contents
    /\ Satisfied \subseteq Contents
    /\ ActorOf \in [Contents -> Configs]

\* The service has finitely many threads, and its tables finitely many rows.
ASSUME BoundsAssumption == IsFiniteSet(AttemptIds) /\ IsFiniteSet(Requests)

\* Limited by the schema: 1 <= max_concurrency <= 100.
ASSUME ConcurrencyAssumption == MaxConcurrency \in [Configs -> 1 .. 100]

VARIABLES
    tasks,     \* the tasks table
    specs,     \* the task_specifications table
    attempts,  \* the attempts table
    events,    \* the domain_events table, repetitions of an event left out
    req        \* the request each slot is working on

vars == <<tasks, specs, attempts, events, req>>

Event(type, work, subject) == [type |-> type, work |-> work, subject |-> subject]

-----------------------------------------------------------------------------
(* Reading the tables.                                                     *)

IsTask(t) == tasks[t] # NoRow
IsSpec(s) == specs[s] # NoRow
IsAttempt(a) == attempts[a] # NoRow

SpecsOf(t) == {s \in SpecIds : IsSpec(s) /\ specs[s].work = t}
VersionsOf(t) == {specs[s].version : s \in SpecsOf(t)}
AttemptsOf(t) == {a \in AttemptIds : IsAttempt(a) /\ attempts[a].work = t}

\* Definitions named Faulty... are variants of the definition they are named
\* for, each with a plausible bug: a property is told from its absence by
\* failing with one of them (mutants in PROJECT.json).

\* No unique constraint on the versions.
FaultyVersionTaken(t, n) == FALSE

\* No unique constraint on the epochs.
FaultyEpochTaken(t, e) == FALSE

\* UNIQUE (task_id, version) of task_specifications rejects the new row.
VersionTaken(t, n) == n \in VersionsOf(t)

\* UNIQUE (work_id, ownership_epoch) of attempts rejects the new row.
EpochTaken(t, e) == \E a \in AttemptsOf(t) : attempts[a].epoch = e

\* The attempts of a configuration that occupy one of its slots.
Active(c) == {a \in AttemptIds : /\ IsAttempt(a)
                                 /\ attempts[a].config = c
                                 /\ attempts[a].status \in ActiveStatus}

-----------------------------------------------------------------------------
(* Requests.                                                               *)

InFlight(r) == req[r] # NoRow
At(r, op, pc) == InFlight(r) /\ req[r].op = op /\ req[r].pc = pc

Finish(r) == req' = [req EXCEPT ![r] = NoRow]
Advance(r, pc) == req' = [req EXCEPT ![r].pc = pc]

FreshSpec(s) == /\ ~IsSpec(s)
                /\ \A r \in Requests : InFlight(r) /\ req[r].op = "specification"
                                        => req[r].id # s

FreshAttempt(a) == /\ ~IsAttempt(a)
                   /\ \A r \in Requests : InFlight(r) /\ req[r].op = "start"
                                           => req[r].id # a

\* What an UPDATE leaves in a column: only a column whose value differs from
\* the one the session loaded is written.
Saved(committed, loaded, new) == IF new = loaded THEN committed ELSE new

-----------------------------------------------------------------------------
(* Decisions the handlers take on the copy of the task they loaded.        *)

\* Versioning that demotes every task.
FaultyAfterSpecificationDemotes(status) == "draft"

\* A verdict on the presence of a specification alone.
FaultyIsReady(current) == current # NoSpec

\* The two results of the transition swapped.
FaultyStartTransition == [task |-> "running", attempt |-> "in_progress"]

\* An attempt bound to the pointer re-read after the gate.
FaultyInputRefreshed(q) == tasks[q.work].current

\* An attempt bound to the first version.
FaultyInputFirst(q) == CHOOSE s \in SpecsOf(q.work) : specs[s].version = 1

\* One slot too many.
FaultyHasSlot(c) == Cardinality(Active(c)) <= MaxConcurrency[c]

\* A request to version a task demotes it only out of ready (draft stays).
AfterSpecification(status) == IF status \in {"draft", "ready"} THEN "draft" ELSE status

\* The readiness verdict on a current pointer.  Everything it reads but the
\* dependencies' statuses is immutable, and nothing in the service completes
\* a task, so the verdict is a function of the payload (see Readiness.tla).
IsReady(current) == current # NoSpec /\ specs[current].content \in Satisfied

\* Readiness is persisted only for a task loaded as draft or ready.
Persistable(status) == status \in {"draft", "ready"}

AfterReadiness(status, current) ==
    IF Persistable(status)
    THEN IF IsReady(current) THEN "ready" ELSE "draft"
    ELSE status

\* The session's copy of the task after an evaluation.
Evaluated(task) == [task EXCEPT !.status = AfterReadiness(task.status, task.current)]

\* domain start_attempt: from which task statuses, and to which pair of statuses.
Startable(status) == status \in {"ready", "in_progress"}
StartTransition == [task |-> "in_progress", attempt |-> "running"]

\* The specification an attempt is bound to: the current one of the loaded copy.
Input(q) == q.task.current

HasSlot(c) == Cardinality(Active(c)) < MaxConcurrency[c]

-----------------------------------------------------------------------------
(* POST /tasks and the first statement of the other three requests.        *)

CreateTask(t) ==
    /\ ~IsTask(t)
    /\ tasks' = [tasks EXCEPT ![t] = [status |-> "draft", epoch |-> 0, current |-> NoSpec]]
    /\ events' = events \cup {Event("task.created", t, t)}
    /\ UNCHANGED <<specs, attempts, req>>

\* get_task: the session takes its copy of the task row; 404 when there is none.
Load(r, q) ==
    /\ ~InFlight(r)
    /\ IsTask(q.work)
    /\ req' = [req EXCEPT ![r] = q]
    /\ UNCHANGED <<tasks, specs, attempts, events>>

BeginSpecification(r, t, s, c) ==
    /\ FreshSpec(s)
    /\ Load(r, [op |-> "specification", pc |-> "loaded", work |-> t,
                task |-> tasks[t], id |-> s, content |-> c, latest |-> 0])

BeginReadiness(r, t) ==
    Load(r, [op |-> "readiness", pc |-> "loaded", work |-> t, task |-> tasks[t]])

BeginStart(r, t, a) ==
    /\ FreshAttempt(a)
    /\ Load(r, [op |-> "start", pc |-> "loaded", work |-> t, task |-> tasks[t], id |-> a])

\* A request that ends with an error: its transaction is rolled back.
Rollback(r) ==
    /\ Finish(r)
    /\ UNCHANGED <<tasks, specs, attempts, events>>

-----------------------------------------------------------------------------
(* POST /tasks/{id}/specifications.                                        *)

\* 404 or 422: a reference of the payload is missing or of another project.
RejectReferences(r) ==
    /\ At(r, "specification", "loaded")
    /\ req[r].content \notin Resolvable
    /\ Rollback(r)

\* SELECT max(version), 0 when the task has no version yet.
ReadLatestVersion(r) ==
    /\ At(r, "specification", "loaded")
    /\ req[r].content \in Resolvable
    /\ \E n \in VersionsOf(req[r].work) \cup {0} :
        /\ \A m \in VersionsOf(req[r].work) : m <= n
        /\ req' = [req EXCEPT ![r].pc = "numbered", ![r].latest = n]
    /\ UNCHANGED <<tasks, specs, attempts, events>>

CommitSpecification(r) ==
    LET q == req[r]
        t == q.work
        status == AfterSpecification(q.task.status)
    IN  /\ At(r, "specification", "numbered")
        /\ ~VersionTaken(t, q.latest + 1)
        /\ specs' = [specs EXCEPT ![q.id] =
                        [work |-> t, version |-> q.latest + 1, content |-> q.content]]
        /\ tasks' = [tasks EXCEPT ![t] =
                        [status |-> Saved(tasks[t].status, q.task.status, status),
                         epoch |-> tasks[t].epoch,
                         current |-> q.id]]
        /\ events' = events \cup {Event("task.specification.created", t, q.id)}
        /\ Finish(r)
        /\ UNCHANGED attempts

\* 409 persistence.constraint_violation: another request took the version.
ConflictSpecification(r) ==
    /\ At(r, "specification", "numbered")
    /\ VersionTaken(req[r].work, req[r].latest + 1)
    /\ Rollback(r)

-----------------------------------------------------------------------------
(* GET /tasks/{id}/readiness, and the same evaluation inside a start.      *)

\* A status that differs from the loaded one is committed at once, with its
\* event, in a transaction of its own.
PersistReadiness(r) ==
    LET q == req[r]
        status == AfterReadiness(q.task.status, q.task.current)
    IN  /\ \/ /\ status = q.task.status
              /\ UNCHANGED <<tasks, events>>
           \/ /\ status # q.task.status
              /\ tasks' = [tasks EXCEPT ![q.work].status = status]
              /\ events' = events \cup
                    {Event("task.readiness.changed", q.work,
                           IF status = "ready" THEN "readiness.satisfied"
                                               ELSE "readiness.unsatisfied")}
        /\ UNCHANGED <<specs, attempts>>

AnswerReadiness(r) ==
    /\ At(r, "readiness", "loaded")
    /\ PersistReadiness(r)
    /\ Finish(r)

-----------------------------------------------------------------------------
(* POST /tasks/{id}/attempts.                                              *)

\* The gate of a start; 409 task.not_ready when it does not pass.
GateStart(r) ==
    /\ At(r, "start", "loaded")
    /\ PersistReadiness(r)
    /\ \/ /\ ~IsReady(req[r].task.current)
          /\ Finish(r)
       \/ /\ IsReady(req[r].task.current)
          /\ req' = [req EXCEPT ![r] =
                [op |-> "start", pc |-> "gated", work |-> req[r].work,
                 task |-> Evaluated(req[r].task), id |-> req[r].id]]

ConfigOf(q) == ActorOf[specs[Input(q)].content]

\* SELECT count(attempts) of the actor configuration finds a free slot.
AdmitStart(r) ==
    /\ At(r, "start", "gated")
    /\ HasSlot(ConfigOf(req[r]))
    /\ Startable(req[r].task.status)
    /\ Advance(r, "admitted")
    /\ UNCHANGED <<tasks, specs, attempts, events>>

\* A start that waits for a slot instead of being refused.
FaultyRefuseStart(r) ==
    /\ At(r, "start", "gated")
    /\ ~Startable(req[r].task.status)
    /\ Rollback(r)

\* 409 agent.concurrency_exhausted or attempt.invalid_transition.
RefuseStart(r) ==
    /\ At(r, "start", "gated")
    /\ ~HasSlot(ConfigOf(req[r])) \/ ~Startable(req[r].task.status)
    /\ Rollback(r)

CommitAttempt(r) ==
    LET q == req[r]
        t == q.work
        epoch == q.task.epoch + 1
    IN  /\ At(r, "start", "admitted")
        /\ ~EpochTaken(t, epoch)
        /\ attempts' = [attempts EXCEPT ![q.id] =
                [work |-> t, spec |-> Input(q), config |-> ConfigOf(q),
                 input |-> specs[Input(q)].content, epoch |-> epoch,
                 status |-> StartTransition.attempt]]
        /\ tasks' = [tasks EXCEPT ![t] =
                [status |-> Saved(tasks[t].status, q.task.status, StartTransition.task),
                 epoch |-> epoch,
                 current |-> tasks[t].current]]
        /\ events' = events \cup {Event("attempt.started", t, q.id)}
        /\ Finish(r)
        /\ UNCHANGED specs

\* The event of a start committed although the attempt is not.
FaultyConflictAttempt(r) ==
    /\ At(r, "start", "admitted")
    /\ EpochTaken(req[r].work, req[r].task.epoch + 1)
    /\ Finish(r)
    /\ events' = events \cup {Event("attempt.started", req[r].work, req[r].id)}
    /\ UNCHANGED <<tasks, specs, attempts>>

\* 409 persistence.constraint_violation: another start took the epoch.
ConflictAttempt(r) ==
    /\ At(r, "start", "admitted")
    /\ EpochTaken(req[r].work, req[r].task.epoch + 1)
    /\ Rollback(r)

-----------------------------------------------------------------------------
\* A request lost at any of its statements: a database error, the connection
\* or the API process gone.  What it committed stays.
Abort(r) ==
    /\ InFlight(r)
    /\ Rollback(r)

Init ==
    /\ tasks = [t \in Tasks |-> NoRow]
    /\ specs = [s \in SpecIds |-> NoRow]
    /\ attempts = [a \in AttemptIds |-> NoRow]
    /\ events = {}
    /\ req = [r \in Requests |-> NoRow]

Begin(r) ==
    \E t \in Tasks :
        \/ \E s \in SpecIds, c \in Contents : BeginSpecification(r, t, s, c)
        \/ BeginReadiness(r, t)
        \/ \E a \in AttemptIds : BeginStart(r, t, a)

Proceed(r) ==
    \/ RejectReferences(r)
    \/ ReadLatestVersion(r)
    \/ CommitSpecification(r)
    \/ ConflictSpecification(r)
    \/ AnswerReadiness(r)
    \/ GateStart(r)
    \/ AdmitStart(r)
    \/ RefuseStart(r)
    \/ CommitAttempt(r)
    \/ ConflictAttempt(r)

Next ==
    \/ \E t \in Tasks : CreateTask(t)
    \/ \E r \in Requests : Begin(r) \/ Proceed(r) \/ Abort(r)

Spec == Init /\ [][Next]_vars

\* The server runs every accepted request to its answer.
FairSpec == Spec /\ \A r \in Requests : WF_vars(Proceed(r))

-----------------------------------------------------------------------------
(* Properties that hold for any number of concurrent requests.             *)

EventType == {"task.created", "task.specification.created",
              "task.readiness.changed", "attempt.started"}

\* Every table holds rows of its type and every slot a request of its type.
TypeOK ==
    /\ tasks \in [Tasks -> TaskRow \cup {NoRow}]
    /\ specs \in [SpecIds -> SpecRow \cup {NoRow}]
    /\ attempts \in [AttemptIds -> AttemptRow \cup {NoRow}]
    /\ events \subseteq
        [type : EventType, work : Tasks,
         subject : Tasks \cup SpecIds \cup AttemptIds
                    \cup {"readiness.satisfied", "readiness.unsatisfied"}]
    /\ req \in [Requests -> Request \cup {NoRow}]

\* Epoch fencing: whatever the races between starts on stale copies of a
\* task, the epochs of its attempts are exactly 1 .. ownership_epoch, each of
\* one attempt.  No start is lost behind the counter, none reuses an epoch.
EpochFence ==
    \A t \in Tasks :
        /\ IF IsTask(t) THEN {attempts[a].epoch : a \in AttemptsOf(t)} = 1 .. tasks[t].epoch
                        ELSE AttemptsOf(t) = {}
        /\ \A a, b \in AttemptsOf(t) : attempts[a].epoch = attempts[b].epoch => a = b

\* The versions of a task are 1 .. n without a gap or a repetition and
\* current_specification_id points at version n, although each writer takes
\* max(version) + 1 of an earlier SELECT and overwrites the pointer blindly.
CurrentIsLatest ==
    \A t \in Tasks :
        /\ \A s1, s2 \in SpecsOf(t) : specs[s1].version = specs[s2].version => s1 = s2
        /\ \A s \in SpecsOf(t) : 1 .. specs[s].version \subseteq VersionsOf(t)
        /\ SpecsOf(t) # {} => /\ tasks[t].current \in SpecsOf(t)
                              /\ \A s \in SpecsOf(t) :
                                    specs[s].version <= specs[tasks[t].current].version

\* Fail-closed start: every attempt is bound to a specification of its own
\* task that met every readiness policy, with that specification's actor
\* configuration and content hash, whatever was committed between the
\* evaluation and the insert.
AttemptOnSatisfiedInput ==
    \A a \in AttemptIds : IsAttempt(a) =>
        LET s == attempts[a].spec
        IN  /\ IsSpec(s)
            /\ specs[s].work = attempts[a].work
            /\ specs[s].content \in Satisfied
            /\ attempts[a].config = ActorOf[specs[s].content]
            /\ attempts[a].input = specs[s].content

\* Events are written in the transaction of the rows they report: there is
\* one exactly for each task, specification and attempt that exists.
AuditMatchesRows ==
    /\ \A t \in Tasks : IsTask(t) <=> Event("task.created", t, t) \in events
    /\ \A t \in Tasks, s \in SpecIds :
        s \in SpecsOf(t) <=> Event("task.specification.created", t, s) \in events
    /\ \A t \in Tasks, a \in AttemptIds :
        a \in AttemptsOf(t) <=> Event("attempt.started", t, a) \in events

\* What status still means under races: a task is ready only when one of its
\* versions met every policy, in progress only when it has an attempt, and
\* nothing in the service takes it further.
StatusIsEarned ==
    \A t \in Tasks : IsTask(t) =>
        /\ tasks[t].status \in {"draft", "ready", "in_progress"}
        /\ tasks[t].status = "ready" => \E s \in SpecsOf(t) : specs[s].content \in Satisfied
        /\ tasks[t].status = "in_progress" => AttemptsOf(t) # {}

\* The current pointer of a task is NULL or a specification of that task.
PointersSound ==
    \A t \in Tasks : IsTask(t) => tasks[t].current \in SpecsOf(t) \cup {NoSpec}

\* What a session can rely on while the tables change under it.
SessionSound(r) ==
    InFlight(r) =>
        /\ IsTask(req[r].work)
        /\ req[r].task.epoch <= tasks[req[r].work].epoch
        /\ req[r].task.current \in SpecsOf(req[r].work) \cup {NoSpec}
        /\ req[r].op = "specification" => /\ ~IsSpec(req[r].id)
                                          /\ req[r].latest \in VersionsOf(req[r].work) \cup {0}
        /\ req[r].op = "start" => ~IsAttempt(req[r].id)
        /\ req[r].op = "start" /\ req[r].pc # "loaded" => IsReady(req[r].task.current)

\* No two requests are about to insert a row of the same identity.
IdentitiesDistinct ==
    \A r1, r2 \in Requests :
        r1 # r2 /\ InFlight(r1) /\ InFlight(r2) /\ req[r1].op = req[r2].op
            => req[r1].op = "readiness" \/ req[r1].id # req[r2].id

\* A session's copy of the task may be stale but never ahead: the epoch was
\* reached, the version it pointed at is still a row of the task, the version
\* number it read is still taken and the verdict of its gate still holds,
\* whatever other requests committed since the load.
SessionsSound ==
    /\ PointersSound
    /\ \A r \in Requests : SessionSound(r)
    /\ IdentitiesDistinct

\* Starts admitted for a configuration and not yet inserted.
Admitted(c) == {r \in Requests : At(r, "start", "admitted") /\ ConfigOf(req[r]) = c}

\* The count-then-insert race of starts exceeds max_concurrency by less than
\* the number of concurrent requests.
OvershootBounded ==
    \A c \in Configs :
        Cardinality(Active(c)) + Cardinality(Admitted(c))
            < MaxConcurrency[c] + Cardinality(Requests)

\* Every request is answered: each interleaving leaves every handler a way to
\* commit or to be refused.
EveryRequestAnswered == \A r \in Requests : InFlight(r) ~> ~InFlight(r)

-----------------------------------------------------------------------------
(* What the documentation promises; the code keeps it as long as requests  *)
(* do not overlap.                                                         *)

\* A ready task is ready on its current specification: a new version returns
\* a ready task to draft until it is evaluated (_create_task_specification).
ReadyMeansCurrentSatisfied ==
    \A t \in Tasks : IsTask(t) /\ tasks[t].status = "ready" => IsReady(tasks[t].current)

\* A readiness evaluation moves a task only between draft and ready.
ReadinessStep == \E r \in Requests : AnswerReadiness(r) \/ GateStart(r)
ReadinessKeepsOtherStatuses ==
    [][ReadinessStep => \A t \in Tasks :
        IsTask(t) /\ tasks[t].status \notin {"draft", "ready"}
            => tasks'[t].status = tasks[t].status]_vars

\* A task that has started stays in progress: a new version demotes a task
\* only out of ready (_create_task_specification), an evaluation moves one only
\* between draft and ready (readiness), and nothing else takes it back.
StartedStays ==
    [][\A t \in Tasks : IsTask(t) /\ tasks[t].status = "in_progress"
            => tasks'[t].status = "in_progress"]_vars

\* No configuration has more active attempts than its max_concurrency.
ConcurrencyCap ==
    \A c \in Configs : Cardinality(Active(c)) <= MaxConcurrency[c]

\* An attempt starts on the specification that is current when it commits.
StartsOnCurrent ==
    [][\A a \in AttemptIds :
        ~IsAttempt(a) /\ attempts'[a] # NoRow
            => attempts'[a].spec = tasks[attempts'[a].work].current]_vars

=============================================================================

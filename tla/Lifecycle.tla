------------------------------ MODULE Lifecycle ------------------------------
(***************************************************************************)
(* The life of tasks that depend on one another, from their versions over  *)
(* their attempts to an accepted candidate (domain/transitions.py,         *)
(* api/service.py, adapters/pydantic_ai_actor.py), on the registry's rows. *)
(*                                                                         *)
(* Requests on tasks are atomic here; ControlPlane has their               *)
(* interleavings.  What the service does not do yet is external: somebody  *)
(* runs the adapter for an attempt and applies what it returns with        *)
(* apply_actor_report, possibly late, repeatedly and in any order, and     *)
(* somebody reviews.  Tasks, repositories and dependencies are of one      *)
(* project (Readiness has the mismatches).                                 *)
(***************************************************************************)
EXTENDS Registry, Sequences

CONSTANTS
    Tasks,        \* task ids (work ids) that may be created
    Project,      \* the project of the tasks
    Commands,     \* the specification commands that clients send
    MaxVersions,  \* bound on the versions of a task
    MaxAttempts,  \* bound on the attempts of a task
    MaxReports    \* bound on the reports of all tasks

ASSUME ProjectAssumption == Project \in Projects

ASSUME BoundsAssumption == IsFiniteSet(Tasks) /\ MaxAttempts \in Nat

TaskStatus == {"none", "draft", "ready", "in_progress", "awaiting_review", "completed"}
AttemptStatus == {"running", "candidate", "blocked", "accepted"}
ActorResultStatus == {"candidate_ready", "blocked"}

\* What a version names; the rest of its payload meets its policies.
Version == [repository : RepositoryRow, actor : ConfigIds, reviewer : ConfigIds,
            dependencies : SUBSET Tasks]

ASSUME CommandsAssumption == Commands \subseteq Version

\* An attempt: the version and the actor configuration it is bound to.
Attempt == [version : Nat \ {0}, config : ConfigIds, status : AttemptStatus]

\* What a model gateway may come back with: a payload that meets the contract
\* of ActorResultPayload, one that does not, or an exception.
Outcome == {"candidate_ready", "blocked", "malformed", "failed"}

\* An ActorResult, and the outcome it was made of.
Report == [work : Tasks, epoch : Nat \ {0}, outcome : Outcome,
           status : ActorResultStatus]

VARIABLES
    status,    \* of each task, "none" before it exists
    versions,  \* of each task, its specifications 1, 2, ...; the last is current
    attempts,  \* of each task, its attempts by ownership epoch
    reports    \* what the adapter has returned for an attempt

work == <<status, versions, attempts, reports>>
vars == <<registry, work>>

IsTask(t) == status[t] # "none"
Current(t) == versions[t][Len(versions[t])]
Epochs(t) == 1 .. Len(attempts[t])
InputOf(t, e) == versions[t][attempts[t][e].version]

-----------------------------------------------------------------------------
(* Readiness and starts.                                                   *)

\* A dependency that has started counts.
FaultyDependencyDone(d) == status[d] \notin {"none", "draft", "ready"}

\* dependencies.completed
DependencyDone(d) == status[d] = "completed"

\* actor.configured, reviewer.configured
Eligible(c, role) == IsConfig(c) /\ role \in configurations[c].setting.roles

Satisfied(v) ==
    /\ v.repository.validated
    /\ Eligible(v.actor, "actor")
    /\ Eligible(v.reviewer, "reviewer")
    /\ \A d \in v.dependencies : DependencyDone(d)

IsReady(t) == versions[t] # <<>> /\ Satisfied(Current(t))

\* The status a readiness evaluation leaves.
AfterReadiness(t) == IF status[t] \in {"draft", "ready"}
                     THEN IF IsReady(t) THEN "ready" ELSE "draft"
                     ELSE status[t]

Running(t, e, c) == /\ e \in Epochs(t)
                    /\ attempts[t][e].config = c
                    /\ attempts[t][e].status = "running"

Active(c) == {x \in Tasks \X (1 .. MaxAttempts) : Running(x[1], x[2], c)}

\* One slot too many.
FaultyHasSlot(c) == Cardinality(Active(c)) <= configurations[c].setting.slots

HasSlot(c) == Cardinality(Active(c)) < configurations[c].setting.slots

CreateTask(t) ==
    /\ Project \in projects
    /\ ~IsTask(t)
    /\ status' = [status EXCEPT ![t] = "draft"]
    /\ UNCHANGED <<registry, versions, attempts, reports>>

\* A version that leaves a ready task ready.
FaultyAfterSpecification(s) == s

AfterSpecification(s) == IF s \in {"draft", "ready"} THEN "draft" ELSE s

\* The repository, both configurations and every dependency must exist; a
\* task cannot name itself, but cycles over other tasks are accepted.
CreateSpecification(t, v) ==
    /\ IsTask(t)
    /\ v.repository \in repositories /\ v.repository.project = Project
    /\ IsConfig(v.actor) /\ IsConfig(v.reviewer)
    /\ t \notin v.dependencies
    /\ \A d \in v.dependencies : IsTask(d)
    /\ Len(versions[t]) < MaxVersions
    /\ versions' = [versions EXCEPT ![t] = Append(@, v)]
    /\ status' = [status EXCEPT ![t] = AfterSpecification(@)]
    /\ UNCHANGED <<registry, attempts, reports>>

\* GET readiness, and a start that is refused after it: not ready, no slot, or
\* not a status to start from.
Evaluate(t) ==
    /\ IsTask(t)
    /\ status' = [status EXCEPT ![t] = AfterReadiness(t)]
    /\ UNCHANGED <<registry, versions, attempts, reports>>

\* An attempt on the newest configuration of the actor's agent.
FaultyConfigOf(v) == CHOOSE c \in ConfigsOf(configurations[v.actor].agent) :
                        \A n \in NumbersOf(configurations[v.actor].agent) :
                            n <= configurations[c].version

\* The configuration an attempt snapshots.
ConfigOf(v) == v.actor

\* domain start_attempt, after the evaluation
Startable(s) == s \in {"ready", "in_progress"}

Start(t) ==
    /\ IsTask(t)
    /\ IsReady(t)
    /\ HasSlot(ConfigOf(Current(t)))
    /\ Startable(AfterReadiness(t))
    /\ Len(attempts[t]) < MaxAttempts
    /\ attempts' = [attempts EXCEPT ![t] = Append(@,
            [version |-> Len(versions[t]), config |-> ConfigOf(Current(t)), status |-> "running"])]
    /\ status' = [status EXCEPT ![t] = "in_progress"]
    /\ UNCHANGED <<registry, versions, reports>>

-----------------------------------------------------------------------------
(* Reports and reviews.                                                    *)

\* A malformed answer taken for a candidate.
FaultyAdapterReturns(outcome) == CASE outcome = "blocked" -> "blocked"
                                   [] outcome = "failed" -> "raised"
                                   [] OTHER -> "candidate_ready"

\* execute returns the status of a payload that meets the contract and raises
\* AdapterFailure for everything else.
AdapterReturns(outcome) == IF outcome \in ActorResultStatus THEN outcome ELSE "raised"

\* The adapter runs for a running attempt, perhaps more than once.
Execute(t, e, outcome) ==
    /\ e \in Epochs(t)
    /\ attempts[t][e].status = "running"
    /\ Cardinality(reports) < MaxReports
    /\ AdapterReturns(outcome) # "raised"
    /\ reports' = reports \cup
        {[work |-> t, epoch |-> e, outcome |-> outcome, status |-> AdapterReturns(outcome)]}
    /\ UNCHANGED <<registry, status, versions, attempts>>

\* A report accepted whatever the task's status.
FaultyReportable(s) == TRUE

\* apply_actor_report raises for a task that is not in progress ...
Reportable(s) == s = "in_progress"

\* The two results swapped.
FaultyReportTransition(result) ==
    IF result = "candidate_ready" THEN [task |-> "candidate", attempt |-> "awaiting_review"]
                                  ELSE [task |-> "in_progress", attempt |-> "blocked"]

\* ... and gives the statuses of the task and of the attempt.
ReportTransition(result) ==
    IF result = "candidate_ready" THEN [task |-> "awaiting_review", attempt |-> "candidate"]
                                  ELSE [task |-> "in_progress", attempt |-> "blocked"]

\* A report is applied, the first time or again.
ApplyReport(r) ==
    /\ r \in reports
    /\ Reportable(status[r.work])
    /\ status' = [status EXCEPT ![r.work] = ReportTransition(r.status).task]
    /\ attempts' = [attempts EXCEPT ![r.work][r.epoch].status =
                        ReportTransition(r.status).attempt]
    /\ UNCHANGED <<registry, versions, reports>>

\* accept_candidate raises on anything but an approved candidate.
Acceptable(s, a) == s = "awaiting_review" /\ a = "candidate"

Accept(t, e) ==
    /\ e \in Epochs(t)
    /\ Acceptable(status[t], attempts[t][e].status)
    /\ status' = [status EXCEPT ![t] = "completed"]
    /\ attempts' = [attempts EXCEPT ![t][e].status = "accepted"]
    /\ UNCHANGED <<registry, versions, reports>>

-----------------------------------------------------------------------------

Init ==
    /\ RegistryInit
    /\ status = [t \in Tasks |-> "none"]
    /\ versions = [t \in Tasks |-> <<>>]
    /\ attempts = [t \in Tasks |-> <<>>]
    /\ reports = {}

WorkNext ==
    \/ \E t \in Tasks :
        \/ CreateTask(t)
        \/ \E v \in Commands : CreateSpecification(t, v)
        \/ Evaluate(t)
        \/ Start(t)
        \/ \E e \in Epochs(t) : Accept(t, e) \/ \E o \in Outcome : Execute(t, e, o)
    \/ \E r \in reports : ApplyReport(r)

Next == WorkNext \/ (RegistryNext /\ UNCHANGED work)

Spec == Init /\ [][Next]_vars

-----------------------------------------------------------------------------
(* Properties.                                                             *)

\* Tasks, versions, attempts and reports have their types.
TypeOK ==
    /\ RegistryTypeOK
    /\ status \in [Tasks -> TaskStatus]
    /\ versions \in [Tasks -> Seq(Version)]
    /\ attempts \in [Tasks -> Seq(Attempt)]
    /\ reports \subseteq Report

\* Attempts of a task by status.
EpochsIn(t, s) == {e \in Epochs(t) : attempts[t][e].status = s}

\* The status of a task is what its attempts say: one candidate exactly while
\* it awaits review, one accepted attempt exactly when it is completed, and
\* never a second of either, although the transitions look at one attempt
\* and reports of others keep arriving (apply_actor_report, accept_candidate).
StatusMatchesAttempts ==
    \A t \in Tasks :
        /\ status[t] \in {"none", "draft", "ready"} => attempts[t] = <<>>
        /\ status[t] = "awaiting_review" <=> EpochsIn(t, "candidate") # {}
        /\ status[t] = "completed" <=> EpochsIn(t, "accepted") # {}
        /\ \A s \in {"candidate", "accepted"} :
            \A e, f \in EpochsIn(t, s) : e = f

\* The gateway answered so for the attempt.
Answered(t, e, outcome) == \E r \in reports : /\ r.work = t /\ r.epoch = e
                                              /\ r.outcome = outcome

\* Fail-closed results: an attempt is a candidate, or accepted, only when the
\* model claimed so for it in a payload that met the contract, and blocked
\* only when the model said that; malformed output and exceptions move
\* nothing (PydanticAIActorAdapter.execute, apply_actor_report).
OutcomesAreClaimed ==
    \A t \in Tasks : \A e \in Epochs(t) :
        /\ attempts[t][e].status \in {"candidate", "accepted"}
            => Answered(t, e, "candidate_ready")
        /\ attempts[t][e].status = "blocked" => Answered(t, e, "blocked")

\* Every attempt stays justified: what its version demanded at the start, its
\* dependencies completed and its configurations eligible, is true for ever
\* (ADR 0005, DependenciesPolicy).
AttemptsStayJustified ==
    \A t \in Tasks : \A e \in Epochs(t) :
        /\ attempts[t][e].version \in 1 .. Len(versions[t])
        /\ Satisfied(InputOf(t, e))
        /\ attempts[t][e].config = InputOf(t, e).actor

\* A ready task is ready on its current version, and stays so until another
\* version is created: readiness earned on dependencies is never lost.
ReadyStaysEarned == \A t \in Tasks : status[t] = "ready" => IsReady(t)

\* The dependencies that the attempts of a task were started on.
Uses(t) == UNION {InputOf(t, e).dependencies : e \in Epochs(t)}

\* No circle of tasks has started, each on the completion of the next:
\* versions that close a circle of dependencies are accepted (only a
\* self-reference is refused), but each of its tasks waits for the others.
\* In every set of tasks one uses none of the set.
StartedDependenciesAcyclic ==
    \A S \in SUBSET Tasks : S # {} => \E t \in S : Uses(t) \cap S = {}

\* A review is final: a completed task keeps its status and its attempts,
\* whatever is reported, evaluated, versioned or started after it.
ReviewIsFinal ==
    [][\A t \in Tasks : status[t] = "completed"
            => status'[t] = "completed" /\ attempts'[t] = attempts[t]]_vars

\* No configuration has more running attempts than its max_concurrency while
\* reports free slots in any order.
SlotsRespected ==
    \A c \in ConfigIds : IsConfig(c) => Cardinality(Active(c)) <= configurations[c].setting.slots

=============================================================================

------------------------- MODULE ControlPlaneGuards -------------------------
(***************************************************************************)
(* The control plane as one of the writers that IdentityGuards is about:   *)
(* the tables of ControlPlane read as the database of revision 0002.       *)
(*                                                                         *)
(* One project with one repository and an agent for each configuration are *)
(* there from the start; the service inserts them in requests that are not *)
(* of ControlPlane (see Registry).  An attempt's snapshot is the copy of   *)
(* its configuration.                                                      *)
(***************************************************************************)
EXTENDS ControlPlane

CONSTANT ReviewerOf    \* the reviewer configuration a payload names

ASSUME ReviewerAssumption == ReviewerOf \in [Contents -> Configs]

Project == "project"
Repository == "repository"

GuardedIds == [projects |-> {Project}, agents |-> Configs, repositories |-> {Repository},
               agent_configurations |-> Configs, task_specifications |-> SpecIds,
               tasks |-> Tasks, attempts |-> AttemptIds]

GuardedRows ==
    [projects |-> [name : {Project}],
     agents |-> [name : Configs],
     repositories |-> [project : {Project}, name : {Repository}],
     agent_configurations |-> [agent : Configs, version : {1}],
     task_specifications |->
        [task : Tasks, version : Nat \ {0}, repository : {Repository}, actor : Configs,
         reviewer : Configs, hash : Contents],
     tasks |-> [project : {Project}, epoch : Nat, current : SpecIds \cup {NoSpec}],
     attempts |->
        [work : Tasks, spec : SpecIds, config : Configs, hash : Contents,
         epoch : Nat \ {0}, status : AttemptStatus, snapshot : Configs]]

ASSUME GuardedRowsAssumption ==
    \A T \in DOMAIN GuardedRows : NoRow \notin GuardedRows[T]

\* Identities of tasks and attempts are random UUIDs.
ASSUME IdentitiesAssumption == Tasks \cap AttemptIds = {}

ConfigurationRow(c) == [agent |-> c, version |-> 1]

SpecificationRow(s) ==
    [task |-> specs[s].work, version |-> specs[s].version, repository |-> Repository,
     actor |-> ActorOf[specs[s].content], reviewer |-> ReviewerOf[specs[s].content],
     hash |-> specs[s].content]

WorkRow(t) == [project |-> Project, epoch |-> tasks[t].epoch, current |-> tasks[t].current]

ExecutionRow(a) ==
    [work |-> attempts[a].work, spec |-> attempts[a].spec, config |-> attempts[a].config,
     hash |-> attempts[a].input, epoch |-> attempts[a].epoch, status |-> attempts[a].status,
     snapshot |-> attempts[a].config]

Database ==
    [projects |-> [p \in {Project} |-> [name |-> p]],
     agents |-> [c \in Configs |-> [name |-> c]],
     repositories |-> [r \in {Repository} |-> [project |-> Project, name |-> r]],
     agent_configurations |-> [c \in Configs |-> ConfigurationRow(c)],
     task_specifications |->
        [s \in SpecIds |-> IF IsSpec(s) THEN SpecificationRow(s) ELSE NoRow],
     tasks |-> [t \in Tasks |-> IF IsTask(t) THEN WorkRow(t) ELSE NoRow],
     attempts |-> [a \in AttemptIds |-> IF IsAttempt(a) THEN ExecutionRow(a) ELSE NoRow]]

Guards == INSTANCE IdentityGuards WITH
    Dialect <- "sqlite", Ids <- GuardedIds, RowsOf <- GuardedRows,
    db <- Database, revision <- "0002", migration <- "done"

\* No commit of the service, however its requests race, is one that a
\* constraint of either revision rejects, but for the two unique keys whose
\* conflicts it answers itself.
ServiceMeetsConstraints == Guards!Accepted(Database)

\* Neither is the first of a commit's two statements: the new row, while the
\* row of its task is still the old one (session.flush in
\* _create_task_specification and _start_attempt).
ServiceMeetsConstraintsHalfway ==
    [][Guards!Accepted([Database' EXCEPT !["tasks"] = Database["tasks"]])]_vars

\* And no statement of the service fires a trigger of revision 0002: it
\* updates and deletes nothing in the three guarded tables, and what an attempt
\* executed stays as the guards want it.
ServiceFiresNoTrigger ==
    /\ [][\A T \in Guards!IMMUTABLE_TABLES \cup {"attempts"} :
            \A k \in Guards!Keys(Database, T) : Database'[T][k] = Database[T][k]]_vars
    /\ Guards!ExecutionRecordStable

=============================================================================

------------------------------ MODULE Registry ------------------------------
(***************************************************************************)
(* The registry of the control plane (api/service.py): projects, their     *)
(* repositories, agents and the immutable versions of their                *)
(* configurations.  Nothing is ever removed, so a request that only looks  *)
(* for a parent and inserts is one step.  A configuration is numbered      *)
(* max(version) + 1 of an earlier SELECT, so its request is two.           *)
(* Projects and agents stand for their unique names.                       *)
(***************************************************************************)
EXTENDS Integers, FiniteSets

CONSTANTS
    Projects,   \* names of projects that may be created
    Names,      \* names of repositories within a project
    Agents,     \* names of agents that may be created
    ConfigIds,  \* identities of configuration rows: the bound on their number
    Settings,   \* what configuration commands ask for: roles and max_concurrency
    Calls,      \* slots for overlapping configuration requests: a bound
    NoRow       \* no such row; also: no request in a slot

Role == {"actor", "reviewer"}

\* AgentConfigurationCreate: at least one role, 1 <= max_concurrency <= 100.
Setting == [roles : SUBSET Role \ {{}}, slots : 1 .. 100]

ConfigRow == [agent : Agents, version : Nat \ {0}, setting : Setting]

RepositoryRow == [project : Projects, name : Names, validated : BOOLEAN]

Call == [agent : Agents, id : ConfigIds, setting : Setting, latest : Nat]

ASSUME SettingsAssumption == Settings \subseteq Setting

ASSUME NoConfigAssumption == NoRow \notin ConfigRow \cup Call

VARIABLES
    projects,        \* the projects table
    repositories,    \* the repositories table
    agents,          \* the agents table
    configurations,  \* the agent_configurations table
    calls            \* the configuration requests in flight

registry == <<projects, repositories, agents, configurations, calls>>

IsConfig(c) == configurations[c] # NoRow
ConfigsOf(g) == {c \in ConfigIds : IsConfig(c) /\ configurations[c].agent = g}
NumbersOf(g) == {configurations[c].version : c \in ConfigsOf(g)}
Calling(r) == calls[r] # NoRow

-----------------------------------------------------------------------------
(* POST /projects, /repositories, /agents: one insert; 409 when the name   *)
(* is taken, 404 when the project is missing.                              *)

CreateProject(p) ==
    /\ p \notin projects
    /\ projects' = projects \cup {p}
    /\ UNCHANGED <<repositories, agents, configurations, calls>>

CreateAgent(g) ==
    /\ g \notin agents
    /\ agents' = agents \cup {g}
    /\ UNCHANGED <<projects, repositories, configurations, calls>>

\* UNIQUE (project_id, name).
NameTaken(p, n) == \E row \in repositories : row.project = p /\ row.name = n

\* validated_at is set by the access_validated of the command, and never again.
CreateRepository(p, n, validated) ==
    /\ p \in projects
    /\ ~NameTaken(p, n)
    /\ repositories' = repositories \cup {[project |-> p, name |-> n, validated |-> validated]}
    /\ UNCHANGED <<projects, agents, configurations, calls>>

-----------------------------------------------------------------------------
(* POST /agents/{id}/configurations.                                       *)

\* No unique constraint on the versions.
FaultyNumberTaken(g, n) == FALSE

\* UNIQUE (agent_id, version).
NumberTaken(g, n) == n \in NumbersOf(g)

\* The agent is required and max(version) selected, 0 when it has none.
BeginConfiguration(r, g, c, s) ==
    /\ g \in agents
    /\ ~Calling(r)
    /\ ~IsConfig(c) /\ \A q \in Calls : Calling(q) => calls[q].id # c
    /\ \E n \in NumbersOf(g) \cup {0} :
        /\ \A m \in NumbersOf(g) : m <= n
        /\ calls' = [calls EXCEPT ![r] =
                        [agent |-> g, id |-> c, setting |-> s, latest |-> n]]
    /\ UNCHANGED <<projects, repositories, agents, configurations>>

CommitConfiguration(r) ==
    LET q == calls[r]
    IN  /\ Calling(r)
        /\ ~NumberTaken(q.agent, q.latest + 1)
        /\ configurations' = [configurations EXCEPT ![q.id] =
                [agent |-> q.agent, version |-> q.latest + 1, setting |-> q.setting]]
        /\ calls' = [calls EXCEPT ![r] = NoRow]
        /\ UNCHANGED <<projects, repositories, agents>>

\* 409 persistence.constraint_violation, a database error, or the API gone:
\* the transaction is rolled back.
AbandonConfiguration(r) ==
    /\ Calling(r)
    /\ calls' = [calls EXCEPT ![r] = NoRow]
    /\ UNCHANGED <<projects, repositories, agents, configurations>>

-----------------------------------------------------------------------------

RegistryInit ==
    /\ projects = {}
    /\ repositories = {}
    /\ agents = {}
    /\ configurations = [c \in ConfigIds |-> NoRow]
    /\ calls = [r \in Calls |-> NoRow]

RegistryNext ==
    \/ \E p \in Projects : CreateProject(p)
    \/ \E g \in Agents : CreateAgent(g)
    \/ \E p \in Projects, n \in Names, v \in BOOLEAN : CreateRepository(p, n, v)
    \/ \E r \in Calls, g \in Agents, c \in ConfigIds, s \in Settings :
            BeginConfiguration(r, g, c, s)
    \/ \E r \in Calls : CommitConfiguration(r) \/ AbandonConfiguration(r)

RegistrySpec == RegistryInit /\ [][RegistryNext]_registry

-----------------------------------------------------------------------------
(* Properties.                                                             *)

\* Every table holds rows of its type.
RegistryTypeOK ==
    /\ projects \subseteq Projects
    /\ repositories \subseteq RepositoryRow
    /\ agents \subseteq Agents
    /\ configurations \in [ConfigIds -> ConfigRow \cup {NoRow}]
    /\ calls \in [Calls -> Call \cup {NoRow}]

\* The configurations of an agent are numbered 1 .. n without a gap or a
\* repetition, although requests race between reading max(version) and
\* inserting (create_agent_configuration).
ConfigurationsNumbered ==
    \A g \in Agents :
        /\ \A c, d \in ConfigsOf(g) : configurations[c].version = configurations[d].version
                                        => c = d
        /\ \A c \in ConfigsOf(g) : 1 .. configurations[c].version \subseteq NumbersOf(g)

=============================================================================

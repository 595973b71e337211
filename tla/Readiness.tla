----------------------------- MODULE Readiness -----------------------------
(***************************************************************************)
(* The two judges of a specification: the schema that accepts a command    *)
(* (api/schemas.py) and the readiness policies that gate a start           *)
(* (domain/readiness.py), over the JSON that is stored between them.  The  *)
(* policies also see rows that no schema saw: the JSON columns accept any  *)
(* value from another writer of the database.                              *)
(*                                                                         *)
(* A JSON value is a record with its kind.  Of a text only its class       *)
(* counts: blank, with a null byte, with a line break, an absolute path, a *)
(* path with "..", and its length.  An operator ...Raises says when the    *)
(* Python code raises instead of answering.                                *)
(***************************************************************************)
EXTENDS Integers, FiniteSets, SequencesExt

CONSTANTS
    Texts,       \* texts, each standing for its class
    Blank,       \* texts of white space only, "" among them
    WithNul,     \* texts with a null byte
    WithBreak,   \* texts with \n or \r
    Absolute,    \* texts that begin with "/"
    Traversing,  \* texts with ".." as a path component
    Length,      \* number of characters of a text
    Characters,  \* texts of one character that occur in a text
    MaxItems,    \* longest list of a command: 100
    MaxPaths,    \* longest list of writable paths: 32
    Self,        \* the id of the task itself
    FloatLimit,  \* integers from here on do not convert to a float
    Values,      \* JSON values that occur, and the values they hold
    Commands,    \* specification commands that may be sent
    Rows,        \* specification rows another writer may have stored
    Worlds,      \* repository, configurations and tasks a specification refers to
    NoRow        \* the task has no current specification

ASSUME TextAssumption ==
    /\ "" \in Blank
    /\ Blank \subseteq Texts
    /\ Blank \cap (WithNul \cup Absolute) = {}
    /\ Self \in Texts
    /\ "/workspace" \in Absolute \ (Traversing \cup WithNul \cup WithBreak)
    /\ Length["/workspace"] <= 500

ASSUME SizeAssumption ==
    /\ Length \in [Texts -> Nat]
    /\ Characters \in [Texts -> SUBSET Texts]
    /\ MaxItems \in Nat /\ MaxPaths \in Nat \ {0}

ASSUME FloatAssumption == FloatLimit \in Nat /\ FloatLimit > 86400

Null == [kind |-> "null"]
Text(t) == [kind |-> "text", text |-> t]
Flag(b) == [kind |-> "boolean", flag |-> b]
Integer(n) == [kind |-> "integer", value |-> n]
Float(sign, finite) == [kind |-> "float", sign |-> sign, finite |-> finite]
List(items) == [kind |-> "list", items |-> items]
Object(fields) == [kind |-> "object", fields |-> fields]

\* A value of one of these kinds; what it holds is among Values.
IsJson(v) ==
    /\ "kind" \in DOMAIN v
    /\ \/ v = Null
       \/ v.kind = "text" /\ v = Text(v.text) /\ v.text \in Texts
       \/ v.kind = "boolean" /\ v = Flag(v.flag) /\ v.flag \in BOOLEAN
       \/ v.kind = "integer" /\ v = Integer(v.value) /\ v.value \in Int
       \/ v.kind = "float" /\ v = Float(v.sign, v.finite) /\ v.sign \in {-1, 0, 1}
       \/ v.kind = "list" /\ v = List(v.items) /\ v.items \in Seq(Values)
       \/ v.kind = "object" /\ v = Object(v.fields)
            /\ v.fields \in [DOMAIN v.fields -> Values]

ASSUME ValuesAssumption == \A v \in Values : IsJson(v)

\* Mapping.get: None for a missing key, and for a value that is no object.
Get(v, key) ==
    IF v.kind = "object" /\ key \in DOMAIN v.fields THEN v.fields[key] ELSE Null

IsText(v) == v.kind = "text"
IsList(v) == v.kind = "list"
Unhashable(v) == v.kind \in {"list", "object"}
Elements(v) == IF IsList(v) THEN Range(v.items) ELSE {}

\* Python's truth value.
Falsy(v) ==
    \/ v.kind = "null"
    \/ v.kind = "text" /\ v.text = ""
    \/ v.kind = "boolean" /\ ~v.flag
    \/ v.kind = "integer" /\ v.value = 0
    \/ v.kind = "float" /\ v.sign = 0
    \/ v.kind = "list" /\ v.items = <<>>
    \/ v.kind = "object" /\ DOMAIN v.fields = {}

\* len(items) == len(set(items))
Distinct(v) == IsInjective(v.items)

-----------------------------------------------------------------------------
(* The schema: which commands it accepts and what it makes of them.        *)

Required == {"repository_id", "base_revision", "goal", "acceptance_criteria",
             "verification_commands", "actor_configuration_id",
             "reviewer_configuration_id", "limits", "sandbox_policy", "authored_by"}
OptionalLists == {"constraints", "required_secret_refs", "dependency_ids"}
Fields == Required \cup OptionalLists

\* A variant with a plausible bug, as all definitions named Faulty... below: a
\* property is told from its absence by failing with one of them (mutants in
\* PROJECT.json).  Here: text that is only white space passes.
FaultySchemaText(v, max) ==
    IsText(v) /\ v.text # "" /\ v.text \notin WithNul /\ Length[v.text] <= max

SchemaText(v, max) ==
    IsText(v) /\ v.text \notin Blank \cup WithNul /\ Length[v.text] <= max

SchemaLine(v, max) == SchemaText(v, max) /\ v.text \notin WithBreak

\* An identifier may be white space, as long as it is not empty.
SchemaId(v) == IsText(v) /\ v.text # "" /\ Length[v.text] <= 36

SchemaItems(v) ==
    IsList(v) /\ Len(v.items) <= MaxItems /\ \A e \in Elements(v) : SchemaText(e, 4000)

SchemaInteger(v, max) == v.kind = "integer" /\ v.value >= 1 /\ v.value <= max

\* math.isfinite of the before-validator: OverflowError is no ValueError.
CostRaises(v) == v.kind = "integer" /\ (v.value >= FloatLimit \/ -v.value >= FloatLimit)

SchemaCost(v) ==
    \/ v.kind = "integer" /\ v.value >= 0
    \/ v.kind = "float" /\ v.finite /\ v.sign >= 0

LimitsFields == {"timeout_seconds", "max_tokens", "max_cost_usd"}

SchemaLimits(v) ==
    /\ v.kind = "object"
    /\ DOMAIN v.fields = LimitsFields
    /\ SchemaInteger(v.fields["timeout_seconds"], 86400)
    /\ v.fields["max_tokens"].kind = "integer" /\ v.fields["max_tokens"].value >= 1
    /\ SchemaCost(v.fields["max_cost_usd"])

SchemaPaths(v) ==
    /\ IsList(v) /\ v.items # <<>> /\ Len(v.items) <= MaxPaths /\ Distinct(v)
    /\ \A e \in Elements(v) :
        /\ IsText(e) /\ e.text \in Absolute \ (Traversing \cup WithNul \cup WithBreak)
        /\ Length[e.text] <= 500

SandboxDefaults == [network |-> Text("none"),
                    writable_paths |-> List(<<Text("/workspace")>>),
                    allow_external_mutation |-> Flag(FALSE)]

SchemaSandbox(v) ==
    /\ v.kind = "object"
    /\ DOMAIN v.fields \subseteq DOMAIN SandboxDefaults
    /\ "network" \in DOMAIN v.fields =>
        v.fields["network"] \in {Text("none"), Text("allowlist")}
    /\ "writable_paths" \in DOMAIN v.fields => SchemaPaths(v.fields["writable_paths"])
    /\ "allow_external_mutation" \in DOMAIN v.fields =>
        v.fields["allow_external_mutation"] = Flag(FALSE)

SchemaSecrets(v) ==
    /\ IsList(v) /\ Len(v.items) <= MaxItems /\ Distinct(v)
    /\ \A e \in Elements(v) : SchemaLine(e, 500)

SchemaDependencies(v) ==
    /\ IsList(v) /\ Len(v.items) <= MaxItems /\ Distinct(v)
    /\ \A e \in Elements(v) : SchemaId(e)

SchemaAccepts(c) ==
    /\ Required \subseteq DOMAIN c
    /\ DOMAIN c \subseteq Fields
    /\ SchemaId(c["repository_id"])
    /\ SchemaLine(c["base_revision"], 255)
    /\ SchemaText(c["goal"], 50000)
    /\ \A f \in {"acceptance_criteria", "verification_commands"} :
        SchemaItems(c[f]) /\ c[f].items # <<>>
    /\ SchemaId(c["actor_configuration_id"])
    /\ SchemaId(c["reviewer_configuration_id"])
    /\ SchemaLimits(c["limits"])
    /\ SchemaSandbox(c["sandbox_policy"])
    /\ SchemaLine(c["authored_by"], 200)
    /\ "constraints" \in DOMAIN c => SchemaItems(c["constraints"])
    /\ "required_secret_refs" \in DOMAIN c => SchemaSecrets(c["required_secret_refs"])
    /\ "dependency_ids" \in DOMAIN c => SchemaDependencies(c["dependency_ids"])

SchemaRaises(c) == "limits" \in DOMAIN c /\ CostRaises(Get(c["limits"], "max_cost_usd"))

\* model_dump: the defaults are filled in.
Stored(c) ==
    [f \in Fields |->
        IF f \notin DOMAIN c THEN List(<<>>)
        ELSE IF f = "sandbox_policy"
             THEN Object([k \in DOMAIN SandboxDefaults |->
                            IF k \in DOMAIN c[f].fields THEN c[f].fields[k]
                                                        ELSE SandboxDefaults[k]])
             ELSE c[f]]

\* Commands map fields to values, rows every field.
ASSUME RowsAssumption ==
    /\ \A c \in Commands : c \in [DOMAIN c -> Values]
    /\ Rows \subseteq [Fields -> Values]
    /\ \A k \in DOMAIN SandboxDefaults : SandboxDefaults[k] \in Values
    /\ NoRow \notin Rows \cup {Stored(c) : c \in {d \in Commands : SchemaAccepts(d)}}

-----------------------------------------------------------------------------
(* What a specification refers to.  A world has, by their ids, the         *)
(* repositories (of the task's project or not, the URL, whether access was *)
(* validated, the secret references offered), the roles of the agent       *)
(* configurations, and of the other tasks the project and the status.      *)

Named(v, table) == IsText(v) /\ v.text \in DOMAIN table

\* _create_task_specification: what is referred to must exist, repository and
\* dependencies in the task's project.
ReferencesAccepted(row, w) ==
    /\ Named(row["repository_id"], w.repositories)
    /\ w.repositories[row["repository_id"].text].own
    /\ Named(row["actor_configuration_id"], w.configurations)
    /\ Named(row["reviewer_configuration_id"], w.configurations)
    /\ \A e \in Elements(row["dependency_ids"]) :
        e.text # Self /\ Named(e, w.tasks) /\ w.tasks[e.text].own

\* A dependency that is not of the task's project counts like any other.
FaultyDependencyStatus(w, e) ==
    IF Named(e, w.tasks) THEN w.tasks[e.text].status ELSE "missing"

DependencyStatus(w, e) ==
    IF Named(e, w.tasks)
    THEN IF w.tasks[e.text].own THEN w.tasks[e.text].status ELSE "project_mismatch"
    ELSE "missing"

\* Task.id.in_() takes no scalar, and a list or an object is no dictionary key.
DependencyLookupRaises(ids) ==
    \/ ~Falsy(ids) /\ ids.kind \notin {"list", "object"}
    \/ \E e \in Elements(ids) : Unhashable(e)

\* role_eligibility of a configuration, None if there is none.
Roles(id, w) == IF Named(id, w.configurations) THEN w.configurations[id.text] ELSE Null

\* available_secret_refs of a repository, and the frozenset of them: of an
\* object the keys, of a text the characters.
Offered(id, w) ==
    IF Named(id, w.repositories) THEN w.repositories[id.text].secrets ELSE List(<<>>)

Available(refs) ==
    CASE refs.kind = "list" -> Elements(refs)
      [] refs.kind = "object" -> {Text(k) : k \in DOMAIN refs.fields}
      [] refs.kind = "text" -> {Text(t) : t \in Characters[refs.text]}
      [] OTHER -> {}

AvailableRaises(refs) ==
    \/ refs.kind \in {"null", "boolean", "integer", "float"}
    \/ \E e \in Elements(refs) : Unhashable(e)

-----------------------------------------------------------------------------
(* The policies.  Without a specification every value they read is None.   *)

Specified(row, field) == IF row = NoRow THEN Null ELSE row[field]

RequiredTextPolicy(v) == IsText(v) /\ v.text \notin Blank \cup WithNul

RequiredTextListPolicy(v) ==
    IsList(v) /\ v.items # <<>> /\ \A e \in Elements(v) : RequiredTextPolicy(e)

RepositoryPolicy(id, w) ==
    /\ Named(id, w.repositories)
    /\ w.repositories[id.text].url \notin Blank \cup WithNul \cup WithBreak
    /\ w.repositories[id.text].validated
    /\ w.repositories[id.text].own

\* ActorPolicy and ReviewerPolicy: set(roles) of a list.
EligiblePolicy(roles, role) == Text(role) \in Elements(roles)
EligibleRaises(roles) == \E e \in Elements(roles) : Unhashable(e)

LimitsPolicy(v) ==
    LET timeout == Get(v, "timeout_seconds")
        tokens == Get(v, "max_tokens")
        cost == Get(v, "max_cost_usd")
    IN  /\ timeout.kind = "integer" /\ timeout.value >= 1 /\ timeout.value <= 86400
        /\ tokens.kind = "integer" /\ tokens.value >= 1
        /\ \/ cost.kind = "integer" /\ cost.value >= 0
           \/ cost.kind = "float" /\ cost.finite /\ cost.sign >= 0

\* math.isfinite(max_cost), reached when the conjuncts before it hold.
LimitsRaises(v) ==
    /\ Get(v, "timeout_seconds").kind = "integer"
    /\ Get(v, "timeout_seconds").value >= 1
    /\ Get(v, "timeout_seconds").value <= 86400
    /\ Get(v, "max_tokens").kind = "integer"
    /\ Get(v, "max_tokens").value >= 1
    /\ CostRaises(Get(v, "max_cost_usd"))

ValidReferences(v) ==
    IsList(v) /\ Distinct(v) /\ \A e \in Elements(v) : IsText(e) /\ e.text \notin Blank

SecretsPolicy(v, refs) == ValidReferences(v) /\ Elements(v) \subseteq Available(refs)

\* Paths that begin with "/" wherever they lead.
FaultyWritablePath(e) ==
    IsText(e) /\ e.text \in Absolute \ (WithNul \cup WithBreak)

WritablePath(e) ==
    IsText(e) /\ e.text \in Absolute \ (Traversing \cup WithNul \cup WithBreak)

SandboxPolicy(v) ==
    LET paths == Get(v, "writable_paths")
    IN  /\ Get(v, "network") \in {Text("none"), Text("allowlist")}
        /\ IsList(paths) /\ paths.items # <<>> /\ Distinct(paths)
        /\ \A e \in Elements(paths) : WritablePath(e)
        /\ Get(v, "allow_external_mutation") = Flag(FALSE)

\* network in {...}
SandboxRaises(v) == Unhashable(Get(v, "network"))

DependenciesPolicy(v, w) ==
    ValidReferences(v) /\ \A e \in Elements(v) : DependencyStatus(w, e) = "completed"

Codes == {"repository.validated", "base_revision.present", "goal.present",
          "acceptance_criteria.present", "verification.present", "actor.configured",
          "reviewer.configured", "limits.present", "secrets.available",
          "sandbox_policy.present", "dependencies.completed"}

Satisfies(code, row, w) ==
    CASE code = "repository.validated" -> RepositoryPolicy(Specified(row, "repository_id"), w)
      [] code = "base_revision.present" -> RequiredTextPolicy(Specified(row, "base_revision"))
      [] code = "goal.present" -> RequiredTextPolicy(Specified(row, "goal"))
      [] code = "acceptance_criteria.present" ->
            RequiredTextListPolicy(Specified(row, "acceptance_criteria"))
      [] code = "verification.present" ->
            RequiredTextListPolicy(Specified(row, "verification_commands"))
      [] code = "actor.configured" ->
            EligiblePolicy(Roles(Specified(row, "actor_configuration_id"), w), "actor")
      [] code = "reviewer.configured" ->
            EligiblePolicy(Roles(Specified(row, "reviewer_configuration_id"), w), "reviewer")
      [] code = "limits.present" -> LimitsPolicy(Specified(row, "limits"))
      [] code = "secrets.available" ->
            SecretsPolicy(Specified(row, "required_secret_refs"),
                          Offered(Specified(row, "repository_id"), w))
      [] code = "sandbox_policy.present" -> SandboxPolicy(Specified(row, "sandbox_policy"))
      [] code = "dependencies.completed" ->
            DependenciesPolicy(Specified(row, "dependency_ids"), w)

\* A value of the specification itself that the evaluation trips over.
RowRaises(row) ==
    /\ row # NoRow
    /\ \/ DependencyLookupRaises(row["dependency_ids"])
       \/ LimitsRaises(row["limits"])
       \/ SandboxRaises(row["sandbox_policy"])

\* A value of what it refers to.
WorldRaises(row, w) ==
    /\ row # NoRow
    /\ \/ AvailableRaises(Offered(row["repository_id"], w))
       \/ EligibleRaises(Roles(row["actor_configuration_id"], w))
       \/ EligibleRaises(Roles(row["reviewer_configuration_id"], w))

-----------------------------------------------------------------------------
VARIABLES
    row,     \* the current specification
    source,  \* who stored it
    world,   \* what it refers to
    answer,  \* of the last request
    report   \* of the last evaluation

vars == <<row, source, world, answer, report>>

Unknown == [c \in Codes |-> "unknown"]

Init ==
    /\ row = NoRow
    /\ source = "none"
    /\ world \in Worlds
    /\ answer = "none"
    /\ report = Unknown

\* POST /tasks/{id}/specifications: 201, 422 of the schema, 404 or 422 of the
\* references, or 500 when a validator raises.
Submit(c) ==
    /\ source = "none"
    /\ \/ /\ SchemaRaises(c)
          /\ answer' = "error"
          /\ UNCHANGED <<row, source>>
       \/ /\ ~SchemaRaises(c)
          /\ ~SchemaAccepts(c)
          /\ answer' = "invalid"
          /\ UNCHANGED <<row, source>>
       \/ /\ ~SchemaRaises(c)
          /\ SchemaAccepts(c)
          /\ IF ReferencesAccepted(Stored(c), world)
             THEN row' = Stored(c) /\ source' = "service" /\ answer' = "created"
             ELSE UNCHANGED <<row, source>> /\ answer' = "refused"
    /\ UNCHANGED <<world, report>>

\* Another writer of the database stores the current specification.
StoreForeign(r) ==
    /\ source = "none"
    /\ row' = r
    /\ source' = "foreign"
    /\ UNCHANGED <<world, answer, report>>

\* A report of what fails only.
FaultyEvaluate ==
    /\ ~RowRaises(row) /\ ~WorldRaises(row, world)
    /\ answer' = "evaluated"
    /\ report' = [c \in {c \in Codes : ~Satisfies(c, row, world)} |-> "unsatisfied"]
    /\ UNCHANGED <<row, source, world>>

\* GET /tasks/{id}/readiness: all eleven results, or a 500.
Evaluate ==
    /\ IF RowRaises(row) \/ WorldRaises(row, world)
       THEN answer' = "error" /\ report' = Unknown
       ELSE /\ answer' = "evaluated"
            /\ report' = [c \in Codes |-> IF Satisfies(c, row, world) THEN "satisfied"
                                                                      ELSE "unsatisfied"]
    /\ UNCHANGED <<row, source, world>>

\* The status of another task changes.
TaskChanges(t) ==
    /\ world' = [world EXCEPT !.tasks[t].status = IF @ = "completed" THEN "cancelled"
                                                                    ELSE "completed"]
    /\ UNCHANGED <<row, source, answer, report>>

Next ==
    \/ \E c \in Commands : Submit(c)
    \/ \E r \in Rows : StoreForeign(r)
    \/ Evaluate
    \/ \E t \in DOMAIN world.tasks : TaskChanges(t)

Spec == Init /\ [][Next]_vars

-----------------------------------------------------------------------------
Ready == answer = "evaluated" /\ \A c \in Codes : report[c] = "satisfied"

\* A stored specification has every field, and a report every result.
TypeOK ==
    /\ row # NoRow => DOMAIN row = Fields /\ \A f \in Fields : "kind" \in DOMAIN row[f]
    /\ source \in {"none", "service", "foreign"}
    /\ answer \in {"none", "created", "invalid", "refused", "error", "evaluated"}
    /\ report \in [Codes -> {"satisfied", "unsatisfied"}] \cup {Unknown}

\* The policies that judge the shape of the specification itself.
ShapeCodes == {"base_revision.present", "goal.present", "acceptance_criteria.present",
               "verification.present", "limits.present", "sandbox_policy.present"}

\* The schema is at least as strict as the policies: a version the API
\* created satisfies every policy on its own shape and trips none of them.
\* Only what it refers to can keep its task from being ready.
CreatedVersionsHaveShape ==
    source = "service" =>
        /\ ~RowRaises(row)
        /\ answer = "evaluated" => \A c \in ShapeCodes : report[c] = "satisfied"

\* What the schema asks of a specification and no policy does: the fields that
\* no policy reads, the line breaks in the base revision, the control
\* characters in the secret references, the extra keys in the two objects, and
\* every maximum length.
AskedBySchemaOnly(r) ==
    /\ \A f \in {"repository_id", "actor_configuration_id", "reviewer_configuration_id"} :
        SchemaId(r[f])
    /\ SchemaLine(r["authored_by"], 200)
    /\ SchemaItems(r["constraints"])
    /\ r["base_revision"].text \notin WithBreak
    /\ \A e \in Elements(r["required_secret_refs"]) : e.text \notin WithNul \cup WithBreak
    /\ DOMAIN r["limits"].fields \subseteq LimitsFields
    /\ DOMAIN r["sandbox_policy"].fields \subseteq DOMAIN SandboxDefaults
    /\ Length[r["base_revision"].text] <= 255
    /\ Length[r["goal"].text] <= 50000
    /\ \A f \in {"acceptance_criteria", "verification_commands"} :
        Len(r[f].items) <= MaxItems /\ \A e \in Elements(r[f]) : Length[e.text] <= 4000
    /\ Len(r["required_secret_refs"].items) <= MaxItems
    /\ \A e \in Elements(r["required_secret_refs"]) : Length[e.text] <= 500
    /\ Len(r["dependency_ids"].items) <= MaxItems
    /\ \A e \in Elements(r["dependency_ids"]) : Length[e.text] <= 36
    /\ Len(Get(r["sandbox_policy"], "writable_paths").items) <= MaxPaths
    /\ \A e \in Elements(Get(r["sandbox_policy"], "writable_paths")) : Length[e.text] <= 500

\* The policies are as strict as the schema but for exactly that: a row that is
\* judged ready, whoever stored it, would be accepted as a command if and only
\* if it satisfies what only the schema asks for.
ReadyRowsWouldBeAccepted == Ready => (SchemaAccepts(row) <=> AskedBySchemaOnly(row))

\* Readiness rejects mismatched persisted references on its own: a ready
\* evaluation means that the repository the stored row names and every task the
\* stored list names exist and belong to the task's project, the former
\* validated and each of the latter completed at that moment.
ReadyReferencesMatch ==
    [][Evaluate /\ Ready' =>
        /\ \E id \in DOMAIN world.repositories :
            /\ row["repository_id"] = Text(id)
            /\ world.repositories[id].own /\ world.repositories[id].validated
        /\ IsList(row["dependency_ids"])
        /\ \A i \in DOMAIN row["dependency_ids"].items :
            \E t \in DOMAIN world.tasks :
                /\ row["dependency_ids"].items[i] = Text(t)
                /\ world.tasks[t].own /\ world.tasks[t].status = "completed"]_vars

\* Malformed persisted JSON evaluates false: no stored value makes the
\* evaluation raise (docs/adr/0005-deterministic-readiness.md).
MalformedEvaluatesFalse == [][Evaluate => answer' = "evaluated"]_vars

=============================================================================

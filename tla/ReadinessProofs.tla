-------------------------- MODULE ReadinessProofs --------------------------
(***************************************************************************)
(* Proofs about Readiness, for any texts, commands, rows and worlds.  The  *)
(* heart are two lemmas that compare the judges: what the schema accepts   *)
(* and stores has the shape the policies ask for and trips none of them,   *)
(* and a row with that shape lacks nothing but AskedBySchemaOnly to be     *)
(* accepted by the schema.  The invariant carries them from the request    *)
(* that stored a row to the last evaluation of it.                         *)
(***************************************************************************)
EXTENDS Readiness, TLAPS

IsSpecification(r) == DOMAIN r = Fields /\ \A f \in Fields : IsJson(r[f])

\* What the six policies on the shape of the specification ask for.
Shaped(r) ==
    /\ RequiredTextPolicy(r["base_revision"])
    /\ RequiredTextPolicy(r["goal"])
    /\ RequiredTextListPolicy(r["acceptance_criteria"])
    /\ RequiredTextListPolicy(r["verification_commands"])
    /\ LimitsPolicy(r["limits"])
    /\ SandboxPolicy(r["sandbox_policy"])

\* What the two policies on references ask of the lists themselves.
References(r) ==
    ValidReferences(r["required_secret_refs"]) /\ ValidReferences(r["dependency_ids"])

\* The types, and what is known of the row from who stored it and from the
\* last report.
ReadinessInv ==
    /\ row = NoRow \/ IsSpecification(row)
    /\ source \in {"none", "service", "foreign"}
    /\ answer \in {"none", "created", "invalid", "refused", "error", "evaluated"}
    /\ report \in [Codes -> {"satisfied", "unsatisfied"}] \cup {Unknown}
    /\ source = "none" => row = NoRow
    /\ source = "service" =>
        /\ row # NoRow /\ Shaped(row) /\ ~RowRaises(row)
        /\ answer = "evaluated" => \A c \in ShapeCodes : report[c] = "satisfied"
    /\ Ready => row # NoRow /\ Shaped(row) /\ References(row)

-----------------------------------------------------------------------------
(* Values and lists.                                                       *)

\* A value of JSON has the parts of its kind.
LEMMA JsonParts ==
    ASSUME NEW v, IsJson(v)
    PROVE  /\ v.kind = "text" => v = Text(v.text) /\ v.text \in Texts
           /\ v.kind = "integer" => v.value \in Int
           /\ v.kind = "list" => v.items \in Seq(Values)
           /\ v.kind = "object" => v.fields \in [DOMAIN v.fields -> Values]
BY DEF IsJson, Null, Text, Flag, Integer, Float, List, Object

\* The elements of a list are values again.
LEMMA ElementsAreJson ==
    ASSUME NEW v, IsJson(v), NEW e \in Elements(v)
    PROVE  IsJson(e)
<1>1. IsList(v) /\ e \in Range(v.items)
  BY DEF Elements
<1>2. v.items \in Seq(Values)
  BY <1>1, JsonParts DEF IsList
<1>3. PICK i \in DOMAIN v.items : e = v.items[i]
  BY <1>1 DEF Range
<1>4. e \in Values
  BY <1>2, <1>3
<1> QED
  BY <1>4, ValuesAssumption

\* So is what a key leads to.
LEMMA GetIsJson ==
    ASSUME NEW v, IsJson(v), NEW key
    PROVE  IsJson(Get(v, key))
<1>1. IsJson(Null)
  BY DEF IsJson, Null
<1>2. CASE v.kind = "object" /\ key \in DOMAIN v.fields
  <2>1. v.fields[key] \in Values
    BY <1>2, JsonParts
  <2> QED
    BY <1>2, <2>1, ValuesAssumption DEF Get
<1>3. CASE ~(v.kind = "object" /\ key \in DOMAIN v.fields)
  BY <1>1, <1>3 DEF Get
<1> QED
  BY <1>2, <1>3

-----------------------------------------------------------------------------
(* The schema is at least as strict as the policies.                       *)

\* What model_dump leaves of the fields of an accepted command.
LEMMA StoredCells ==
    ASSUME NEW c, SchemaAccepts(c)
    PROVE  /\ DOMAIN Stored(c) = Fields
           /\ \A f \in Required \ {"sandbox_policy"} : Stored(c)[f] = c[f]
           /\ \A f \in OptionalLists :
                Stored(c)[f] = IF f \in DOMAIN c THEN c[f] ELSE List(<<>>)
           /\ Stored(c)["sandbox_policy"] =
                Object([k \in DOMAIN SandboxDefaults |->
                            IF k \in DOMAIN c["sandbox_policy"].fields
                            THEN c["sandbox_policy"].fields[k]
                            ELSE SandboxDefaults[k]])
BY DEF Stored, SchemaAccepts, Fields, Required, OptionalLists

\* An accepted command that another writer could store is a specification.
LEMMA StoredTyped ==
    ASSUME NEW c \in Commands, SchemaAccepts(c)
    PROVE  IsSpecification(Stored(c))
<1>1. \A f \in DOMAIN c : IsJson(c[f])
  BY RowsAssumption, ValuesAssumption
<1>2. Required \subseteq DOMAIN c
  BY DEF SchemaAccepts
<1>3. \A f \in Required \ {"sandbox_policy"} : IsJson(Stored(c)[f])
  BY <1>1, <1>2, StoredCells
<1>4. IsJson(List(<<>>))
  BY DEF IsJson, List
<1>5. \A f \in OptionalLists : IsJson(Stored(c)[f])
  BY <1>1, <1>4, StoredCells
<1>6. c["sandbox_policy"].fields \in [DOMAIN c["sandbox_policy"].fields -> Values]
  BY <1>1, <1>2, JsonParts DEF SchemaAccepts, SchemaSandbox, Required
<1>7. [k \in DOMAIN SandboxDefaults |->
            IF k \in DOMAIN c["sandbox_policy"].fields
            THEN c["sandbox_policy"].fields[k]
            ELSE SandboxDefaults[k]] \in [DOMAIN SandboxDefaults -> Values]
  BY <1>6, RowsAssumption
<1>8. \A g \in [DOMAIN SandboxDefaults -> Values] : IsJson(Object(g))
  BY DEF IsJson, Object
<1>9. IsJson(Stored(c)["sandbox_policy"])
  BY <1>7, <1>8, StoredCells
<1> QED
  BY <1>3, <1>5, <1>9, StoredCells DEF IsSpecification, Fields

\* Limits the schema accepts pass the policy.
LEMMA LimitsAgree ==
    ASSUME NEW v, IsJson(v), SchemaLimits(v)
    PROVE  LimitsPolicy(v)
<1>1. \A k \in LimitsFields : Get(v, k) = v.fields[k] /\ IsJson(v.fields[k])
  BY GetIsJson DEF SchemaLimits, Get
<1>2. /\ Get(v, "timeout_seconds") = v.fields["timeout_seconds"]
      /\ Get(v, "max_tokens") = v.fields["max_tokens"]
      /\ Get(v, "max_cost_usd") = v.fields["max_cost_usd"]
      /\ IsJson(v.fields["timeout_seconds"])
  BY <1>1 DEF LimitsFields
<1>3. /\ SchemaInteger(v.fields["timeout_seconds"], 86400)
      /\ v.fields["max_tokens"].kind = "integer" /\ v.fields["max_tokens"].value >= 1
      /\ SchemaCost(v.fields["max_cost_usd"])
  BY DEF SchemaLimits
<1> QED
  BY <1>2, <1>3 DEF SchemaInteger, SchemaCost, LimitsPolicy

\* A sandbox the schema accepts passes the policy once the defaults are
\* filled in, and its network is a text.
LEMMA SandboxAgrees ==
    ASSUME NEW v, SchemaSandbox(v), NEW w,
           w = Object([k \in DOMAIN SandboxDefaults |->
                            IF k \in DOMAIN v.fields THEN v.fields[k] ELSE SandboxDefaults[k]])
    PROVE  SandboxPolicy(w) /\ ~SandboxRaises(w)
<1>1. DOMAIN SandboxDefaults = {"network", "writable_paths", "allow_external_mutation"}
  BY DEF SandboxDefaults
<1>2. \A k \in DOMAIN SandboxDefaults :
        Get(w, k) = IF k \in DOMAIN v.fields THEN v.fields[k] ELSE SandboxDefaults[k]
  BY DEF Get, Object
<1>3. Get(w, "network") \in {Text("none"), Text("allowlist")}
  BY <1>1, <1>2 DEF SchemaSandbox, SandboxDefaults
<1>4. Get(w, "allow_external_mutation") = Flag(FALSE)
  BY <1>1, <1>2 DEF SchemaSandbox, SandboxDefaults
<1>5. SchemaPaths(List(<<Text("/workspace")>>))
  <2>1. \A e \in Elements(List(<<Text("/workspace")>>)) : e = Text("/workspace")
    BY DEF Elements, List, IsList, Range
  <2>2. Distinct(List(<<Text("/workspace")>>))
    BY DEF Distinct, IsInjective, List
  <2>3. IsList(List(<<Text("/workspace")>>)) /\ List(<<Text("/workspace")>>).items # <<>>
    BY DEF List, IsList
  <2>6. Len(List(<<Text("/workspace")>>).items) <= MaxPaths
    BY SizeAssumption DEF List
  <2>4. Text("/workspace").kind = "text" /\ Text("/workspace").text = "/workspace"
    BY DEF Text
  <2>5. \A e \in Elements(List(<<Text("/workspace")>>)) :
          /\ IsText(e) /\ e.text \in Absolute \ (Traversing \cup WithNul \cup WithBreak)
          /\ Length[e.text] <= 500
    BY <2>1, <2>4, TextAssumption DEF IsText
  <2> QED
    BY <2>2, <2>3, <2>5, <2>6 DEF SchemaPaths
<1>6. SchemaPaths(Get(w, "writable_paths"))
  BY <1>1, <1>2, <1>5 DEF SchemaSandbox, SandboxDefaults
<1>7. SandboxPolicy(w)
  BY <1>3, <1>4, <1>6 DEF SandboxPolicy, SchemaPaths, WritablePath
<1>8. ~SandboxRaises(w)
  BY <1>3 DEF SandboxRaises, Unhashable, Text
<1> QED
  BY <1>7, <1>8

\* What the schema accepts without raising is stored with the shape the
\* policies ask for, and trips none of them.
LEMMA StoredShaped ==
    ASSUME NEW c \in Commands, SchemaAccepts(c), ~SchemaRaises(c)
    PROVE  Shaped(Stored(c)) /\ ~RowRaises(Stored(c))
<1>1. \A f \in Required : f \in DOMAIN c /\ IsJson(c[f])
  BY RowsAssumption, ValuesAssumption DEF SchemaAccepts
<1>2. /\ {"base_revision", "goal", "acceptance_criteria", "verification_commands", "limits"}
            \subseteq Required \ {"sandbox_policy"}
      /\ "dependency_ids" \in OptionalLists
  BY DEF Required, OptionalLists
<1>3. \A f \in {"base_revision", "goal", "acceptance_criteria", "verification_commands",
               "limits"} : Stored(c)[f] = c[f] /\ f \in DOMAIN c /\ IsJson(c[f])
  BY <1>1, <1>2, StoredCells
<1>4. /\ RequiredTextPolicy(Stored(c)["base_revision"])
      /\ RequiredTextPolicy(Stored(c)["goal"])
  <2>1. SchemaText(c["base_revision"], 255) /\ SchemaText(c["goal"], 50000)
    BY DEF SchemaAccepts, SchemaLine
  <2> QED
    BY <1>3, <2>1 DEF SchemaText, RequiredTextPolicy
<1>5. /\ RequiredTextListPolicy(Stored(c)["acceptance_criteria"])
      /\ RequiredTextListPolicy(Stored(c)["verification_commands"])
  <2>1. \A f \in {"acceptance_criteria", "verification_commands"} :
            SchemaItems(c[f]) /\ c[f].items # <<>>
    BY DEF SchemaAccepts
  <2>2. \A v : SchemaItems(v) /\ v.items # <<>> => RequiredTextListPolicy(v)
    BY DEF SchemaItems, SchemaText, RequiredTextListPolicy, RequiredTextPolicy
  <2> QED
    BY <1>3, <2>1, <2>2
<1>6. LimitsPolicy(Stored(c)["limits"])
  <2>1. SchemaLimits(c["limits"])
    BY DEF SchemaAccepts
  <2> QED
    BY <1>3, <2>1, LimitsAgree
<1>7. ~LimitsRaises(Stored(c)["limits"])
  <2>1. ~CostRaises(Get(c["limits"], "max_cost_usd"))
    BY <1>3 DEF SchemaRaises
  <2> QED
    BY <1>3, <2>1 DEF LimitsRaises
<1>8. SandboxPolicy(Stored(c)["sandbox_policy"]) /\ ~SandboxRaises(Stored(c)["sandbox_policy"])
  <2>1. SchemaSandbox(c["sandbox_policy"])
    BY DEF SchemaAccepts
  <2>2. Stored(c)["sandbox_policy"] =
            Object([k \in DOMAIN SandboxDefaults |->
                        IF k \in DOMAIN c["sandbox_policy"].fields
                        THEN c["sandbox_policy"].fields[k]
                        ELSE SandboxDefaults[k]])
    BY StoredCells
  <2> QED
    BY <2>1, <2>2, SandboxAgrees
<1>9. ~DependencyLookupRaises(Stored(c)["dependency_ids"])
  <2>1. SchemaDependencies(List(<<>>))
    BY SizeAssumption
       DEF SchemaDependencies, IsList, List, Distinct, IsInjective, Elements, Range
  <2>2. SchemaDependencies(Stored(c)["dependency_ids"])
    <3>1. "dependency_ids" \in DOMAIN c => SchemaDependencies(c["dependency_ids"])
      BY DEF SchemaAccepts
    <3> QED
      BY <1>2, <2>1, <3>1, StoredCells
  <2> QED
    BY <2>2 DEF SchemaDependencies, SchemaId, DependencyLookupRaises, IsList, IsText, Unhashable
<1> QED
  BY <1>4, <1>5, <1>6, <1>7, <1>8, <1>9 DEF Shaped, RowRaises

-----------------------------------------------------------------------------
(* The policies are as strict as the schema, but for AskedBySchemaOnly.     *)

\* Limits that pass the policy lack nothing but the absence of extra keys.
LEMMA LimitsDiffer ==
    ASSUME NEW v, IsJson(v), LimitsPolicy(v)
    PROVE  SchemaLimits(v) <=> DOMAIN v.fields \subseteq LimitsFields
<1>1. /\ SchemaInteger(Get(v, "timeout_seconds"), 86400)
      /\ Get(v, "max_tokens").kind = "integer"
      /\ Get(v, "max_tokens").value >= 1
      /\ SchemaCost(Get(v, "max_cost_usd"))
  BY DEF LimitsPolicy, SchemaInteger, SchemaCost
<1>2. \A key : Get(v, key).kind \in {"integer", "float"} =>
        v.kind = "object" /\ key \in DOMAIN v.fields
  BY DEF Get, Null
<1>3. Get(v, "max_cost_usd").kind \in {"integer", "float"}
  BY <1>1 DEF SchemaCost
<1>4. v.kind = "object" /\ LimitsFields \subseteq DOMAIN v.fields
  BY <1>1, <1>2, <1>3 DEF LimitsFields, SchemaInteger
<1>5. \A k \in LimitsFields : v.fields[k] = Get(v, k)
  BY <1>4 DEF Get
<1>6. /\ v.fields["timeout_seconds"] = Get(v, "timeout_seconds")
      /\ v.fields["max_tokens"] = Get(v, "max_tokens")
      /\ v.fields["max_cost_usd"] = Get(v, "max_cost_usd")
  BY <1>5 DEF LimitsFields
<1> QED
  BY <1>1, <1>4, <1>6 DEF SchemaLimits

\* A sandbox lacks that and the maximum lengths.
LEMMA SandboxDiffers ==
    ASSUME NEW v, SandboxPolicy(v)
    PROVE  SchemaSandbox(v) <=>
            /\ DOMAIN v.fields \subseteq DOMAIN SandboxDefaults
            /\ Len(Get(v, "writable_paths").items) <= MaxPaths
            /\ \A e \in Elements(Get(v, "writable_paths")) : Length[e.text] <= 500
<1>1. v.kind = "object"
  BY DEF SandboxPolicy, Get, Null, Flag
<1>2. "writable_paths" \in DOMAIN v.fields
  BY DEF SandboxPolicy, Get, Null, IsList
<1>3. \A k \in DOMAIN v.fields : v.fields[k] = Get(v, k)
  BY <1>1 DEF Get
<1>4. SchemaPaths(v.fields["writable_paths"]) <=>
        /\ Len(Get(v, "writable_paths").items) <= MaxPaths
        /\ \A e \in Elements(Get(v, "writable_paths")) : Length[e.text] <= 500
  BY <1>2, <1>3 DEF SandboxPolicy, SchemaPaths, WritablePath
<1> QED
  BY <1>1, <1>2, <1>3, <1>4 DEF SandboxPolicy, SchemaSandbox

\* A list of texts lacks the maximum lengths.
LEMMA ItemsDiffer ==
    ASSUME NEW v, RequiredTextListPolicy(v)
    PROVE  SchemaItems(v) /\ v.items # <<>> <=>
            Len(v.items) <= MaxItems /\ \A e \in Elements(v) : Length[e.text] <= 4000
BY DEF RequiredTextListPolicy, RequiredTextPolicy, SchemaItems, SchemaText

\* References lack them as well, the secret ones also the absence of control
\* characters.
LEMMA ReferencesDiffer ==
    ASSUME NEW v, ValidReferences(v)
    PROVE  /\ SchemaSecrets(v) <=>
                /\ Len(v.items) <= MaxItems
                /\ \A e \in Elements(v) : e.text \notin WithNul \cup WithBreak
                /\ \A e \in Elements(v) : Length[e.text] <= 500
           /\ SchemaDependencies(v) <=>
                Len(v.items) <= MaxItems /\ \A e \in Elements(v) : Length[e.text] <= 36
<1>1. SchemaSecrets(v) <=>
        /\ Len(v.items) <= MaxItems
        /\ \A e \in Elements(v) : e.text \notin WithNul \cup WithBreak
        /\ \A e \in Elements(v) : Length[e.text] <= 500
  <2>1. IsList(v) /\ Distinct(v) /\ \A e \in Elements(v) : IsText(e) /\ e.text \notin Blank
    BY DEF ValidReferences
  <2>2. \A e \in Elements(v) : SchemaLine(e, 500) <=>
            e.text \notin WithNul \cup WithBreak /\ Length[e.text] <= 500
    BY <2>1 DEF SchemaLine, SchemaText
  <2> QED
    BY <2>1, <2>2 DEF SchemaSecrets
<1>2. SchemaDependencies(v) <=>
        Len(v.items) <= MaxItems /\ \A e \in Elements(v) : Length[e.text] <= 36
  <2>1. IsList(v) /\ Distinct(v) /\ \A e \in Elements(v) : IsText(e) /\ e.text \notin Blank
    BY DEF ValidReferences
  <2>2. \A e \in Elements(v) : SchemaId(e) <=> Length[e.text] <= 36
    BY <2>1, TextAssumption DEF SchemaId
  <2> QED
    BY <2>1, <2>2 DEF SchemaDependencies
<1> QED
  BY <1>1, <1>2

\* A specification of the right shape lacks what only the schema asks for.
LEMMA ShapedAccepted ==
    ASSUME NEW r, IsSpecification(r), Shaped(r), References(r)
    PROVE  SchemaAccepts(r) <=> AskedBySchemaOnly(r)
<1>1. DOMAIN r = Fields /\ IsJson(r["limits"])
  BY DEF IsSpecification, Fields, Required
<1>2. Required \subseteq DOMAIN r /\ OptionalLists \subseteq DOMAIN r
  BY <1>1 DEF Fields
<1>3. SchemaLine(r["base_revision"], 255) <=>
        r["base_revision"].text \notin WithBreak /\ Length[r["base_revision"].text] <= 255
  BY DEF Shaped, RequiredTextPolicy, SchemaLine, SchemaText
<1>4. SchemaText(r["goal"], 50000) <=> Length[r["goal"].text] <= 50000
  BY DEF Shaped, RequiredTextPolicy, SchemaText
<1>5. \A f \in {"acceptance_criteria", "verification_commands"} :
        SchemaItems(r[f]) /\ r[f].items # <<>> <=>
            Len(r[f].items) <= MaxItems /\ \A e \in Elements(r[f]) : Length[e.text] <= 4000
  BY ItemsDiffer DEF Shaped
<1>6. SchemaLimits(r["limits"]) <=> DOMAIN r["limits"].fields \subseteq LimitsFields
  BY <1>1, LimitsDiffer DEF Shaped
<1>7. SchemaSandbox(r["sandbox_policy"]) <=>
        /\ DOMAIN r["sandbox_policy"].fields \subseteq DOMAIN SandboxDefaults
        /\ Len(Get(r["sandbox_policy"], "writable_paths").items) <= MaxPaths
        /\ \A e \in Elements(Get(r["sandbox_policy"], "writable_paths")) :
            Length[e.text] <= 500
  BY SandboxDiffers DEF Shaped
<1>8. SchemaSecrets(r["required_secret_refs"]) <=>
        /\ Len(r["required_secret_refs"].items) <= MaxItems
        /\ \A e \in Elements(r["required_secret_refs"]) : e.text \notin WithNul \cup WithBreak
        /\ \A e \in Elements(r["required_secret_refs"]) : Length[e.text] <= 500
  BY ReferencesDiffer DEF References
<1>9. SchemaDependencies(r["dependency_ids"]) <=>
        /\ Len(r["dependency_ids"].items) <= MaxItems
        /\ \A e \in Elements(r["dependency_ids"]) : Length[e.text] <= 36
  BY ReferencesDiffer DEF References
<1>10. /\ "constraints" \in DOMAIN r /\ "required_secret_refs" \in DOMAIN r
       /\ "dependency_ids" \in DOMAIN r
  BY <1>2 DEF OptionalLists
<1>11. SchemaAccepts(r) <=>
        /\ \A f \in {"repository_id", "actor_configuration_id",
                     "reviewer_configuration_id"} : SchemaId(r[f])
        /\ SchemaLine(r["authored_by"], 200) /\ SchemaItems(r["constraints"])
        /\ SchemaLine(r["base_revision"], 255) /\ SchemaText(r["goal"], 50000)
        /\ \A f \in {"acceptance_criteria", "verification_commands"} :
            SchemaItems(r[f]) /\ r[f].items # <<>>
        /\ SchemaLimits(r["limits"]) /\ SchemaSandbox(r["sandbox_policy"])
        /\ SchemaSecrets(r["required_secret_refs"])
        /\ SchemaDependencies(r["dependency_ids"])
  BY <1>1, <1>2, <1>10 DEF SchemaAccepts
<1> QED
  BY <1>3, <1>4, <1>5, <1>6, <1>7, <1>8, <1>9, <1>11 DEF AskedBySchemaOnly

-----------------------------------------------------------------------------
(* The invariant.                                                          *)

\* The report of an evaluation, code by code.
LEMMA ShapeReported ==
    ASSUME NEW r, r # NoRow, NEW w
    PROVE  Shaped(r) <=> \A c \in ShapeCodes : Satisfies(c, r, w)
<1>1. \A field : Specified(r, field) = r[field]
  BY DEF Specified
<1>2. /\ Satisfies("base_revision.present", r, w) <=> RequiredTextPolicy(r["base_revision"])
      /\ Satisfies("goal.present", r, w) <=> RequiredTextPolicy(r["goal"])
  BY <1>1 DEF Satisfies
<1>3. /\ Satisfies("acceptance_criteria.present", r, w)
            <=> RequiredTextListPolicy(r["acceptance_criteria"])
      /\ Satisfies("verification.present", r, w)
            <=> RequiredTextListPolicy(r["verification_commands"])
  BY <1>1 DEF Satisfies
<1>4. /\ Satisfies("limits.present", r, w) <=> LimitsPolicy(r["limits"])
      /\ Satisfies("sandbox_policy.present", r, w) <=> SandboxPolicy(r["sandbox_policy"])
  BY <1>1 DEF Satisfies
<1> QED
  BY <1>2, <1>3, <1>4 DEF Shaped, ShapeCodes

\* What a ready report says besides the shape.
LEMMA ReadyReported ==
    ASSUME NEW r, NEW w, \A c \in Codes : Satisfies(c, r, w)
    PROVE  /\ r # NoRow
           /\ RepositoryPolicy(r["repository_id"], w)
           /\ ValidReferences(r["required_secret_refs"])
           /\ DependenciesPolicy(r["dependency_ids"], w)
<1>1. r # NoRow /\ RepositoryPolicy(r["repository_id"], w)
  <2>1. Satisfies("repository.validated", r, w)
    BY DEF Codes
  <2>2. RepositoryPolicy(Specified(r, "repository_id"), w)
    BY <2>1 DEF Satisfies
  <2>3. r # NoRow
    BY <2>2 DEF RepositoryPolicy, Named, IsText, Specified, Null
  <2> QED
    BY <2>2, <2>3 DEF Specified
<1>2. ValidReferences(Specified(r, "required_secret_refs"))
  <2>1. Satisfies("secrets.available", r, w)
    BY DEF Codes
  <2> QED
    BY <2>1 DEF Satisfies, SecretsPolicy
<1>3. DependenciesPolicy(Specified(r, "dependency_ids"), w)
  <2>1. Satisfies("dependencies.completed", r, w)
    BY DEF Codes
  <2> QED
    BY <2>1 DEF Satisfies
<1> QED
  BY <1>1, <1>2, <1>3 DEF Specified

\* Nothing is ready before the first evaluation.
LEMMA ReadinessInitInv == Init => ReadinessInv
<1> SUFFICES ASSUME Init PROVE ReadinessInv
  OBVIOUS
<1>1. ~Ready
  BY DEF Init, Ready
<1> QED
  BY <1>1 DEF Init, ReadinessInv

\* A request that creates a version stores one of the right shape, and its
\* answer is no report.
LEMMA SubmitKeepsInv ==
    ASSUME ReadinessInv, NEW c \in Commands, Submit(c)
    PROVE  ReadinessInv'
<1>1. /\ answer' \in {"created", "invalid", "refused", "error"}
      /\ report' = report
  BY DEF Submit
<1>2. ~Ready'
  BY <1>1 DEF Ready
<1>3. CASE row' = row /\ source' = source
  BY <1>1, <1>2, <1>3 DEF ReadinessInv, Submit
<1>4. CASE /\ ~SchemaRaises(c) /\ SchemaAccepts(c)
           /\ row' = Stored(c) /\ source' = "service"
  <2>1. Stored(c) # NoRow
    BY <1>4, RowsAssumption
  <2>2. IsSpecification(Stored(c)) /\ Shaped(Stored(c)) /\ ~RowRaises(Stored(c))
    BY <1>4, StoredTyped, StoredShaped
  <2> QED
    BY <1>1, <1>2, <1>4, <2>1, <2>2 DEF ReadinessInv
<1> QED
  BY <1>3, <1>4 DEF Submit

\* Another writer's row leaves the last report behind, which judged no row
\* and was not ready.
LEMMA ForeignKeepsInv ==
    ASSUME ReadinessInv, NEW r \in Rows, StoreForeign(r)
    PROVE  ReadinessInv'
<1>1. row = NoRow /\ ~Ready
  BY DEF ReadinessInv, StoreForeign
<1>2. ~Ready'
  BY <1>1 DEF Ready, StoreForeign
<1>3. IsSpecification(r)
  BY RowsAssumption, ValuesAssumption DEF IsSpecification
<1> QED
  BY <1>2, <1>3 DEF ReadinessInv, StoreForeign

\* An evaluation reports what the policies say of the row.
LEMMA EvaluateKeepsInv ==
    ASSUME ReadinessInv, Evaluate
    PROVE  ReadinessInv'
<1>1. row' = row /\ source' = source
  BY DEF Evaluate
<1>2. CASE answer' = "error" /\ report' = Unknown
  <2>1. ~Ready'
    BY <1>2 DEF Ready
  <2> QED
    BY <1>1, <1>2, <2>1 DEF ReadinessInv
<1>3. CASE /\ answer' = "evaluated"
           /\ report' = [c \in Codes |-> IF Satisfies(c, row, world) THEN "satisfied"
                                                                   ELSE "unsatisfied"]
  <2>1. report' \in [Codes -> {"satisfied", "unsatisfied"}]
    BY <1>3
  <2>2. \A c \in Codes : report'[c] = "satisfied" <=> Satisfies(c, row, world)
    BY <1>3
  <2>3. ShapeCodes \subseteq Codes
    BY DEF ShapeCodes, Codes
  <2>4. source = "service" => \A c \in ShapeCodes : report'[c] = "satisfied"
    BY <2>2, <2>3, ShapeReported DEF ReadinessInv
  <2>5. Ready' => row # NoRow /\ Shaped(row) /\ References(row)
    <3> SUFFICES ASSUME Ready' PROVE row # NoRow /\ Shaped(row) /\ References(row)
      OBVIOUS
    <3>1. \A c \in Codes : Satisfies(c, row, world)
      BY <2>2 DEF Ready
    <3>2. row # NoRow
      BY <3>1, ReadyReported
    <3>3. Shaped(row)
      BY <2>3, <3>1, <3>2, ShapeReported
    <3>4. References(row)
      BY <3>1, ReadyReported DEF References, DependenciesPolicy
    <3> QED
      BY <3>2, <3>3, <3>4
  <2> QED
    BY <1>1, <1>3, <2>1, <2>4, <2>5 DEF ReadinessInv
<1> QED
  BY <1>2, <1>3 DEF Evaluate

\* Every step keeps the invariant.
LEMMA ReadinessStepInv == ReadinessInv /\ [Next]_vars => ReadinessInv'
<1> SUFFICES ASSUME ReadinessInv, [Next]_vars PROVE ReadinessInv'
  OBVIOUS
<1>1. CASE \E c \in Commands : Submit(c)
  BY <1>1, SubmitKeepsInv
<1>2. CASE \E r \in Rows : StoreForeign(r)
  BY <1>2, ForeignKeepsInv
<1>3. CASE Evaluate
  BY <1>3, EvaluateKeepsInv
<1>4. CASE UNCHANGED <<row, source, answer, report>>
  BY <1>4 DEF ReadinessInv, Ready
<1> QED
  BY <1>1, <1>2, <1>3, <1>4 DEF Next, TaskChanges, vars

-----------------------------------------------------------------------------
(* The theorems.                                                           *)

\* The types, and what every row is known to satisfy, hold in every reachable
\* state (create_task_specification and readiness over the same row).
THEOREM ReadinessCorrect == Spec => []ReadinessInv
  BY ReadinessInitInv, ReadinessStepInv, PTL DEF Spec

\* A stored specification has every field and a report every result, whoever
\* stored it.
THEOREM TypeCorrect == Spec => []TypeOK
<1>1. ReadinessInv => TypeOK
  BY DEF ReadinessInv, TypeOK, IsSpecification, IsJson
<1> QED
  BY <1>1, ReadinessCorrect, PTL

\* A version the API created satisfies every policy on its own shape and makes
\* none of them raise, whatever the command (api/schemas.py against
\* domain/readiness.py).
THEOREM CreatedVersionsHaveShapeHolds == Spec => []CreatedVersionsHaveShape
<1>1. ReadinessInv => CreatedVersionsHaveShape
  BY DEF ReadinessInv, CreatedVersionsHaveShape
<1> QED
  BY <1>1, ReadinessCorrect, PTL

\* A row that is judged ready, whatever JSON another writer stored in it, would
\* be accepted as a command if and only if it satisfies AskedBySchemaOnly: the
\* fields no policy reads, control characters, extra keys and maximum lengths
\* (api/schemas.py against domain/readiness.py).
THEOREM ReadyRowsWouldBeAcceptedHolds == Spec => []ReadyRowsWouldBeAccepted
<1>1. ReadinessInv => ReadyRowsWouldBeAccepted
  BY ShapedAccepted DEF ReadinessInv, ReadyRowsWouldBeAccepted
<1> QED
  BY <1>1, ReadinessCorrect, PTL

\* A task that a ready evaluation counted on is of the project and completed.
LEMMA DependencyMatches ==
    ASSUME NEW v, IsJson(v), NEW w, DependenciesPolicy(v, w), NEW i \in DOMAIN v.items
    PROVE  \E t \in DOMAIN w.tasks :
                v.items[i] = Text(t) /\ w.tasks[t].own /\ w.tasks[t].status = "completed"
<1>1. IsList(v) /\ v.items[i] \in Elements(v)
  BY DEF DependenciesPolicy, ValidReferences, Elements, Range
<1>2. DependencyStatus(w, v.items[i]) = "completed"
  BY <1>1 DEF DependenciesPolicy
<1>3. /\ IsText(v.items[i]) /\ v.items[i].text \in DOMAIN w.tasks
      /\ w.tasks[v.items[i].text].own
      /\ w.tasks[v.items[i].text].status = "completed"
  BY <1>2, Zenon DEF DependencyStatus, Named
<1>4. v.items[i] = Text(v.items[i].text)
  BY <1>1, <1>3, ElementsAreJson, JsonParts DEF IsText
<1> QED
  BY <1>3, <1>4

\* A ready evaluation of any row is about a repository of the project, access
\* validated, and dependencies of the project, each completed at that moment.
THEOREM ReadyReferencesMatchHolds == Spec => ReadyReferencesMatch
<1> DEFINE Matches ==
        Evaluate /\ Ready' =>
            /\ \E id \in DOMAIN world.repositories :
                /\ row["repository_id"] = Text(id)
                /\ world.repositories[id].own /\ world.repositories[id].validated
            /\ IsList(row["dependency_ids"])
            /\ \A i \in DOMAIN row["dependency_ids"].items :
                \E t \in DOMAIN world.tasks :
                    /\ row["dependency_ids"].items[i] = Text(t)
                    /\ world.tasks[t].own /\ world.tasks[t].status = "completed"
<1>1. ReadinessInv => Matches
  <2> SUFFICES ASSUME ReadinessInv, Evaluate, Ready'
               PROVE  /\ \E id \in DOMAIN world.repositories :
                          /\ row["repository_id"] = Text(id)
                          /\ world.repositories[id].own /\ world.repositories[id].validated
                      /\ IsList(row["dependency_ids"])
                      /\ \A i \in DOMAIN row["dependency_ids"].items :
                          \E t \in DOMAIN world.tasks :
                            /\ row["dependency_ids"].items[i] = Text(t)
                            /\ world.tasks[t].own /\ world.tasks[t].status = "completed"
    OBVIOUS
  <2>1. \A c \in Codes : Satisfies(c, row, world)
    BY DEF Evaluate, Ready, Unknown
  <2>2. /\ row # NoRow
        /\ RepositoryPolicy(row["repository_id"], world)
        /\ DependenciesPolicy(row["dependency_ids"], world)
    BY <2>1, ReadyReported
  <2>3. IsJson(row["dependency_ids"]) /\ IsJson(row["repository_id"])
    BY <2>2 DEF ReadinessInv, IsSpecification, Fields, Required, OptionalLists
  <2>4. IsList(row["dependency_ids"])
    BY <2>2 DEF DependenciesPolicy, ValidReferences
  <2>5. \E id \in DOMAIN world.repositories :
            /\ row["repository_id"] = Text(id)
            /\ world.repositories[id].own /\ world.repositories[id].validated
    <3>1. /\ IsText(row["repository_id"])
          /\ row["repository_id"].text \in DOMAIN world.repositories
          /\ world.repositories[row["repository_id"].text].own
          /\ world.repositories[row["repository_id"].text].validated
      BY <2>2, Zenon DEF RepositoryPolicy, Named
    <3>2. row["repository_id"] = Text(row["repository_id"].text)
      BY <2>3, <3>1, JsonParts DEF IsText
    <3> QED
      BY <3>1, <3>2
  <2> QED
    BY <2>2, <2>3, <2>4, <2>5, DependencyMatches
<1>2. ReadinessInv /\ [Next]_vars => [Matches]_vars
  BY <1>1
<1> QED
  BY <1>2, ReadinessCorrect, PTL DEF Spec, ReadyReferencesMatch

=============================================================================

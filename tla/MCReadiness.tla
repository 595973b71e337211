---------------------------- MODULE MCReadiness ----------------------------
(***************************************************************************)
(* Finite instances of Readiness for TLC.  Each policy reads one field, so *)
(* the commands and rows are those that differ from a good one in at most  *)
(* one field (two for the fields that refer to others), and the worlds     *)
(* those that differ from a good one in at most one part.                  *)
(***************************************************************************)
EXTENDS Readiness

MCTexts == {"", "  ", "plain", "two lines", "nul", "/workspace", "/tmp",
            "/workspace/../host", "/two lines", "none", "allowlist", "open", "actor",
            "reviewer", "task", "open task", "alien", "absent", "self", "k", "keys",
            "forty", "long", "endless", "/long"}
MCBlank == {"", "  "}
MCWithNul == {"nul"}
MCWithBreak == {"two lines", "/two lines"}
MCAbsolute == {"/workspace", "/tmp", "/workspace/../host", "/two lines", "/long"}
MCTraversing == {"/workspace/../host"}

\* Lengths on both sides of every maximum; the others are short.
MCLength ==
    [t \in MCTexts |-> CASE t = "" -> 0
                         [] t = "forty" -> 40
                         [] t \in {"long", "/long"} -> 501
                         [] t = "endless" -> 50001
                         [] OTHER -> 10]
MCCharacters == [t \in MCTexts |-> IF t \in {"k", "keys"} THEN {"k"} ELSE {}]

Few(S) == {<<>>} \cup {<<a>> : a \in S} \cup {<<a, b>> : a, b \in S}
Lists(S) == {List(s) : s \in Few(S)}

\* JSON of the wrong kind, true and false in the sense of Python.
Scalars == {Null, Text("plain"), Flag(TRUE), Integer(0), Integer(1)}
Nested == List(<<>>)
Wrong == Scalars \cup {Object([network |-> Text("none")])}

OneText == {Text(t) : t \in {"", "  ", "plain", "two lines", "nul", "forty", "long", "endless"}}
Ids == {Text(t) : t \in {"", "  ", "plain", "forty", "absent"}}
ThreeTexts == List(<<Text("plain"), Text("k"), Text("none")>>)
TextLists ==
    Lists({Text("plain"), Text("  "), Text("nul"), Integer(1)}) \cup Wrong
        \cup {ThreeTexts, List(<<Text("endless")>>)}

GoodLimits == [timeout_seconds |-> Integer(60), max_tokens |-> Integer(10),
               max_cost_usd |-> Float(1, TRUE)]

Ints == {Integer(n) : n \in {-1, 0, 1, 86400, 86401, FloatLimit}}
Numbers == Ints \cup {Null, Flag(TRUE), Text("plain")}
              \cup {Float(s, f) : s \in {-1, 0, 1}, f \in BOOLEAN}

\* A record without or with one more key.
Without(r, k) == [j \in DOMAIN r \ {k} |-> r[j]]
With(r, k, v) == [j \in DOMAIN r \cup {k} |-> IF j = k THEN v ELSE r[j]]

Deviations(r, k, values) == {With(r, k, v) : v \in values} \cup {Without(r, k)}

LimitsValues ==
    {Object(f) : f \in UNION {Deviations(GoodLimits, k, Numbers) : k \in LimitsFields}}
        \cup {Object(With(GoodLimits, "extra", Integer(1)))} \cup Wrong

Paths ==
    Lists({Text(t) : t \in MCAbsolute \cup {"plain", "nul"}} \cup {Nested})
        \cup {List(<<Text("/workspace"), Text("/tmp"), Text("/workspace")>>)}

SandboxValues ==
    {Object(f) : f \in
        Deviations(SandboxDefaults, "network",
                   {Text("none"), Text("allowlist"), Text("open"), Null, Nested})
        \cup Deviations(SandboxDefaults, "writable_paths", Paths \cup {Null, Text("/tmp")})
        \cup Deviations(SandboxDefaults, "allow_external_mutation",
                        {Flag(TRUE), Integer(0), Null})
        \cup Deviations(SandboxDefaults, "extra", {Null})}
    \cup Wrong

SecretLists ==
    Lists({Text("plain"), Text("two lines"), Text("  "), Text("k"), Text("long"), Nested})
        \cup Wrong \cup {ThreeTexts}
DependencyLists ==
    Lists({Text(t) : t \in {"task", "open task", "alien", "absent", "self", "  ", "forty"}}
            \cup {Integer(1), Nested})
    \cup Wrong \cup {List(<<Text("task"), Text("self"), Text("forty")>>)}

Good == [repository_id |-> Text("plain"), actor_configuration_id |-> Text("plain"),
         reviewer_configuration_id |-> Text("plain"), authored_by |-> Text("plain"),
         constraints |-> List(<<>>), base_revision |-> Text("plain"), goal |-> Text("plain"),
         acceptance_criteria |-> List(<<Text("plain")>>),
         verification_commands |-> List(<<Text("plain")>>),
         limits |-> Object(GoodLimits),
         sandbox_policy |-> Object(SandboxDefaults),
         required_secret_refs |-> List(<<Text("plain")>>),
         dependency_ids |-> List(<<Text("task")>>)]

\* A column of text always holds a text, a column of JSON anything.
FieldValues(f) ==
    CASE f \in {"base_revision", "goal", "authored_by"} -> OneText
      [] f \in {"repository_id", "actor_configuration_id", "reviewer_configuration_id"} -> Ids
      [] f \in {"acceptance_criteria", "verification_commands", "constraints"} -> TextLists
      [] f = "limits" -> LimitsValues
      [] f = "sandbox_policy" -> SandboxValues
      [] f = "required_secret_refs" -> SecretLists
      [] f = "dependency_ids" -> DependencyLists

MCRows == UNION {{[Good EXCEPT ![f] = v] : v \in FieldValues(f)} : f \in Fields}

MCCommands ==
    MCRows \cup {Without(Good, f) : f \in Fields}
        \cup {With(Good, "content_hash", Text("plain")),
              [f \in Required |-> Good[f]]}
        \cup {With(Good, f, v) : f \in {"base_revision", "goal", "authored_by",
                                        "repository_id"}, v \in Wrong}

\* With the values inside of the values, which go three deep.
Parts(S) == S \cup UNION {Elements(v) : v \in S}
              \cup UNION {Range(v.fields) : v \in {o \in S : o.kind = "object"}}

MCValues ==
    Parts(Parts(UNION {Range(c) : c \in MCCommands} \cup Range(SandboxDefaults)))

\* The ids of the good row lead to a repository and a configuration; others that
\* the rows name lead to some as well or to none.
GoodWorld ==
    [repositories |-> [id \in {"plain", "forty"} |->
        [own |-> TRUE, url |-> "plain", validated |-> TRUE,
         secrets |-> List(<<Text("plain"), Text("two lines"), Text("k"), Text("none"),
                            Text("long")>>)]],
     configurations |-> [id \in {"plain", "forty"} |->
        List(<<Text("actor"), Text("reviewer")>>)],
     tasks |-> [t \in {"task", "open task", "alien", "self", "forty"} |->
                    [own |-> t # "alien",
                     status |-> IF t = "open task" THEN "draft" ELSE "completed"]]]

RoleLists == {List(s) : s \in {<<>>, <<Text("actor")>>, <<Text("reviewer")>>,
                            <<Text("actor"), Text("reviewer")>>, <<Text("actor"), Nested>>}}
            \cup {Null, Text("actor")}

\* The worlds that differ from it know the one task that the good row names.
OneTaskWorld == [GoodWorld EXCEPT !.tasks = [t \in {"task"} |-> @[t]]]

MCWorlds ==
    {GoodWorld} \cup
    {[OneTaskWorld EXCEPT !.configurations["plain"] = r] : r \in RoleLists}
        \cup {[OneTaskWorld EXCEPT !.repositories["plain"].own = FALSE],
              [OneTaskWorld EXCEPT !.repositories["plain"].validated = FALSE]}
        \cup {[OneTaskWorld EXCEPT !.repositories["plain"].url = u] :
                u \in {"  ", "two lines", "nul"}}
        \cup {[OneTaskWorld EXCEPT !.repositories["plain"].secrets = s] :
                s \in {Null, Nested, List(<<Nested>>), List(<<Text("none")>>), Text("keys"),
                       Object([k |-> Null])}}

\* For the run about malformed rows: nothing is wrong but the sandbox policy.
MCSandboxRows == {[Good EXCEPT !["sandbox_policy"] = v] : v \in SandboxValues}
MCGoodWorlds == {GoodWorld}

=============================================================================

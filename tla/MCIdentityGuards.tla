-------------------------- MODULE MCIdentityGuards --------------------------
(***************************************************************************)
(* A finite instance of IdentityGuards for TLC.  Next to good rows, RowsOf *)
(* has for each constraint of revision 0002 a row that violates it.  One   *)
(* attempt key is also a task's id.  The two agents have the same name, so *)
(* that one replaces the other.                                            *)
(***************************************************************************)
EXTENDS IdentityGuards

MCIds == [projects |-> {"p1"},
          agents |-> {"g1", "g2"},
          repositories |-> {"r1"},
          agent_configurations |-> {"c1", "c2"},
          task_specifications |-> {"s1", "s2"},
          tasks |-> {"t1", "t2"},
          attempts |-> {"a1", "t2"}]

Configuration(version, policy) == [agent |-> "g1", version |-> version, policy |-> policy]
Specification(task, version, actor) ==
    [task |-> task, version |-> version, repository |-> "r1", actor |-> actor,
     reviewer |-> IF version = 2 THEN "c2" ELSE "c1", hash |-> "h1"]
Task(epoch, current) == [project |-> "p1", epoch |-> epoch, current |-> current]
Attempt(work, spec, config, hash, epoch, status) ==
    [work |-> work, spec |-> spec, config |-> config, hash |-> hash, epoch |-> epoch,
     snapshot |-> "copy", status |-> status]

MCRowsOf ==
    [projects |-> {[name |-> "project"]},
     agents |-> {[name |-> "agent"]},
     repositories |-> {[project |-> "p1", name |-> "repository"]},
     agent_configurations |->
        {Configuration(1, "p"), Configuration(2, "q"), Configuration(0, "p")},
     task_specifications |->
        {Specification("t1", 1, "c1"), Specification("t1", 2, "c1"),
         Specification("t2", 0, "c1")},
     tasks |-> {Task(1, NoSpec), Task(1, "s1"), Task(-1, NoSpec)},
     attempts |->
        {Attempt("t1", "s1", "c1", "h1", 1, "running"),
         Attempt("t1", "s1", "c1", "h1", 1, "failed"),
         Attempt("t1", "s1", "c2", "h1", 1, "running"),
         Attempt("t1", "s1", "c1", "h2", 1, "running"),
         Attempt("t2", "s1", "c1", "h1", 1, "running"),
         Attempt("t1", "s1", "c1", "h1", 0, "running")}]

=============================================================================

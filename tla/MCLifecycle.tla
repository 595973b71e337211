---------------------------- MODULE MCLifecycle ----------------------------
(***************************************************************************)
(* A finite instance of Lifecycle for TLC.  Configurations are eligible    *)
(* for both roles, or as reviewers only; a command names one configuration *)
(* for both, as the board does, and at most one dependency.                *)
(***************************************************************************)
EXTENDS Lifecycle, TLC

MCSettings == {[roles |-> Role, slots |-> 1], [roles |-> {"reviewer"}, slots |-> 2]}

MCCommands == {v \in Version : v.actor = v.reviewer /\ Cardinality(v.dependencies) <= 1}

Symmetry == Permutations(Tasks) \cup Permutations(ConfigIds) \cup Permutations(Calls)

=============================================================================

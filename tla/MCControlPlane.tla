--------------------------- MODULE MCControlPlane ---------------------------
(***************************************************************************)
(* Finite instances of ControlPlane for TLC.  Of the payloads, "good" and  *)
(* "other" meet every policy and name different actor configurations,      *)
(* "bad" fails a policy, and "dangling" names a row that does not exist.   *)
(***************************************************************************)
EXTENDS ControlPlane, TLC

MCContents == {"good", "other", "bad", "dangling"}
MCResolvable == MCContents \ {"dangling"}
MCSatisfied == MCContents \ {"bad"}
MCConfigs == {"cfg1", "cfg2"}
MCActorOf == [c \in MCContents |-> IF c = "other" THEN "cfg2" ELSE "cfg1"]
MCMaxConcurrency == [c \in MCConfigs |-> 1]

Symmetry ==
    Permutations(Tasks) \cup Permutations(SpecIds)
        \cup Permutations(AttemptIds) \cup Permutations(Requests)

=============================================================================

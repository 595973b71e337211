------------------------------ MODULE MCBoard ------------------------------
(***************************************************************************)
(* A finite instance of Board for TLC: a payload that meets every policy   *)
(* and one that does not.                                                  *)
(***************************************************************************)
EXTENDS Board

MCContents == {"good", "bad"}
MCSatisfied == {"good"}

=============================================================================

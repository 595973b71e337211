------------------------ MODULE MCControlPlaneLedger ------------------------
(***************************************************************************)
(* The instances of MCControlPlane, for the refinement of TaskLedger and   *)
(* with the identities and rows as IdentityGuards has them.                *)
(***************************************************************************)
EXTENDS ControlPlaneLedger, ControlPlaneGuards, MCControlPlane

MCReviewerOf == [c \in MCContents |-> "cfg2"]

=============================================================================

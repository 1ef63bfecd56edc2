--------------------------- MODULE MCCapabilityJob ---------------------------
(***************************************************************************)
(* Instances of CapabilityJob for TLC.                                     *)
(***************************************************************************)
EXTENDS CapabilityJob, TLC

=============================================================================

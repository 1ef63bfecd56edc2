--------------------------- MODULE MCConfirmation ----------------------------
(***************************************************************************)
(* Instances of Confirmation for TLC.                                      *)
(***************************************************************************)
EXTENDS Confirmation, TLC

==============================================================================

---------------------------- MODULE MCCallSession ----------------------------
(***************************************************************************)
(* Instances of CallSession for TLC.  The ids are model values of the      *)
(* configuration, which declares no symmetry: it checks a liveness         *)
(* property.                                                               *)
(***************************************************************************)
EXTENDS CallSession
=============================================================================

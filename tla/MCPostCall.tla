----------------------------- MODULE MCPostCall ------------------------------
(***************************************************************************)
(* Instances of PostCall for TLC.                                          *)
(***************************************************************************)
EXTENDS PostCall, TLC

OneOrder == << "a1" >>

\* One action that needs the summary and the recording.
OneAction == "a1" :> {"summary", "recording"}

=============================================================================

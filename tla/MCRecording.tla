----------------------------- MODULE MCRecording -----------------------------
(***************************************************************************)
(* Recording for TLC.  One call and its one recording are the whole state; *)
(* the configurations differ in what may go wrong.                         *)
(***************************************************************************)
EXTENDS Recording
=============================================================================

--------------------------- MODULE MCConfiguration ---------------------------
(***************************************************************************)
(* Instances of Configuration for TLC.                                     *)
(***************************************************************************)
EXTENDS Configuration, TLC

MCDefinitions == {{"book"}, {"cancel"}}
MCAvailabilities == {{}, {"book"}}
==============================================================================

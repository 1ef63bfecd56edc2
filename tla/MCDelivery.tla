------------------------------ MODULE MCDelivery ------------------------------
(***************************************************************************)
(* Delivery for TLC.  The processes are model values of the configuration, *)
(* which declares no symmetry: it checks a liveness property.              *)
(***************************************************************************)
EXTENDS Delivery

=============================================================================

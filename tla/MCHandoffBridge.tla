--------------------------- MODULE MCHandoffBridge ---------------------------
(***************************************************************************)
(* HandoffBridge on a call with two transfers and one fault.               *)
(***************************************************************************)
EXTENDS HandoffBridge

=============================================================================

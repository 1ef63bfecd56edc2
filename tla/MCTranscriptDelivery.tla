------------------------ MODULE MCTranscriptDelivery ------------------------
(***************************************************************************)
(* TranscriptDelivery with a queue of two, so that it overflows.          *)
(***************************************************************************)
EXTENDS TranscriptDelivery

=============================================================================

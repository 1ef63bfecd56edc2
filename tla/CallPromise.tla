----------------------------- MODULE CallPromise -----------------------------
(***************************************************************************)
(* What a call promises to everything downstream of it (post-call work,    *)
(* recording, the admin API): it is open for a while, its transcript only  *)
(* grows until it is sealed and never changes afterwards, and it is        *)
(* finished once, with one outcome, which is announced in the same step    *)
(* and finds the transcript sealed.  CallSession implements this module.   *)
(***************************************************************************)
EXTENDS Sequences

CONSTANTS Messages

VARIABLES
  phase,       \* "waiting", "live" or "over"
  transcript,  \* the persisted messages
  sealed,      \* the transcript is final
  announced    \* the outcomes downstream has been told

vars == << phase, transcript, sealed, announced >>

Outcomes == {"ended", "failed"}

Init ==
  /\ phase = "waiting"
  /\ transcript = << >>
  /\ sealed = FALSE
  /\ announced = {}

Open ==
  /\ phase = "waiting"
  /\ phase' = "live"
  /\ UNCHANGED << transcript, sealed, announced >>

Record(m) ==
  /\ phase = "live"
  /\ ~sealed
  /\ transcript' = Append(transcript, m)
  /\ UNCHANGED << phase, sealed, announced >>

\* The agent leaves a call that goes on between two humans.
Seal ==
  /\ phase = "live"
  /\ ~sealed
  /\ sealed' = TRUE
  /\ UNCHANGED << phase, transcript, announced >>

Finish(outcome) ==
  /\ phase = "live"
  /\ phase' = "over"
  /\ sealed' = TRUE
  /\ announced' = {outcome}
  /\ UNCHANGED transcript

Next ==
  \/ Open
  \/ \E m \in Messages : Record(m)
  \/ Seal
  \/ \E outcome \in Outcomes : Finish(outcome)

Spec == Init /\ [][Next]_vars

=============================================================================

----------------------------- MODULE AtLeastOnce -----------------------------
(***************************************************************************)
(* What the backend relies on when it publishes a message in the           *)
(* transaction that changed the data: the message reaches the handler of   *)
(* its consumer group at least once, or an operator finds it in the        *)
(* dead-letter stream.  Order is not promised, nor that it is handled once,*)
(* nor that a parked message was never handled.  Delivery implements this. *)
(***************************************************************************)
CONSTANT Messages

VARIABLES
  sent,       \* messages whose transaction has committed
  delivered,  \* messages the handler has committed the effect of
  parked      \* messages in the dead-letter stream

vars == << sent, delivered, parked >>

Init == sent = {} /\ delivered = {} /\ parked = {}

Send(m) ==
  /\ m \notin sent
  /\ sent' = sent \union {m}
  /\ UNCHANGED << delivered, parked >>

Deliver(m) ==
  /\ m \in sent
  /\ delivered' = delivered \union {m}
  /\ UNCHANGED << sent, parked >>

Park(m) ==
  /\ m \in sent
  /\ parked' = parked \union {m}
  /\ UNCHANGED << sent, delivered >>

Next == \E m \in Messages : Send(m) \/ Deliver(m) \/ Park(m)

Spec == Init /\ [][Next]_vars

\* A message is never left between the two ends for ever.
Arrives(m) == m \notin delivered \union parked /\ (Deliver(m) \/ Park(m))

FairSpec == Spec /\ \A m \in Messages : WF_vars(Arrives(m))

=============================================================================

----------------------------- MODULE CallProofs ------------------------------
(***************************************************************************)
(* The safety properties of CallSession, for every set of requests,        *)
(* attempts, messages and reasons; and those of CallAdmission, for every   *)
(* set of requests, tenants, SIP calls and keys, and any number of moves   *)
(* and faults.                                                             *)
(***************************************************************************)
EXTENDS CallSession, CallAdmission, TLAPS

(***************************************************************************)
(* The inductive invariant.  FinishedIsSealed and                          *)
(* ReconcilerMeetsNoConflict do not carry over a step on their own: they   *)
(* need to know that only a relinquished call is sealed before it is over, *)
(* that a handoff exists only from CONNECTED on, and that nothing moves    *)
(* while a transfer holds the row lock.                                    *)
(***************************************************************************)

\* Before the row exists there is nothing.
NothingBeforeTheRow ==
  status = "absent" =>
    conversation = "open" /\ events = << >> /\ messages = << >>

\* A request, an attempt and a state come together.
HandoffIsWhole ==
  /\ handoff.state = "none" <=> handoff.request = None
  /\ handoff.state = "none" <=> handoff.attempt = None

\* Only a call that got as far as CONNECTED has a handoff.
HandoffNeedsConnection ==
  handoff.state # "none" => status \in {"connected", "ended", "failed"}

\* A conversation sealed before the end was sealed by a relinquishing agent.
SealedEarlyIsHandedOver ==
  conversation # "open" /\ status \notin Finished =>
    status = "connected" /\ handoff.state = "completed"

\* The transaction that dials keeps the row as its guards found it.
DialingKeepsRow ==
  /\ txn.phase = "none" <=> txn = NoTxn
  /\ txn.phase # "none" =>
       /\ txn.request \in Requests
       /\ txn.attempt \in Attempts
       /\ status = "connected"
       /\ handoff.state \notin ActiveHandoff \union {"completed"}

RowInv ==
  /\ NothingBeforeTheRow
  /\ HandoffIsWhole
  /\ HandoffNeedsConnection
  /\ SealedEarlyIsHandedOver
  /\ DialingKeepsRow
  /\ FinishedIsSealed

\* A dialled attempt has an id no earlier attempt had.
FreshAttempt ==
  /\ handoff.attempt \in used \union {None}
  /\ txn.phase # "none" => txn.attempt \in used /\ txn.attempt # handoff.attempt

Inv ==
  /\ TypeOK
  /\ RowInv
  /\ EventsAreTrue
  /\ FreshAttempt
  /\ OneHandoffPeer
  /\ ReconcilerMeetsNoConflict

-----------------------------------------------------------------------------
\* The event log after one more event: what was published stays published, and
\* the new event is last.
LEMMA AppendedEvent ==
  ASSUME TypeOK, NEW e \in CallEvents, events' = Append(events, e)
  PROVE  /\ events' \in Seq(CallEvents)
         /\ Len(events') = Len(events) + 1
         /\ events'[Len(events) + 1] = e
         /\ \A i \in DOMAIN events : i \in DOMAIN events' /\ events'[i] = events[i]
         /\ \A i \in DOMAIN events' : i \in DOMAIN events \/ i = Len(events) + 1
         /\ Len(events) + 1 \in DOMAIN events'
         /\ Len(events) + 1 \notin DOMAIN events
BY SMT DEF TypeOK

LEMMA PublishedAfter ==
  ASSUME TypeOK, NEW e \in CallEvents, events' = Append(events, e)
  PROVE  \A f : Published(f)' <=> Published(f) \/ f = e
BY AppendedEvent DEF Published

\* The initial state satisfies the invariant.
LEMMA InitInv == Init => Inv
<1> SUFFICES ASSUME Init PROVE Inv
  OBVIOUS
<1> USE NoneAssumption DEF Init
<1>1. TypeOK
  <2>1. room \in BOOLEAN
    BY Zenon
  <2>2. messages \in Seq(Messages) /\ events \in Seq(CallEvents)
    BY SMT
  <2>3. handoff \in [ request : Requests \union {None},
                      attempt : Attempts \union {None},
                      state   : HandoffStates ]
    BY SMT DEF HandoffStates, NoHandoff
  <2>4. txn \in [ phase   : {"none", "dialing", "placed"},
                  request : Requests \union {None},
                  attempt : Attempts \union {None} ]
    BY SMT DEF NoTxn
  <2> QED
    BY <2>1, <2>2, <2>3, <2>4 DEF TypeOK, Statuses, ConversationStatuses
<1>2. NothingBeforeTheRow
  BY DEF NothingBeforeTheRow
<1>3. HandoffIsWhole /\ HandoffNeedsConnection /\ SealedEarlyIsHandedOver
  BY DEF HandoffIsWhole, HandoffNeedsConnection, SealedEarlyIsHandedOver, NoHandoff
<1>4. DialingKeepsRow
  BY DEF DialingKeepsRow, NoTxn
<1>5. FinishedIsSealed /\ AnnouncedOnce /\ RelinquishedMeansHandedOver
  BY DEF FinishedIsSealed, AnnouncedOnce, RelinquishedMeansHandedOver, Finished, Published
<1>6. FreshAttempt /\ OneHandoffPeer /\ ReconcilerMeetsNoConflict
  BY DEF FreshAttempt, OneHandoffPeer, ReconcilerMeetsNoConflict, NoHandoff, NoTxn
<1> QED
  BY <1>1, <1>2, <1>3, <1>4, <1>5, <1>6 DEF Inv, RowInv, EventsAreTrue

-----------------------------------------------------------------------------
\* Every step keeps the variables in their types.
LEMMA TypeNext == TypeOK /\ DialingKeepsRow /\ [Next]_vars => TypeOK'
<1> SUFFICES ASSUME TypeOK, DialingKeepsRow, [Next]_vars PROVE TypeOK'
  OBVIOUS
<1> USE DEF TypeOK, Statuses, ConversationStatuses, ClosedStatuses, HandoffStates,
        CallEvents, Publish, RestUnchanged, ReconcilerAt
<1>1. CASE Lifecycle
  <2>1. CASE Create
    BY <2>1 DEF Create
  <2>2. CASE MarkStarted
    BY <2>2 DEF MarkStarted
  <2>3. CASE MarkConnected
    BY <2>3 DEF MarkConnected
  <2>4. ASSUME NEW cs \in ClosedStatuses, End(cs) PROVE TypeOK'
    BY <2>4 DEF End, EndWith, CloseForCall
  <2>5. ASSUME NEW why \in Reasons, NEW cs \in ClosedStatuses, Fail(why, cs)
        PROVE  TypeOK'
    BY <2>5 DEF Fail, FailWith, CloseForCall
  <2>6. ASSUME NEW m \in Messages, AppendMessage(m) PROVE TypeOK'
    BY <2>6 DEF AppendMessage
  <2> QED
    BY <1>1, <2>1, <2>2, <2>3, <2>4, <2>5, <2>6 DEF Lifecycle
<1>2. CASE Handoff
  <2>1. ASSUME NEW r \in Requests, TransferRejected(r) PROVE TypeOK'
    BY <2>1 DEF TransferRejected
  <2>2. ASSUME NEW r \in Requests, NEW a \in Attempts, TransferBegin(r, a)
        PROVE  TypeOK'
    BY <2>2 DEF TransferBegin
  <2>3. CASE DialPlaced
    BY <2>3 DEF DialPlaced, DialingKeepsRow
  <2>4. CASE TransferDialing
    BY <2>4 DEF TransferDialing, CommitAttempt, NoTxn
  <2>5. CASE TransferFailed
    BY <2>5 DEF TransferFailed, CommitAttempt, NoTxn
  <2>6. CASE TransferLost
    BY <2>6 DEF TransferLost, NoTxn, DialingKeepsRow
  <2>7. ASSUME NEW a \in Attempts, NEW e \in HandoffEvents, TransitionHandoff(a, e)
        PROVE  TypeOK'
    BY <2>7 DEF TransitionHandoff, Cleanup
  <2>8. ASSUME NEW a \in Attempts, NEW e \in HandoffEvents, RepeatCleanup(a, e)
        PROVE  TypeOK'
    BY <2>8 DEF RepeatCleanup, Cleanup
  <2>9. ASSUME NEW a \in Attempts, NEW cs \in ClosedStatuses, RelinquishAgent(a, cs)
        PROVE  TypeOK'
    BY <2>9 DEF RelinquishAgent, CloseForCall
  <2> QED
    BY <1>2, <2>1, <2>2, <2>3, <2>4, <2>5, <2>6, <2>7, <2>8, <2>9 DEF Handoff
<1>3. CASE LiveKit
  <2>1. CASE RoomGone
    <3>1. room' \in BOOLEAN
      BY <2>1, Zenon DEF RoomGone
    <3> QED
      BY <2>1, <3>1 DEF RoomGone
  <2>2. ASSUME NEW a \in Attempts, PeerLeaves(a) PROVE TypeOK'
    BY <2>2 DEF PeerLeaves
  <2> QED
    BY <1>3, <2>1, <2>2 DEF LiveKit
<1>4. CASE Reconciliation
  <2>1. CASE Reconcile
    <3>1. reconciler' \in {"idle", "conflict", "failed"}
      BY <2>1 DEF Reconcile
    <3>2. ReconciledStatus \in ClosedStatuses
      BY DEF ReconciledStatus
    <3>3. CASE RestUnchanged
      BY <3>1, <3>3
    <3>4. CASE EndWith(ReconciledStatus)
      BY <3>1, <3>2, <3>4 DEF EndWith, CloseForCall
    <3>5. CASE FailWith(RuntimeUnavailable, "incomplete")
      BY <3>1, <3>5 DEF FailWith, CloseForCall
    <3> QED
      BY <2>1, <3>3, <3>4, <3>5 DEF Reconcile
  <2>2. CASE ListStale \/ SkipCandidate \/ RoomMissing \/ ReconcilerFails \/ Restart
    BY <2>2 DEF ListStale, StaleStatuses, SkipCandidate, RoomMissing, ReconcilerFails,
                Restart
  <2> QED
    BY <1>4, <2>1, <2>2 DEF Reconciliation
<1>5. CASE UNCHANGED vars
  BY <1>5 DEF vars
<1> QED
  BY <1>1, <1>2, <1>3, <1>4, <1>5 DEF Next

-----------------------------------------------------------------------------
\* The row, its conversation and the lock stay consistent with each other.
LEMMA RowNext == TypeOK /\ RowInv /\ [Next]_vars => RowInv'
<1> SUFFICES ASSUME TypeOK, RowInv, [Next]_vars PROVE RowInv'
  OBVIOUS
<1> USE NoneAssumption
    DEF RowInv, NothingBeforeTheRow, HandoffIsWhole, HandoffNeedsConnection,
        SealedEarlyIsHandedOver, DialingKeepsRow, FinishedIsSealed, RowUnlocked,
        Finished, ClosedStatuses, ActiveHandoff
<1>1. CASE Create
  BY <1>1 DEF Create, TypeOK
<1>2. CASE MarkStarted \/ MarkConnected
  BY <1>2 DEF MarkStarted, MarkConnected
<1>3. ASSUME NEW cs \in ClosedStatuses, EndWith(cs) PROVE RowInv'
  BY <1>3 DEF EndWith, CloseForCall, MayEnd
<1>4. ASSUME NEW why, NEW cs \in ClosedStatuses, FailWith(why, cs) PROVE RowInv'
  BY <1>4 DEF FailWith, CloseForCall, MayFail
<1>5. ASSUME NEW m \in Messages, AppendMessage(m) PROVE RowInv'
  BY <1>5 DEF AppendMessage
<1>6. ASSUME NEW r \in Requests, TransferRejected(r) PROVE RowInv'
  BY <1>6 DEF TransferRejected
<1>7. ASSUME NEW r \in Requests, NEW a \in Attempts, TransferBegin(r, a)
      PROVE  RowInv'
  BY <1>7 DEF TransferBegin, MayReplace, NoTxn
<1>8. CASE DialPlaced
  BY <1>8 DEF DialPlaced, TypeOK, NoTxn
<1>9. ASSUME NEW s \in {"dialing", "failed"}, txn.phase # "none", CommitAttempt(s)
      PROVE  RowInv'
  BY <1>9 DEF CommitAttempt, NoTxn
<1>10. CASE TransferLost
  BY <1>10 DEF TransferLost, NoTxn
<1>11. ASSUME NEW a \in Attempts, NEW e \in HandoffEvents, TransitionHandoff(a, e)
       PROVE  RowInv'
  BY <1>11 DEF TransitionHandoff, TransitionAllowed, HandoffTransitions, TypeOK, NoTxn
<1>12. ASSUME NEW a \in Attempts, NEW e \in HandoffEvents, RepeatCleanup(a, e)
       PROVE  RowInv'
  BY <1>12 DEF RepeatCleanup
<1>13. ASSUME NEW a \in Attempts, NEW cs \in ClosedStatuses, RelinquishAgent(a, cs)
       PROVE  RowInv'
  BY <1>13 DEF RelinquishAgent, CloseForCall, MayRelinquish
<1>14. CASE LiveKit
  BY <1>14 DEF LiveKit, RoomGone, PeerLeaves
<1>15. CASE Reconciliation
  <2>1. ReconciledStatus \in ClosedStatuses
    BY DEF ReconciledStatus, TypeOK, ConversationStatuses
  <2>2. CASE RestUnchanged
    BY <2>2 DEF RestUnchanged
  <2> QED
    BY <1>15, <1>3, <1>4, <2>1, <2>2
       DEF Reconciliation, ListStale, SkipCandidate, RoomMissing, Reconcile, ReconcilerFails,
           Restart
<1>16. CASE UNCHANGED vars
  BY <1>16 DEF vars
<1>17. CASE Lifecycle
  BY <1>17, <1>1, <1>2, <1>3, <1>4, <1>5 DEF Lifecycle, End, Fail
<1>18. CASE Handoff
  BY <1>18, <1>6, <1>7, <1>8, <1>9, <1>10, <1>11, <1>12, <1>13
     DEF Handoff, TransferDialing, TransferFailed
<1> QED
  BY <1>14, <1>15, <1>16, <1>17, <1>18 DEF Next

-----------------------------------------------------------------------------
\* An event that is not terminal leaves what is announced as it was.
LEMMA PlainEvent ==
  ASSUME TypeOK, AnnouncedOnce,
         NEW e \in CallEvents \ Finished, events' = Append(events, e),
         status' \in Finished <=> status \in Finished,
         status \in Finished => status' = status
  PROVE  AnnouncedOnce'
BY AppendedEvent, PublishedAfter DEF AnnouncedOnce, Published

\* The terminal event of a call that was not over is the only one.
LEMMA TerminalEvent ==
  ASSUME TypeOK, AnnouncedOnce, status \notin Finished,
         NEW e \in Finished, events' = Append(events, e), status' = e
  PROVE  AnnouncedOnce'
<1>1. e \in CallEvents
  BY DEF Finished, CallEvents
<1>2. \A i \in DOMAIN events : events[i] \notin Finished
  BY DEF AnnouncedOnce, Published
<1>3. \A i \in DOMAIN events' : events'[i] \in Finished => i = Len(events) + 1
  BY <1>1, <1>2, AppendedEvent
<1> QED
  BY <1>1, <1>3, PublishedAfter DEF AnnouncedOnce

\* What is announced agrees with the row, and a relinquished call was handed over.
LEMMA EventNext == TypeOK /\ RowInv /\ EventsAreTrue /\ [Next]_vars => EventsAreTrue'
<1> SUFFICES ASSUME TypeOK, RowInv, EventsAreTrue, [Next]_vars PROVE EventsAreTrue'
  OBVIOUS
<1> USE NoneAssumption DEF EventsAreTrue, RelinquishedMeansHandedOver, Publish
<1>1. CASE Create
  <2>1. AnnouncedOnce'
    BY <1>1, PlainEvent DEF Create, Finished, CallEvents
  <2> QED
    BY <1>1, <2>1, PublishedAfter
       DEF Create, RowInv, NothingBeforeTheRow, Published, CallEvents
<1>2. CASE MarkStarted \/ MarkConnected
  <2>1. AnnouncedOnce'
    BY <1>2, PlainEvent DEF MarkStarted, MarkConnected, Finished, CallEvents
  <2> QED
    BY <1>2, <2>1, PublishedAfter DEF MarkStarted, MarkConnected, CallEvents
<1>3. ASSUME NEW cs \in ClosedStatuses, EndWith(cs) PROVE EventsAreTrue'
  <2>1. AnnouncedOnce'
    BY <1>3, TerminalEvent DEF EndWith, MayEnd, Finished
  <2> QED
    BY <1>3, <2>1, PublishedAfter DEF EndWith, CloseForCall, ClosedStatuses, CallEvents
<1>4. ASSUME NEW why, NEW cs \in ClosedStatuses, FailWith(why, cs) PROVE EventsAreTrue'
  <2>1. AnnouncedOnce'
    BY <1>4, TerminalEvent DEF FailWith, MayFail, Finished
  <2> QED
    BY <1>4, <2>1, PublishedAfter DEF FailWith, CloseForCall, ClosedStatuses, CallEvents
<1>5. ASSUME NEW a \in Attempts, NEW cs \in ClosedStatuses, RelinquishAgent(a, cs)
      PROVE  EventsAreTrue'
  <2>1. AnnouncedOnce'
    BY <1>5, PlainEvent DEF RelinquishAgent, Finished, CallEvents
  <2> QED
    BY <1>5, <2>1, PublishedAfter
       DEF RelinquishAgent, MayRelinquish, CloseForCall, ClosedStatuses, CallEvents
<1>6. ASSUME UNCHANGED << status, conversation, events >>,
             handoff.state = "completed" => handoff' = handoff
      PROVE  EventsAreTrue'
  BY <1>6 DEF AnnouncedOnce, Published
<1>7. CASE Lifecycle
  <2>1. ASSUME NEW m \in Messages, AppendMessage(m) PROVE EventsAreTrue'
    BY <1>6, <2>1 DEF AppendMessage
  <2> QED
    BY <1>7, <1>1, <1>2, <1>3, <1>4, <2>1 DEF Lifecycle, End, Fail
<1>8. CASE Handoff
  <2>1. CASE \/ DialPlaced \/ TransferLost
             \/ \E r \in Requests : TransferRejected(r)
             \/ \E r \in Requests, a \in Attempts : TransferBegin(r, a)
             \/ \E a \in Attempts, e \in HandoffEvents : RepeatCleanup(a, e)
    BY <1>6, <2>1 DEF DialPlaced, TransferLost, TransferRejected, TransferBegin,
                      RepeatCleanup
  <2>2. CASE TransferDialing \/ TransferFailed
    BY <1>6, <2>2 DEF TransferDialing, TransferFailed, CommitAttempt, RowInv,
                      DialingKeepsRow
  <2>3. ASSUME NEW a \in Attempts, NEW e \in HandoffEvents, TransitionHandoff(a, e)
        PROVE  EventsAreTrue'
    BY <1>6, <2>3 DEF TransitionHandoff, ActiveHandoff
  <2> QED
    BY <1>8, <1>5, <2>1, <2>2, <2>3 DEF Handoff
<1>9. CASE LiveKit
  BY <1>6, <1>9 DEF LiveKit, RoomGone, PeerLeaves
<1>10. CASE Reconciliation
  <2>1. ReconciledStatus \in ClosedStatuses
    BY DEF ReconciledStatus, TypeOK, ConversationStatuses, ClosedStatuses
  <2>2. CASE RestUnchanged
    BY <1>6, <2>2 DEF RestUnchanged
  <2> QED
    BY <1>10, <1>3, <1>4, <2>1, <2>2
       DEF Reconciliation, ListStale, SkipCandidate, RoomMissing, Reconcile, ReconcilerFails,
           Restart, ClosedStatuses
<1>11. CASE UNCHANGED vars
  BY <1>6, <1>11 DEF vars
<1> QED
  BY <1>7, <1>8, <1>9, <1>10, <1>11 DEF Next

-----------------------------------------------------------------------------
\* Attempt ids are drawn once.
LEMMA FreshNext == TypeOK /\ RowInv /\ FreshAttempt /\ [Next]_vars => FreshAttempt'
<1> SUFFICES ASSUME TypeOK, RowInv, FreshAttempt, [Next]_vars PROVE FreshAttempt'
  OBVIOUS
<1> USE NoneAssumption DEF FreshAttempt
<1>1. ASSUME UNCHANGED << txn, used >>, handoff'.attempt = handoff.attempt
      PROVE  FreshAttempt'
  BY <1>1
<1>2. CASE Lifecycle
  BY <1>1, <1>2 DEF Lifecycle, Create, MarkStarted, MarkConnected, End, EndWith,
                    Fail, FailWith, AppendMessage
<1>3. CASE Handoff
  <2>1. CASE \/ \E r \in Requests : TransferRejected(r)
             \/ \E a \in Attempts, e \in HandoffEvents : RepeatCleanup(a, e)
             \/ \E a \in Attempts, cs \in ClosedStatuses : RelinquishAgent(a, cs)
    BY <1>1, <2>1 DEF TransferRejected, RepeatCleanup, RelinquishAgent
  <2>2. ASSUME NEW r \in Requests, NEW a \in Attempts, TransferBegin(r, a)
        PROVE  FreshAttempt'
    BY <2>2 DEF TransferBegin
  <2>3. CASE DialPlaced
    BY <2>3 DEF DialPlaced, TypeOK
  <2>4. CASE TransferDialing \/ TransferFailed
    BY <2>4 DEF TransferDialing, TransferFailed, CommitAttempt, RowInv,
                DialingKeepsRow, NoTxn
  <2>5. CASE TransferLost
    BY <2>5 DEF TransferLost, NoTxn
  <2>6. ASSUME NEW a \in Attempts, NEW e \in HandoffEvents, TransitionHandoff(a, e)
        PROVE  FreshAttempt'
    BY <1>1, <2>6 DEF TransitionHandoff, TypeOK
  <2> QED
    BY <1>3, <2>1, <2>2, <2>3, <2>4, <2>5, <2>6 DEF Handoff
<1>4. CASE LiveKit
  BY <1>1, <1>4 DEF LiveKit, RoomGone, PeerLeaves
<1>5. CASE Reconciliation
  BY <1>1, <1>5 DEF Reconciliation, ListStale, SkipCandidate, RoomMissing, Reconcile,
                    ReconcilerFails, Restart, RestUnchanged, EndWith, FailWith
<1>6. CASE UNCHANGED vars
  BY <1>1, <1>6 DEF vars
<1> QED
  BY <1>2, <1>3, <1>4, <1>5, <1>6 DEF Next

-----------------------------------------------------------------------------
\* A participant in the room belongs to the current or the dialled attempt.
LEMMA PeerNext == TypeOK /\ RowInv /\ OneHandoffPeer /\ [Next]_vars => OneHandoffPeer'
<1> SUFFICES ASSUME TypeOK, RowInv, OneHandoffPeer, [Next]_vars PROVE OneHandoffPeer'
  OBVIOUS
<1> USE NoneAssumption DEF OneHandoffPeer
<1>1. ASSUME UNCHANGED << handoff, txn, lost >>, peers' \subseteq peers
      PROVE  OneHandoffPeer'
  BY <1>1
<1>2. CASE Lifecycle
  BY <1>1, <1>2 DEF Lifecycle, Create, MarkStarted, MarkConnected, End, EndWith,
                    Fail, FailWith, AppendMessage
<1>3. CASE Handoff
  <2>1. ASSUME NEW r \in Requests, TransferRejected(r) PROVE OneHandoffPeer'
    BY <1>1, <2>1 DEF TransferRejected
  <2>2. ASSUME NEW r \in Requests, NEW a \in Attempts, TransferBegin(r, a)
        PROVE  OneHandoffPeer'
    BY <2>2 DEF TransferBegin, RowUnlocked, SettledPeer, TypeOK
  <2>3. CASE DialPlaced
    BY <2>3 DEF DialPlaced, RowInv, DialingKeepsRow, TypeOK, NoTxn
  <2>4. CASE TransferDialing \/ TransferFailed
    BY <2>4 DEF TransferDialing, TransferFailed, CommitAttempt, RowInv,
                DialingKeepsRow
  <2>5. CASE TransferLost
    BY <2>5 DEF TransferLost, RowInv, DialingKeepsRow
  <2>6. ASSUME NEW a \in Attempts, NEW e \in HandoffEvents, TransitionHandoff(a, e)
        PROVE  OneHandoffPeer'
    BY <2>6 DEF TransitionHandoff, Cleanup, RowUnlocked, TypeOK
  <2>7. ASSUME NEW a \in Attempts, NEW e \in HandoffEvents, RepeatCleanup(a, e)
        PROVE  OneHandoffPeer'
    BY <1>1, <2>7 DEF RepeatCleanup, Cleanup
  <2>8. ASSUME NEW a \in Attempts, NEW cs \in ClosedStatuses, RelinquishAgent(a, cs)
        PROVE  OneHandoffPeer'
    BY <1>1, <2>8 DEF RelinquishAgent
  <2> QED
    BY <1>3, <2>1, <2>2, <2>3, <2>4, <2>5, <2>6, <2>7, <2>8 DEF Handoff
<1>4. CASE LiveKit
  BY <1>1, <1>4 DEF LiveKit, RoomGone, PeerLeaves
<1>5. CASE Reconciliation
  BY <1>1, <1>5 DEF Reconciliation, ListStale, SkipCandidate, RoomMissing, Reconcile,
                    ReconcilerFails, Restart, RestUnchanged, EndWith, FailWith
<1>6. CASE UNCHANGED vars
  BY <1>1, <1>6 DEF vars
<1> QED
  BY <1>2, <1>3, <1>4, <1>5, <1>6 DEF Next

-----------------------------------------------------------------------------
\* The close a reconciliation performs never conflicts.
LEMMA NoConflict == TypeOK /\ RowInv => ~ReconcileConflicts
BY NoneAssumption
   DEF TypeOK, RowInv, ReconcileConflicts, AcceptsClose, ReconciledStatus,
       SealedEarlyIsHandedOver, HandoffIsWhole, Finished, ConversationStatuses

LEMMA ReconcilerNext ==
  TypeOK /\ RowInv /\ ReconcilerMeetsNoConflict /\ [Next]_vars => ReconcilerMeetsNoConflict'
<1> SUFFICES ASSUME TypeOK, RowInv, ReconcilerMeetsNoConflict, [Next]_vars
             PROVE  ReconcilerMeetsNoConflict'
  OBVIOUS
<1> USE DEF ReconcilerMeetsNoConflict
<1>1. CASE Lifecycle
  BY <1>1 DEF Lifecycle, Create, MarkStarted, MarkConnected, End, Fail, AppendMessage
<1>2. CASE Handoff
  BY <1>2 DEF Handoff, TransferRejected, TransferBegin, DialPlaced, TransferDialing,
              TransferFailed, CommitAttempt, TransferLost, TransitionHandoff,
              RepeatCleanup, RelinquishAgent
<1>3. CASE LiveKit
  BY <1>3 DEF LiveKit, RoomGone, PeerLeaves
<1>4. CASE Reconciliation
  BY <1>4, NoConflict DEF Reconciliation, ListStale, SkipCandidate, RoomMissing,
                          Reconcile, ReconcilerFails, Restart, ReconcilerAt
<1>5. CASE UNCHANGED vars
  BY <1>5 DEF vars
<1> QED
  BY <1>1, <1>2, <1>3, <1>4, <1>5 DEF Next

-----------------------------------------------------------------------------
\* Every state of every execution satisfies the inductive invariant.
THEOREM InvHolds == Spec => []Inv
<1>1. Inv /\ [Next]_vars => Inv'
  BY TypeNext, RowNext, EventNext, FreshNext, PeerNext, ReconcilerNext DEF Inv, RowInv
<1> QED
  BY InitInv, <1>1, PTL DEF Spec

\* The variables keep their types.
THEOREM TypeCorrect == Spec => []TypeOK
<1>1. Inv => TypeOK
  BY DEF Inv
<1> QED
  BY InvHolds, <1>1, PTL

\* Whoever finishes a call, its transcript is sealed.
THEOREM FinishedIsAlwaysSealed == Spec => []FinishedIsSealed
<1>1. Inv => FinishedIsSealed
  BY DEF Inv, RowInv
<1> QED
  BY InvHolds, <1>1, PTL

\* One terminal event per call, with the row's outcome, and agent_relinquished
\* only of a call handed to a human.
THEOREM EventsTellTheTruth == Spec => []EventsAreTrue
<1>1. Inv => EventsAreTrue
  BY DEF Inv
<1> QED
  BY InvHolds, <1>1, PTL

\* At most the current attempt's human is in the room, lost dials aside.
THEOREM OnePeerAtATime == Spec => []OneHandoffPeer
<1>1. Inv => OneHandoffPeer
  BY DEF Inv
<1> QED
  BY InvHolds, <1>1, PTL

\* No conflict ever ends the reconciler's task.
THEOREM ReconciliationNeverConflicts == Spec => []ReconcilerMeetsNoConflict
<1>1. Inv => ReconcilerMeetsNoConflict
  BY DEF Inv
<1> QED
  BY InvHolds, <1>1, PTL

-----------------------------------------------------------------------------
\* The step of SealedStaysSealed.
SealedStep ==
  conversation # "open" => conversation' = conversation /\ messages' = messages

LEMMA SealedNext == Inv /\ [Next]_vars => SealedStep
<1> SUFFICES ASSUME Inv, [Next]_vars, conversation # "open" PROVE
        conversation' = conversation /\ messages' = messages
  BY DEF SealedStep
<1>1. CASE Lifecycle
  BY <1>1 DEF Lifecycle, Create, MarkStarted, MarkConnected, End, EndWith, Fail,
              FailWith, CloseForCall, AppendMessage, MayAppend
<1>2. CASE Handoff
  BY <1>2 DEF Handoff, TransferRejected, TransferBegin, DialPlaced, TransferDialing,
              TransferFailed, CommitAttempt, TransferLost, TransitionHandoff,
              RepeatCleanup, RelinquishAgent, CloseForCall
<1>3. CASE LiveKit
  BY <1>3 DEF LiveKit, RoomGone, PeerLeaves
<1>4. CASE Reconciliation
  BY <1>4 DEF Reconciliation, ListStale, SkipCandidate, RoomMissing, Reconcile,
              ReconcilerFails, Restart, RestUnchanged, EndWith, FailWith, CloseForCall
<1>5. CASE UNCHANGED vars
  BY <1>5 DEF vars
<1> QED
  BY <1>1, <1>2, <1>3, <1>4, <1>5 DEF Next

\* A sealed transcript never changes again.
THEOREM SealIsFinal == Spec => SealedStaysSealed
<1>1. Inv /\ [Next]_vars => [SealedStep]_vars
  BY SealedNext
<1> QED
  BY InvHolds, <1>1, PTL DEF Spec, SealedStaysSealed, SealedStep

\* The step of SettledHandoffStays and of NoHandoverAfterTheEnd.
HandoffStep ==
  /\ handoff.state = "completed" => handoff' = handoff
  /\ handoff.state \notin ActiveHandoff /\ handoff'.attempt = handoff.attempt
       => handoff' = handoff
  /\ handoff'.state = "completed" /\ handoff.state # "completed" => status = "connected"

LEMMA HandoffStepNext == Inv /\ [Next]_vars => HandoffStep
<1> SUFFICES ASSUME Inv, [Next]_vars PROVE HandoffStep
  OBVIOUS
<1> USE DEF HandoffStep, ActiveHandoff
<1>1. ASSUME UNCHANGED handoff PROVE HandoffStep
  BY <1>1
<1>2. CASE Lifecycle
  BY <1>1, <1>2 DEF Lifecycle, Create, MarkStarted, MarkConnected, End, EndWith,
                    Fail, FailWith, AppendMessage
<1>3. CASE Handoff
  <2>1. CASE \/ DialPlaced \/ TransferLost
             \/ \E r \in Requests : TransferRejected(r)
             \/ \E r \in Requests, a \in Attempts : TransferBegin(r, a)
             \/ \E a \in Attempts, e \in HandoffEvents : RepeatCleanup(a, e)
             \/ \E a \in Attempts, cs \in ClosedStatuses : RelinquishAgent(a, cs)
    BY <1>1, <2>1 DEF DialPlaced, TransferLost, TransferRejected, TransferBegin,
                      RepeatCleanup, RelinquishAgent
  <2>2. CASE TransferDialing \/ TransferFailed
    BY <2>2 DEF TransferDialing, TransferFailed, CommitAttempt, Inv, FreshAttempt,
                RowInv, DialingKeepsRow
  <2>3. ASSUME NEW a \in Attempts, NEW e \in HandoffEvents, TransitionHandoff(a, e)
        PROVE  HandoffStep
    BY <2>3 DEF TransitionHandoff, TransitionAllowed, Inv, TypeOK
  <2> QED
    BY <1>3, <2>1, <2>2, <2>3 DEF Handoff
<1>4. CASE LiveKit
  BY <1>1, <1>4 DEF LiveKit, RoomGone, PeerLeaves
<1>5. CASE Reconciliation
  BY <1>1, <1>5 DEF Reconciliation, ListStale, SkipCandidate, RoomMissing, Reconcile,
                    ReconcilerFails, Restart, RestUnchanged, EndWith, FailWith
<1>6. CASE UNCHANGED vars
  BY <1>1, <1>6 DEF vars
<1> QED
  BY <1>2, <1>3, <1>4, <1>5, <1>6 DEF Next

\* A settled attempt is final, a completed handoff for good.
THEOREM SettledIsFinal == Spec => SettledHandoffStays
<1>1. Inv /\ [Next]_vars => [HandoffStep]_vars
  BY HandoffStepNext
<1> QED
  BY InvHolds, <1>1, PTL DEF Spec, SettledHandoffStays, HandoffStep

\* No handoff completes once the call is over.
THEOREM HandoverBeforeTheEnd == Spec => NoHandoverAfterTheEnd
<1>1. Inv /\ [Next]_vars => [HandoffStep]_vars
  BY HandoffStepNext
<1> QED
  BY InvHolds, <1>1, PTL DEF Spec, NoHandoverAfterTheEnd, HandoffStep

-----------------------------------------------------------------------------
(***************************************************************************)
(* The refinement.  A step of the call session opens, records, seals or    *)
(* finishes the promised call, or leaves the four mapped values alone.     *)
(***************************************************************************)
LEMMA PromiseInit == Init => Promise!Init
BY DEF Init, Promise!Init, Finished, Published

LEMMA PromiseStutter ==
  ASSUME UNCHANGED << status, messages, conversation, events >>
  PROVE  UNCHANGED Promise!vars
BY DEF Promise!vars, Published

\* An event that is not terminal leaves the announced outcomes alone.
LEMMA SameAnnounced ==
  ASSUME TypeOK, NEW e \in CallEvents \ Finished, events' = Append(events, e)
  PROVE  {f \in Finished : Published(f)'} = {f \in Finished : Published(f)}
BY PublishedAfter

\* end() and fail() are the promise's Finish.
LEMMA PromiseFinish ==
  ASSUME Inv, NEW e \in Finished, status \notin Finished, status # "absent",
         status' = e, events' = Append(events, e),
         UNCHANGED messages, conversation' # "open"
  PROVE  Promise!Finish(e)
<1>1. e \in CallEvents
  BY DEF Finished, CallEvents
<1>2. {f \in Finished : Published(f)'} = {e}
  BY <1>1, PublishedAfter DEF Inv, EventsAreTrue, AnnouncedOnce
<1> QED
  BY <1>2 DEF Promise!Finish, Finished

LEMMA PromiseNext == Inv /\ [Next]_vars => [Promise!Next]_(Promise!vars)
<1> SUFFICES ASSUME Inv, [Next]_vars PROVE Promise!Next \/ UNCHANGED Promise!vars
  OBVIOUS
<1>1. TypeOK /\ RowInv
  BY DEF Inv
<1>2. ASSUME NEW cs \in ClosedStatuses, EndWith(cs) PROVE Promise!Next
  <2>1. Promise!Finish("ended")
    BY <1>1, <1>2, PromiseFinish
       DEF EndWith, MayEnd, CloseForCall, ClosedStatuses, Finished, Publish
  <2> QED
    BY <2>1 DEF Promise!Next, Promise!Outcomes
<1>3. ASSUME NEW why, NEW cs \in ClosedStatuses, FailWith(why, cs) PROVE Promise!Next
  <2>1. Promise!Finish("failed")
    BY <1>1, <1>3, PromiseFinish
       DEF FailWith, MayFail, CloseForCall, ClosedStatuses, Finished, Publish
  <2> QED
    BY <2>1 DEF Promise!Next, Promise!Outcomes
<1>4. CASE Create
  <2>1. {f \in Finished : Published(f)'} = {f \in Finished : Published(f)}
    BY <1>1, <1>4, SameAnnounced DEF Create, Publish, Finished, CallEvents
  <2>2. Promise!Open
    BY <1>4, <2>1 DEF Create, Promise!Open, Finished
  <2> QED
    BY <2>2 DEF Promise!Next
<1>5. CASE MarkStarted \/ MarkConnected
  <2>1. {f \in Finished : Published(f)'} = {f \in Finished : Published(f)}
    BY <1>1, <1>5, SameAnnounced
       DEF MarkStarted, MarkConnected, Publish, Finished, CallEvents
  <2> QED
    BY <1>5, <2>1 DEF MarkStarted, MarkConnected, Promise!vars, Finished
<1>6. ASSUME NEW m \in Messages, AppendMessage(m) PROVE Promise!Next \/ UNCHANGED Promise!vars
  <2>1. {f \in Finished : Published(f)'} = {f \in Finished : Published(f)}
    BY <1>6 DEF AppendMessage, Published
  <2>2. status \notin Finished /\ status # "absent" /\ conversation = "open"
    BY <1>1, <1>6 DEF AppendMessage, MayAppend, RowUnlocked, RowInv, FinishedIsSealed
  <2>3. Promise!Record(m)
    BY <1>6, <2>1, <2>2 DEF AppendMessage, Promise!Record
  <2> QED
    BY <2>3 DEF Promise!Next
<1>7. ASSUME NEW a \in Attempts, NEW cs \in ClosedStatuses, RelinquishAgent(a, cs)
      PROVE  Promise!Next \/ UNCHANGED Promise!vars
  <2>1. {f \in Finished : Published(f)'} = {f \in Finished : Published(f)}
    BY <1>1, <1>7, SameAnnounced DEF RelinquishAgent, Publish, Finished, CallEvents
  <2>2. CASE conversation # "open"
    BY <1>7, <2>1, <2>2 DEF RelinquishAgent, CloseForCall, Promise!vars
  <2>3. CASE conversation = "open"
    <3>1. status \notin Finished /\ status # "absent"
      BY <1>1, <1>7, <2>3
         DEF RelinquishAgent, RowUnlocked, RowInv, FinishedIsSealed
    <3>2. Promise!Seal
      BY <1>7, <2>1, <2>3, <3>1
         DEF RelinquishAgent, CloseForCall, ClosedStatuses, Promise!Seal
    <3> QED
      BY <3>2 DEF Promise!Next
  <2> QED
    BY <2>2, <2>3
<1>8. CASE UNCHANGED << status, messages, conversation, events >>
  BY <1>8, PromiseStutter
<1>9. CASE Lifecycle
  BY <1>9, <1>2, <1>3, <1>4, <1>5, <1>6 DEF Lifecycle, End, Fail
<1>10. CASE Handoff
  BY <1>10, <1>7, <1>8
     DEF Handoff, TransferRejected, TransferBegin, DialPlaced, TransferDialing,
         TransferFailed, CommitAttempt, TransferLost, TransitionHandoff, RepeatCleanup
<1>11. CASE LiveKit
  BY <1>11, <1>8 DEF LiveKit, RoomGone, PeerLeaves
<1>12. CASE Reconciliation
  <2>1. ReconciledStatus \in ClosedStatuses
    BY <1>1 DEF ReconciledStatus, TypeOK, ConversationStatuses, ClosedStatuses
  <2>2. CASE RestUnchanged
    BY <1>8, <2>2 DEF RestUnchanged
  <2> QED
    BY <1>12, <1>2, <1>3, <2>1, <2>2
       DEF Reconciliation, ListStale, SkipCandidate, RoomMissing, Reconcile, ReconcilerFails,
           Restart, ClosedStatuses
<1>13. CASE UNCHANGED vars
  BY <1>8, <1>13 DEF vars
<1> QED
  BY <1>9, <1>10, <1>11, <1>12, <1>13 DEF Next

\* The call session implements the promised call.
THEOREM Refinement == Spec => KeepsPromise
<1> QED
  BY InvHolds, PromiseInit, PromiseNext, PTL DEF Spec, KeepsPromise, Promise!Spec

-----------------------------------------------------------------------------
(***************************************************************************)
(* The admission of calls. That a test session ends with one agent rests   *)
(* on every dispatch having a request that will name or drop it (Agent),   *)
(* or the call having one that will delete what there is and fail it       *)
(* (Doomed).                                                               *)
(***************************************************************************)
\* What is assumed of the constants.
AdmissionAssumptions == KeysAssumption /\ NothingAssumption /\ BoundsAssumption

\* The call is the one the request asks for.
Answers(q, c) ==
  /\ calls[c] # Nothing
  /\ IF IsClaim(q) THEN calls[c].sip = req[q].ask.sip ELSE calls[c].key = Key(q)

\* How far a request has come, and what it knows.
RequestOk(q) ==
  /\ req[q].at # "idle" =>
       req[q].ask \in Asks /\ (IsTest(q) => req[q].tenant = req[q].ask.tenant)
  /\ req[q].at = "route" => ~IsTest(q)
  /\ req[q].at \in {"lock", "execute", "store"} => req[q].tenant \in Tenants
  /\ req[q].at = "store" => executions[Key(q)] = req[q].tenant
  /\ req[q].at \in {"idle"} \union InTransaction => calls[q] = Nothing /\ req[q].call = Nothing
  /\ req[q].call # Nothing => calls[req[q].call] # Nothing
  /\ req[q].at \in SettingUp => IsTest(q)
  /\ req[q].at \in SettingUp \union {"answered"} =>
       /\ req[q].call # Nothing /\ Answers(q, req[q].call)
       /\ IsTest(q) => calls[req[q].call].tenant = req[q].ask.tenant
  /\ req[q].at \in {"dispatch", "set", "drop"} => calls[req[q].call].dispatch # q
  /\ req[q].at = "drop" => calls[req[q].call].dispatch # Nothing
  /\ q \in dispatches => req[q].call # Nothing

CallsUnique ==
  \A c, d \in Admissions :
    calls[c] # Nothing /\ calls[d] # Nothing /\ c # d =>
      /\ calls[c].key # calls[d].key
      /\ calls[c].sip # Nothing => calls[c].sip # calls[d].sip

CallsOfTenants ==
  \A c \in Admissions : calls[c] # Nothing => executions[calls[c].key] = calls[c].tenant

\* Somebody is about to fail the call, or it has failed or is left alone.
Doomed(c) ==
  \/ calls[c].status = "failed" \/ c \in abandoned
  \/ \E q \in Admissions : req[q].call = c /\ req[q].at \in {"clean", "fail"}

\* Every dispatch is the one the call names or will be named or dropped.
Agent(c) ==
  /\ \A d \in dispatches :
       req[d].call = c => d = calls[c].dispatch \/ req[d].at \in {"set", "drop"}
  /\ \A d \in Admissions : req[d].call = c /\ req[d].at = "set" => d \in dispatches
  /\ calls[c].dispatch = Nothing =>
       \E q \in Admissions : req[q].call = c /\ req[q].at \in {"dispatch", "set"}
  /\ calls[c].dispatch # Nothing =>
       calls[c].dispatch \in dispatches /\ req[calls[c].dispatch].call = c

IsSession(c) == calls[c] # Nothing /\ calls[c].key \in TestKeys \union Admissions

SessionsOk == \A c \in Admissions : IsSession(c) => Doomed(c) \/ Agent(c)

AdmissionInv ==
  /\ AdmissionAssumptions /\ AdmissionTypeOK /\ (\A q \in Admissions : RequestOk(q))
  /\ CallsUnique /\ CallsOfTenants /\ SessionsOk

-----------------------------------------------------------------------------
(***************************************************************************)
(* What a request asks for.                                                *)
(***************************************************************************)
\* The three kinds of requests are told apart by their fields.
LEMMA AskKinds ==
  ASSUME NEW ask \in Asks
  PROVE  /\ ask \in Claims => ask \notin Creates /\ ask \notin Tests
         /\ ask \in Creates => ask \notin Tests
<1>1. ASSUME NEW x \in Claims PROVE DOMAIN x = {"sip", "full"}
  BY DEF Claims
<1>2. ASSUME NEW x \in Creates PROVE DOMAIN x = {"id"}
  BY DEF Creates
<1>3. ASSUME NEW x \in Tests PROVE DOMAIN x = {"tenant", "key"}
  BY DEF Tests
<1>4. /\ "sip" # "id" /\ "full" # "id" /\ "sip" # "tenant" /\ "sip" # "key"
      /\ "id" # "tenant" /\ "id" # "key"
  OBVIOUS
<1>5. /\ {"sip", "full"} # {"id"} /\ {"sip", "full"} # {"tenant", "key"} /\ {"id"} # {"tenant", "key"}
  BY <1>4
<1> QED
  BY <1>1, <1>2, <1>3, <1>5

LEMMA KeyKinds ==
  ASSUME AdmissionAssumptions, NEW q \in Admissions, req[q].ask \in Asks
  PROVE  /\ Key(q) \in Keys
         /\ IsTest(q) => ~IsClaim(q) /\ Key(q) \in TestKeys \union Admissions
         /\ ~IsTest(q) => Key(q) \notin TestKeys \union Admissions
<1>1. PICK ask \in Asks : ask = req[q].ask
  OBVIOUS
<1>2. /\ ask \in Claims \/ ask \in Creates \/ ask \in Tests
      /\ ask \in Claims => ask \notin Creates /\ ask \notin Tests
      /\ ask \in Creates => ask \notin Tests
  BY AskKinds DEF Asks
<1>3. CASE ask \in Claims
  <2>1. Key(q) = << ask.sip, ask.full >> /\ ~IsTest(q) /\ IsClaim(q)
    BY <1>1, <1>2, <1>3 DEF Key, IsClaim, IsTest
  <2>2. ask.sip \in SipCalls /\ ask.full \in BOOLEAN
    BY <1>3 DEF Claims
  <2>3. << ask.sip, ask.full >> \in SipCalls \X BOOLEAN
    BY <2>2
  <2> QED
    BY <2>1, <2>3 DEF Keys, AdmissionAssumptions, KeysAssumption
<1>4. CASE ask \in Creates
  <2>1. Key(q) = ask.id /\ ~IsTest(q) /\ ~IsClaim(q)
    BY <1>1, <1>2, <1>4 DEF Key, IsClaim, IsTest
  <2>2. ask.id \in SipCalls \X BOOLEAN
    BY <1>4 DEF Creates
  <2> QED
    BY <2>1, <2>2 DEF Keys, AdmissionAssumptions, KeysAssumption
<1>5. CASE ask \in Tests
  <2>1. Key(q) = (IF ask.key = Nothing THEN q ELSE ask.key) /\ IsTest(q) /\ ~IsClaim(q)
    BY <1>1, <1>2, <1>5 DEF Key, IsClaim, IsTest
  <2>2. ask.key \in TestKeys \union {Nothing}
    BY <1>5 DEF Tests
  <2> QED
    BY <2>1, <2>2 DEF Keys
<1> QED
  BY <1>2, <1>3, <1>4, <1>5

LEMMA SameAsk ==
  ASSUME NEW q \in Admissions, req'[q].ask = req[q].ask
  PROVE  /\ Key(q)' = Key(q)
         /\ IsClaim(q)' <=> IsClaim(q)
         /\ IsTest(q)' <=> IsTest(q)
BY DEF Key, IsClaim, IsTest

-----------------------------------------------------------------------------
(***************************************************************************)
(* What a step leaves to the others.                                       *)
(***************************************************************************)
ReqType ==
  [at : {"idle"} \union InTransaction \union SettingUp \union Ended,
   ask : Asks \union {Nothing},
   tenant : Tenants \union {Nothing}, call : Admissions \union {Nothing}]

\* Calls stay; a dispatch that is named is the one of the request that acts.
CallsGrow(q) ==
  /\ \A c \in Admissions :
       calls[c] # Nothing =>
         /\ calls'[c] # Nothing
         /\ calls'[c].key = calls[c].key /\ calls'[c].tenant = calls[c].tenant
         /\ calls'[c].sip = calls[c].sip
         /\ calls[c].status = "failed" => calls'[c].status = "failed"
         /\ calls[c].dispatch # Nothing => calls'[c].dispatch = calls[c].dispatch
         /\ calls'[c].dispatch \in {calls[c].dispatch, q}
  /\ \A c \in Admissions \ {q} : calls[c] = Nothing => calls'[c] = Nothing

\* The step of a request.
StepOf(q) ==
  /\ req' \in [Admissions -> ReqType] /\ calls' \in [Admissions -> Rows \union {Nothing}]
  /\ \A p \in Admissions \ {q} : req'[p] = req[p] /\ (p \in dispatches' => p \in dispatches)
  /\ \A k \in Keys : executions[k] # Nothing => executions'[k] = executions[k]
  /\ abandoned \subseteq abandoned'
  /\ CallsGrow(q)

LEMMA OthersOk ==
  ASSUME AdmissionInv, NEW q, StepOf(q), NEW p \in Admissions, p # q
  PROVE  RequestOk(p)'
<1>0. /\ AdmissionAssumptions /\ AdmissionTypeOK /\ RequestOk(p) /\ Nothing \notin Admissions
      /\ Nothing \notin Tenants
  BY DEF AdmissionInv, AdmissionAssumptions, NothingAssumption
<1>1. /\ req'[p] = req[p] /\ (p \in dispatches' => p \in dispatches)
      /\ \A k \in Keys : executions[k] # Nothing => executions'[k] = executions[k]
      /\ \A c \in Admissions :
           calls[c] # Nothing =>
             /\ calls'[c] # Nothing
             /\ calls'[c].key = calls[c].key /\ calls'[c].tenant = calls[c].tenant
             /\ calls'[c].sip = calls[c].sip
             /\ calls[c].dispatch # Nothing => calls'[c].dispatch = calls[c].dispatch
             /\ calls'[c].dispatch \in {calls[c].dispatch, q}
      /\ calls[p] = Nothing => calls'[p] = Nothing
  BY DEF StepOf, CallsGrow
<1>2. /\ Key(p)' = Key(p)
      /\ IsClaim(p)' <=> IsClaim(p)
      /\ IsTest(p)' <=> IsTest(p)
  BY <1>1, SameAsk
<1>3. req[p].call \in Admissions \union {Nothing}
  BY <1>0 DEF AdmissionTypeOK
<1>4. /\ req[p].at = "idle" \/ (req[p].ask \in Asks /\ (IsTest(p) => req[p].tenant = req[p].ask.tenant))
      /\ req[p].at = "route" => ~IsTest(p)
      /\ req[p].at \in {"lock", "execute", "store"} => req[p].tenant \in Tenants
      /\ req[p].at \in {"idle"} \union InTransaction => calls[p] = Nothing /\ req[p].call = Nothing
      /\ req[p].at \in SettingUp => IsTest(p)
      /\ p \in dispatches => req[p].call # Nothing
  BY <1>0 DEF RequestOk
<1>5. req[p].at = "store" => executions'[Key(p)] = req[p].tenant
  <2> SUFFICES ASSUME req[p].at = "store" PROVE executions'[Key(p)] = req[p].tenant
    OBVIOUS
  <2>1. executions[Key(p)] = req[p].tenant /\ req[p].tenant \in Tenants /\ req[p].ask \in Asks
    BY <1>0 DEF RequestOk
  <2>2. Key(p) \in Keys
    BY <1>0, <2>1, KeyKinds
  <2> QED
    BY <1>0, <1>1, <2>1, <2>2
<1>6. CASE req[p].call = Nothing
  <2>1. req[p].at \notin SettingUp \union {"answered"}
    BY <1>0, <1>6 DEF RequestOk
  <2> QED
    BY <1>1, <1>2, <1>4, <1>5, <1>6, <2>1 DEF RequestOk, SettingUp
<1>7. CASE req[p].call # Nothing
  <2>1. PICK c \in Admissions : c = req[p].call
    BY <1>3, <1>7
  <2>2. calls[c] # Nothing
    BY <1>0, <1>7, <2>1 DEF RequestOk
  <2>3. req[p].at \in SettingUp \union {"answered"} =>
          /\ calls'[c] # Nothing
          /\ IF IsClaim(p) THEN calls'[c].sip = req[p].ask.sip ELSE calls'[c].key = Key(p)
          /\ IsTest(p) => calls'[c].tenant = req[p].ask.tenant
    BY <1>0, <1>1, <2>1, <2>2 DEF RequestOk, Answers
  <2>4. /\ req[p].at \in {"dispatch", "set", "drop"} => calls'[c].dispatch # p
        /\ req[p].at = "drop" => calls'[c].dispatch # Nothing
    BY <1>0, <1>1, <2>1, <2>2 DEF RequestOk
  <2>5. calls'[c] # Nothing
    BY <1>1, <2>2
  <2> QED
    BY <1>1, <1>2, <1>4, <1>5, <1>7, <2>1, <2>3, <2>4, <2>5 DEF RequestOk, Answers
<1> QED
  BY <1>6, <1>7

\* No call is stored: they stay as they are.
LEMMA CallsStay ==
  ASSUME AdmissionInv, NEW q, StepOf(q), q \in Admissions /\ calls[q] = Nothing => calls'[q] = Nothing
  PROVE  CallsUnique' /\ CallsOfTenants'
<1>0. /\ CallsUnique /\ CallsOfTenants /\ AdmissionTypeOK /\ Nothing \notin Tenants
      /\ \A c \in Admissions : calls[c] # Nothing => calls[c].key \in Keys /\ calls[c].tenant \in Tenants
  BY DEF AdmissionInv, AdmissionAssumptions, NothingAssumption, AdmissionTypeOK, Rows
<1>1. /\ \A k \in Keys : executions[k] # Nothing => executions'[k] = executions[k]
      /\ \A c \in Admissions : calls[c] = Nothing => calls'[c] = Nothing
      /\ \A c \in Admissions :
           calls[c] # Nothing =>
             /\ calls'[c].key = calls[c].key /\ calls'[c].tenant = calls[c].tenant
             /\ calls'[c].sip = calls[c].sip
  BY DEF StepOf, CallsGrow
<1>2. CallsUnique'
  BY <1>0, <1>1 DEF CallsUnique
<1>3. CallsOfTenants'
  BY <1>0, <1>1 DEF CallsOfTenants
<1> QED
  BY <1>2, <1>3

LEMMA DoomedStays ==
  ASSUME AdmissionInv, NEW q \in Admissions, StepOf(q), NEW c \in Admissions, IsSession(c), Doomed(c),
         req[q].call = c /\ req[q].at \in {"clean", "fail"} => Doomed(c)'
  PROVE  Doomed(c)'
<1>0. /\ \A p \in Admissions \ {q} : req'[p] = req[p]
      /\ calls[c].status = "failed" => calls'[c].status = "failed"
      /\ c \in abandoned => c \in abandoned'
  BY DEF StepOf, CallsGrow, IsSession
<1>1. CASE calls[c].status = "failed" \/ c \in abandoned
  BY <1>0, <1>1 DEF Doomed
<1>2. CASE \E p \in Admissions : req[p].call = c /\ req[p].at \in {"clean", "fail"}
  <2>1. PICK p \in Admissions : req[p].call = c /\ req[p].at \in {"clean", "fail"}
    BY <1>2
  <2>2. CASE p = q
    BY <2>1, <2>2
  <2>3. CASE p # q
    BY <1>0, <2>1, <2>3 DEF Doomed
  <2> QED
    BY <2>2, <2>3
<1> QED
  BY <1>1, <1>2 DEF Doomed

\* A step of a request for another call.
LEMMA Elsewhere ==
  ASSUME AdmissionInv, NEW q \in Admissions, StepOf(q), NEW c \in Admissions, IsSession(c),
         req[q].call # c, req'[q].call # c, calls'[c].dispatch = calls[c].dispatch,
         \A d \in Admissions : req[d].call = c => (d \in dispatches' <=> d \in dispatches),
         dispatches' \subseteq Admissions
  PROVE  Doomed(c)' \/ Agent(c)'
<1>0. /\ Doomed(c) \/ Agent(c)
      /\ dispatches \subseteq Admissions
      /\ calls[c] \in Rows
  BY DEF AdmissionInv, SessionsOk, AdmissionTypeOK, IsSession
<1>1. \A p \in Admissions \ {q} : req'[p] = req[p]
  BY DEF StepOf
<1>2. CASE Doomed(c)
  BY <1>2, DoomedStays
<1>3. CASE Agent(c)
  <2>1. \A d \in dispatches' :
          req'[d].call = c => d = calls'[c].dispatch \/ req'[d].at \in {"set", "drop"}
    BY <1>0, <1>1, <1>3 DEF Agent
  <2>2. \A d \in Admissions : req'[d].call = c /\ req'[d].at = "set" => d \in dispatches'
    BY <1>0, <1>1, <1>3 DEF Agent
  <2>3. calls'[c].dispatch = Nothing =>
          \E p \in Admissions : req'[p].call = c /\ req'[p].at \in {"dispatch", "set"}
    BY <1>1, <1>3 DEF Agent
  <2>4. calls'[c].dispatch # Nothing =>
          calls'[c].dispatch \in dispatches' /\ req'[calls'[c].dispatch].call = c
    BY <1>0, <1>1, <1>3 DEF Agent
  <2> QED
    BY <2>1, <2>2, <2>3, <2>4 DEF Agent
<1> QED
  BY <1>0, <1>2, <1>3

\* A step that leaves the calls and the dispatches alone, of a request that has no
\* call.
LEMMA QuietRequest ==
  ASSUME AdmissionInv, NEW q \in Admissions, StepOf(q), AdmissionTypeOK', RequestOk(q)',
         calls' = calls, dispatches' = dispatches, req[q].call = Nothing, req'[q].call = Nothing
  PROVE  AdmissionInv'
<1>0. AdmissionAssumptions /\ Nothing \notin Admissions /\ dispatches \subseteq Admissions
  BY DEF AdmissionInv, AdmissionAssumptions, NothingAssumption, AdmissionTypeOK
<1>1. \A p \in Admissions : RequestOk(p)'
  BY OthersOk
<1>2. CallsUnique' /\ CallsOfTenants'
  BY CallsStay
<1>3. ASSUME NEW c \in Admissions, IsSession(c)' PROVE Doomed(c)' \/ Agent(c)'
  <2>1. IsSession(c)
    BY <1>3 DEF IsSession
  <2>2. req[q].call # c /\ req'[q].call # c
    BY <1>0
  <2> QED
    BY <1>0, <2>1, <2>2, Elsewhere
<1>4. SessionsOk'
  BY <1>3 DEF SessionsOk
<1>5. AdmissionAssumptions'
  BY <1>0 DEF AdmissionAssumptions, KeysAssumption, NothingAssumption, BoundsAssumption
<1> QED
  BY <1>1, <1>2, <1>4, <1>5 DEF AdmissionInv

-----------------------------------------------------------------------------
(***************************************************************************)
(* The transaction that stores a call.                                     *)
(***************************************************************************)
LEMMA AtOf ==
  ASSUME AdmissionTypeOK, NEW q \in Admissions,
         NEW step \in {"idle"} \union InTransaction \union SettingUp \union Ended,
         At(q, step)
  PROVE  /\ req' \in [Admissions -> ReqType]
         /\ req'[q].at = step /\ req'[q].ask = req[q].ask /\ req'[q].tenant = req[q].tenant
         /\ req'[q].call = req[q].call
         /\ \A p \in Admissions \ {q} : req'[p] = req[p]
BY DEF AdmissionTypeOK, At, ReqType

LEMMA UnlockedOf ==
  ASSUME AdmissionTypeOK, NEW q \in Admissions
  PROVE  Unlocked(q) \in [Tenants -> Admissions \union {Nothing}]
BY DEF AdmissionTypeOK, Unlocked

\* The request has its call.
Given(q, c, step) == req' = [req EXCEPT ![q].call = c, ![q].at = step]

LEMMA GivenCall ==
  ASSUME AdmissionTypeOK, NEW q \in Admissions, NEW c \in Admissions,
         NEW step \in SettingUp \union Ended, Given(q, c, step)
  PROVE  /\ req' \in [Admissions -> ReqType] /\ \A p \in Admissions \ {q} : req'[p] = req[p]
         /\ req'[q].at = step /\ req'[q].call = c
         /\ req'[q].tenant = req[q].tenant /\ req'[q].ask = req[q].ask
<1> DEFINE old == req[q]
           new == [old EXCEPT !.call = c, !.at = step]
<1>1. req \in [Admissions -> ReqType] /\ old \in ReqType
  BY DEF AdmissionTypeOK, ReqType
<1>2. req' = [req EXCEPT ![q] = new]
  BY DEF Given
<1> HIDE DEF old
<1>3. /\ new \in ReqType /\ new.at = step /\ new.call = c
      /\ new.tenant = old.tenant /\ new.ask = old.ask
  BY <1>1 DEF ReqType
<1> HIDE DEF new
<1>4. req' \in [Admissions -> ReqType] /\ req'[q] = new /\ \A p \in Admissions \ {q} : req'[p] = req[p]
  BY <1>1, <1>2, <1>3
<1> QED
  BY <1>3, <1>4 DEF old

\* A step of a transaction stores no call.
InTxStep(q) ==
  /\ req[q].at \in {"idle"} \union InTransaction
  /\ req' \in [Admissions -> ReqType] /\ \A p \in Admissions \ {q} : req'[p] = req[p]
  /\ req'[q].call = Nothing
  /\ executions' \in [Keys -> Tenants \union {Nothing}]
  /\ \A k \in Keys : executions[k] # Nothing => executions'[k] = executions[k]
  /\ lock' \in [Tenants -> Admissions \union {Nothing}]
  /\ UNCHANGED << route, calls, dispatches, abandoned, moves >> /\ faults' \in 0 .. MaxFaults

\* It goes on as the invariant asks.
GoesOn(q) ==
  /\ req'[q].at \in InTransaction \union {"refused", "failed"}
  /\ req'[q].ask \in Asks /\ (req'[q].ask \in Tests => req'[q].tenant = req'[q].ask.tenant)
  /\ req'[q].at = "route" => req'[q].ask \notin Tests
  /\ req'[q].at \in {"lock", "execute", "store"} => req'[q].tenant \in Tenants
  /\ req'[q].at = "store" => executions'[Key(q)'] = req'[q].tenant

LEMMA InTxKeeps ==
  ASSUME AdmissionInv, NEW q \in Admissions, InTxStep(q), GoesOn(q)
  PROVE  AdmissionInv'
<1>0. /\ AdmissionTypeOK /\ Nothing \notin Admissions /\ req[q].call = Nothing /\ calls[q] = Nothing
      /\ q \notin dispatches /\ \A c \in Admissions : calls[c] = Nothing \/ calls[c] \in Rows
  BY DEF AdmissionInv, AdmissionAssumptions, NothingAssumption, AdmissionTypeOK, RequestOk, InTxStep
<1>1. StepOf(q)
  BY <1>0 DEF InTxStep, StepOf, CallsGrow, AdmissionTypeOK
<1>2. AdmissionTypeOK'
  BY <1>0 DEF InTxStep, AdmissionTypeOK, ReqType
<1>3. RequestOk(q)'
  BY <1>0 DEF InTxStep, GoesOn, RequestOk, IsTest, SettingUp, InTransaction
<1> QED
  BY <1>0, <1>1, <1>2, <1>3, QuietRequest DEF InTxStep

\* A transaction that ends without a call.
LEMMA EndKeeps ==
  ASSUME AdmissionInv, NEW q \in Admissions, req[q].at \in InTransaction,
         NEW how \in {"refused", "failed"}, EndRequest(q, how),
         UNCHANGED << route, executions, calls, dispatches, abandoned, moves >>,
         faults' \in 0 .. MaxFaults
  PROVE  AdmissionInv'
<1>0. AdmissionTypeOK /\ RequestOk(q) /\ req[q].call = Nothing /\ req[q].at # "idle"
  BY DEF AdmissionInv, RequestOk, InTransaction
<1>1. how \in {"idle"} \union InTransaction \union SettingUp \union Ended
  BY DEF Ended
<1>2. /\ req' \in [Admissions -> ReqType]
      /\ req'[q].at = how /\ req'[q].ask = req[q].ask /\ req'[q].tenant = req[q].tenant
      /\ req'[q].call = req[q].call
      /\ \A p \in Admissions \ {q} : req'[p] = req[p]
  BY <1>0, <1>1, AtOf DEF EndRequest
<1>3. InTxStep(q)
  BY <1>0, <1>2, UnlockedOf DEF InTxStep, AdmissionTypeOK, EndRequest
<1>4. GoesOn(q)
  BY <1>0, <1>2 DEF GoesOn, RequestOk, IsTest, InTransaction
<1> QED
  BY <1>3, <1>4, InTxKeeps

LEMMA SendKeeps ==
  ASSUME AdmissionInv, NEW q \in Admissions, NEW ask \in Asks, Send(q, ask)
  PROVE  AdmissionInv'
<1> DEFINE tenant == IF ask \in Tests THEN ask.tenant ELSE Nothing
           new == [at |-> "lookup", ask |-> ask, call |-> Nothing, tenant |-> tenant]
<1>0. AdmissionTypeOK /\ req[q].at = "idle" /\ faults \in 0 .. MaxFaults /\ req' = [req EXCEPT ![q] = new]
  BY DEF AdmissionInv, AdmissionTypeOK, Send
<1>1. tenant \in Tenants \union {Nothing} /\ (ask \in Tests => tenant = ask.tenant)
  BY DEF Tests
<1> HIDE DEF tenant
<1>2. new \in ReqType
  BY <1>1 DEF ReqType, InTransaction
<1>3. req' \in [Admissions -> ReqType] /\ req'[q] = new /\ \A p \in Admissions \ {q} : req'[p] = req[p]
  <2> HIDE DEF new
  <2> QED
    BY <1>0, <1>2 DEF AdmissionTypeOK, ReqType
<1>4. InTxStep(q)
  BY <1>0, <1>3 DEF InTxStep, Send, AdmissionTypeOK
<1>5. GoesOn(q)
  BY <1>1, <1>3 DEF GoesOn, InTransaction
<1> QED
  BY <1>4, <1>5, InTxKeeps

LEMMA RouteKeeps ==
  ASSUME AdmissionInv, NEW q \in Admissions, Route(q)
  PROVE  AdmissionInv'
<1>0. /\ AdmissionTypeOK /\ req[q].at = "route" /\ req[q].call = Nothing /\ req[q].ask \in Asks
      /\ ~IsTest(q)
      /\ req' = [req EXCEPT ![q].at = IF route = Nothing THEN "refused" ELSE "lock", ![q].tenant = route]
      /\ UNCHANGED << route, executions, calls, lock, dispatches, abandoned, moves, faults >>
  BY DEF AdmissionInv, RequestOk, AdmissionTypeOK, Route, InTransaction
<1>1. /\ req' \in [Admissions -> ReqType] /\ \A p \in Admissions \ {q} : req'[p] = req[p]
      /\ req'[q].at = (IF route = Nothing THEN "refused" ELSE "lock") /\ req'[q].tenant = route
      /\ req'[q].ask = req[q].ask /\ req'[q].call = Nothing
  BY <1>0 DEF AdmissionTypeOK, ReqType, InTransaction, Ended
<1>2. InTxStep(q)
  BY <1>0, <1>1 DEF InTxStep, AdmissionTypeOK, InTransaction
<1>3. GoesOn(q)
  BY <1>0, <1>1 DEF GoesOn, AdmissionTypeOK, InTransaction, IsTest
<1> QED
  BY <1>2, <1>3, InTxKeeps

LEMMA LockKeeps ==
  ASSUME AdmissionInv, NEW q \in Admissions, Lock(q)
  PROVE  AdmissionInv'
<1>0. /\ AdmissionTypeOK /\ req[q].at = "lock" /\ req[q].call = Nothing /\ req[q].ask \in Asks
      /\ req[q].tenant \in Tenants /\ (IsTest(q) => req[q].tenant = req[q].ask.tenant)
      /\ At(q, "execute") /\ lock' = [lock EXCEPT ![req[q].tenant] = q]
      /\ UNCHANGED << route, executions, calls, dispatches, abandoned, moves, faults >>
  BY DEF AdmissionInv, RequestOk, AdmissionTypeOK, Lock, InTransaction
<1>1. /\ req' \in [Admissions -> ReqType] /\ \A p \in Admissions \ {q} : req'[p] = req[p]
      /\ req'[q].at = "execute" /\ req'[q].tenant = req[q].tenant
      /\ req'[q].ask = req[q].ask /\ req'[q].call = Nothing
  BY <1>0, AtOf DEF InTransaction
<1>2. InTxStep(q)
  BY <1>0, <1>1 DEF InTxStep, AdmissionTypeOK, InTransaction
<1>3. GoesOn(q)
  BY <1>0, <1>1 DEF GoesOn, InTransaction, IsTest
<1> QED
  BY <1>2, <1>3, InTxKeeps

LEMMA ExecuteKeeps ==
  ASSUME AdmissionInv, NEW q \in Admissions, Execute(q)
  PROVE  AdmissionInv'
<1>0. /\ AdmissionTypeOK /\ req[q].at = "execute" /\ req[q].call = Nothing /\ req[q].ask \in Asks
      /\ req[q].tenant \in Tenants /\ (IsTest(q) => req[q].tenant = req[q].ask.tenant)
      /\ UNCHANGED << route, calls, dispatches, abandoned, moves, faults >>
      /\ faults \in 0 .. MaxFaults /\ Nothing \notin Tenants
  BY DEF AdmissionInv, AdmissionAssumptions, NothingAssumption, RequestOk, AdmissionTypeOK,
         Execute, InTransaction
<1>1. CASE EndRequest(q, "refused") /\ UNCHANGED executions
  BY <1>0, <1>1, EndKeeps DEF InTransaction
<1>2. CASE /\ ExecutionFits(q)
           /\ executions' = [executions EXCEPT ![Key(q)] = IF @ = Nothing THEN req[q].tenant ELSE @]
           /\ At(q, "store") /\ UNCHANGED lock
  <2>1. /\ req' \in [Admissions -> ReqType] /\ \A p \in Admissions \ {q} : req'[p] = req[p]
        /\ req'[q].at = "store" /\ req'[q].tenant = req[q].tenant
        /\ req'[q].ask = req[q].ask /\ req'[q].call = Nothing
    BY <1>0, <1>2, AtOf DEF InTransaction
  <2>2. Key(q)' = Key(q) /\ Key(q) \in Keys
    BY <1>0, <2>1, SameAsk, KeyKinds DEF AdmissionInv
  <2>3. /\ executions' \in [Keys -> Tenants \union {Nothing}]
        /\ \A k \in Keys : executions[k] # Nothing => executions'[k] = executions[k]
        /\ executions'[Key(q)] = req[q].tenant
    BY <1>0, <1>2, <2>2 DEF AdmissionTypeOK, ExecutionFits
  <2>4. InTxStep(q)
    BY <1>0, <1>2, <2>1, <2>3 DEF InTxStep, AdmissionTypeOK, InTransaction
  <2>5. GoesOn(q)
    BY <1>0, <2>1, <2>2, <2>3 DEF GoesOn, InTransaction, IsTest
  <2> QED
    BY <2>4, <2>5, InTxKeeps
<1> QED
  BY <1>1, <1>2 DEF Execute

LEMMA FitsAsk ==
  ASSUME NEW q \in Admissions, NEW c \in Admissions, req[q].ask \in Asks, Fits(q, c)
  PROVE  /\ IsClaim(q) => calls[c].sip = req[q].ask.sip
         /\ IsTest(q) => calls[c].tenant = req[q].ask.tenant
<1>1. /\ IsTest(q) => ~IsClaim(q) /\ req[q].ask \notin Creates
      /\ IsClaim(q) => req[q].ask \notin Creates
  <2>1. PICK ask \in Asks : ask = req[q].ask
    OBVIOUS
  <2> QED
    BY <2>1, AskKinds DEF IsTest, IsClaim
<1>2. CASE IsClaim(q)
  BY <1>1, <1>2 DEF Fits
<1>3. CASE IsTest(q)
  BY <1>1, <1>3 DEF Fits
<1> QED
  BY <1>2, <1>3

\* The call is there.
LEMMA FoundKeeps ==
  ASSUME AdmissionInv, NEW q \in Admissions, req[q].at \in InTransaction, NEW c \in Admissions,
         calls[c] # Nothing, ~IsClaim(q) => calls[c].key = Key(q), Found(q, c),
         UNCHANGED << route, executions, dispatches, abandoned, moves, faults >>
  PROVE  AdmissionInv'
<1>0. /\ AdmissionTypeOK /\ AdmissionAssumptions /\ Nothing \notin Admissions /\ req[q].call = Nothing
      /\ calls[q] = Nothing /\ q \notin dispatches /\ req[q].ask \in Asks
      /\ faults \in 0 .. MaxFaults
      /\ calls[c] \in Rows /\ (IsTest(q) => req[q].tenant = req[q].ask.tenant)
      /\ Nothing \notin Rows
  BY DEF AdmissionInv, AdmissionAssumptions, NothingAssumption, RequestOk, AdmissionTypeOK,
         InTransaction
<1>1. CASE EndRequest(q, "refused") /\ UNCHANGED calls
  BY <1>0, <1>1, EndKeeps
<1>2. CASE /\ Fits(q, c)
           /\ req' = [req EXCEPT ![q].call = c,
                                 ![q].at = IF IsTest(q) /\ calls[c].dispatch = Nothing
                                           THEN "dispatch" ELSE "answered"]
           /\ calls' = IF IsClaim(q) THEN [calls EXCEPT ![c].full = @ \/ req[q].ask.full] ELSE calls
           /\ lock' = Unlocked(q)
  <2>1. /\ req' \in [Admissions -> ReqType] /\ \A p \in Admissions \ {q} : req'[p] = req[p]
        /\ req'[q].at = (IF IsTest(q) /\ calls[c].dispatch = Nothing THEN "dispatch" ELSE "answered")
        /\ req'[q].tenant = req[q].tenant /\ req'[q].ask = req[q].ask /\ req'[q].call = c
    <3> DEFINE step == IF IsTest(q) /\ calls[c].dispatch = Nothing THEN "dispatch" ELSE "answered"
    <3>1. step \in SettingUp \union Ended
      BY DEF SettingUp, Ended
    <3>2. Given(q, c, step)
      BY <1>2 DEF Given
    <3> HIDE DEF step
    <3>3. req'[q].at = step
      BY <1>0, <3>1, <3>2, GivenCall
    <3> QED
      BY <1>0, <3>1, <3>2, <3>3, GivenCall DEF step
  <2>2. /\ calls' \in [Admissions -> Rows \union {Nothing}]
        /\ \A e \in Admissions : calls[e] = Nothing <=> calls'[e] = Nothing
        /\ \A e \in Admissions : calls[e] # Nothing =>
             /\ calls'[e].key = calls[e].key /\ calls'[e].tenant = calls[e].tenant
             /\ calls'[e].sip = calls[e].sip /\ calls'[e].status = calls[e].status
             /\ calls'[e].dispatch = calls[e].dispatch
    <3>1. CASE ~IsClaim(q)
      BY <1>0, <1>2, <3>1 DEF AdmissionTypeOK
    <3>2. CASE IsClaim(q)
      <4>1. req[q].ask.full \in BOOLEAN
        BY <3>2 DEF IsClaim, Claims
      <4> DEFINE new == [calls[c] EXCEPT !.full = calls[c].full \/ req[q].ask.full]
      <4>2. calls' = [calls EXCEPT ![c] = new]
        BY <1>2, <3>2
      <4>3. /\ new \in Rows /\ new.key = calls[c].key /\ new.tenant = calls[c].tenant
            /\ new.sip = calls[c].sip /\ new.status = calls[c].status
            /\ new.dispatch = calls[c].dispatch
        BY <1>0, <4>1 DEF Rows
      <4> HIDE DEF new
      <4> QED
        BY <1>0, <4>2, <4>3 DEF AdmissionTypeOK
    <3> QED
      BY <3>1, <3>2
  <2>3. StepOf(q)
    BY <1>0, <1>2, <2>1, <2>2 DEF StepOf, CallsGrow
  <2>4. AdmissionTypeOK'
    BY <1>0, <1>2, <2>1, <2>2, UnlockedOf DEF AdmissionTypeOK, ReqType
  <2>5. /\ Key(q)' = Key(q)
        /\ IsClaim(q)' <=> IsClaim(q)
        /\ IsTest(q)' <=> IsTest(q)
    BY <2>1, SameAsk
  <2>6. /\ IsClaim(q) => calls[c].sip = req[q].ask.sip
        /\ IsTest(q) => calls[c].tenant = req[q].ask.tenant
    BY <1>0, <1>2, FitsAsk
  <2>7. RequestOk(q)'
    <3>1. Answers(q, c)'
      BY <1>0, <2>1, <2>2, <2>5, <2>6 DEF Answers
    <3>2. calls'[c] # Nothing /\ (IsTest(q) => calls'[c].tenant = req[q].ask.tenant)
      BY <2>2, <2>6
    <3>3. req'[q].at \in {"dispatch", "answered"} /\ (req'[q].at = "dispatch" => IsTest(q))
      BY <2>1
    <3>4. req'[q].at = "dispatch" => calls'[c].dispatch # q
      BY <1>0, <2>1, <2>2
    <3>5. Answers(q, req[q].call)'
      BY <2>1, <3>1 DEF Answers
    <3> QED
      BY <1>0, <2>1, <2>5, <3>2, <3>3, <3>4, <3>5 DEF RequestOk, InTransaction, SettingUp
  <2>8. ASSUME NEW e \in Admissions, IsSession(e)' PROVE Doomed(e)' \/ Agent(e)'
    <3>1. IsSession(e)
      BY <2>2, <2>8 DEF IsSession
    <3>2. CASE e # c
      BY <1>0, <2>1, <2>2, <2>3, <3>1, <3>2, Elsewhere DEF AdmissionTypeOK, IsSession
    <3>3. CASE e = c /\ Doomed(c)
      BY <1>0, <2>3, <3>1, <3>3, DoomedStays
    <3>4. CASE e = c /\ Agent(c)
      <4>0. /\ calls'[c].dispatch = calls[c].dispatch /\ dispatches' = dispatches
            /\ \A p \in dispatches : p # q
        BY <1>0, <2>2
      <4>1. \A d \in dispatches' :
              req'[d].call = c => d = calls'[c].dispatch \/ req'[d].at \in {"set", "drop"}
        BY <1>0, <2>1, <3>4, <4>0 DEF Agent, AdmissionTypeOK
      <4>2. \A d \in Admissions : req'[d].call = c /\ req'[d].at = "set" => d \in dispatches'
        BY <2>1, <3>4, <4>0 DEF Agent
      <4>3. calls'[c].dispatch = Nothing =>
              \E p \in Admissions : req'[p].call = c /\ req'[p].at \in {"dispatch", "set"}
        BY <1>0, <2>1, <3>4, <4>0 DEF Agent
      <4>4. calls'[c].dispatch # Nothing =>
              calls'[c].dispatch \in dispatches' /\ req'[calls'[c].dispatch].call = c
        BY <1>0, <2>1, <3>4, <4>0 DEF Agent, AdmissionTypeOK
      <4> QED
        BY <3>4, <4>1, <4>2, <4>3, <4>4 DEF Agent
    <3> QED
      BY <3>1, <3>2, <3>3, <3>4 DEF AdmissionInv, SessionsOk
  <2> QED
    BY <1>0, <2>2, <2>3, <2>4, <2>7, <2>8, OthersOk, CallsStay
       DEF AdmissionInv, SessionsOk, AdmissionAssumptions, KeysAssumption,
           NothingAssumption, BoundsAssumption
<1> QED
  BY <1>1, <1>2 DEF Found

LEMMA LookupKeeps ==
  ASSUME AdmissionInv, NEW q \in Admissions, Lookup(q)
  PROVE  AdmissionInv'
<1>0. /\ AdmissionTypeOK /\ req[q].at = "lookup" /\ req[q].at \in InTransaction
      /\ req[q].call = Nothing
      /\ req[q].ask \in Asks /\ (IsTest(q) => req[q].tenant = req[q].ask.tenant)
      /\ UNCHANGED << route, executions, dispatches, abandoned, moves, faults >>
  BY DEF AdmissionInv, AdmissionTypeOK, RequestOk, Lookup, InTransaction
<1>1. \/ \E c \in (IF IsClaim(q) THEN BySip(q) ELSE ByKey(q)) : Found(q, c)
      \/ At(q, IF IsTest(q) THEN "lock" ELSE "route") /\ UNCHANGED << calls, lock >>
  BY DEF Lookup
<1>2. ASSUME NEW c \in (IF IsClaim(q) THEN BySip(q) ELSE ByKey(q)), Found(q, c)
      PROVE  AdmissionInv'
  <2>1. c \in Admissions /\ calls[c] # Nothing /\ (~IsClaim(q) => calls[c].key = Key(q))
    BY DEF BySip, ByKey
  <2> QED
    BY <1>0, <1>2, <2>1, FoundKeeps
<1>3. ASSUME At(q, IF IsTest(q) THEN "lock" ELSE "route"), UNCHANGED << calls, lock >>
      PROVE  AdmissionInv'
  <2> DEFINE step == IF IsTest(q) THEN "lock" ELSE "route"
  <2>1. step \in InTransaction /\ step # "store" /\ (step = "route" => ~IsTest(q))
        /\ (step \in {"lock", "execute", "store"} => IsTest(q))
    BY DEF InTransaction
  <2> HIDE DEF step
  <2>2. /\ req' \in [Admissions -> ReqType] /\ \A p \in Admissions \ {q} : req'[p] = req[p]
        /\ req'[q].at = step /\ req'[q].tenant = req[q].tenant
        /\ req'[q].ask = req[q].ask /\ req'[q].call = Nothing
    <3>1. At(q, step)
      BY <1>3 DEF step
    <3> QED
      BY <1>0, <2>1, <3>1, AtOf
  <2>3. InTxStep(q)
    BY <1>0, <1>3, <2>2 DEF InTxStep, AdmissionTypeOK
  <2>4. IsTest(q) => req[q].ask.tenant \in Tenants
    BY DEF IsTest, Tests
  <2>5. GoesOn(q)
    BY <1>0, <2>1, <2>2, <2>4 DEF GoesOn, IsTest
  <2> QED
    BY <2>3, <2>5, InTxKeeps
<1> QED
  BY <1>1, <1>2, <1>3

\* The call is stored.
LEMMA StoreNew ==
  ASSUME AdmissionInv, NEW q \in Admissions, req[q].at = "store", Existing(q) = {},
         calls' = [calls EXCEPT ![q] = NewCall(q)],
         req' = [req EXCEPT ![q].call = q, ![q].at = IF IsTest(q) THEN "dispatch" ELSE "answered"],
         lock' = Unlocked(q), UNCHANGED << route, executions, dispatches, abandoned, moves, faults >>
  PROVE  AdmissionInv'
<1> DEFINE step == IF IsTest(q) THEN "dispatch" ELSE "answered"
           new == NewCall(q)
<1>0. /\ AdmissionTypeOK /\ AdmissionAssumptions /\ Nothing \notin Admissions /\ Nothing \notin Rows
      /\ Nothing \notin SipCalls
      /\ req[q].call = Nothing /\ calls[q] = Nothing /\ q \notin dispatches /\ req[q].ask \in Asks
      /\ req[q].tenant \in Tenants /\ executions[Key(q)] = req[q].tenant
      /\ (IsTest(q) => req[q].tenant = req[q].ask.tenant)
      /\ CallsUnique /\ CallsOfTenants /\ SessionsOk
      /\ dispatches \subseteq Admissions /\ \A d \in Admissions : RequestOk(d)
  BY DEF AdmissionInv, AdmissionAssumptions, NothingAssumption, RequestOk, AdmissionTypeOK,
         InTransaction
<1>1. /\ step \in SettingUp \union Ended /\ (IsTest(q) <=> step = "dispatch")
      /\ step \in {"dispatch", "answered"}
  BY DEF SettingUp, Ended
<1>2. /\ req' \in [Admissions -> ReqType] /\ \A p \in Admissions \ {q} : req'[p] = req[p]
      /\ req'[q].at = step /\ req'[q].tenant = req[q].tenant
      /\ req'[q].ask = req[q].ask /\ req'[q].call = q
  <2>1. Given(q, q, step)
    BY DEF Given
  <2> HIDE DEF step
  <2> QED
    BY <1>0, <1>1, <2>1, GivenCall
<1>3. /\ Key(q) \in Keys
      /\ IsTest(q) => ~IsClaim(q) /\ Key(q) \in TestKeys \union Admissions
      /\ ~IsTest(q) => Key(q) \notin TestKeys \union Admissions
  BY <1>0, KeyKinds
<1>4. /\ new \in Rows /\ new # Nothing /\ new.tenant = req[q].tenant /\ new.key = Key(q)
      /\ new.dispatch = Nothing
      /\ IsClaim(q) => new.sip = req[q].ask.sip
      /\ ~IsClaim(q) => new.sip = Nothing
  <2>1. IsClaim(q) => req[q].ask.sip \in SipCalls /\ req[q].ask.full \in BOOLEAN
    BY DEF IsClaim, Claims
  <2>2. IsClaim(q) \in BOOLEAN
    BY DEF IsClaim
  <2>3. (IsClaim(q) /\ req[q].ask.full) \in BOOLEAN
    OBVIOUS
  <2>4. (IF IsClaim(q) THEN req[q].ask.sip ELSE Nothing) \in SipCalls \union {Nothing}
    BY <2>1
  <2>5. new \in Rows
    BY <1>0, <1>3, <2>3, <2>4 DEF NewCall, Rows
  <2> QED
    BY <1>0, <2>5 DEF NewCall
<1> HIDE DEF step, new
<1>5. /\ calls' \in [Admissions -> Rows \union {Nothing}] /\ calls'[q] = new
      /\ \A e \in Admissions \ {q} : calls'[e] = calls[e]
  <2>1. calls' = [calls EXCEPT ![q] = new]
    BY DEF new
  <2> QED
    BY <1>0, <1>4, <2>1 DEF AdmissionTypeOK
<1>6. StepOf(q)
  BY <1>0, <1>2, <1>5 DEF StepOf, CallsGrow
<1>7. AdmissionTypeOK'
  BY <1>0, <1>2, <1>5, UnlockedOf DEF AdmissionTypeOK, ReqType
<1>8. /\ Key(q)' = Key(q)
      /\ IsClaim(q)' <=> IsClaim(q)
      /\ IsTest(q)' <=> IsTest(q)
  BY <1>2, SameAsk
<1>9. RequestOk(q)'
  <2>1. Answers(q, q)'
    BY <1>2, <1>4, <1>5, <1>8 DEF Answers
  <2>2. Answers(q, req[q].call)'
    BY <1>2, <2>1 DEF Answers
  <2>3. /\ calls'[req'[q].call] = new /\ req'[q].call # Nothing
        /\ req'[q].at \in {"dispatch", "answered"}
        /\ new.dispatch # q
    BY <1>0, <1>1, <1>2, <1>4, <1>5
  <2> QED
    BY <1>0, <1>1, <1>2, <1>4, <1>8, <2>2, <2>3 DEF RequestOk, InTransaction, SettingUp
<1>10. BySip(q) = {} /\ ByKey(q) = {}
  BY DEF Existing
<1>11. ASSUME NEW e \in Admissions \ {q}, calls[e] # Nothing
       PROVE  calls[e].key # Key(q) /\ (IsClaim(q) => calls[e].sip # req[q].ask.sip)
  BY <1>10, <1>11 DEF BySip, ByKey
<1>12. CallsUnique'
  BY <1>0, <1>4, <1>5, <1>11 DEF CallsUnique
<1>13. CallsOfTenants'
  BY <1>0, <1>4, <1>5 DEF CallsOfTenants
<1>14. ASSUME NEW e \in Admissions, IsSession(e)' PROVE Doomed(e)' \/ Agent(e)'
  <2>1. CASE e # q
    <3>1. IsSession(e)
      BY <1>5, <1>14, <2>1 DEF IsSession
    <3> QED
      BY <1>0, <1>2, <1>5, <1>6, <2>1, <3>1, Elsewhere
  <2>2. CASE e = q
    <3>1. IsTest(q)
      BY <1>3, <1>4, <1>5, <1>14, <2>2 DEF IsSession
    <3>2. ASSUME NEW d \in Admissions \ {q} PROVE req'[d].call # q
      BY <1>0, <1>2 DEF RequestOk
    <3>3. req'[q].at = "dispatch" /\ calls'[q].dispatch = Nothing
      BY <1>1, <1>2, <1>4, <1>5, <3>1
    <3>4. Agent(q)'
      BY <1>0, <1>2, <3>2, <3>3 DEF Agent
    <3> QED
      BY <2>2, <3>4
  <2> QED
    BY <2>1, <2>2
<1> QED
  BY <1>0, <1>6, <1>7, <1>9, <1>12, <1>13, <1>14, OthersOk
     DEF AdmissionInv, SessionsOk, AdmissionAssumptions, KeysAssumption, NothingAssumption,
         BoundsAssumption

LEMMA StoreKeeps ==
  ASSUME AdmissionInv, NEW q \in Admissions, Store(q)
  PROVE  AdmissionInv'
<1>0. /\ req[q].at = "store" /\ req[q].at \in InTransaction
      /\ UNCHANGED << route, executions, dispatches, abandoned, moves, faults >>
  BY DEF Store, InTransaction
<1>1. ASSUME NEW c \in Existing(q), Found(q, c) PROVE AdmissionInv'
  <2>1. c \in Admissions /\ calls[c] # Nothing /\ (~IsClaim(q) => calls[c].key = Key(q))
    BY DEF Existing, BySip, ByKey
  <2> QED
    BY <1>0, <1>1, <2>1, FoundKeeps
<1> QED
  BY <1>0, <1>1, StoreNew DEF Store

LEMMA LoseKeeps ==
  ASSUME AdmissionInv, NEW q \in Admissions, Lose(q)
  PROVE  AdmissionInv'
<1>1. faults' \in 0 .. MaxFaults
  BY DEF AdmissionInv, AdmissionAssumptions, BoundsAssumption, AdmissionTypeOK, Lose,
         Fault
<1> QED
  BY <1>1, EndKeeps DEF Lose

-----------------------------------------------------------------------------
(***************************************************************************)
(* The dispatch of a test session.                                         *)
(***************************************************************************)
\* A step of a request that sets up its session c.
SetsUp(q, c) ==
  /\ req[q].at \in SettingUp /\ req[q].call = c /\ c \in Admissions
  /\ req'[q].at \in {"set", "drop", "clean", "fail", "answered", "failed"} /\ At(q, req'[q].at)
  /\ UNCHANGED Other /\ faults' \in 0 .. MaxFaults
  /\ abandoned \subseteq abandoned' /\ abandoned' \subseteq abandoned \union {c}
  /\ dispatches' \subseteq dispatches \union {q}
  /\ \A d \in Admissions : req[d].call # c => (d \in dispatches' <=> d \in dispatches)
  /\ \/ calls' = calls
     \/ calls[c].dispatch = Nothing /\ calls' = [calls EXCEPT ![c].dispatch = q]
     \/ calls' = [calls EXCEPT ![c].status = "failed"]
  /\ req'[q].at = "set" => calls'[c].dispatch # q
  /\ req'[q].at = "drop" => calls'[c].dispatch \notin {q, Nothing}

LEMMA SettingUpSession ==
  ASSUME AdmissionInv, NEW q \in Admissions, req[q].at \in SettingUp
  PROVE  /\ req[q].call \in Admissions /\ req[q].call # Nothing /\ calls[req[q].call] \in Rows
         /\ IsSession(req[q].call) /\ IsTest(q) /\ Answers(q, req[q].call)
         /\ Doomed(req[q].call) \/ Agent(req[q].call)
<1>0. /\ AdmissionTypeOK /\ RequestOk(q) /\ AdmissionAssumptions /\ SessionsOk
      /\ req[q].at # "idle" /\ req[q].at \in SettingUp \union {"answered"}
  BY DEF AdmissionInv, SettingUp
<1>1. PICK c \in Admissions : c = req[q].call
  BY <1>0 DEF AdmissionTypeOK, RequestOk
<1>2. /\ IsTest(q) /\ c # Nothing /\ Answers(q, c) /\ calls[c] # Nothing
      /\ req[q].ask \in Asks
  BY <1>0, <1>1 DEF RequestOk
<1>3. calls[c].key = Key(q) /\ Key(q) \in TestKeys \union Admissions
  BY <1>0, <1>2, KeyKinds DEF Answers
<1>4. IsSession(c) /\ calls[c] \in Rows
  BY <1>0, <1>2, <1>3 DEF IsSession, AdmissionTypeOK
<1>5. Doomed(c) \/ Agent(c)
  BY <1>0, <1>4 DEF SessionsOk
<1> QED
  BY <1>1, <1>2, <1>4, <1>5

LEMMA SetsUpFrame ==
  ASSUME AdmissionInv, NEW q \in Admissions, NEW c \in Admissions, SetsUp(q, c)
  PROVE  /\ StepOf(q) /\ AdmissionTypeOK'
         /\ req'[q].ask = req[q].ask /\ req'[q].call = c /\ req'[q].tenant = req[q].tenant
         /\ \A e \in Admissions : calls'[e] = Nothing <=> calls[e] = Nothing
         /\ \A e \in Admissions \ {c} : calls'[e] = calls[e]
<1>0. /\ AdmissionTypeOK /\ AdmissionAssumptions /\ Nothing \notin Rows /\ calls[c] \in Rows
      /\ req[q].call = c
      /\ req'[q].at \in {"idle"} \union InTransaction \union SettingUp \union Ended
  BY SettingUpSession DEF AdmissionInv, AdmissionAssumptions, NothingAssumption, SetsUp,
                          SettingUp, Ended
<1>1. /\ req' \in [Admissions -> ReqType] /\ \A p \in Admissions \ {q} : req'[p] = req[p]
      /\ req'[q].tenant = req[q].tenant /\ req'[q].ask = req[q].ask /\ req'[q].call = c
  BY <1>0, AtOf DEF SetsUp
<1>2. \E r \in Rows :
        /\ calls' = [calls EXCEPT ![c] = r]
        /\ r.key = calls[c].key /\ r.tenant = calls[c].tenant /\ r.sip = calls[c].sip
        /\ calls[c].status = "failed" => r.status = "failed"
        /\ calls[c].dispatch # Nothing => r.dispatch = calls[c].dispatch
        /\ r.dispatch \in {calls[c].dispatch, q}
  <2>1. CASE calls' = calls
    <3>1. calls' = [calls EXCEPT ![c] = calls[c]]
      BY <1>0, <2>1 DEF AdmissionTypeOK
    <3> QED
      BY <1>0, <3>1
  <2>2. CASE calls[c].dispatch = Nothing /\ calls' = [calls EXCEPT ![c].dispatch = q]
    <3> DEFINE r == [calls[c] EXCEPT !.dispatch = q]
    <3>1. /\ r \in Rows /\ r.key = calls[c].key /\ r.tenant = calls[c].tenant
          /\ r.sip = calls[c].sip
          /\ r.status = calls[c].status /\ r.dispatch = q
      BY <1>0 DEF Rows
    <3>2. calls' = [calls EXCEPT ![c] = r]
      BY <2>2
    <3> HIDE DEF r
    <3> QED
      BY <2>2, <3>1, <3>2
  <2>3. CASE calls' = [calls EXCEPT ![c].status = "failed"]
    <3> DEFINE r == [calls[c] EXCEPT !.status = "failed"]
    <3>1. /\ r \in Rows /\ r.key = calls[c].key /\ r.tenant = calls[c].tenant
          /\ r.sip = calls[c].sip
          /\ r.status = "failed" /\ r.dispatch = calls[c].dispatch
      BY <1>0 DEF Rows
    <3>2. calls' = [calls EXCEPT ![c] = r]
      BY <2>3
    <3> HIDE DEF r
    <3> QED
      BY <3>1, <3>2
  <2> QED
    BY <2>1, <2>2, <2>3 DEF SetsUp
<1>3. PICK r \in Rows :
        /\ calls' = [calls EXCEPT ![c] = r]
        /\ r.key = calls[c].key /\ r.tenant = calls[c].tenant /\ r.sip = calls[c].sip
        /\ calls[c].status = "failed" => r.status = "failed"
        /\ calls[c].dispatch # Nothing => r.dispatch = calls[c].dispatch
        /\ r.dispatch \in {calls[c].dispatch, q}
  BY <1>2
<1>4. /\ calls' \in [Admissions -> Rows \union {Nothing}] /\ calls'[c] = r
      /\ \A e \in Admissions \ {c} : calls'[e] = calls[e]
  BY <1>0, <1>3 DEF AdmissionTypeOK
<1>5. \A e \in Admissions : calls'[e] = Nothing <=> calls[e] = Nothing
  BY <1>0, <1>4
<1>6. CallsGrow(q)
  BY <1>0, <1>3, <1>4 DEF CallsGrow
<1>7. StepOf(q)
  BY <1>0, <1>1, <1>4, <1>6 DEF StepOf, SetsUp, Other, AdmissionTypeOK
<1>8. AdmissionTypeOK'
  BY <1>0, <1>1, <1>4 DEF SetsUp, Other, AdmissionTypeOK, ReqType
<1> QED
  BY <1>1, <1>4, <1>5, <1>7, <1>8

LEMMA SetsUpKeeps ==
  ASSUME AdmissionInv, NEW q \in Admissions, NEW c \in Admissions, SetsUp(q, c), Doomed(c)' \/ Agent(c)'
  PROVE  AdmissionInv'
<1>0. /\ AdmissionTypeOK /\ AdmissionAssumptions /\ RequestOk(q) /\ Nothing \notin Admissions
      /\ req[q].at \in SettingUp /\ req[q].call = c /\ dispatches \subseteq Admissions
      /\ req'[q].at \in {"set", "drop", "clean", "fail", "answered", "failed"}
      /\ dispatches' \subseteq Admissions
      /\ \A d \in Admissions : req[d].call # c => (d \in dispatches' <=> d \in dispatches)
      /\ req'[q].at = "set" => calls'[c].dispatch # q
      /\ req'[q].at = "drop" => calls'[c].dispatch \notin {q, Nothing}
      /\ IsTest(q) /\ Answers(q, c) /\ c # Nothing
  BY SettingUpSession DEF AdmissionInv, AdmissionAssumptions, NothingAssumption, SetsUp,
                          AdmissionTypeOK
<1>1. /\ StepOf(q) /\ AdmissionTypeOK'
      /\ req'[q].ask = req[q].ask /\ req'[q].call = c /\ req'[q].tenant = req[q].tenant
      /\ \A e \in Admissions : calls'[e] = Nothing <=> calls[e] = Nothing
      /\ \A e \in Admissions \ {c} : calls'[e] = calls[e]
  BY SetsUpFrame
<1>2. /\ Key(q)' = Key(q)
      /\ IsClaim(q)' <=> IsClaim(q)
      /\ IsTest(q)' <=> IsTest(q)
  BY <1>1, SameAsk
<1>3. /\ calls[c] # Nothing /\ calls'[c] # Nothing /\ calls'[c].key = calls[c].key
      /\ calls'[c].tenant = calls[c].tenant /\ calls'[c].sip = calls[c].sip
  BY <1>0, <1>1 DEF Answers, StepOf, CallsGrow
<1>4. Answers(q, req[q].call)'
  BY <1>0, <1>1, <1>2, <1>3 DEF Answers
<1>5. /\ req[q].ask \in Asks /\ req[q].tenant = req[q].ask.tenant
      /\ calls[c].tenant = req[q].ask.tenant
  BY <1>0 DEF RequestOk, SettingUp
<1>6. req'[q].at \notin {"idle", "route"} \union InTransaction /\ req'[q].at # "dispatch"
  BY <1>0 DEF InTransaction
<1>7. RequestOk(q)'
  BY <1>0, <1>1, <1>2, <1>3, <1>4, <1>5, <1>6 DEF RequestOk, InTransaction
<1>8. ASSUME NEW e \in Admissions, IsSession(e)' PROVE Doomed(e)' \/ Agent(e)'
  <2>1. CASE e # c
    <3>1. IsSession(e) /\ calls'[e].dispatch = calls[e].dispatch
      BY <1>1, <1>8, <2>1 DEF IsSession
    <3> QED
      BY <1>0, <1>1, <2>1, <3>1, Elsewhere
  <2> QED
    BY <2>1
<1> QED
  BY <1>0, <1>1, <1>7, <1>8, OthersOk, CallsStay
     DEF AdmissionInv, SessionsOk, AdmissionAssumptions, KeysAssumption, NothingAssumption,
         BoundsAssumption

\* What the step of a set-up starts from.
SettingUpFacts(q, c) ==
  /\ AdmissionTypeOK /\ RequestOk(q) /\ Nothing \notin Admissions /\ BoundsAssumption
  /\ c \in Admissions /\ req[q].call = c /\ req[q].at \in SettingUp
  /\ calls[c] \in Rows /\ IsSession(c) /\ dispatches \subseteq Admissions
  /\ Doomed(c) \/ Agent(c)
  /\ \A d \in Admissions : d \in dispatches => req[d].call # Nothing

LEMMA SettingUpHas ==
  ASSUME AdmissionInv, NEW q \in Admissions, req[q].at \in SettingUp
  PROVE  \E c \in Admissions : SettingUpFacts(q, c)
<1>1. PICK c \in Admissions : c = req[q].call
  BY SettingUpSession
<1>2. \A d \in Admissions : d \in dispatches => req[d].call # Nothing
  BY DEF AdmissionInv, RequestOk
<1>3. SettingUpFacts(q, c)
  BY <1>1, <1>2, SettingUpSession
     DEF SettingUpFacts, AdmissionInv, AdmissionAssumptions, NothingAssumption, AdmissionTypeOK
<1> QED
  BY <1>3

\* The request moves, and nothing else of it changes.
LEMMA SettingUpAt ==
  ASSUME AdmissionInv, NEW q \in Admissions, NEW c \in Admissions, SettingUpFacts(q, c),
         NEW step \in {"set", "drop", "clean", "fail", "answered", "failed"}, At(q, step)
  PROVE  /\ req'[q].at = step /\ At(q, req'[q].at) /\ req'[q].call = c
         /\ \A p \in Admissions \ {q} : req'[p] = req[p]
         /\ \A p \in Admissions : req'[p].call = req[p].call
<1>1. step \in {"idle"} \union InTransaction \union SettingUp \union Ended
  BY DEF SettingUp, Ended
<1>2. /\ req'[q].at = step /\ req'[q].call = req[q].call
      /\ \A p \in Admissions \ {q} : req'[p] = req[p]
  BY <1>1, AtOf DEF SettingUpFacts
<1> QED
  BY <1>2 DEF SettingUpFacts

\* A call that is to fail, and whose failing is not this request's step.
LEMMA SetsUpDoomed ==
  ASSUME AdmissionInv, NEW q \in Admissions, NEW c \in Admissions, SetsUp(q, c), SettingUpFacts(q, c),
         req[q].at \notin {"clean", "fail"}, Doomed(c)
  PROVE  Doomed(c)'
BY SetsUpFrame, DoomedStays DEF SettingUpFacts

LEMMA CreateDispatchKeeps ==
  ASSUME AdmissionInv, NEW q \in Admissions, CreateDispatch(q)
  PROVE  AdmissionInv'
<1>0. req[q].at = "dispatch" /\ req[q].at \in SettingUp /\ At(q, "set")
      /\ dispatches' = dispatches \union {q}
      /\ UNCHANGED << Other, calls, abandoned, faults >>
  BY DEF CreateDispatch, SettingUp
<1>1. PICK c \in Admissions : SettingUpFacts(q, c)
  BY <1>0, SettingUpHas
<1>2. /\ req'[q].at = "set" /\ At(q, req'[q].at) /\ req'[q].call = c
      /\ \A p \in Admissions \ {q} : req'[p] = req[p]
      /\ \A p \in Admissions : req'[p].call = req[p].call
  BY <1>0, <1>1, SettingUpAt
<1>3. SetsUp(q, c)
  BY <1>0, <1>1, <1>2 DEF SetsUp, SettingUpFacts, RequestOk, AdmissionTypeOK, Other
<1>4. CASE Doomed(c)
  BY <1>0, <1>1, <1>3, <1>4, SetsUpDoomed, SetsUpKeeps
<1>5. CASE Agent(c)
  <2>1. Agent(c)'
    BY <1>0, <1>1, <1>2, <1>5 DEF Agent, SettingUpFacts
  <2> QED
    BY <1>3, <2>1, SetsUpKeeps
<1> QED
  BY <1>1, <1>4, <1>5 DEF SettingUpFacts

LEMMA CreateDispatchFailsKeeps ==
  ASSUME AdmissionInv, NEW q \in Admissions, CreateDispatchFails(q)
  PROVE  AdmissionInv'
<1>0. req[q].at = "dispatch" /\ req[q].at \in SettingUp /\ At(q, "fail") /\ Fault
      /\ dispatches' \in {dispatches, dispatches \union {q}}
      /\ UNCHANGED << Other, calls, abandoned >>
  BY DEF CreateDispatchFails, SettingUp
<1>1. PICK c \in Admissions : SettingUpFacts(q, c)
  BY <1>0, SettingUpHas
<1>2. /\ req'[q].at = "fail" /\ At(q, req'[q].at) /\ req'[q].call = c
      /\ \A p \in Admissions \ {q} : req'[p] = req[p]
      /\ \A p \in Admissions : req'[p].call = req[p].call
  BY <1>0, <1>1, SettingUpAt
<1>3. faults' \in 0 .. MaxFaults
  BY <1>0, <1>1 DEF Fault, SettingUpFacts, AdmissionTypeOK, BoundsAssumption
<1>4. SetsUp(q, c)
  BY <1>0, <1>1, <1>2, <1>3 DEF SetsUp, SettingUpFacts, RequestOk, AdmissionTypeOK, Other
<1>5. Doomed(c)'
  BY <1>2 DEF Doomed
<1> QED
  BY <1>4, <1>5, SetsUpKeeps

LEMMA SetDispatchKeeps ==
  ASSUME AdmissionInv, NEW q \in Admissions, SetDispatch(q)
  PROVE  AdmissionInv'
<1>0. req[q].at = "set" /\ req[q].at \in SettingUp
      /\ UNCHANGED << Other, dispatches, abandoned, faults >>
  BY DEF SetDispatch, SettingUp
<1>1. PICK c \in Admissions : SettingUpFacts(q, c)
  BY <1>0, SettingUpHas
<1>2. CASE calls[c].dispatch = Nothing
  <2>1. calls' = [calls EXCEPT ![c].dispatch = q] /\ At(q, "answered")
    BY <1>1, <1>2 DEF SetDispatch, MaySetDispatch, SettingUpFacts
  <2>2. /\ req'[q].at = "answered" /\ At(q, req'[q].at) /\ req'[q].call = c
        /\ \A p \in Admissions \ {q} : req'[p] = req[p]
        /\ \A p \in Admissions : req'[p].call = req[p].call
    BY <1>1, <2>1, SettingUpAt
  <2>3. SetsUp(q, c)
    BY <1>0, <1>1, <1>2, <2>1, <2>2 DEF SetsUp, SettingUpFacts, AdmissionTypeOK, Other
  <2>4. CASE Doomed(c)
    BY <1>0, <1>1, <2>3, <2>4, SetsUpDoomed, SetsUpKeeps
  <2>5. CASE Agent(c)
    <3>1. calls'[c].dispatch = q
      BY <1>1, <2>1 DEF SettingUpFacts, AdmissionTypeOK, Rows
    <3>2. Agent(c)'
      BY <1>0, <1>1, <1>2, <2>2, <2>5, <3>1 DEF Agent, SettingUpFacts
    <3> QED
      BY <2>3, <3>2, SetsUpKeeps
  <2> QED
    BY <1>1, <2>4, <2>5 DEF SettingUpFacts
<1>3. CASE calls[c].dispatch # Nothing
  <2>1. UNCHANGED calls /\ At(q, "drop")
    BY <1>1, <1>3 DEF SetDispatch, MaySetDispatch, SettingUpFacts
  <2>2. /\ req'[q].at = "drop" /\ At(q, req'[q].at) /\ req'[q].call = c
        /\ \A p \in Admissions \ {q} : req'[p] = req[p]
        /\ \A p \in Admissions : req'[p].call = req[p].call
    BY <1>1, <2>1, SettingUpAt
  <2>3. SetsUp(q, c)
    BY <1>0, <1>1, <1>3, <2>1, <2>2 DEF SetsUp, SettingUpFacts, AdmissionTypeOK, Other, RequestOk
  <2>4. CASE Doomed(c)
    BY <1>0, <1>1, <2>3, <2>4, SetsUpDoomed, SetsUpKeeps
  <2>5. CASE Agent(c)
    <3>1. Agent(c)'
      BY <1>0, <1>1, <1>3, <2>1, <2>2, <2>5 DEF Agent, SettingUpFacts
    <3> QED
      BY <2>3, <3>1, SetsUpKeeps
  <2> QED
    BY <1>1, <2>4, <2>5 DEF SettingUpFacts
<1> QED
  BY <1>2, <1>3

LEMMA SetDispatchFailsKeeps ==
  ASSUME AdmissionInv, NEW q \in Admissions, SetDispatchFails(q)
  PROVE  AdmissionInv'
<1>0. req[q].at = "set" /\ req[q].at \in SettingUp /\ At(q, "clean") /\ Fault
      /\ UNCHANGED << Other, dispatches, abandoned >>
  BY DEF SetDispatchFails, SettingUp
<1>1. PICK c \in Admissions : SettingUpFacts(q, c)
  BY <1>0, SettingUpHas
<1>2. /\ req'[q].at = "clean" /\ At(q, req'[q].at) /\ req'[q].call = c
      /\ \A p \in Admissions \ {q} : req'[p] = req[p]
      /\ \A p \in Admissions : req'[p].call = req[p].call
  BY <1>0, <1>1, SettingUpAt
<1>3. faults' \in 0 .. MaxFaults
  BY <1>0, <1>1 DEF Fault, SettingUpFacts, AdmissionTypeOK, BoundsAssumption
<1>4. \/ calls' = calls
      \/ calls[c].dispatch = Nothing /\ calls' = [calls EXCEPT ![c].dispatch = q]
  BY <1>1 DEF SetDispatchFails, SettingUpFacts
<1>5. SetsUp(q, c)
  BY <1>0, <1>1, <1>2, <1>3, <1>4 DEF SetsUp, SettingUpFacts, AdmissionTypeOK, Other
<1>6. Doomed(c)'
  BY <1>2 DEF Doomed
<1> QED
  BY <1>5, <1>6, SetsUpKeeps

LEMMA DropDispatchKeeps ==
  ASSUME AdmissionInv, NEW q \in Admissions, DropDispatch(q)
  PROVE  AdmissionInv'
<1>0. req[q].at = "drop" /\ req[q].at \in SettingUp /\ At(q, "answered")
      /\ dispatches' = dispatches \ {q}
      /\ UNCHANGED << Other, calls, abandoned, faults >>
  BY DEF DropDispatch, SettingUp
<1>1. PICK c \in Admissions : SettingUpFacts(q, c)
  BY <1>0, SettingUpHas
<1>2. /\ req'[q].at = "answered" /\ At(q, req'[q].at) /\ req'[q].call = c
      /\ \A p \in Admissions \ {q} : req'[p] = req[p]
      /\ \A p \in Admissions : req'[p].call = req[p].call
  BY <1>0, <1>1, SettingUpAt
<1>3. calls[c].dispatch # q /\ calls[c].dispatch # Nothing
  BY <1>0, <1>1 DEF SettingUpFacts, RequestOk
<1>4. SetsUp(q, c)
  BY <1>0, <1>1, <1>2, <1>3 DEF SetsUp, SettingUpFacts, AdmissionTypeOK, Other
<1>5. CASE Doomed(c)
  BY <1>0, <1>1, <1>4, <1>5, SetsUpDoomed, SetsUpKeeps
<1>6. CASE Agent(c)
  <2>1. Agent(c)'
    BY <1>0, <1>1, <1>2, <1>3, <1>6 DEF Agent, SettingUpFacts
  <2> QED
    BY <1>4, <2>1, SetsUpKeeps
<1> QED
  BY <1>1, <1>5, <1>6 DEF SettingUpFacts

LEMMA DropDispatchFailsKeeps ==
  ASSUME AdmissionInv, NEW q \in Admissions, DropDispatchFails(q)
  PROVE  AdmissionInv'
<1>0. req[q].at = "drop" /\ req[q].at \in SettingUp /\ Fault
      /\ UNCHANGED << Other, calls >>
  BY DEF DropDispatchFails, SettingUp
<1>1. PICK c \in Admissions : SettingUpFacts(q, c)
  BY <1>0, SettingUpHas
<1>2. faults' \in 0 .. MaxFaults
  BY <1>0, <1>1 DEF Fault, SettingUpFacts, AdmissionTypeOK, BoundsAssumption
<1>3. PICK step \in {"answered", "clean"} :
        /\ At(q, step) /\ abandoned \subseteq abandoned'
        /\ abandoned' \subseteq abandoned \union {c}
        /\ dispatches' \subseteq dispatches /\ dispatches \ {q} \subseteq dispatches'
        /\ step = "answered" => c \in abandoned'
  BY <1>1 DEF DropDispatchFails, Abandon, SettingUpFacts
<1>4. /\ req'[q].at = step /\ At(q, req'[q].at) /\ req'[q].call = c
      /\ \A p \in Admissions \ {q} : req'[p] = req[p]
      /\ \A p \in Admissions : req'[p].call = req[p].call
  BY <1>1, <1>3, SettingUpAt
<1>5. SetsUp(q, c)
  BY <1>0, <1>1, <1>2, <1>3, <1>4 DEF SetsUp, SettingUpFacts, AdmissionTypeOK, Other
<1>6. Doomed(c)'
  BY <1>3, <1>4 DEF Doomed
<1> QED
  BY <1>5, <1>6, SetsUpKeeps

LEMMA CleanKeeps ==
  ASSUME AdmissionInv, NEW q \in Admissions, Clean(q) \/ CleanFails(q)
  PROVE  AdmissionInv'
<1>0. req[q].at = "clean" /\ req[q].at \in SettingUp /\ At(q, "fail")
      /\ UNCHANGED << Other, calls, abandoned, faults >>
  BY DEF Clean, CleanFails, SettingUp
<1>1. PICK c \in Admissions : SettingUpFacts(q, c)
  BY <1>0, SettingUpHas
<1>2. /\ req'[q].at = "fail" /\ At(q, req'[q].at) /\ req'[q].call = c
      /\ \A p \in Admissions \ {q} : req'[p] = req[p]
      /\ \A p \in Admissions : req'[p].call = req[p].call
  BY <1>0, <1>1, SettingUpAt
<1>3. /\ dispatches' \subseteq dispatches
      /\ \A d \in Admissions : req[d].call # c => (d \in dispatches' <=> d \in dispatches)
  BY <1>1 DEF Clean, CleanFails, SettingUpFacts
<1>4. SetsUp(q, c)
  BY <1>0, <1>1, <1>2, <1>3 DEF SetsUp, SettingUpFacts, AdmissionTypeOK, Other
<1>5. Doomed(c)'
  BY <1>2 DEF Doomed
<1> QED
  BY <1>4, <1>5, SetsUpKeeps

LEMMA FailCallKeeps ==
  ASSUME AdmissionInv, NEW q \in Admissions, FailCall(q)
  PROVE  AdmissionInv'
<1>0. req[q].at = "fail" /\ req[q].at \in SettingUp /\ At(q, "failed")
      /\ calls' = [calls EXCEPT ![req[q].call].status = "failed"]
      /\ UNCHANGED << Other, dispatches, abandoned, faults >>
  BY DEF FailCall, SettingUp
<1>1. PICK c \in Admissions : SettingUpFacts(q, c)
  BY <1>0, SettingUpHas
<1>2. /\ req'[q].at = "failed" /\ At(q, req'[q].at) /\ req'[q].call = c
      /\ \A p \in Admissions \ {q} : req'[p] = req[p]
      /\ \A p \in Admissions : req'[p].call = req[p].call
  BY <1>0, <1>1, SettingUpAt
<1>3. calls' = [calls EXCEPT ![c].status = "failed"]
  BY <1>0, <1>1 DEF SettingUpFacts
<1>4. SetsUp(q, c)
  BY <1>0, <1>1, <1>2, <1>3 DEF SetsUp, SettingUpFacts, AdmissionTypeOK, Other
<1>5. calls'[c].status = "failed"
  BY <1>1, <1>3 DEF SettingUpFacts, AdmissionTypeOK, Rows
<1>6. Doomed(c)'
  BY <1>5 DEF Doomed
<1> QED
  BY <1>4, <1>6, SetsUpKeeps

\* The request gives up, and the call is left as it is.
LEMMA AbandonKeeps ==
  ASSUME AdmissionInv, NEW q \in Admissions, FailCallFails(q) \/ Stop(q)
  PROVE  AdmissionInv'
<1>0. /\ req[q].at \in SettingUp /\ At(q, "failed") /\ Abandon(q)
      /\ UNCHANGED << Other, calls, dispatches >>
      /\ (UNCHANGED faults \/ Fault)
  BY DEF FailCallFails, Stop, SettingUp
<1>1. PICK c \in Admissions : SettingUpFacts(q, c)
  BY <1>0, SettingUpHas
<1>2. /\ req'[q].at = "failed" /\ At(q, req'[q].at) /\ req'[q].call = c
      /\ \A p \in Admissions \ {q} : req'[p] = req[p]
      /\ \A p \in Admissions : req'[p].call = req[p].call
  BY <1>0, <1>1, SettingUpAt
<1>3. faults' \in 0 .. MaxFaults
  BY <1>0, <1>1 DEF Fault, SettingUpFacts, AdmissionTypeOK, BoundsAssumption
<1>4. abandoned' = abandoned \union {c}
  BY <1>0, <1>1 DEF Abandon, SettingUpFacts
<1>5. SetsUp(q, c)
  BY <1>0, <1>1, <1>2, <1>3, <1>4 DEF SetsUp, SettingUpFacts, AdmissionTypeOK, Other
<1>6. Doomed(c)'
  BY <1>4 DEF Doomed
<1> QED
  BY <1>5, <1>6, SetsUpKeeps

-----------------------------------------------------------------------------
(***************************************************************************)
(* What is done by nobody's request.                                       *)
(***************************************************************************)
\* Requests and dispatches stay, and calls but for their being started.
LEMMA AllStay ==
  ASSUME AdmissionInv, AdmissionTypeOK', UNCHANGED << req, executions, dispatches, abandoned >>,
         NEW c \in Admissions,
         \/ calls' = calls
         \/ /\ calls[c] # Nothing /\ calls[c].status = "created"
            /\ calls' = [calls EXCEPT ![c].status = "started"]
  PROVE  AdmissionInv'
<1>0. /\ AdmissionTypeOK /\ Nothing \notin Admissions /\ AdmissionAssumptions /\ SessionsOk
      /\ calls \in [Admissions -> Rows \union {Nothing}] /\ Nothing \notin Rows
  BY DEF AdmissionInv, AdmissionAssumptions, NothingAssumption, AdmissionTypeOK
<1>1. \A e \in Admissions :
        /\ calls'[e] = Nothing <=> calls[e] = Nothing
        /\ calls[e] # Nothing =>
             /\ calls'[e].key = calls[e].key /\ calls'[e].tenant = calls[e].tenant
             /\ calls'[e].sip = calls[e].sip /\ calls'[e].dispatch = calls[e].dispatch
             /\ calls[e].status = "failed" => calls'[e].status = "failed"
  <2>1. CASE calls' = calls
    BY <2>1
  <2>2. CASE /\ calls[c] # Nothing /\ calls[c].status = "created"
             /\ calls' = [calls EXCEPT ![c].status = "started"]
    <3> DEFINE r == [calls[c] EXCEPT !.status = "started"]
    <3>1. calls[c] \in Rows
      BY <1>0, <2>2
    <3>2. /\ r \in Rows /\ r.key = calls[c].key /\ r.tenant = calls[c].tenant
          /\ r.sip = calls[c].sip /\ r.dispatch = calls[c].dispatch
      BY <3>1 DEF Rows
    <3>3. calls' = [calls EXCEPT ![c] = r]
      BY <2>2
    <3> HIDE DEF r
    <3>4. calls'[c] = r /\ \A e \in Admissions \ {c} : calls'[e] = calls[e]
      BY <1>0, <3>3
    <3> QED
      BY <1>0, <2>2, <3>2, <3>4
  <2> QED
    BY <2>1, <2>2
<1>2. StepOf(Nothing)
  BY <1>0, <1>1 DEF StepOf, CallsGrow, AdmissionTypeOK, ReqType
<1>3. Nothing \in Admissions /\ calls[Nothing] = Nothing => calls'[Nothing] = Nothing
  BY <1>0
<1>4. \A p \in Admissions : RequestOk(p)'
  BY <1>0, <1>2, OthersOk
<1>5. CallsUnique' /\ CallsOfTenants'
  BY <1>2, <1>3, CallsStay
<1>6. ASSUME NEW e \in Admissions, IsSession(e)' PROVE Doomed(e)' \/ Agent(e)'
  <2>1. IsSession(e) /\ calls[e] # Nothing
    BY <1>1, <1>6 DEF IsSession
  <2>2. Doomed(e) => Doomed(e)'
    BY <1>1, <2>1 DEF Doomed
  <2>3. Agent(e) => Agent(e)'
    BY <1>1, <2>1 DEF Agent
  <2> QED
    BY <1>0, <2>1, <2>2, <2>3 DEF SessionsOk
<1> QED
  BY <1>0, <1>4, <1>5, <1>6
     DEF AdmissionInv, SessionsOk, AdmissionAssumptions, KeysAssumption, NothingAssumption,
         BoundsAssumption

LEMMA MovesKeep ==
  ASSUME AdmissionInv, (\E t \in Tenants : Enable(t)) \/ Disable \/ UNCHANGED admissionVars, Admissions # {}
  PROVE  AdmissionInv'
<1>0. AdmissionTypeOK /\ BoundsAssumption
  BY DEF AdmissionInv, AdmissionAssumptions
<1>1. /\ UNCHANGED << req, calls, executions, dispatches, abandoned, lock, faults >>
      /\ route' \in Tenants \union {Nothing} /\ moves' \in 0 .. MaxMoves
  BY <1>0 DEF Enable, Disable, admissionVars, AdmissionTypeOK, BoundsAssumption
<1>2. AdmissionTypeOK'
  BY <1>0, <1>1 DEF AdmissionTypeOK
<1>3. PICK c \in Admissions : TRUE
  OBVIOUS
<1> QED
  BY <1>1, <1>2, <1>3, AllStay

LEMMA StartKeeps ==
  ASSUME AdmissionInv, NEW c \in Admissions, Start(c)
  PROVE  AdmissionInv'
<1>0. /\ AdmissionTypeOK /\ calls[c] # Nothing /\ calls[c].status = "created"
      /\ calls' = [calls EXCEPT ![c].status = "started"]
      /\ UNCHANGED << req, executions, dispatches, abandoned, route, lock, moves, faults >>
  BY DEF AdmissionInv, Start, Other
<1>1. calls' \in [Admissions -> Rows \union {Nothing}]
  <2>1. calls[c] \in Rows
    BY <1>0 DEF AdmissionTypeOK
  <2>2. [calls[c] EXCEPT !.status = "started"] \in Rows
    BY <2>1 DEF Rows
  <2> QED
    BY <1>0, <2>2 DEF AdmissionTypeOK
<1>2. AdmissionTypeOK'
  BY <1>0, <1>1 DEF AdmissionTypeOK
<1> QED
  BY <1>0, <1>2, AllStay

-----------------------------------------------------------------------------
(***************************************************************************)
(* The invariant.                                                          *)
(***************************************************************************)
LEMMA AdmissionInvInit ==
  ASSUME AdmissionInit
  PROVE  AdmissionInv
<1>0. AdmissionAssumptions
  BY KeysAssumption, NothingAssumption, BoundsAssumption DEF AdmissionAssumptions
<1>1. AdmissionTypeOK
  BY <1>0 DEF AdmissionAssumptions, BoundsAssumption, AdmissionInit, AdmissionTypeOK
<1>2. ASSUME NEW q \in Admissions PROVE RequestOk(q)
  BY <1>0 DEF AdmissionAssumptions, NothingAssumption, AdmissionInit, RequestOk,
              InTransaction, SettingUp
<1>3. CallsUnique /\ CallsOfTenants /\ SessionsOk
  BY DEF AdmissionInit, CallsUnique, CallsOfTenants, SessionsOk, IsSession
<1> QED
  BY <1>0, <1>1, <1>2, <1>3 DEF AdmissionInv

LEMMA AdmissionInvNext ==
  ASSUME AdmissionInv, [AdmissionNext]_admissionVars
  PROVE  AdmissionInv'
<1>1. CASE Admissions = {}
  <2>1. (\E t \in Tenants : Enable(t)) \/ Disable \/ UNCHANGED admissionVars
    BY <1>1 DEF AdmissionNext
  <2>2. AdmissionTypeOK /\ BoundsAssumption /\ AdmissionAssumptions
    BY DEF AdmissionInv, AdmissionAssumptions
  <2>3. AdmissionTypeOK'
    BY <2>1, <2>2 DEF Enable, Disable, admissionVars, AdmissionTypeOK, BoundsAssumption
  <2> QED
    BY <1>1, <2>2, <2>3
       DEF AdmissionInv, CallsUnique, CallsOfTenants, SessionsOk,
           AdmissionAssumptions, KeysAssumption, NothingAssumption, BoundsAssumption
<1>2. CASE Admissions # {}
  <2>1. ASSUME NEW q \in Admissions, (\E ask \in Asks : Send(q, ask)) \/ Admit(q)
        PROVE  AdmissionInv'
    BY <2>1, SendKeeps, LookupKeeps, RouteKeeps, LockKeeps, ExecuteKeeps, StoreKeeps, LoseKeeps
       DEF Admit
  <2>2. ASSUME NEW q \in Admissions, SetUp(q) PROVE AdmissionInv'
    BY <2>2, CreateDispatchKeeps, CreateDispatchFailsKeeps, SetDispatchKeeps, SetDispatchFailsKeeps,
       DropDispatchKeeps, DropDispatchFailsKeeps, CleanKeeps, FailCallKeeps,
       AbandonKeeps DEF SetUp
  <2> QED
    BY <1>2, <2>1, <2>2, MovesKeep, StartKeeps DEF AdmissionNext
<1> QED
  BY <1>1, <1>2

\* The invariant holds in every state that can be reached.
THEOREM AdmissionInvariant == AdmissionSpec => []AdmissionInv
<1>1. AdmissionInit => AdmissionInv
  BY AdmissionInvInit
<1>2. AdmissionInv /\ [AdmissionNext]_admissionVars => AdmissionInv'
  BY AdmissionInvNext
<1> QED
  BY <1>1, <1>2, PTL DEF AdmissionSpec

-----------------------------------------------------------------------------
(***************************************************************************)
(* What it gives.                                                          *)
(***************************************************************************)
\* The rows _existing_for finds hold the call that the request asks for.
LEMMA AnswersExist ==
  ASSUME NEW q \in Admissions, NEW c \in Admissions, Answers(q, c)
  PROVE  c \in Existing(q)
<1>1. CASE IsClaim(q)
  <2>1. c \in BySip(q)
    BY <1>1 DEF Answers, BySip
  <2> QED
    BY <2>1 DEF Existing
<1>2. CASE ~IsClaim(q)
  <2>1. c \in ByKey(q) /\ BySip(q) = {}
    BY <1>2 DEF Answers, ByKey, BySip
  <2> QED
    BY <2>1 DEF Existing
<1> QED
  BY <1>1, <1>2

\* Every variable of the admission of calls keeps its type.
THEOREM AdmissionTypeCorrect == AdmissionSpec => []AdmissionTypeOK
<1>1. AdmissionInv => AdmissionTypeOK
  BY DEF AdmissionInv
<1> QED
  BY <1>1, AdmissionInvariant, PTL

\* What a request asks for is one call, and every answer names it: the unique keys
\* of calls, and _existing_for, which finds by them.
THEOREM CallsAreAdmittedOnce == AdmissionSpec => []AdmittedOnce
<1>1. ASSUME AdmissionInv PROVE AdmittedOnce
  <2>1. ASSUME NEW q \in Admissions, req[q].at = "answered" PROVE req[q].call \in Existing(q)
    <3>1. req[q].call \in Admissions /\ Answers(q, req[q].call)
      BY <1>1, <2>1 DEF AdmissionInv, RequestOk, AdmissionTypeOK
    <3> QED
      BY <3>1, AnswersExist
  <2> QED
    BY <1>1, <2>1 DEF AdmittedOnce, AdmissionInv, CallsUnique
<1> QED
  BY <1>1, AdmissionInvariant, PTL

\* A call runs the execution of its own tenant, and a session is answered only to
\* who asked for that tenant.
THEOREM CallsAreOfTheirTenants == AdmissionSpec => []CallIsOfItsTenant
<1>1. ASSUME AdmissionInv PROVE CallIsOfItsTenant
  BY <1>1 DEF CallIsOfItsTenant, AdmissionInv, CallsOfTenants, RequestOk
<1> QED
  BY <1>1, AdmissionInvariant, PTL

\* A test session nobody is at work on has exactly the dispatch that it names, has
\* failed, or was abandoned.
THEOREM SessionsHaveOneAgent == AdmissionSpec => []OneAgentEach
<1>1. ASSUME AdmissionInv PROVE OneAgentEach
  <2>1. SUFFICES ASSUME NEW c \in Admissions, IsSession(c), ~AtWork(c),
                        calls[c].status # "failed", c \notin abandoned
                 PROVE  /\ calls[c].dispatch # Nothing
                        /\ {d \in dispatches : req[d].call = c} = {calls[c].dispatch}
    BY DEF OneAgentEach, IsSession
  <2>2. \A q \in Admissions : req[q].call = c => req[q].at \notin {"dispatch", "set", "drop", "clean", "fail"}
    BY <2>1 DEF AtWork, SettingUp
  <2>3. Agent(c) /\ dispatches \subseteq Admissions
    BY <1>1, <2>1, <2>2 DEF AdmissionInv, SessionsOk, Doomed, AdmissionTypeOK
  <2> QED
    BY <2>2, <2>3 DEF Agent
<1> QED
  BY <1>1, AdmissionInvariant, PTL

=============================================================================

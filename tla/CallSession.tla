----------------------------- MODULE CallSession -----------------------------
(***************************************************************************)
(* One call as the backend keeps it: the call_sessions row (status and     *)
(* human handoff), its conversation, the domain events the transactions    *)
(* put in the outbox, and the handoff participants LiveKit has in the room.*)
(*                                                                         *)
(* Every request runs in one database transaction that first locks the     *)
(* call row, so a request is one action; a request that the service        *)
(* rejects, or answers from what is stored, changes nothing and is a       *)
(* stutter.  Two things are longer than one action because the code leaves *)
(* the database in the middle: a transfer dials LiveKit while it holds the *)
(* row lock (txn), and the reconciler lists stale calls, asks LiveKit for  *)
(* the room and only then writes (reconciler).                             *)
(*                                                                         *)
(* The clients (voice agent, admin API, retries of either) may send any    *)
(* request at any moment, any number of times and in any order.            *)
(***************************************************************************)
EXTENDS Integers, Sequences, FiniteSets

CONSTANTS
  Requests,     \* a transfer's tool-call id together with its destination
  Attempts,     \* the ids uuid4 draws for handoff attempts
  Messages,     \* conversation messages, by message_id
  Reasons,      \* failure reasons the clients report
  MaxRelinquished,  \* bound: agent_relinquished events published
  None

ASSUME NoneAssumption ==
  /\ None \notin Requests
  /\ None \notin Attempts
  /\ None \notin Reasons
ASSUME BoundAssumption == MaxRelinquished \in Nat

RuntimeUnavailable == "runtime_unavailable"

Statuses == {"absent", "created", "started", "connected", "ended", "failed"}
Finished == {"ended", "failed"}

ConversationStatuses == {"open", "complete", "incomplete"}
ClosedStatuses == {"complete", "incomplete"}

HandoffStates ==
  {"none", "dialing", "answered", "completed", "failed", "timed_out", "canceled"}
ActiveHandoff == {"dialing", "answered"}
HandoffEvents == {"answer", "complete", "fail", "time_out", "cancel"}

HandoffTransitions ==
  { <<"dialing",  "answer",   "answered">>,
    <<"dialing",  "fail",     "failed">>,
    <<"dialing",  "time_out", "timed_out">>,
    <<"dialing",  "cancel",   "canceled">>,
    <<"answered", "complete", "completed">>,
    <<"answered", "fail",     "failed">>,
    <<"answered", "time_out", "timed_out">>,
    <<"answered", "cancel",   "canceled">> }

CallEvents ==
  {"created", "started", "connected", "relinquished", "ended", "failed"}

VARIABLES
  status,        \* the call row's status, "absent" before the row exists
  reason,        \* failure_reason
  channel,       \* "sip" or "web"; only a SIP call can be transferred
  conversation,  \* the conversation's persistence status
  messages,      \* the persisted messages in sequence_number order
  handoff,       \* [request, attempt, state] of the row's current attempt
  txn,           \* the transfer transaction that holds the row lock
  used,          \* attempt ids drawn so far
  peers,         \* attempts whose SIP participant LiveKit has in the room
  lost,          \* attempts dialled by a transaction that never committed
  room,          \* whether LiveKit has the room
  events,        \* domain events in outbox order
  reconciler     \* "idle", "listed" (stale candidate read), "gone" (the room
                 \* is missing); run() has no handler, so an exception ends the
                 \* task for the life of the process: "conflict" (end() or
                 \* fail() raised it), "failed" (the database did)

vars == << status, reason, channel, conversation, messages, handoff, txn, used,
           peers, lost, room, events, reconciler >>

NoHandoff == [request |-> None, attempt |-> None, state |-> "none"]
NoTxn == [phase |-> "none", request |-> None, attempt |-> None]

Published(e) == \E i \in DOMAIN events : events[i] = e

TypeOK ==
  /\ status \in Statuses
  /\ reason \in Reasons \union {RuntimeUnavailable, None}
  /\ channel \in {"sip", "web"}
  /\ conversation \in ConversationStatuses
  /\ messages \in Seq(Messages)
  /\ handoff \in [ request : Requests \union {None},
                   attempt : Attempts \union {None},
                   state   : HandoffStates ]
  /\ txn \in [ phase   : {"none", "dialing", "placed"},
               request : Requests \union {None},
               attempt : Attempts \union {None} ]
  /\ used \in SUBSET Attempts
  /\ peers \in SUBSET Attempts
  /\ lost \in SUBSET Attempts
  /\ room \in BOOLEAN
  /\ events \in Seq(CallEvents)
  /\ reconciler \in {"idle", "listed", "gone", "conflict", "failed"}

Init ==
  /\ status = "absent"
  /\ reason = None
  /\ channel \in {"sip", "web"}
  /\ conversation = "open"
  /\ messages = << >>
  /\ handoff = NoHandoff
  /\ txn = NoTxn
  /\ used = {}
  /\ peers = {}
  /\ lost = {}
  /\ room = FALSE
  /\ events = << >>
  /\ reconciler = "idle"

-----------------------------------------------------------------------------
(***************************************************************************)
(* Helpers.                                                                *)
(***************************************************************************)

\* get_for_update returns only when no other transaction holds the row.
RowUnlocked == status # "absent" /\ txn = NoTxn

Publish(e) == events' = Append(events, e)

\* close_for_call raises ConversationConflictError, and the whole transaction
\* rolls back, when the conversation was closed with the other status.
AcceptsClose(cs) == conversation \in {"open", cs}

CloseForCall(cs) ==
  /\ AcceptsClose(cs)
  /\ conversation' = IF conversation = "open" THEN cs ELSE conversation

\* Mutant of MayFail: fail() no longer refuses a call that already ended.
MayFailOnceEnded == status # "absent" /\ status # "failed"

MayFail == status \in {"created", "started", "connected"}

MayEnd == status = "connected"

-----------------------------------------------------------------------------
(***************************************************************************)
(* Lifecycle requests.                                                     *)
(***************************************************************************)

Create ==
  /\ status = "absent"
  /\ status' = "created"
  /\ room' = TRUE
  /\ Publish("created")
  /\ UNCHANGED << reason, channel, conversation, messages, handoff, txn, used,
                  peers, lost, reconciler >>

MarkStarted ==
  /\ RowUnlocked
  /\ status = "created"
  /\ status' = "started"
  /\ Publish("started")
  /\ UNCHANGED << reason, channel, conversation, messages, handoff, txn, used,
                  peers, lost, room, reconciler >>

MarkConnected ==
  /\ RowUnlocked
  /\ status = "started"
  /\ status' = "connected"
  /\ Publish("connected")
  /\ UNCHANGED << reason, channel, conversation, messages, handoff, txn, used,
                  peers, lost, room, reconciler >>

\* The write of end(); its replay on an ended call only repeats a close that
\* already happened, so it is a stutter.
EndWith(cs) ==
  /\ RowUnlocked
  /\ MayEnd
  /\ CloseForCall(cs)
  /\ status' = "ended"
  /\ Publish("ended")
  /\ UNCHANGED << reason, channel, messages, handoff, txn, used, peers, lost, room >>

End(cs) == EndWith(cs) /\ UNCHANGED reconciler

FailWith(why, cs) ==
  /\ RowUnlocked
  /\ MayFail
  /\ CloseForCall(cs)
  /\ status' = "failed"
  /\ reason' = why
  /\ Publish("failed")
  /\ UNCHANGED << channel, messages, handoff, txn, used, peers, lost, room >>

Fail(why, cs) == FailWith(why, cs) /\ UNCHANGED reconciler

\* Mutant of MayAppend: the check that the conversation is still open is dropped.
MayAppendAnyTime(m) == status \notin {"completed", "failed"}

\* The code's list of statuses names "completed", which no call row ever has.
MayAppend(m) ==
  /\ status \notin {"completed", "failed"}
  /\ conversation = "open"

AppendMessage(m) ==
  /\ RowUnlocked
  /\ MayAppend(m)
  /\ \A i \in DOMAIN messages : messages[i] # m
  /\ messages' = Append(messages, m)
  /\ UNCHANGED << status, reason, channel, conversation, handoff, txn, used,
                  peers, lost, room, events, reconciler >>

-----------------------------------------------------------------------------
(***************************************************************************)
(* Human handoff.                                                          *)
(***************************************************************************)

\* Mutant of MayReplace: the test for a completed handoff is dropped.
MayReplaceCompleted(r) ==
  /\ handoff.request # r
  /\ handoff.state \notin ActiveHandoff

\* A request other than the stored one may replace a settled attempt only.
\* A request equal to the stored one is answered from the row (a stutter).
MayReplace(r) ==
  /\ handoff.request # r
  /\ handoff.state \notin ActiveHandoff \union {"completed"}

\* Mutant of SettledPeer: the previous attempt's participant stays in the room.
KeepSettledPeer == {}

\* The participant of the settled attempt, removed before a new one is dialled.
SettledPeer == {handoff.attempt} \ {None}

\* transfer_to_human up to the point where it gives up: the old participant is
\* already out of the room (or its removal failed), and then a guard fails:
\* call not connected, not SIP, tenant suspended, no destination, no trunk.
TransferRejected(r) ==
  /\ RowUnlocked
  /\ handoff.request # None
  /\ MayReplace(r)
  /\ peers' = peers \ SettledPeer
  /\ UNCHANGED << status, reason, channel, conversation, messages, handoff, txn,
                  used, lost, room, events, reconciler >>

\* transfer_to_human past its guards: the new attempt is flushed, not yet
\* committed, and the row stays locked while LiveKit dials.
TransferBegin(r, a) ==
  /\ RowUnlocked
  /\ MayReplace(r)
  /\ status = "connected"
  /\ channel = "sip"
  /\ a \notin used
  /\ used' = used \union {a}
  /\ peers' = peers \ SettledPeer
  /\ txn' = [phase |-> "dialing", request |-> r, attempt |-> a]
  /\ UNCHANGED << status, reason, channel, conversation, messages, handoff,
                  lost, room, events, reconciler >>

\* LiveKit places the participant (it creates the room if there is none).
DialPlaced ==
  /\ txn.phase = "dialing"
  /\ peers' = peers \union {txn.attempt}
  /\ room' = TRUE
  /\ txn' = [txn EXCEPT !.phase = "placed"]
  /\ UNCHANGED << status, reason, channel, conversation, messages, handoff,
                  used, lost, events, reconciler >>

\* What the transaction stores when it commits: the request, the new attempt
\* and its first state.
CommitAttempt(s) ==
  /\ handoff' = [request |-> txn.request, attempt |-> txn.attempt, state |-> s]
  /\ txn' = NoTxn
  /\ UNCHANGED << status, reason, channel, conversation, messages, used, peers,
                  lost, room, events, reconciler >>

TransferDialing == txn.phase = "placed" /\ CommitAttempt("dialing")

\* create_sip_participant raised, whether or not the participant was placed.
TransferFailed == txn.phase # "none" /\ CommitAttempt("failed")

\* The process stops, or the commit fails, while the row is locked: nothing is
\* stored, and a participant already placed is one no row names.
TransferLost ==
  /\ txn.phase # "none"
  /\ txn' = NoTxn
  /\ lost' = lost \union {txn.attempt}
  /\ UNCHANGED << status, reason, channel, conversation, messages, handoff,
                  used, peers, room, events, reconciler >>

\* The participant is removed, or remove_participant raised and was logged.
Cleanup == peers' \in {peers, peers \ {handoff.attempt}}

TransitionAllowed(s) == s = "completed" => status = "connected"

TransitionHandoff(a, e) ==
  /\ RowUnlocked
  /\ handoff.attempt = a
  /\ handoff.state \in ActiveHandoff
  /\ \E s \in HandoffStates :
       /\ <<handoff.state, e, s>> \in HandoffTransitions
       /\ TransitionAllowed(s)
       /\ handoff' = [handoff EXCEPT !.state = s]
       /\ IF s \in {"canceled", "timed_out"} THEN Cleanup ELSE UNCHANGED peers
  /\ UNCHANGED << status, reason, channel, conversation, messages, txn, used,
                  lost, room, events, reconciler >>

\* A repeated CANCEL or TIME_OUT removes the participant again.
RepeatCleanup(a, e) ==
  /\ RowUnlocked
  /\ handoff.attempt = a
  /\ <<handoff.state, e>> \in {<<"canceled", "cancel">>, <<"timed_out", "time_out">>}
  /\ Cleanup
  /\ UNCHANGED << status, reason, channel, conversation, messages, handoff, txn,
                  used, lost, room, events, reconciler >>

MayRelinquish(a) ==
  /\ status \in {"connected", "ended", "failed"}
  /\ handoff.attempt = a
  /\ handoff.state = "completed"

\* Bound on an event that every repetition of the observation publishes again.
RelinquishBound ==
  Cardinality({i \in DOMAIN events : events[i] = "relinquished"}) < MaxRelinquished

RelinquishAgent(a, cs) ==
  /\ RowUnlocked
  /\ RelinquishBound
  /\ MayRelinquish(a)
  /\ CloseForCall(cs)
  /\ Publish("relinquished")
  /\ UNCHANGED << status, reason, channel, messages, handoff, txn, used, peers,
                  lost, room, reconciler >>

-----------------------------------------------------------------------------
(***************************************************************************)
(* LiveKit, seen from the backend: the room empties or is deleted, the     *)
(* transfer's callee hangs up.                                             *)
(***************************************************************************)

RoomGone ==
  /\ room
  /\ room' = FALSE
  /\ peers' = {}
  /\ UNCHANGED << status, reason, channel, conversation, messages, handoff, txn,
                  used, lost, events, reconciler >>

PeerLeaves(a) ==
  /\ a \in peers
  /\ peers' = peers \ {a}
  /\ UNCHANGED << status, reason, channel, conversation, messages, handoff, txn,
                  used, lost, room, events, reconciler >>

-----------------------------------------------------------------------------
(***************************************************************************)
(* CallRuntimeReconciler.run_once, one candidate.                          *)
(***************************************************************************)

ReconcilerAt(before, after) == reconciler = before /\ reconciler' = after

RestUnchanged ==
  UNCHANGED << status, reason, channel, conversation, messages, handoff, txn,
               used, peers, lost, room, events >>

\* Mutant of StaleStatuses: calls that never connected are not looked for.
StaleConnectedOnly == {"connected"}

StaleStatuses == {"started", "connected"}

\* An unlocked read of a started or connected call older than the grace period.
ListStale ==
  /\ ReconcilerAt("idle", "listed")
  /\ status \in StaleStatuses
  /\ RestUnchanged

\* LiveKit reports the room, or cannot be asked: the candidate is skipped.
SkipCandidate == ReconcilerAt("listed", "idle") /\ RestUnchanged

RoomMissing == ReconcilerAt("listed", "gone") /\ ~room /\ RestUnchanged

\* Mutant of ReconciledStatus: the status of a closed conversation is not kept.
ReconciledAsIncomplete == "incomplete"

ReconciledStatus ==
  IF handoff.request # None /\ conversation # "open"
  THEN conversation
  ELSE "incomplete"

\* end() or fail() would raise for the status the reconciler closes with.
ReconcileConflicts ==
  \/ status = "connected" /\ ~AcceptsClose(ReconciledStatus)
  \/ status = "started" /\ ~AcceptsClose("incomplete")

\* The candidate is re-read under the lock.  A call that finished meanwhile is
\* left alone; what end() and fail() raise is caught by nobody, nor is the error
\* of a commit whose answer is lost.
Reconcile ==
  /\ reconciler = "gone"
  /\ RowUnlocked
  /\ reconciler' \in IF ReconcileConflicts THEN {"conflict"} ELSE {"idle", "failed"}
  /\ IF ReconcileConflicts \/ status \notin {"started", "connected"}
     THEN RestUnchanged
     ELSE \/ status = "connected" /\ EndWith(ReconciledStatus)
          \/ status = "started" /\ FailWith(RuntimeUnavailable, "incomplete")

\* A transaction of run_once fails and nothing of it is stored: the listing, the
\* one of this candidate, or another's while this one waits for its turn.
ReconcilerFails ==
  /\ reconciler \in {"idle", "listed", "gone"}
  /\ reconciler' = "failed"
  /\ RestUnchanged

\* A new backend process starts the task again; nothing else does.
Restart ==
  /\ reconciler # "idle"
  /\ reconciler' = "idle"
  /\ RestUnchanged

-----------------------------------------------------------------------------
Lifecycle ==
  \/ Create
  \/ MarkStarted
  \/ MarkConnected
  \/ \E cs \in ClosedStatuses : End(cs)
  \/ \E why \in Reasons, cs \in ClosedStatuses : Fail(why, cs)
  \/ \E m \in Messages : AppendMessage(m)

Handoff ==
  \/ \E r \in Requests : TransferRejected(r)
  \/ \E r \in Requests, a \in Attempts : TransferBegin(r, a)
  \/ DialPlaced
  \/ TransferDialing
  \/ TransferFailed
  \/ TransferLost
  \/ \E a \in Attempts, e \in HandoffEvents : TransitionHandoff(a, e)
  \/ \E a \in Attempts, e \in HandoffEvents : RepeatCleanup(a, e)
  \/ \E a \in Attempts, cs \in ClosedStatuses : RelinquishAgent(a, cs)

LiveKit ==
  \/ RoomGone
  \/ \E a \in Attempts : PeerLeaves(a)

Reconciliation ==
  \/ ListStale
  \/ SkipCandidate
  \/ RoomMissing
  \/ Reconcile
  \/ ReconcilerFails
  \/ Restart

Next == Lifecycle \/ Handoff \/ LiveKit \/ Reconciliation

(***************************************************************************)
(* Fairness.  The reconciler is a loop of one asyncio task, and goes on    *)
(* until an exception ends it; LiveKit answers its room query again and    *)
(* again; the transaction that reconciles ends, done or failed, since      *)
(* restarts of the process leave it the time now and then; a transfer's    *)
(* transaction ends because the dial call has a client timeout.  Nothing   *)
(* is assumed of the clients, nor that an ended task is started again:     *)
(* lifespan does not watch it.                                             *)
(***************************************************************************)
ReconcileReturns == Reconcile \/ (reconciler = "gone" /\ ReconcilerFails)

Fairness ==
  /\ WF_vars(ListStale)
  /\ SF_vars(RoomMissing)
  /\ SF_vars(ReconcileReturns)
  /\ WF_vars(TransferDialing \/ TransferFailed \/ TransferLost)

Spec == Init /\ [][Next]_vars

FairSpec == Spec /\ Fairness

-----------------------------------------------------------------------------
(***************************************************************************)
(* Properties.                                                             *)
(***************************************************************************)

\* A call that is over has a sealed transcript: post-call work, which starts
\* from the terminal event, never reads a conversation still being written,
\* whichever of agent, reconciler or admin API finished the call.
FinishedIsSealed == status \in Finished => conversation # "open"

\* The call is over exactly when its terminal event is in the outbox, there is
\* one such event however often end, fail and reconciliation are repeated or
\* race, and it tells the outcome the row has.
AnnouncedOnce ==
  /\ status \in Finished <=> \E e \in Finished : Published(e)
  /\ status \in Finished => Published(status)
  /\ \A i, j \in DOMAIN events :
       events[i] \in Finished /\ events[j] \in Finished => i = j

\* agent_relinquished starts post-call work early: when it is in the outbox the
\* call really was handed to a human and the transcript is sealed, even if the
\* call has ended, or another transfer has been asked for, since.
RelinquishedMeansHandedOver ==
  Published("relinquished") => handoff.state = "completed" /\ conversation # "open"

\* What the outbox tells is true and complete: post-call work starts once, from
\* the terminal event that tells the row's outcome, and starts early only for a
\* call that was handed over with its transcript sealed.
EventsAreTrue == AnnouncedOnce /\ RelinquishedMeansHandedOver

\* LiveKit rings one human at a time: a participant in the room belongs to the
\* row's current attempt or to the one being dialled.  Only a transaction that
\* was lost after the dial leaves a participant that no row names.
OneHandoffPeer ==
  \A a \in peers \ lost : a = IF txn = NoTxn THEN handoff.attempt ELSE txn.attempt

\* run() has no exception handler, so reconciliation must never meet a call
\* whose conversation was closed with another status than the one it closes
\* with; otherwise the conflict, as a database error does, ends the task.
ReconcilerMeetsNoConflict == reconciler # "conflict"

\* Once the transcript is sealed no late, repeated or reordered request reopens
\* it, changes its completeness or adds a message.
SealedStaysSealed ==
  [][conversation # "open" =>
       conversation' = conversation /\ messages' = messages]_vars

\* A call handed to a human stays handed over, and an attempt that has settled
\* never becomes active again, whatever late events of the watcher, the
\* deadline and the caller's hang-up arrive after it.
SettledHandoffStays ==
  [][/\ handoff.state = "completed" => handoff' = handoff
     /\ handoff.state \notin ActiveHandoff /\ handoff'.attempt = handoff.attempt
          => handoff' = handoff]_vars

\* A handoff completes only while the call is connected: a COMPLETE that waits
\* for the row lock behind the end of the call is refused.
NoHandoverAfterTheEnd ==
  [][handoff'.state = "completed" /\ handoff.state # "completed"
       => status = "connected"]_vars

\* A started or connected call whose room LiveKit has lost is finished by the
\* reconciler, unless the room comes back or a database error has ended the
\* task; and after each restart the same is promised again.
LostCallIsFinished ==
  (status \in {"started", "connected"} /\ ~room)
    ~> (status \in Finished \/ room \/ reconciler = "failed")

\* The call as downstream sees it.
Promise == INSTANCE CallPromise WITH
  phase <- IF status = "absent" THEN "waiting"
           ELSE IF status \in Finished THEN "over" ELSE "live",
  transcript <- messages,
  sealed <- conversation # "open",
  announced <- {e \in Finished : Published(e)}

\* The call session implements the promise: every request is one of its steps
\* or leaves what it speaks of alone.
KeepsPromise == Promise!Spec

=============================================================================

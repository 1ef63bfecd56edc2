---------------------------- MODULE HandoffBridge ----------------------------
(***************************************************************************)
(* The voice agent hands a caller over to a human: the transfer tool, the  *)
(* HandoffController with its watcher task, its deadline and its cleanup   *)
(* tasks, the agent session and the job around it, the LiveKit room, and   *)
(* the backend's handoff row with which the controller is to agree.        *)
(*                                                                         *)
(* Attempts are numbered in the order the tool asks for them.  A request   *)
(* to the backend is on the wire until it is served; the agent may stop    *)
(* waiting for it before or after.  A participant that leaves is out of    *)
(* the room at once, its disconnect event reaches the agent later.         *)
(*                                                                         *)
(* Once an attempt is answered a disconnect closes the bridge and nothing  *)
(* is queued for the watcher any more, so what the watcher does with an    *)
(* event that interrupts COMPLETE is not modelled: no event is there.      *)
(***************************************************************************)
EXTENDS Integers, FiniteSets

CONSTANTS
  MaxAttempts,  \* bound: transfers the model asks for
  MaxFaults     \* bound: timeouts, failed removals, failed room deletions

ASSUME BoundsAssumption == MaxAttempts \in Nat /\ MaxFaults \in Nat

VARIABLES
  backend,      \* the row: [attempt, state]
  connected,    \* the call is CONNECTED
  room,         \* participants in the LiveKit room
  talking,      \* destinations whose sip.callStatus has become active
  left,         \* participants whose disconnect event is on its way
  transfer,     \* the tool: [step, attempt, result]
  mine,         \* the controller's attempt: [attempt, state]
  watcher,      \* [phase, event]: the first event of its queue, or "none"
  answer,       \* what the watcher's request is answered, or "none"
  wire,         \* requests to the backend: [attempt, event, watched]
  removals,     \* attempts whose participant a cleanup task removes
  session,      \* the AgentSession: "open", "closing", "closed"
  relinquish,   \* relinquish_ai: "none", "closing", "reporting", "done"
  bridgeClose,  \* close_transferred_call: "none", "deleting", "done"
  job,          \* run_job: "running", "closed" (the future), "waiting", "cleanup", "ended"
  faults

handoffVars == << mine, watcher, answer, wire, removals >>
jobVars == << session, relinquish, bridgeClose, job >>
roomVars == << room, talking, left >>
vars == << backend, connected, roomVars, transfer, handoffVars, jobVars, faults >>

Attempts == 1 .. MaxAttempts
Caller == 0
Active == {"dialing", "answered"}
Unsuccessful == {"failed", "timed_out", "canceled"}
States == {"none", "completed"} \union Active \union Unsuccessful
Events == {"answer", "complete", "fail", "time_out", "cancel"}
Outcomes == {"none", "error"} \union States

TypeOK ==
  /\ backend \in [attempt : 0 .. MaxAttempts, state : States]
  /\ connected \in BOOLEAN
  /\ room \subseteq {Caller} \union Attempts
  /\ talking \subseteq Attempts
  /\ left \subseteq {Caller} \union Attempts
  /\ transfer \in [step : {"idle", "sent", "done", "given_up"},
                   attempt : 0 .. MaxAttempts, result : {"none", "refused", "dialing", "failed"}]
  /\ mine \in [attempt : 0 .. MaxAttempts, state : States]
  /\ watcher \in [phase : {"off", "events", "answer", "complete", "bridged"},
                  event : {"none"} \union Events]
  /\ answer \in Outcomes
  /\ wire \subseteq [attempt : Attempts, event : Events, watched : BOOLEAN]
  /\ removals \subseteq Attempts
  /\ session \in {"open", "closing", "closed"}
  /\ relinquish \in {"none", "closing", "reporting", "done"}
  /\ bridgeClose \in {"none", "deleting", "done"}
  /\ job \in {"running", "closed", "waiting", "cleanup", "ended"}
  /\ faults \in 0 .. MaxFaults

Init ==
  /\ backend = [attempt |-> 0, state |-> "none"]
  /\ connected = TRUE
  /\ room = {Caller} /\ talking = {} /\ left = {}
  /\ transfer = [step |-> "idle", attempt |-> 0, result |-> "none"]
  /\ mine = [attempt |-> 0, state |-> "none"]
  /\ watcher = [phase |-> "off", event |-> "none"]
  /\ answer = "none" /\ wire = {} /\ removals = {}
  /\ session = "open" /\ relinquish = "none" /\ bridgeClose = "none" /\ job = "running"
  /\ faults = 0

Fault == faults < MaxFaults /\ faults' = faults + 1

-----------------------------------------------------------------------------
(***************************************************************************)
(* The transfer: tool, backend, LiveKit.                                   *)
(***************************************************************************)

\* The model asks for a transfer; it waits for the answer before the next.
AskTransfer ==
  /\ transfer.step \in {"idle", "given_up"} /\ transfer.attempt < MaxAttempts
  /\ session = "open" /\ job = "running"
  /\ transfer.step = "given_up" => transfer.result # "none"
  /\ transfer' = [step |-> "sent", attempt |-> transfer.attempt + 1, result |-> "none"]
  /\ UNCHANGED << backend, connected, roomVars, handoffVars, jobVars, faults >>

MayTransfer == connected /\ backend.state \in {"none"} \union Unsuccessful

Told(result) ==
  transfer' = [transfer EXCEPT !.step = IF @ = "sent" THEN "done" ELSE @,
                               !.result = result]

\* The participant the row names, who may be in the room.
Peer == IF backend.state = "none" THEN {} ELSE {backend.attempt}

Leaves(gone) == room' = room \ gone /\ left' = left \union (room \intersect gone)

\* transfer_to_human: the participant of a settled attempt is removed first, and
\* the new one dialled; both may fail.
ServeTransfer ==
  /\ transfer.step \in {"sent", "given_up"} /\ transfer.result = "none"
  /\ \/ /\ ~MayTransfer
        /\ Leaves(IF backend.state \in Unsuccessful THEN Peer ELSE {})
        /\ Told("refused") /\ UNCHANGED << backend, faults >>
     \/ /\ MayTransfer /\ Peer \intersect room # {}
        /\ Fault
        /\ Told("refused") /\ UNCHANGED << backend, room, left >>
     \/ /\ MayTransfer
        /\ backend' = [attempt |-> transfer.attempt, state |-> "dialing"]
        /\ room' = (room \ Peer) \union {transfer.attempt}
        /\ left' = left \union (room \intersect Peer)
        /\ Told("dialing") /\ UNCHANGED faults
     \/ /\ MayTransfer
        /\ backend' = [attempt |-> transfer.attempt, state |-> "failed"]
        /\ Leaves(Peer)
        /\ Told("failed") /\ UNCHANGED faults
  /\ UNCHANGED << connected, talking, handoffVars, jobVars >>

\* The HTTP client gives up; the backend serves the transfer all the same.
TransferTimesOut ==
  /\ transfer.step \in {"sent", "done"}
  /\ Fault
  /\ transfer' = [transfer EXCEPT !.step = "given_up"]
  /\ UNCHANGED << backend, connected, roomVars, handoffVars, jobVars >>

\* Mutant of Finishing: the participant is not removed.
FinishingInRoom(a, event) ==
  /\ removals' = removals
  /\ wire' = wire \union {[attempt |-> a, event |-> event, watched |-> FALSE]}

\* The cleanup of an attempt: its participant is removed and its event reported,
\* each on its own and neither retried.
Finishing(a, event) ==
  /\ removals' = removals \union {a}
  /\ wire' = wire \union {[attempt |-> a, event |-> event, watched |-> FALSE]}

\* start(): a dial that failed is only cleaned up.
StartHandoff ==
  /\ transfer.step = "done" /\ session # "closed"
  /\ mine.state \notin Active
  /\ transfer' = [transfer EXCEPT !.step = "idle"]
  /\ \/ /\ transfer.result = "refused" /\ UNCHANGED handoffVars
     \/ /\ transfer.result = "dialing"
        /\ mine' = [attempt |-> transfer.attempt, state |-> "dialing"]
        /\ watcher' = [phase |-> "events", event |-> "none"]
        /\ answer' = "none" /\ UNCHANGED << wire, removals >>
     \/ /\ transfer.result = "failed"
        /\ mine' = [attempt |-> transfer.attempt, state |-> "failed"]
        /\ watcher' = [phase |-> "off", event |-> "none"]
        /\ answer' = "none" /\ Finishing(transfer.attempt, "fail")
  /\ UNCHANGED << backend, connected, roomVars, jobVars, faults >>

-----------------------------------------------------------------------------
(***************************************************************************)
(* The room.                                                               *)
(***************************************************************************)

Picks(a) ==
  /\ a \in room /\ a \notin talking
  /\ talking' = talking \union {a}
  /\ UNCHANGED << backend, connected, room, left, transfer, handoffVars, jobVars, faults >>

HangsUp(p) ==
  /\ p \in room
  /\ Leaves({p})
  /\ UNCHANGED << backend, connected, talking, transfer, handoffVars, jobVars, faults >>

-----------------------------------------------------------------------------
(***************************************************************************)
(* HandoffController.                                                      *)
(***************************************************************************)

Watching == watcher.phase # "off"
Queued(event) == IF watcher.event = "none" THEN event ELSE watcher.event
Off == [phase |-> "off", event |-> "none"]

\* _terminal and _finish_later: the attempt settles here first.
Settle(state, event) ==
  /\ mine' = [mine EXCEPT !.state = state]
  /\ Finishing(mine.attempt, event)

\* The watcher's request is abandoned: it may be served, nobody waits for it.
Abandoned == {[r EXCEPT !.watched = FALSE] : r \in wire}

\* cancel() stops the watcher; nothing when the attempt is settled.
Cancel ==
  IF mine.state \in Active
  THEN /\ mine' = [mine EXCEPT !.state = "canceled"]
       /\ removals' = removals \union {mine.attempt}
       /\ wire' = Abandoned \union
                    {[attempt |-> mine.attempt, event |-> "cancel", watched |-> FALSE]}
       /\ watcher' = Off /\ answer' = "none"
  ELSE UNCHANGED handoffVars

\* The deadline of the attempt is pending until it is answered or settled.
Rings == mine.state = "dialing"

\* _expire, 25 seconds after the start.
Deadline ==
  /\ Rings
  /\ Settle("timed_out", "time_out")
  /\ watcher' = [watcher EXCEPT !.event = Queued("time_out")]
  /\ UNCHANGED << backend, connected, roomVars, transfer, answer, jobVars, faults >>

MayAnswer == mine.state = "dialing"

\* _answer: sip.callStatus has become active, or is when the watcher starts.
SeesAnswer ==
  /\ watcher.phase = "events"
  /\ mine.attempt \in talking /\ mine.attempt \in room \union left
  /\ MayAnswer
  /\ mine' = [mine EXCEPT !.state = "answered"]
  /\ watcher' = [watcher EXCEPT !.event = Queued("answer")]
  /\ UNCHANGED << backend, connected, roomVars, transfer, answer, wire, removals,
                  jobVars, faults >>

Closing == session' = IF session = "open" THEN "closing" ELSE session

\* Mutant of EndsBridge: only the caller ends a bridge.
EndsBridgeByCaller(p) == mine.state \in {"answered", "completed"} /\ p = Caller

\* bridge_peer_disconnected: the caller or the destination of a bridge leaves.
EndsBridge(p) ==
  /\ mine.state \in {"answered", "completed"}
  /\ p = Caller \/ (p = mine.attempt /\ Watching)

\* The disconnect event: a bridge closes the call, a destination that leaves
\* before it answered fails the attempt, a caller that leaves cancels it.
SeesLeft(p) ==
  /\ p \in left /\ job # "ended"
  /\ left' = left \ {p}
  /\ \/ /\ EndsBridge(p)
        /\ bridgeClose' = IF bridgeClose = "none" THEN "deleting" ELSE bridgeClose
        /\ UNCHANGED << handoffVars, session >>
     \/ /\ ~EndsBridge(p) /\ p = Caller
        /\ Closing
        /\ watcher' = IF Watching THEN [watcher EXCEPT !.event = Queued("cancel")]
                      ELSE watcher
        /\ UNCHANGED << mine, answer, wire, removals, bridgeClose >>
     \/ /\ ~EndsBridge(p) /\ p # Caller
        /\ IF p = mine.attempt /\ Watching /\ mine.state \in Active
           THEN /\ Settle("failed", "fail")
                /\ watcher' = [watcher EXCEPT !.event = Queued("fail")]
                /\ UNCHANGED answer
           ELSE UNCHANGED handoffVars
        /\ UNCHANGED << session, bridgeClose >>
  /\ UNCHANGED << backend, connected, room, talking, transfer, relinquish, job, faults >>

Send(event) ==
  wire' = wire \union {[attempt |-> mine.attempt, event |-> event, watched |-> TRUE]}

\* _watch takes the first event of its queue.
HandleEvent ==
  /\ watcher.phase = "events"
  /\ \/ /\ watcher.event \in {"time_out", "fail"}
        /\ watcher' = Off
        /\ UNCHANGED << mine, answer, wire, removals, session >>
     \/ /\ watcher.event = "cancel"
        /\ IF mine.state \in Active THEN Cancel
           ELSE watcher' = Off /\ UNCHANGED << mine, answer, wire, removals >>
        /\ Closing
     \/ /\ watcher.event = "answer" /\ mine.state \in Active
        /\ Send("answer")
        /\ watcher' = [watcher EXCEPT !.phase = "answer"]
        /\ UNCHANGED << mine, answer, removals, session >>
  /\ UNCHANGED << backend, connected, roomVars, transfer, relinquish, bridgeClose, job,
                  faults >>

\* Mutant of CallerPresent: the caller is taken to have stayed.
CallerPresentAlways == TRUE

\* room.remote_participants, which a disconnect event updates.
CallerPresent == Caller \in room \union left

\* How the backend settled the attempt, or that it refused.
Rejected == Settle(IF answer \in Unsuccessful THEN answer ELSE "failed", "fail")

\* The answer to ANSWER: without the caller there is nobody to hand over; an
\* error or a settled attempt fails the handoff.
HandleAnswered ==
  /\ watcher.phase = "answer" /\ answer # "none"
  /\ answer' = "none"
  /\ \/ /\ answer = "answered" /\ ~CallerPresent
        /\ Settle("canceled", "cancel")
        /\ watcher' = Off /\ Closing
     \/ /\ answer = "answered" /\ CallerPresent
        /\ Send("complete")
        /\ watcher' = [watcher EXCEPT !.phase = "complete"]
        /\ UNCHANGED << mine, removals, session >>
     \/ /\ answer # "answered"
        /\ Rejected
        /\ watcher' = Off /\ UNCHANGED session
  /\ UNCHANGED << backend, connected, roomVars, transfer, relinquish, bridgeClose, job,
                  faults >>

\* Mutant of IsCompleted: any answer to COMPLETE counts.
IsCompletedAnyway == answer # "none"

IsCompleted == answer = "completed"

HandleCompleted ==
  /\ watcher.phase = "complete" /\ answer # "none"
  /\ answer' = "none"
  /\ IF IsCompleted
     THEN /\ mine' = [mine EXCEPT !.state = "completed"]
          /\ relinquish' = "closing"
          /\ watcher' = [watcher EXCEPT !.phase = "bridged"]
          /\ UNCHANGED << wire, removals >>
     ELSE /\ Rejected
          /\ watcher' = Off /\ UNCHANGED relinquish
  /\ UNCHANGED << backend, connected, roomVars, transfer, session, bridgeClose, job, faults >>

\* backend_timeout passes; the request may be served before or after.
RequestTimesOut ==
  /\ watcher.phase \in {"answer", "complete"} /\ answer # "error"
  /\ Fault
  /\ answer' = "error" /\ wire' = Abandoned
  /\ UNCHANGED << backend, connected, roomVars, transfer, mine, watcher, removals, jobVars >>

\* A cleanup task's own request, or an abandoned one, never reaches the backend.
RequestLost(r) ==
  /\ r \in wire /\ ~r.watched
  /\ Fault
  /\ wire' = wire \ {r}
  /\ UNCHANGED << backend, connected, roomVars, transfer, mine, watcher, answer, removals,
                  jobVars >>

\* A cleanup task removes the participant, who may be gone, or fails to.
RemoveParticipant(a) ==
  /\ a \in removals
  /\ removals' = removals \ {a}
  /\ \/ Leaves({a}) /\ UNCHANGED faults
     \/ a \in room /\ Fault /\ UNCHANGED << room, left >>
  /\ UNCHANGED << backend, connected, talking, transfer, mine, watcher, answer, wire, jobVars >>

-----------------------------------------------------------------------------
(***************************************************************************)
(* The backend serves a transition.                                        *)
(***************************************************************************)

NextState(event) ==
  CASE backend.state = "dialing" /\ event = "answer" -> "answered"
    [] backend.state = "answered" /\ event = "complete" /\ connected -> "completed"
    [] backend.state \in Active /\ event = "fail" -> "failed"
    [] backend.state \in Active /\ event = "time_out" -> "timed_out"
    [] backend.state \in Active /\ event = "cancel" -> "canceled"
    [] OTHER -> "error"

\* What is answered; a transition that is not one of the table is a conflict.
Reply(r) ==
  IF backend.attempt # r.attempt THEN "error"
  ELSE IF backend.state \in Active THEN NextState(r.event) ELSE backend.state

Applies(r) ==
  backend.attempt = r.attempt /\ backend.state \in Active /\ NextState(r.event) # "error"

\* CANCELED and TIMED_OUT make the backend remove the participant, too.
Cleans(r) ==
  /\ backend.attempt = r.attempt
  /\ << backend'.state, r.event >> \in {<< "canceled", "cancel" >>, << "timed_out", "time_out" >>}

ServeRequest(r) ==
  /\ r \in wire
  /\ wire' = wire \ {r}
  /\ backend' = IF Applies(r) THEN [backend EXCEPT !.state = NextState(r.event)] ELSE backend
  /\ answer' = IF r.watched THEN Reply(r) ELSE answer
  /\ \/ Leaves(IF Cleans(r) THEN {r.attempt} ELSE {}) /\ UNCHANGED faults
     \/ Cleans(r) /\ r.attempt \in room /\ Fault /\ UNCHANGED << room, left >>
  /\ UNCHANGED << connected, talking, transfer, mine, watcher, removals, jobVars >>

-----------------------------------------------------------------------------
(***************************************************************************)
(* The session and the job around it.                                      *)
(***************************************************************************)

\* on_close leaves the job alone: the AI session was closed to relinquish.
Relinquished == relinquish # "none" /\ bridgeClose = "none" /\ session = "closing"

\* The session closes as asked, or by itself; a tool that still runs ends with it.
SessionEnds ==
  /\ session # "closed"
  /\ session' = "closed"
  /\ transfer' = [transfer EXCEPT !.step = IF @ \in {"sent", "done"} THEN "given_up" ELSE @]
  /\ IF job # "running" \/ Relinquished
     THEN UNCHANGED << job, handoffVars >>
     ELSE /\ job' = "closed"
          /\ IF bridgeClose = "none" THEN Cancel ELSE UNCHANGED handoffVars
  /\ UNCHANGED << backend, connected, roomVars, relinquish, bridgeClose, faults >>

\* on_shutdown: LiveKit ends the job.
Shutdown ==
  /\ job = "running"
  /\ job' = "closed"
  /\ IF bridgeClose = "none" THEN Cancel ELSE UNCHANGED handoffVars
  /\ Closing
  /\ UNCHANGED << backend, connected, roomVars, transfer, relinquish, bridgeClose, faults >>

\* relinquish_ai closes the session, and reports once it is closed.
RelinquishCloses ==
  /\ relinquish = "closing"
  /\ relinquish' = "reporting" /\ Closing
  /\ UNCHANGED << backend, connected, roomVars, transfer, handoffVars, bridgeClose, job,
                  faults >>

RelinquishReports ==
  /\ relinquish = "reporting" /\ session = "closed"
  /\ relinquish' = "done"
  /\ UNCHANGED << backend, connected, roomVars, transfer, handoffVars, session, bridgeClose,
                  job, faults >>

\* close_transferred_call: the room is deleted, or that fails, and the job closes.
BridgeCloses ==
  /\ bridgeClose = "deleting"
  /\ bridgeClose' = "done"
  /\ \/ Leaves(room) /\ UNCHANGED faults
     \/ Fault /\ UNCHANGED << room, left >>
  /\ Closing
  /\ job' = IF job = "running" /\ mine.state = "completed" THEN "closed" ELSE job
  /\ UNCHANGED << backend, connected, talking, transfer, handoffVars, relinquish >>

\* run_job's finally: it awaits relinquish_ai, then the bridge and the session.
JobLeaves ==
  /\ job = "closed" /\ relinquish \in {"none", "done"}
  /\ job' = "waiting"
  /\ UNCHANGED << backend, connected, roomVars, transfer, handoffVars, session, relinquish,
                  bridgeClose, faults >>

\* HandoffController.close: an attempt still active is canceled unless a bridge closes.
JobCleanup ==
  /\ job = "waiting" /\ bridgeClose # "deleting" /\ session # "closing"
  /\ job' = "cleanup" /\ session' = "closed"
  /\ IF bridgeClose = "none" /\ mine.state \in Active THEN Cancel
     ELSE /\ watcher' = Off /\ answer' = "none" /\ wire' = Abandoned
          /\ UNCHANGED << mine, removals >>
  /\ UNCHANGED << backend, connected, roomVars, transfer, relinquish, bridgeClose, faults >>

\* The cleanup tasks are done; the call is reported complete or failed.
JobEnds ==
  /\ job = "cleanup" /\ removals = {}
  /\ \A r \in wire : r.event \in {"answer", "complete"}
  /\ job' = "ended" /\ connected' = FALSE
  /\ UNCHANGED << backend, roomVars, transfer, handoffVars, session, relinquish, bridgeClose,
                  faults >>

Requests == [attempt : Attempts, event : Events, watched : BOOLEAN]

Next ==
  \/ AskTransfer \/ ServeTransfer \/ TransferTimesOut \/ StartHandoff
  \/ \E p \in {Caller} \union Attempts : HangsUp(p) \/ SeesLeft(p)
  \/ \E a \in Attempts : Picks(a) \/ RemoveParticipant(a)
  \/ Deadline \/ SeesAnswer \/ HandleEvent \/ HandleAnswered \/ HandleCompleted
  \/ RequestTimesOut
  \/ \E r \in Requests : RequestLost(r) \/ ServeRequest(r)
  \/ SessionEnds \/ Shutdown \/ RelinquishCloses \/ RelinquishReports \/ BridgeCloses
  \/ JobLeaves \/ JobCleanup \/ JobEnds

Spec == Init /\ [][Next]_vars

\* What runs on its own: tasks, timers, events on their way, requests on the wire
\* and a session that is closing.  Nobody has to speak, to hang up or to transfer.
Progress ==
  \/ ServeTransfer \/ StartHandoff \/ Deadline \/ SeesAnswer
  \/ HandleEvent \/ HandleAnswered \/ HandleCompleted
  \/ \E p \in {Caller} \union Attempts : SeesLeft(p)
  \/ \E a \in Attempts : RemoveParticipant(a)
  \/ \E r \in Requests : ServeRequest(r)
  \/ (session = "closing" /\ SessionEnds)
  \/ RelinquishCloses \/ RelinquishReports \/ BridgeCloses
  \/ JobLeaves \/ JobCleanup \/ JobEnds

FairSpec == Spec /\ WF_vars(Progress)

-----------------------------------------------------------------------------
(***************************************************************************)
(* Properties                                                              *)
(***************************************************************************)

\* The AI leaves a call only for a handoff the backend has as COMPLETED.
RelinquishOnBackend ==
  relinquish # "none" => backend = [attempt |-> mine.attempt, state |-> "completed"]

\* Once the AI has left, the job stays only while caller and destination are both
\* in the room, or the event that closes their bridge is on its way.
NotLeftAlone ==
  relinquish # "none" /\ job = "running" /\ bridgeClose = "none" =>
    {Caller, mine.attempt} \subseteq room \union left

\* An attempt that the agent settled is settled at the backend as soon as no
\* report of it is on the wire, unless a request was lost or timed out.
SettledIsReported ==
  mine.state \in Unsuccessful /\ faults = 0 /\ backend.attempt = mine.attempt
    /\ (\A r \in wire : r.attempt # mine.attempt)
  => backend.state \notin Active

\* The destination of an attempt that timed out or was canceled leaves the room
\* although one removal or one report of it fails, because agent and backend both
\* remove it; not when the backend completed the attempt at the same time.
DestinationLeaves ==
  \A a \in Attempts :
    (mine.attempt = a /\ mine.state \in {"timed_out", "canceled"} /\ a \in room)
      ~> (a \notin room \/ faults > 1 \/ backend = [attempt |-> a, state |-> "completed"])

\* Once the AI has left, the call ends when the caller or the destination does.
BridgeEnds ==
  (relinquish # "none" /\ ~({Caller, mine.attempt} \subseteq room)) ~> (job = "ended")

=============================================================================

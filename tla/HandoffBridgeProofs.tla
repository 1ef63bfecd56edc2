-------------------------- MODULE HandoffBridgeProofs --------------------------
(***************************************************************************)
(* The safety properties of HandoffBridge, for any number of attempts and  *)
(* of faults.                                                              *)
(***************************************************************************)
EXTENDS HandoffBridge, TLAPS

(***************************************************************************)
(* The inductive invariant.  The agent takes the answer of a request for   *)
(* the state of the attempt it is at: that needs attempts that start in    *)
(* order, one request at a time that the watcher waits for, and nothing on *)
(* the wire it still waits for once the attempt is settled.                *)
(***************************************************************************)

\* Attempts are started in order, each on a row of its own.
StartsInOrder ==
  /\ mine.attempt <= transfer.attempt
  /\ transfer.step \in {"sent", "done"} => mine.attempt < transfer.attempt
  /\ transfer.step = "given_up" /\ transfer.result = "none" => mine.attempt < transfer.attempt
  /\ transfer.step = "done" => transfer.result # "none"
  /\ transfer.step = "done" /\ transfer.result \in {"dialing", "failed"} =>
       backend.attempt = transfer.attempt
  /\ mine.state \in Active => mine.attempt # 0

\* The watcher waits for one request at a time, of an attempt that is answered.
WatcherInOrder ==
  /\ \A r \in wire : r.watched =>
       r.attempt = mine.attempt /\ answer = "none" /\ watcher.phase \in {"answer", "complete"}
  /\ \A r, s \in wire : r.watched /\ s.watched => r = s
  /\ answer # "none" => watcher.phase \in {"answer", "complete"}
  /\ watcher.phase \in {"answer", "complete"} => mine.state = "answered"
  /\ watcher.event = "answer" => mine.state # "dialing"
  /\ watcher.event \in {"time_out", "fail"} => mine.state \in Unsuccessful

\* COMPLETED is final at the backend, and the agent has it from there.
CompletedIsTrue ==
  /\ answer = "completed" => backend = [attempt |-> mine.attempt, state |-> "completed"]
  /\ mine.state = "completed" => backend = [attempt |-> mine.attempt, state |-> "completed"]
  /\ relinquish # "none" <=> mine.state = "completed"

\* Who is on a bridge is in the room, or its disconnect event is on its way.
BridgeIsWhole ==
  bridgeClose = "none" =>
    /\ mine.state = "answered" => mine.attempt \in room \union left /\ watcher.phase # "off"
    /\ mine.state = "answered" /\ watcher.phase = "complete" => Caller \in room \union left
    /\ mine.state = "completed" /\ job = "running" =>
         watcher.phase = "bridged" /\ {Caller, mine.attempt} \subseteq room \union left

\* What the agent settled and the backend has not is on the wire.
Reports == {"fail", "time_out", "cancel"}

ReportsGo ==
  mine.state \in Unsuccessful /\ faults = 0 /\ backend.attempt = mine.attempt
    /\ backend.state \in Active
  => \E r \in wire : r.attempt = mine.attempt /\ r.event \in Reports

Inv ==
  /\ TypeOK
  /\ StartsInOrder
  /\ WatcherInOrder
  /\ CompletedIsTrue
  /\ BridgeIsWhole
  /\ ReportsGo

-----------------------------------------------------------------------------
(***************************************************************************)
(* The pieces that several actions share.                                  *)
(***************************************************************************)

\* Whatever the agent does to the wire, a report on it stays on it.
WireKeeps == \A r \in wire : \E s \in wire' : s.attempt = r.attempt /\ s.event = r.event
WireIsQuiet == \A r \in wire : ~r.watched

LEMMA AbandonedRows ==
  ASSUME TypeOK
  PROVE  /\ Abandoned \subseteq Requests
         /\ \A r \in Abandoned : ~r.watched
         /\ \A r \in wire : \E s \in Abandoned : s.attempt = r.attempt /\ s.event = r.event
<1>1. \A r \in wire : r \in Requests
  BY DEF TypeOK, Requests
<1>2. \A r \in Requests : /\ [r EXCEPT !.watched = FALSE] \in Requests
                          /\ [r EXCEPT !.watched = FALSE].watched = FALSE
                          /\ [r EXCEPT !.watched = FALSE].attempt = r.attempt
                          /\ [r EXCEPT !.watched = FALSE].event = r.event
  BY DEF Requests
<1> QED
  BY <1>1, <1>2 DEF Abandoned

LEMMA MineIsMine ==
  ASSUME TypeOK
  PROVE  /\ mine = [attempt |-> mine.attempt, state |-> mine.state]
         /\ mine.attempt \in 0 .. MaxAttempts /\ mine.state \in States
         /\ transfer.attempt \in 0 .. MaxAttempts /\ MaxAttempts \in Nat
         /\ transfer.attempt \in Int /\ mine.attempt \in Int
BY BoundsAssumption DEF TypeOK

\* An attempt is settled by the agent: its participant is to be removed and its
\* outcome to be reported.
SettledAs(state, event) ==
  /\ mine.state \in Active
  /\ mine' = [attempt |-> mine.attempt, state |-> state]
  /\ wire' \subseteq Requests /\ removals' \subseteq Attempts
  /\ WireKeeps
  /\ \E r \in wire' : r.attempt = mine.attempt /\ r.event = event
  /\ \A r \in wire' : r.watched => r \in wire

LEMMA SettleRows ==
  ASSUME TypeOK, StartsInOrder, mine.state \in Active,
         NEW state \in Unsuccessful, NEW event \in Reports, Settle(state, event)
  PROVE  SettledAs(state, event)
<1>1. mine' = [attempt |-> mine.attempt, state |-> state]
  BY MineIsMine DEF Settle
<1>2. mine.attempt \in Attempts
  BY MineIsMine DEF StartsInOrder, Attempts
<1> DEFINE r == [attempt |-> mine.attempt, event |-> event, watched |-> FALSE]
<1>3. r \in Requests /\ r.attempt = mine.attempt /\ r.event = event /\ ~r.watched
  BY <1>2 DEF Requests, Events, Reports
<1>4. wire' = wire \union {r} /\ removals' = removals \union {mine.attempt}
  BY DEF Settle, Finishing
<1> HIDE DEF r
<1> QED
  BY <1>1, <1>2, <1>3, <1>4 DEF SettledAs, WireKeeps, TypeOK, Requests

\* cancel(), and the cancel of the watcher.
LEMMA CancelRows ==
  ASSUME TypeOK, StartsInOrder, Cancel
  PROVE  \/ mine.state \notin Active /\ UNCHANGED << mine, watcher, answer, wire, removals >>
         \/ SettledAs("canceled", "cancel") /\ watcher' = Off /\ answer' = "none"
            /\ WireIsQuiet'
<1>1. CASE mine.state \notin Active
  BY <1>1 DEF Cancel, handoffVars
<1>2. CASE mine.state \in Active
  <2>1. /\ mine' = [mine EXCEPT !.state = "canceled"]
        /\ removals' = removals \union {mine.attempt}
        /\ wire' = Abandoned \union {[attempt |-> mine.attempt, event |-> "cancel", watched |-> FALSE]}
        /\ watcher' = Off /\ answer' = "none"
    BY <1>2 DEF Cancel
  <2>2. mine.attempt \in Attempts
    BY <1>2, MineIsMine DEF StartsInOrder, Attempts
  <2> DEFINE r == [attempt |-> mine.attempt, event |-> "cancel", watched |-> FALSE]
  <2>3. r \in Requests /\ r.attempt = mine.attempt /\ r.event = "cancel" /\ ~r.watched
    BY <2>2 DEF Requests, Events
  <2>4. wire' = Abandoned \union {r}
    BY <2>1
  <2> HIDE DEF r
  <2>5. mine' = [attempt |-> mine.attempt, state |-> "canceled"]
    BY <2>1, MineIsMine
  <2>6. WireKeeps /\ WireIsQuiet' /\ wire' \subseteq Requests
    BY <2>3, <2>4, AbandonedRows DEF WireKeeps, WireIsQuiet
  <2>7. removals' \subseteq Attempts
    BY <2>1, <2>2 DEF TypeOK
  <2>8. \A s \in wire' : s.watched => s \in wire
    BY <2>6 DEF WireIsQuiet
  <2> QED
    BY <1>2, <2>1, <2>3, <2>4, <2>5, <2>6, <2>7, <2>8 DEF SettledAs
<1> QED
  BY <1>1, <1>2

-----------------------------------------------------------------------------
(***************************************************************************)
(* Types, variable by variable.                                            *)
(***************************************************************************)

\* The steps that leave the agent's attempt, its watcher and the wire alone.
Elsewhere ==
  /\ \/ AskTransfer \/ ServeTransfer \/ TransferTimesOut
     \/ \E p \in {Caller} \union Attempts : HangsUp(p)
     \/ \E a \in Attempts : Picks(a) \/ RemoveParticipant(a)
     \/ RelinquishCloses \/ RelinquishReports \/ BridgeCloses \/ JobLeaves \/ JobEnds
     \/ UNCHANGED vars

LEMMA ElsewhereKeeps ==
  ASSUME TypeOK, Elsewhere
  PROVE  /\ UNCHANGED << mine, watcher, answer, wire >>
         /\ removals' \subseteq removals
<1>1. CASE AskTransfer \/ ServeTransfer \/ TransferTimesOut
  BY <1>1 DEF AskTransfer, ServeTransfer, TransferTimesOut, handoffVars
<1>2. ASSUME NEW p \in {Caller} \union Attempts, HangsUp(p) PROVE UNCHANGED handoffVars
  BY <1>2 DEF HangsUp, handoffVars
<1>3. ASSUME NEW a \in Attempts, Picks(a) PROVE UNCHANGED handoffVars
  BY <1>3 DEF Picks, handoffVars
<1>4. ASSUME NEW a \in Attempts, RemoveParticipant(a)
      PROVE  UNCHANGED << mine, watcher, answer, wire >> /\ removals' \subseteq removals
  BY <1>4 DEF RemoveParticipant
<1>5. CASE RelinquishCloses \/ RelinquishReports \/ BridgeCloses \/ JobLeaves \/ JobEnds
           \/ UNCHANGED vars
  BY <1>5 DEF RelinquishCloses, RelinquishReports, BridgeCloses, JobLeaves, JobEnds, vars, handoffVars
<1> QED
  BY <1>1, <1>2, <1>3, <1>4, <1>5 DEF Elsewhere, handoffVars

\* The steps that are the agent's handoff's own.
Controller ==
  \/ StartHandoff \/ \E p \in {Caller} \union Attempts : SeesLeft(p)
  \/ Deadline \/ SeesAnswer \/ HandleEvent \/ HandleAnswered \/ HandleCompleted
  \/ RequestTimesOut \/ \E r \in Requests : RequestLost(r) \/ ServeRequest(r)
  \/ SessionEnds \/ Shutdown \/ JobCleanup

LEMMA NextIs == ASSUME [Next]_vars PROVE Elsewhere \/ Controller
BY DEF Next, Elsewhere, Controller

\* The steps that may cancel the attempt as the session or the job ends.
LEMMA EndsRows ==
  ASSUME TypeOK, StartsInOrder, SessionEnds \/ Shutdown \/ JobCleanup
  PROVE  /\ \/ UNCHANGED << mine, watcher, answer, wire, removals >>
            \/ SettledAs("canceled", "cancel") /\ watcher' = Off /\ answer' = "none"
               /\ WireIsQuiet'
            \/ JobCleanup /\ watcher' = Off /\ answer' = "none" /\ WireIsQuiet' /\ WireKeeps
               /\ UNCHANGED << mine, removals >> /\ wire' \subseteq Requests
               /\ (bridgeClose = "none" => mine.state \notin Active)
         /\ UNCHANGED << backend, connected, room, talking, left, relinquish, bridgeClose, faults >>
         /\ SessionEnds \/ UNCHANGED transfer
<1>1. CASE SessionEnds
  BY <1>1, CancelRows DEF SessionEnds, handoffVars, roomVars
<1>2. CASE Shutdown
  BY <1>2, CancelRows DEF Shutdown, handoffVars, roomVars
<1>3. CASE JobCleanup
  <2>1. UNCHANGED << backend, connected, room, talking, left, relinquish, bridgeClose, faults, transfer >>
    BY <1>3 DEF JobCleanup, roomVars
  <2>2. CASE bridgeClose = "none" /\ mine.state \in Active
    BY <1>3, <2>1, <2>2, CancelRows DEF JobCleanup
  <2>3. CASE ~(bridgeClose = "none" /\ mine.state \in Active)
    <3>1. watcher' = Off /\ answer' = "none" /\ wire' = Abandoned /\ UNCHANGED << mine, removals >>
      BY <1>3, <2>3 DEF JobCleanup
    <3>2. WireIsQuiet' /\ WireKeeps /\ wire' \subseteq Requests
      BY <3>1, AbandonedRows DEF WireIsQuiet, WireKeeps
    <3> QED
      BY <1>3, <2>1, <2>3, <3>1, <3>2
  <2> QED
    BY <2>2, <2>3
<1> QED
  BY <1>1, <1>2, <1>3

Watchers == [phase : {"off", "events", "answer", "complete", "bridged"},
             event : {"none"} \union Events]
Mines == [attempt : 0 .. MaxAttempts, state : States]

\* What an action of the controller does to its types.
Kept == /\ mine' \in Mines /\ watcher' \in Watchers /\ answer' \in Outcomes
        /\ wire' \subseteq Requests /\ removals' \subseteq Attempts

LEMMA Typed ==
  ASSUME TypeOK
  PROVE  /\ mine \in Mines /\ watcher \in Watchers /\ answer \in Outcomes
         /\ wire \subseteq Requests /\ removals \subseteq Attempts
         /\ Off \in Watchers /\ "none" \in Outcomes /\ "error" \in Outcomes
         /\ \A s \in Unsuccessful : s \in States /\ s \notin Active
         /\ \A e \in Reports : e \in Events
         /\ Active \subseteq States /\ "completed" \in States
BY DEF TypeOK, Mines, Watchers, Requests, Off, Outcomes, Unsuccessful, States, Active, Reports, Events

LEMMA SettledTyped ==
  ASSUME TypeOK, NEW state \in Unsuccessful, NEW event \in Reports, SettledAs(state, event)
  PROVE  mine' \in Mines /\ wire' \subseteq Requests /\ removals' \subseteq Attempts
         /\ mine'.attempt = mine.attempt /\ mine'.state = state
BY Typed, MineIsMine DEF SettledAs, Mines

\* What the watcher's event becomes.
LEMMA QueuedEvent ==
  ASSUME TypeOK, NEW event \in Events
  PROVE  /\ [watcher EXCEPT !.event = Queued(event)] \in Watchers
         /\ [watcher EXCEPT !.event = Queued(event)].phase = watcher.phase
         /\ [watcher EXCEPT !.event = Queued(event)].event =
              IF watcher.event = "none" THEN event ELSE watcher.event
<1>1. watcher \in Watchers
  BY Typed
<1>2. Queued(event) = IF watcher.event = "none" THEN event ELSE watcher.event
  BY DEF Queued
<1>3. Queued(event) \in {"none"} \union Events
  BY <1>1, <1>2 DEF Watchers
<1> QED
  BY <1>1, <1>2, <1>3 DEF Watchers

-----------------------------------------------------------------------------
(***************************************************************************)
(* The controller's actions, by what they do to the handoff.               *)
(***************************************************************************)

\* Everything that is not the agent's handoff, seen from an action of it.
RestKept == UNCHANGED << backend, connected, room, talking, faults >>

LEMMA StartRows ==
  ASSUME TypeOK, StartsInOrder, StartHandoff
  PROVE  /\ mine.state \notin Active /\ transfer.step = "done"
         /\ transfer' = [transfer EXCEPT !.step = "idle"]
         /\ RestKept /\ UNCHANGED << left, relinquish, bridgeClose, job >>
         /\ Kept /\ WireKeeps /\ (\A r \in wire' : r.watched => r \in wire)
         /\ \/ UNCHANGED << mine, watcher, answer, wire >>
            \/ /\ transfer.result = "dialing" /\ UNCHANGED wire
               /\ mine' = [attempt |-> transfer.attempt, state |-> "dialing"]
               /\ watcher' = [phase |-> "events", event |-> "none"] /\ answer' = "none"
            \/ /\ transfer.result = "failed"
               /\ mine' = [attempt |-> transfer.attempt, state |-> "failed"]
               /\ watcher' = Off /\ answer' = "none"
               /\ \E r \in wire' : r.attempt = mine'.attempt /\ r.event \in Reports
<1>1. /\ mine.state \notin Active /\ transfer.step = "done"
      /\ transfer' = [transfer EXCEPT !.step = "idle"]
      /\ RestKept /\ UNCHANGED << left, relinquish, bridgeClose, job >>
  BY DEF StartHandoff, RestKept, roomVars, jobVars
<1>2. transfer.attempt \in Attempts
  BY <1>1, MineIsMine DEF StartsInOrder, Attempts, TypeOK
<1>3. CASE transfer.result = "refused" /\ UNCHANGED handoffVars
  <2>1. UNCHANGED << mine, watcher, answer, wire, removals >>
    BY <1>3 DEF handoffVars
  <2> QED
    BY <1>1, <2>1, Typed DEF Kept, WireKeeps
<1>4. CASE /\ transfer.result = "dialing"
           /\ mine' = [attempt |-> transfer.attempt, state |-> "dialing"]
           /\ watcher' = [phase |-> "events", event |-> "none"]
           /\ answer' = "none" /\ UNCHANGED << wire, removals >>
  <2>1. mine' \in Mines /\ watcher' \in Watchers
    BY <1>4, MineIsMine DEF Mines, Watchers, States, Active
  <2> QED
    BY <1>1, <1>4, <2>1, Typed DEF Kept, WireKeeps
<1>5. CASE /\ transfer.result = "failed"
           /\ mine' = [attempt |-> transfer.attempt, state |-> "failed"]
           /\ watcher' = [phase |-> "off", event |-> "none"]
           /\ answer' = "none" /\ Finishing(transfer.attempt, "fail")
  <2> DEFINE r == [attempt |-> transfer.attempt, event |-> "fail", watched |-> FALSE]
  <2>1. r \in Requests /\ r.attempt = transfer.attempt /\ r.event = "fail" /\ ~r.watched
    BY <1>2 DEF Requests, Events
  <2>2. wire' = wire \union {r} /\ removals' = removals \union {transfer.attempt}
    BY <1>5 DEF Finishing
  <2> HIDE DEF r
  <2>3. mine' \in Mines /\ watcher' = Off /\ mine'.attempt = transfer.attempt
    BY <1>5, MineIsMine DEF Mines, States, Unsuccessful, Off
  <2>4. Kept
    BY <1>2, <1>5, <2>1, <2>2, <2>3, Typed DEF Kept
  <2>5. WireKeeps /\ \A s \in wire' : s.watched => s \in wire
    BY <2>1, <2>2 DEF WireKeeps
  <2>6. \E s \in wire' : s.attempt = mine'.attempt /\ s.event \in Reports
    BY <2>1, <2>2, <2>3 DEF Reports
  <2> QED
    BY <1>1, <1>5, <2>3, <2>4, <2>5, <2>6
<1> QED
  BY <1>3, <1>4, <1>5 DEF StartHandoff

LEMMA DeadlineRows ==
  ASSUME TypeOK, StartsInOrder, Deadline
  PROVE  /\ mine.state = "dialing" /\ SettledAs("timed_out", "time_out")
         /\ watcher' \in Watchers /\ watcher'.phase = watcher.phase
         /\ watcher'.event = IF watcher.event = "none" THEN "time_out" ELSE watcher.event
         /\ RestKept /\ UNCHANGED << left, transfer, answer, relinquish, bridgeClose, job >>
         /\ Kept
<1>1. /\ mine.state = "dialing" /\ Settle("timed_out", "time_out")
      /\ watcher' = [watcher EXCEPT !.event = Queued("time_out")]
      /\ RestKept /\ UNCHANGED << left, transfer, answer, relinquish, bridgeClose, job >>
  BY DEF Deadline, Rings, RestKept, roomVars, jobVars
<1>2. "timed_out" \in Unsuccessful /\ "time_out" \in Reports /\ "dialing" \in Active
  BY DEF Unsuccessful, Reports, Active
<1>3. SettledAs("timed_out", "time_out")
  BY <1>1, <1>2, SettleRows
<1>4. /\ watcher' \in Watchers /\ watcher'.phase = watcher.phase
      /\ watcher'.event = IF watcher.event = "none" THEN "time_out" ELSE watcher.event
  BY <1>1, <1>2, QueuedEvent, Typed
<1> QED
  BY <1>1, <1>2, <1>3, <1>4, SettledTyped, Typed DEF Kept

LEMMA AnswerRows ==
  ASSUME TypeOK, SeesAnswer
  PROVE  /\ mine.state = "dialing" /\ mine' = [attempt |-> mine.attempt, state |-> "answered"]
         /\ watcher.phase = "events" /\ mine.attempt \in room \union left
         /\ watcher'.phase = watcher.phase
         /\ watcher'.event = IF watcher.event = "none" THEN "answer" ELSE watcher.event
         /\ RestKept
         /\ UNCHANGED << left, transfer, answer, wire, removals, relinquish, bridgeClose, job >>
         /\ Kept
<1>1. /\ mine.state = "dialing" /\ mine' = [mine EXCEPT !.state = "answered"]
      /\ watcher.phase = "events" /\ mine.attempt \in room \union left
      /\ watcher' = [watcher EXCEPT !.event = Queued("answer")]
      /\ RestKept
      /\ UNCHANGED << left, transfer, answer, wire, removals, relinquish, bridgeClose, job >>
  BY DEF SeesAnswer, MayAnswer, RestKept, roomVars, jobVars
<1>2. "answer" \in Events
  BY DEF Events
<1>3. /\ watcher' \in Watchers /\ watcher'.phase = watcher.phase
      /\ watcher'.event = IF watcher.event = "none" THEN "answer" ELSE watcher.event
  BY <1>1, <1>2, QueuedEvent
<1>4. mine' = [attempt |-> mine.attempt, state |-> "answered"] /\ mine' \in Mines
  BY <1>1, MineIsMine DEF Mines, States, Active
<1> QED
  BY <1>1, <1>3, <1>4, Typed DEF Kept

LEMMA LeftRows ==
  ASSUME TypeOK, StartsInOrder, NEW p \in {Caller} \union Attempts, SeesLeft(p)
  PROVE  /\ RestKept /\ UNCHANGED << transfer, answer, relinquish, job >> /\ Kept
         /\ left' = left \ {p}
         /\ \/ /\ EndsBridge(p) /\ bridgeClose' # "none"
               /\ UNCHANGED << mine, watcher, wire >>
            \/ /\ ~EndsBridge(p) /\ UNCHANGED << mine, wire, bridgeClose >>
               /\ \/ UNCHANGED watcher
                  \/ p = Caller /\ watcher'.phase = watcher.phase /\ watcher.phase # "off"
                     /\ watcher'.event = IF watcher.event = "none" THEN "cancel" ELSE watcher.event
            \/ /\ mine.state = "dialing" /\ SettledAs("failed", "fail")
               /\ watcher'.phase = watcher.phase /\ UNCHANGED bridgeClose
               /\ watcher'.event = IF watcher.event = "none" THEN "fail" ELSE watcher.event
<1>1. /\ RestKept /\ UNCHANGED << transfer, answer, relinquish, job >> /\ left' = left \ {p}
  BY DEF SeesLeft, RestKept, handoffVars
<1>2. CASE /\ EndsBridge(p)
           /\ bridgeClose' = IF bridgeClose = "none" THEN "deleting" ELSE bridgeClose
           /\ UNCHANGED << handoffVars, session >>
  <2>1. UNCHANGED << mine, watcher, answer, wire, removals >> /\ bridgeClose' # "none"
    BY <1>2 DEF handoffVars
  <2> QED
    BY <1>1, <1>2, <2>1, Typed DEF Kept
<1>3. CASE /\ ~EndsBridge(p) /\ p = Caller
           /\ watcher' = IF Watching THEN [watcher EXCEPT !.event = Queued("cancel")]
                         ELSE watcher
           /\ UNCHANGED << mine, answer, wire, removals, bridgeClose >>
  <2>1. "cancel" \in Events
    BY DEF Events
  <2>2. /\ watcher' \in Watchers
        /\ \/ UNCHANGED watcher
           \/ p = Caller /\ watcher'.phase = watcher.phase /\ watcher.phase # "off"
              /\ watcher'.event = IF watcher.event = "none" THEN "cancel" ELSE watcher.event
    BY <1>3, <2>1, QueuedEvent, Typed DEF Watching
  <2> QED
    BY <1>1, <1>3, <2>2, Typed DEF Kept
<1>4. CASE /\ ~EndsBridge(p) /\ p # Caller
           /\ IF p = mine.attempt /\ Watching /\ mine.state \in Active
              THEN /\ Settle("failed", "fail")
                   /\ watcher' = [watcher EXCEPT !.event = Queued("fail")]
                   /\ UNCHANGED answer
              ELSE UNCHANGED handoffVars
           /\ UNCHANGED << session, bridgeClose >>
  <2>1. CASE p = mine.attempt /\ Watching /\ mine.state \in Active
    <3>1. mine.state = "dialing"
      BY <1>4, <2>1 DEF EndsBridge, Active
    <3>2. "failed" \in Unsuccessful /\ "fail" \in Reports /\ "fail" \in Events
      BY DEF Unsuccessful, Reports, Events
    <3>3. SettledAs("failed", "fail")
      BY <1>4, <2>1, <3>2, SettleRows
    <3>4. /\ watcher' \in Watchers /\ watcher'.phase = watcher.phase
          /\ watcher'.event = IF watcher.event = "none" THEN "fail" ELSE watcher.event
      BY <1>4, <2>1, <3>2, QueuedEvent
    <3>5. Kept
      BY <1>1, <3>2, <3>3, <3>4, SettledTyped, Typed DEF Kept
    <3> QED
      BY <1>1, <1>4, <3>1, <3>3, <3>4, <3>5
  <2>2. CASE ~(p = mine.attempt /\ Watching /\ mine.state \in Active)
    <3>1. UNCHANGED << mine, watcher, answer, wire, removals, bridgeClose >>
      BY <1>4, <2>2 DEF handoffVars
    <3> QED
      BY <1>1, <1>4, <3>1, Typed DEF Kept
  <2> QED
    BY <2>1, <2>2
<1> QED
  BY <1>2, <1>3, <1>4 DEF SeesLeft

\* The watcher sends a request and waits for it.
SentOne(event) ==
  \E r \in Requests :
    /\ r.attempt = mine.attempt /\ r.event = event /\ r.watched
    /\ wire' = wire \union {r}

LEMMA SendRows ==
  ASSUME TypeOK, StartsInOrder, mine.state \in Active, NEW event \in Events, Send(event)
  PROVE  SentOne(event) /\ wire' \subseteq Requests /\ WireKeeps
<1> DEFINE r == [attempt |-> mine.attempt, event |-> event, watched |-> TRUE]
<1>1. mine.attempt \in Attempts
  BY MineIsMine DEF StartsInOrder, Attempts
<1>2. r \in Requests /\ r.attempt = mine.attempt /\ r.event = event /\ r.watched
  BY <1>1 DEF Requests
<1>3. wire' = wire \union {r}
  BY DEF Send
<1> HIDE DEF r
<1> QED
  BY <1>2, <1>3, Typed DEF SentOne, WireKeeps

LEMMA EventRows ==
  ASSUME TypeOK, StartsInOrder, HandleEvent
  PROVE  /\ RestKept /\ UNCHANGED << left, transfer, relinquish, bridgeClose, job >> /\ Kept
         /\ watcher.phase = "events"
         /\ \/ /\ watcher.event \in {"time_out", "fail"} \/ mine.state \notin Active
               /\ watcher' = Off /\ UNCHANGED << mine, answer, wire >>
            \/ SettledAs("canceled", "cancel") /\ watcher' = Off /\ answer' = "none"
               /\ WireIsQuiet'
            \/ /\ watcher.event = "answer" /\ mine.state \in Active
               /\ SentOne("answer") /\ WireKeeps
               /\ watcher' = [phase |-> "answer", event |-> "answer"]
               /\ UNCHANGED << mine, answer >>
<1>1. RestKept /\ UNCHANGED << left, transfer, relinquish, bridgeClose, job >>
      /\ watcher.phase = "events"
  BY DEF HandleEvent, RestKept, roomVars
<1>2. CASE /\ watcher.event \in {"time_out", "fail"}
           /\ watcher' = Off
           /\ UNCHANGED << mine, answer, wire, removals >>
  BY <1>1, <1>2, Typed DEF Kept
<1>3. CASE watcher.event = "cancel" /\ mine.state \in Active /\ Cancel
  <2>1. SettledAs("canceled", "cancel") /\ watcher' = Off /\ answer' = "none" /\ WireIsQuiet'
    BY <1>3, CancelRows
  <2>2. "canceled" \in Unsuccessful /\ "cancel" \in Reports
    BY DEF Unsuccessful, Reports
  <2>3. mine' \in Mines /\ wire' \subseteq Requests /\ removals' \subseteq Attempts
    BY <2>1, <2>2, SettledTyped
  <2>4. Kept
    BY <2>1, <2>3, Typed DEF Kept
  <2> QED
    BY <1>1, <2>1, <2>4
<1>4. CASE watcher.event = "cancel" /\ mine.state \notin Active /\ watcher' = Off
           /\ UNCHANGED << mine, answer, wire, removals >>
  BY <1>1, <1>4, Typed DEF Kept
<1>5. CASE /\ watcher.event = "answer" /\ mine.state \in Active
           /\ Send("answer")
           /\ watcher' = [watcher EXCEPT !.phase = "answer"]
           /\ UNCHANGED << mine, answer, removals >>
  <2>1. "answer" \in Events
    BY DEF Events
  <2>2. SentOne("answer") /\ wire' \subseteq Requests /\ WireKeeps
    BY <1>5, <2>1, SendRows
  <2>3. watcher' = [phase |-> "answer", event |-> "answer"] /\ watcher' \in Watchers
    BY <1>5, <2>1, Typed DEF Watchers
  <2>4. Kept
    BY <1>5, <2>2, <2>3, Typed DEF Kept
  <2> QED
    BY <1>1, <1>5, <2>2, <2>3, <2>4
<1> QED
  BY <1>2, <1>3, <1>4, <1>5 DEF HandleEvent

\* How an attempt that the backend does not have as it should is settled.
LEMMA RejectedRows ==
  ASSUME TypeOK, StartsInOrder, mine.state \in Active, Rejected
  PROVE  /\ \E s \in Unsuccessful : SettledAs(s, "fail")
         /\ mine' \in Mines /\ wire' \subseteq Requests /\ removals' \subseteq Attempts
<1>1. "failed" \in Unsuccessful /\ "fail" \in Reports
  BY DEF Unsuccessful, Reports
<1>2. PICK s \in Unsuccessful : Settle(s, "fail")
  BY <1>1 DEF Rejected
<1>3. SettledAs(s, "fail")
  BY <1>1, <1>2, SettleRows
<1> QED
  BY <1>1, <1>3, SettledTyped

LEMMA AnsweredRows ==
  ASSUME TypeOK, StartsInOrder, WatcherInOrder, HandleAnswered
  PROVE  /\ RestKept /\ UNCHANGED << left, transfer, relinquish, bridgeClose, job >> /\ Kept
         /\ answer # "none" /\ answer' = "none"
         /\ mine.state = "answered" /\ watcher.phase = "answer"
         /\ \/ (\E s \in Unsuccessful, e \in Reports : SettledAs(s, e)) /\ watcher' = Off
            \/ /\ Caller \in room \union left /\ SentOne("complete") /\ WireKeeps
               /\ watcher'.phase = "complete" /\ watcher'.event = watcher.event
               /\ UNCHANGED mine
<1>1. RestKept /\ UNCHANGED << left, transfer, relinquish, bridgeClose, job >>
      /\ answer # "none" /\ answer' = "none"
      /\ mine.state = "answered" /\ watcher.phase = "answer" /\ mine.state \in Active
  BY DEF HandleAnswered, RestKept, roomVars, WatcherInOrder, Active
<1>2. CASE Settle("canceled", "cancel") /\ watcher' = Off
  <2>1. "canceled" \in Unsuccessful /\ "cancel" \in Reports
    BY DEF Unsuccessful, Reports
  <2>2. SettledAs("canceled", "cancel")
    BY <1>1, <1>2, <2>1, SettleRows
  <2>3. mine' \in Mines /\ wire' \subseteq Requests /\ removals' \subseteq Attempts
    BY <2>1, <2>2, SettledTyped
  <2>4. Kept
    BY <1>1, <1>2, <2>3, Typed DEF Kept
  <2> QED
    BY <1>1, <1>2, <2>1, <2>2, <2>4
<1>3. CASE /\ CallerPresent /\ Send("complete")
           /\ watcher' = [watcher EXCEPT !.phase = "complete"]
           /\ UNCHANGED << mine, removals >>
  <2>1. "complete" \in Events
    BY DEF Events
  <2>2. SentOne("complete") /\ wire' \subseteq Requests /\ WireKeeps
    BY <1>1, <1>3, <2>1, SendRows
  <2>3. watcher'.phase = "complete" /\ watcher'.event = watcher.event /\ watcher' \in Watchers
    BY <1>3, Typed DEF Watchers
  <2>4. Kept
    BY <1>1, <1>3, <2>2, <2>3, Typed DEF Kept
  <2> QED
    BY <1>1, <1>3, <2>2, <2>3, <2>4 DEF CallerPresent
<1>4. CASE Rejected /\ watcher' = Off
  <2>1. Kept
    BY <1>1, <1>4, RejectedRows, Typed DEF Kept
  <2>2. \E s \in Unsuccessful, e \in Reports : SettledAs(s, e)
    BY <1>1, <1>4, RejectedRows DEF Reports
  <2> QED
    BY <1>1, <1>4, <2>1, <2>2
<1> QED
  BY <1>2, <1>3, <1>4 DEF HandleAnswered

LEMMA CompletedRows ==
  ASSUME TypeOK, StartsInOrder, WatcherInOrder, HandleCompleted
  PROVE  /\ RestKept /\ UNCHANGED << left, transfer, bridgeClose, job >> /\ Kept
         /\ answer # "none" /\ answer' = "none"
         /\ mine.state = "answered" /\ watcher.phase = "complete"
         /\ \/ (\E s \in Unsuccessful, e \in Reports : SettledAs(s, e)) /\ watcher' = Off
               /\ UNCHANGED relinquish
            \/ /\ answer = "completed" /\ relinquish' # "none"
               /\ mine' = [attempt |-> mine.attempt, state |-> "completed"]
               /\ watcher'.phase = "bridged" /\ watcher'.event = watcher.event
               /\ UNCHANGED wire
<1>1. RestKept /\ UNCHANGED << left, transfer, bridgeClose, job >>
      /\ answer # "none" /\ answer' = "none"
      /\ mine.state = "answered" /\ watcher.phase = "complete" /\ mine.state \in Active
  BY DEF HandleCompleted, RestKept, roomVars, WatcherInOrder, Active
<1>2. CASE answer = "completed"
  <2>1. /\ mine' = [mine EXCEPT !.state = "completed"]
        /\ relinquish' = "closing"
        /\ watcher' = [watcher EXCEPT !.phase = "bridged"]
        /\ UNCHANGED << wire, removals >>
    BY <1>2 DEF HandleCompleted, IsCompleted
  <2>2. mine' = [attempt |-> mine.attempt, state |-> "completed"] /\ mine' \in Mines
    BY <2>1, MineIsMine, Typed DEF Mines
  <2>3. watcher'.phase = "bridged" /\ watcher'.event = watcher.event /\ watcher' \in Watchers
    BY <2>1, Typed DEF Watchers
  <2>4. Kept
    BY <1>1, <2>1, <2>2, <2>3, Typed DEF Kept
  <2> QED
    BY <1>1, <1>2, <2>1, <2>2, <2>3, <2>4
<1>3. CASE answer # "completed"
  <2>1. Rejected /\ watcher' = Off /\ UNCHANGED relinquish
    BY <1>3 DEF HandleCompleted, IsCompleted
  <2>2. Kept
    BY <1>1, <2>1, RejectedRows, Typed DEF Kept
  <2>3. \E s \in Unsuccessful, e \in Reports : SettledAs(s, e)
    BY <1>1, <2>1, RejectedRows DEF Reports
  <2> QED
    BY <1>1, <2>1, <2>2, <2>3
<1> QED
  BY <1>2, <1>3

-----------------------------------------------------------------------------
(***************************************************************************)
(* The room, the backend and the wire.                                     *)
(***************************************************************************)

\* Nobody is forgotten: who leaves the room is in it no more, and its event is
\* on its way.
RoomKeeps ==
  /\ room \union left \subseteq room' \union left'
  /\ room' \subseteq {Caller} \union Attempts /\ left' \subseteq {Caller} \union Attempts

LEMMA LeavesRows ==
  ASSUME TypeOK, NEW gone, Leaves(gone)
  PROVE  RoomKeeps
BY DEF Leaves, RoomKeeps, TypeOK

LEMMA FaultRows ==
  ASSUME TypeOK, Fault \/ UNCHANGED faults
  PROVE  faults' \in 0 .. MaxFaults /\ (faults' = 0 => faults = 0) /\ (Fault => faults' # 0)
<1>1. faults \in Nat /\ MaxFaults \in Nat /\ faults \in 0 .. MaxFaults
  BY BoundsAssumption DEF TypeOK
<1> QED
  BY <1>1 DEF Fault

LEMMA ServeTransferRows ==
  ASSUME TypeOK, ServeTransfer
  PROVE  /\ RoomKeeps /\ faults' \in 0 .. MaxFaults /\ (faults' = 0 => faults = 0)
         /\ UNCHANGED << connected, talking, handoffVars, jobVars >>
         /\ transfer.step \in {"sent", "given_up"} /\ transfer.result = "none"
         /\ transfer'.step = IF transfer.step = "sent" THEN "done" ELSE transfer.step
         /\ transfer'.attempt = transfer.attempt
         /\ transfer' \in [step : {"idle", "sent", "done", "given_up"},
                   attempt : 0 .. MaxAttempts, result : {"none", "refused", "dialing", "failed"}]
         /\ \/ transfer'.result = "refused" /\ backend' = backend
            \/ /\ transfer'.result \in {"dialing", "failed"}
               /\ backend.state \in {"none"} \union Unsuccessful
               /\ backend' = [attempt |-> transfer.attempt, state |-> transfer'.result]
<1>1. transfer \in [step : {"idle", "sent", "done", "given_up"},
                   attempt : 0 .. MaxAttempts, result : {"none", "refused", "dialing", "failed"}]
  BY DEF TypeOK
<1>2. ASSUME NEW result \in {"refused", "dialing", "failed"}, Told(result)
      PROVE  /\ transfer'.step = IF transfer.step = "sent" THEN "done" ELSE transfer.step
             /\ transfer'.attempt = transfer.attempt /\ transfer'.result = result
             /\ transfer' \in [step : {"idle", "sent", "done", "given_up"},
                   attempt : 0 .. MaxAttempts, result : {"none", "refused", "dialing", "failed"}]
  <2> DEFINE s == IF transfer.step = "sent" THEN "done" ELSE transfer.step
  <2>1. s \in {"idle", "sent", "done", "given_up"}
    BY <1>1
  <2>2. transfer' = [transfer EXCEPT !.step = s, !.result = result]
    BY <1>1, <1>2 DEF Told
  <2> HIDE DEF s
  <2>3. transfer'.step = s /\ transfer'.attempt = transfer.attempt /\ transfer'.result = result
        /\ transfer' \in [step : {"idle", "sent", "done", "given_up"},
                   attempt : 0 .. MaxAttempts, result : {"none", "refused", "dialing", "failed"}]
    BY <1>1, <2>1, <2>2
  <2> QED
    BY <2>3 DEF s
<1>3. transfer.step \in {"sent", "given_up"} /\ transfer.result = "none"
      /\ UNCHANGED << connected, talking, handoffVars, jobVars >>
  BY DEF ServeTransfer
<1>4. UNCHANGED << room, left >> => RoomKeeps
  BY DEF RoomKeeps, TypeOK
<1>5. CASE /\ Leaves(IF backend.state \in Unsuccessful THEN Peer ELSE {})
           /\ Told("refused") /\ UNCHANGED << backend, faults >>
  BY <1>2, <1>3, <1>5, LeavesRows, FaultRows
<1>6. CASE Fault /\ Told("refused") /\ UNCHANGED << backend, room, left >>
  BY <1>2, <1>3, <1>4, <1>6, FaultRows
<1>7. CASE /\ MayTransfer
           /\ backend' = [attempt |-> transfer.attempt, state |-> "dialing"]
           /\ room' = (room \ Peer) \union {transfer.attempt}
           /\ left' = left \union (room \intersect Peer)
           /\ Told("dialing") /\ UNCHANGED faults
  <2>1. {Caller} \union Attempts = 0 .. MaxAttempts
    BY BoundsAssumption DEF Caller, Attempts
  <2>2. transfer.attempt \in {Caller} \union Attempts
    BY <1>1, <2>1
  <2>3. RoomKeeps
    BY <1>7, <2>2 DEF RoomKeeps, TypeOK
  <2> QED
    BY <1>2, <1>3, <1>7, <2>3, FaultRows DEF MayTransfer
<1>8. CASE /\ MayTransfer
           /\ backend' = [attempt |-> transfer.attempt, state |-> "failed"]
           /\ Leaves(Peer)
           /\ Told("failed") /\ UNCHANGED faults
  BY <1>2, <1>3, <1>8, LeavesRows, FaultRows DEF MayTransfer
<1> QED
  BY <1>5, <1>6, <1>7, <1>8 DEF ServeTransfer

LEMMA ServeRows ==
  ASSUME TypeOK, NEW r \in Requests, ServeRequest(r)
  PROVE  /\ RoomKeeps /\ faults' \in 0 .. MaxFaults /\ (faults' = 0 => faults = 0)
         /\ UNCHANGED << connected, talking, transfer, mine, watcher, removals, jobVars >>
         /\ r \in wire /\ wire' = wire \ {r}
         /\ backend' \in Mines /\ backend'.attempt = backend.attempt
         /\ backend.state \notin Active => backend' = backend
         /\ r.attempt # backend.attempt => backend' = backend
         /\ r.attempt = backend.attempt /\ backend.state \in Active /\ r.event \in Reports =>
              backend'.state \notin Active
         /\ answer' \in Outcomes
         /\ ~r.watched => answer' = answer
         /\ r.watched /\ answer' = "completed" =>
              backend' = [attempt |-> r.attempt, state |-> "completed"]
<1>1. /\ backend \in Mines /\ backend = [attempt |-> backend.attempt, state |-> backend.state]
      /\ backend.state \in States
  BY DEF TypeOK, Mines
<1>2. /\ r \in wire /\ wire' = wire \ {r}
      /\ UNCHANGED << connected, talking, transfer, mine, watcher, removals, jobVars >>
      /\ backend' = IF Applies(r) THEN [backend EXCEPT !.state = NextState(r.event)] ELSE backend
      /\ answer' = IF r.watched THEN Reply(r) ELSE answer
  BY DEF ServeRequest
<1>3. RoomKeeps /\ faults' \in 0 .. MaxFaults /\ (faults' = 0 => faults = 0)
  <2>1. CASE Leaves(IF Cleans(r) THEN {r.attempt} ELSE {}) /\ UNCHANGED faults
    BY <2>1, LeavesRows, FaultRows
  <2>2. CASE Fault /\ UNCHANGED << room, left >>
    BY <2>2, FaultRows DEF RoomKeeps, TypeOK
  <2> QED
    BY <2>1, <2>2 DEF ServeRequest
<1> DEFINE n == NextState(r.event)
<1>4. /\ n \in (States \ {"none", "dialing"}) \union {"error"}
      /\ backend.state \in Active /\ r.event \in Reports => n \in Unsuccessful
  BY DEF NextState, States, Active, Unsuccessful, Reports
<1> HIDE DEF n
<1>5. CASE Applies(r)
  <2>1. backend.attempt = r.attempt /\ backend.state \in Active /\ n # "error"
    BY <1>5 DEF Applies, n
  <2>2. backend' = [attempt |-> backend.attempt, state |-> n]
    <3>1. backend' = [backend EXCEPT !.state = n]
      BY <1>2, <1>5 DEF n
    <3> QED
      BY <1>1, <3>1
  <2>3. backend' \in Mines /\ backend'.attempt = backend.attempt /\ backend'.state = n
    BY <1>1, <1>4, <2>1, <2>2 DEF Mines
  <2>4. r.watched => answer' = n
    BY <1>2, <2>1 DEF Reply, n
  <2>5. answer' \in Outcomes
    BY <1>2, <1>4, <2>4, Typed DEF Outcomes
  <2>6. r.event \in Reports => n \notin Active
    BY <1>4, <2>1, Typed
  <2> QED
    BY <1>2, <1>3, <2>1, <2>2, <2>3, <2>4, <2>5, <2>6
<1>6. CASE ~Applies(r)
  <2>1. backend' = backend
    BY <1>2, <1>6
  <2>2. ~(backend.attempt = r.attempt /\ backend.state \in Active /\ r.event \in Reports)
    BY <1>4, <1>6 DEF Applies, n, Unsuccessful
  <2>3. r.watched => answer' = "error" \/ (answer' = backend.state /\ backend.attempt = r.attempt)
    BY <1>2, <1>6 DEF Applies, Reply
  <2>4. answer' \in Outcomes
    BY <1>1, <1>2, <2>3, Typed DEF Outcomes
  <2> QED
    BY <1>1, <1>2, <1>3, <2>1, <2>2, <2>3, <2>4
<1> QED
  BY <1>5, <1>6

LEMMA WireRows ==
  ASSUME TypeOK, RequestTimesOut \/ \E r \in Requests : RequestLost(r)
  PROVE  /\ faults' \in 0 .. MaxFaults /\ faults' # 0
         /\ UNCHANGED << backend, connected, room, talking, left, transfer, mine, watcher,
                         removals, relinquish, bridgeClose, job, session >>
         /\ \/ wire' \subseteq wire /\ UNCHANGED answer
            \/ wire' \subseteq Requests /\ WireIsQuiet' /\ answer' = "error"
               /\ watcher.phase \in {"answer", "complete"}
<1>1. faults' \in 0 .. MaxFaults /\ faults' # 0
  BY FaultRows DEF RequestTimesOut, RequestLost
<1>2. CASE RequestTimesOut
  BY <1>1, <1>2, AbandonedRows DEF RequestTimesOut, WireIsQuiet, roomVars, jobVars
<1>3. ASSUME NEW r \in Requests, RequestLost(r)
      PROVE  /\ UNCHANGED << backend, connected, room, talking, left, transfer, mine, watcher,
                             removals, relinquish, bridgeClose, job, session, answer >>
             /\ wire' \subseteq wire
  BY <1>3 DEF RequestLost, roomVars, jobVars
<1> QED
  BY <1>1, <1>2, <1>3

-----------------------------------------------------------------------------
(***************************************************************************)
(* What every step does to the rest of the state.                          *)
(***************************************************************************)

Transfers == [step : {"idle", "sent", "done", "given_up"},
              attempt : 0 .. MaxAttempts, result : {"none", "refused", "dialing", "failed"}]

JobTypes ==
  /\ session \in {"open", "closing", "closed"}
  /\ relinquish \in {"none", "closing", "reporting", "done"}
  /\ bridgeClose \in {"none", "deleting", "done"}
  /\ job \in {"running", "closed", "waiting", "cleanup", "ended"}

RestTypes ==
  /\ backend \in Mines /\ transfer \in Transfers /\ faults \in 0 .. MaxFaults
  /\ connected \in BOOLEAN /\ talking \subseteq Attempts
  /\ room \subseteq {Caller} \union Attempts /\ left \subseteq {Caller} \union Attempts

LEMMA TypesAre ==
  TypeOK <=> /\ JobTypes /\ RestTypes
             /\ mine \in Mines /\ watcher \in Watchers /\ answer \in Outcomes
             /\ wire \subseteq Requests /\ removals \subseteq Attempts
BY DEF TypeOK, JobTypes, RestTypes, Mines, Watchers, Requests, Transfers

LEMMA TypesNext ==
  ASSUME JobTypes', RestTypes', mine' \in Mines, watcher' \in Watchers, answer' \in Outcomes,
         wire' \subseteq Requests, removals' \subseteq Attempts
  PROVE  TypeOK'
BY DEF TypeOK, JobTypes, RestTypes, Mines, Watchers, Requests, Transfers

LEMMA JobTyped ==
  ASSUME TypeOK, [Next]_vars
  PROVE  JobTypes'
<1>1. JobTypes
  BY TypesAre
<1>2. UNCHANGED jobVars => JobTypes'
  BY <1>1 DEF jobVars, JobTypes
<1>3. CASE AskTransfer \/ ServeTransfer \/ TransferTimesOut \/ StartHandoff \/ Deadline
           \/ SeesAnswer \/ RequestTimesOut
  BY <1>2, <1>3 DEF AskTransfer, ServeTransfer, TransferTimesOut, StartHandoff, Deadline,
                    SeesAnswer, RequestTimesOut
<1>4. ASSUME NEW p \in {Caller} \union Attempts, HangsUp(p) \/ SeesLeft(p) PROVE JobTypes'
  <2>1. CASE HangsUp(p)
    BY <1>2, <2>1 DEF HangsUp
  <2>2. CASE SeesLeft(p)
    BY <1>1, <2>2 DEF SeesLeft, Closing, JobTypes
  <2> QED
    BY <1>4, <2>1, <2>2
<1>5. ASSUME NEW a \in Attempts, Picks(a) \/ RemoveParticipant(a) PROVE JobTypes'
  BY <1>2, <1>5 DEF Picks, RemoveParticipant
<1>6. ASSUME NEW r \in Requests, RequestLost(r) \/ ServeRequest(r) PROVE JobTypes'
  BY <1>2, <1>6 DEF RequestLost, ServeRequest
<1>7. CASE HandleEvent \/ HandleAnswered \/ HandleCompleted
  BY <1>1, <1>7 DEF HandleEvent, HandleAnswered, HandleCompleted, Closing, JobTypes
<1>8. CASE SessionEnds \/ Shutdown \/ JobCleanup
  BY <1>1, <1>8 DEF SessionEnds, Shutdown, JobCleanup, Closing, JobTypes
<1>9. CASE RelinquishCloses \/ RelinquishReports \/ BridgeCloses \/ JobLeaves \/ JobEnds
  BY <1>1, <1>9 DEF RelinquishCloses, RelinquishReports, BridgeCloses, JobLeaves, JobEnds,
                    Closing, JobTypes
<1>10. CASE UNCHANGED vars
  BY <1>2, <1>10 DEF vars
<1> QED
  BY <1>3, <1>4, <1>5, <1>6, <1>7, <1>8, <1>9, <1>10 DEF Next

\* What the steps outside the controller do to what it relies on.
LEMMA ElsewhereRows ==
  ASSUME TypeOK, Elsewhere
  PROVE  /\ RestTypes' /\ RoomKeeps /\ (faults' = 0 => faults = 0)
         /\ \/ UNCHANGED backend
            \/ /\ backend.state \in {"none"} \union Unsuccessful
               /\ transfer.step \in {"sent", "given_up"} /\ transfer.result = "none"
               /\ backend'.attempt = transfer.attempt
         /\ relinquish' # "none" <=> relinquish # "none"
         /\ bridgeClose' = "none" => bridgeClose = "none"
         /\ job' = "running" => job = "running"
<1>1. RestTypes
  BY TypesAre
<1>2. UNCHANGED << room, left >> => RoomKeeps
  BY <1>1 DEF RoomKeeps, RestTypes
<1>3. UNCHANGED roomVars => UNCHANGED << room, talking, left >>
  BY DEF roomVars
<1>4. UNCHANGED jobVars => UNCHANGED << session, relinquish, bridgeClose, job >>
  BY DEF jobVars
<1>5. CASE AskTransfer
  <2>1. transfer' = [step |-> "sent", attempt |-> transfer.attempt + 1, result |-> "none"]
        /\ transfer.attempt < MaxAttempts
        /\ UNCHANGED << backend, connected, roomVars, jobVars, faults >>
    BY <1>5 DEF AskTransfer
  <2>2. transfer' \in Transfers
    BY <2>1, MineIsMine DEF Transfers
  <2>3. UNCHANGED << room, talking, left, session, relinquish, bridgeClose, job >>
    BY <1>3, <1>4, <2>1
  <2> HIDE <1>5
  <2> QED
    BY <1>1, <1>2, <2>1, <2>2, <2>3 DEF RestTypes
<1>6. CASE ServeTransfer
  <2>1. /\ transfer' \in Transfers /\ RoomKeeps /\ faults' \in 0 .. MaxFaults
        /\ faults' = 0 => faults = 0
        /\ UNCHANGED << connected, talking, session, relinquish, bridgeClose, job >>
        /\ transfer.step \in {"sent", "given_up"} /\ transfer.result = "none"
    BY <1>4, <1>6, ServeTransferRows DEF Transfers
  <2>2. \/ UNCHANGED backend
        \/ /\ backend.state \in {"none"} \union Unsuccessful
           /\ backend' = [attempt |-> transfer.attempt, state |-> transfer'.result]
           /\ transfer'.result \in {"dialing", "failed"}
    BY <1>6, ServeTransferRows
  <2>3. \A s \in {"dialing", "failed"} : [attempt |-> transfer.attempt, state |-> s] \in Mines
    BY MineIsMine DEF Mines, States, Active, Unsuccessful
  <2>4. backend' \in Mines
    BY <1>1, <2>2, <2>3 DEF RestTypes
  <2> QED
    BY <1>1, <2>1, <2>2, <2>4 DEF RestTypes, RoomKeeps
<1>7. CASE TransferTimesOut
  <2>1. transfer' = [transfer EXCEPT !.step = "given_up"] /\ Fault
        /\ UNCHANGED << backend, connected, roomVars, jobVars >>
    BY <1>7 DEF TransferTimesOut
  <2>2. transfer' \in Transfers
    BY <1>1, <2>1 DEF RestTypes, Transfers
  <2>3. faults' \in 0 .. MaxFaults /\ (faults' = 0 => faults = 0)
    BY <2>1, FaultRows
  <2>4. UNCHANGED << room, talking, left, session, relinquish, bridgeClose, job >>
    BY <1>3, <1>4, <2>1
  <2> QED
    BY <1>1, <1>2, <2>1, <2>2, <2>3, <2>4 DEF RestTypes
<1>8. ASSUME NEW p \in {Caller} \union Attempts, HangsUp(p)
      PROVE  /\ RoomKeeps /\ UNCHANGED << backend, connected, talking, transfer, faults,
                                          relinquish, bridgeClose, job >>
  BY <1>4, <1>8, LeavesRows DEF HangsUp
<1>9. ASSUME NEW a \in Attempts, Picks(a)
      PROVE  /\ talking' \subseteq Attempts
             /\ UNCHANGED << backend, connected, room, left, transfer, faults, relinquish,
                             bridgeClose, job >>
  BY <1>1, <1>4, <1>9 DEF Picks, RestTypes
<1>10. ASSUME NEW a \in Attempts, RemoveParticipant(a)
       PROVE  /\ RoomKeeps /\ faults' \in 0 .. MaxFaults /\ (faults' = 0 => faults = 0)
              /\ UNCHANGED << backend, connected, talking, transfer, relinquish, bridgeClose, job >>
  <2>1. UNCHANGED << backend, connected, talking, transfer, relinquish, bridgeClose, job >>
    BY <1>4, <1>10 DEF RemoveParticipant
  <2>2. CASE Leaves({a}) /\ UNCHANGED faults
    BY <2>1, <2>2, LeavesRows, FaultRows
  <2>3. CASE Fault /\ UNCHANGED << room, left >>
    BY <1>2, <2>1, <2>3, FaultRows
  <2> QED
    BY <1>10, <2>2, <2>3 DEF RemoveParticipant
<1>11. CASE RelinquishCloses \/ RelinquishReports \/ JobLeaves
  <2>1. /\ UNCHANGED << backend, connected, roomVars, transfer, faults, bridgeClose >>
        /\ relinquish' # "none" <=> relinquish # "none"
        /\ job' = "running" => job = "running"
    BY <1>11 DEF RelinquishCloses, RelinquishReports, JobLeaves
  <2> QED
    BY <1>1, <1>2, <1>3, <2>1 DEF RestTypes
<1>12. CASE BridgeCloses
  <2>1. /\ UNCHANGED << backend, connected, talking, transfer, relinquish >>
        /\ bridgeClose' # "none" /\ (job' = "running" => job = "running")
    BY <1>12 DEF BridgeCloses
  <2>2. RoomKeeps /\ faults' \in 0 .. MaxFaults /\ (faults' = 0 => faults = 0)
    <3>1. CASE Leaves(room) /\ UNCHANGED faults
      BY <3>1, LeavesRows, FaultRows
    <3>2. CASE Fault /\ UNCHANGED << room, left >>
      BY <1>2, <3>2, FaultRows
    <3> QED
      BY <1>12, <3>1, <3>2 DEF BridgeCloses
  <2> QED
    BY <1>1, <2>1, <2>2 DEF RestTypes, RoomKeeps
<1>13. CASE JobEnds
  <2>1. /\ UNCHANGED << backend, roomVars, transfer, relinquish, bridgeClose, faults >>
        /\ connected' = FALSE /\ job' # "running"
    BY <1>13 DEF JobEnds
  <2> QED
    BY <1>1, <1>2, <1>3, <2>1 DEF RestTypes
<1>14. CASE UNCHANGED vars
  BY <1>1, <1>2, <1>3, <1>4, <1>14 DEF RestTypes, vars
<1>15. ASSUME NEW p \in {Caller} \union Attempts, HangsUp(p)
       PROVE  RestTypes' /\ (faults' = 0 => faults = 0)
  BY <1>1, <1>8, <1>15 DEF RestTypes, RoomKeeps
<1>16. ASSUME NEW a \in Attempts, Picks(a)
       PROVE  RestTypes' /\ (faults' = 0 => faults = 0) /\ RoomKeeps
  BY <1>1, <1>2, <1>9, <1>16 DEF RestTypes
<1>17. ASSUME NEW a \in Attempts, RemoveParticipant(a)
       PROVE  RestTypes'
  BY <1>1, <1>10, <1>17 DEF RestTypes, RoomKeeps
<1> QED
  BY <1>5, <1>6, <1>7, <1>8, <1>9, <1>10, <1>11, <1>12, <1>13, <1>14, <1>15, <1>16, <1>17
     DEF Elsewhere

-----------------------------------------------------------------------------
(***************************************************************************)
(* What the controller's steps do to the rest of the state.                *)
(***************************************************************************)

BackendRows ==
  /\ backend'.attempt = backend.attempt
  /\ backend.state \notin Active => backend' = backend

Rows ==
  /\ RestTypes' /\ Kept /\ (faults' = 0 => faults = 0)
  /\ BackendRows
  /\ job' = "running" => job = "running"

LEMMA ControllerRows ==
  ASSUME TypeOK, StartsInOrder, WatcherInOrder, Controller
  PROVE  Rows
<1>1. RestTypes
  BY TypesAre
<1>2. ASSUME RestKept, UNCHANGED job, left' \subseteq left, transfer' \in Transfers, Kept
      PROVE  Rows
  BY <1>1, <1>2 DEF Rows, RestTypes, RestKept, BackendRows
<1>3. UNCHANGED transfer => transfer' \in Transfers
  BY <1>1 DEF RestTypes
<1>4. ASSUME StartHandoff PROVE Rows
  <2>1. transfer' = [transfer EXCEPT !.step = "idle"] /\ Kept /\ RestKept
        /\ UNCHANGED << left, job >>
    BY <1>4, StartRows
  <2>2. transfer' \in Transfers
    BY <1>1, <2>1 DEF RestTypes, Transfers
  <2> QED
    BY <1>2, <2>1, <2>2
<1>5. ASSUME NEW p \in {Caller} \union Attempts, SeesLeft(p) PROVE Rows
  <2>1. RestKept /\ UNCHANGED << transfer, job >> /\ Kept /\ left' = left \ {p}
    BY <1>5, LeftRows
  <2> QED
    BY <1>2, <1>3, <2>1
<1>6. ASSUME Deadline PROVE Rows
  BY <1>2, <1>3, <1>6, DeadlineRows
<1>7. ASSUME SeesAnswer PROVE Rows
  BY <1>2, <1>3, <1>7, AnswerRows
<1>8. ASSUME HandleEvent PROVE Rows
  BY <1>2, <1>3, <1>8, EventRows
<1>9. ASSUME HandleAnswered PROVE Rows
  BY <1>2, <1>3, <1>9, AnsweredRows
<1>10. ASSUME HandleCompleted PROVE Rows
  BY <1>2, <1>3, <1>10, CompletedRows
<1>11. ASSUME RequestTimesOut \/ \E r \in Requests : RequestLost(r) PROVE Rows
  <2>1. /\ faults' \in 0 .. MaxFaults /\ faults' # 0
        /\ UNCHANGED << backend, connected, room, talking, left, transfer, mine, watcher,
                        removals, job >>
        /\ \/ wire' \subseteq wire /\ UNCHANGED answer
           \/ wire' \subseteq Requests /\ answer' = "error"
    BY <1>11, WireRows
  <2>2. Kept
    BY <2>1, Typed DEF Kept
  <2> QED
    BY <1>1, <2>1, <2>2 DEF Rows, RestTypes, BackendRows
<1>12. ASSUME NEW r \in Requests, ServeRequest(r) PROVE Rows
  <2>1. UNCHANGED << connected, talking, transfer, mine, watcher, removals, job >>
    BY <1>12, ServeRows DEF jobVars
  <2>2. /\ RoomKeeps /\ faults' \in 0 .. MaxFaults /\ (faults' = 0 => faults = 0)
        /\ wire' = wire \ {r} /\ answer' \in Outcomes
        /\ backend' \in Mines /\ BackendRows
    BY <1>12, ServeRows DEF BackendRows
  <2>3. Kept
    BY <2>1, <2>2, Typed DEF Kept
  <2> QED
    BY <1>1, <2>1, <2>2, <2>3 DEF Rows, RestTypes, RoomKeeps
<1>13. ASSUME SessionEnds \/ Shutdown \/ JobCleanup PROVE Rows
  <2>1. UNCHANGED << backend, connected, room, talking, left, faults >>
    BY <1>13, EndsRows
  <2>2. job' = "running" => job = "running"
    BY <1>13 DEF SessionEnds, Shutdown, JobCleanup
  <2>3. transfer' \in Transfers
    <3>1. CASE UNCHANGED transfer
      BY <1>3, <3>1
    <3>2. CASE SessionEnds
      <4>1. transfer' = [transfer EXCEPT !.step = IF @ \in {"sent", "done"} THEN "given_up" ELSE @]
        BY <3>2 DEF SessionEnds
      <4> QED
        BY <1>1, <4>1 DEF RestTypes, Transfers
    <3> QED
      BY <1>13, <3>1, <3>2, EndsRows
  <2>4. Kept
    <3>1. "canceled" \in Unsuccessful /\ "cancel" \in Reports
      BY DEF Unsuccessful, Reports
    <3>2. CASE UNCHANGED << mine, watcher, answer, wire, removals >>
      BY <3>2, Typed DEF Kept
    <3>3. CASE SettledAs("canceled", "cancel") /\ watcher' = Off /\ answer' = "none"
      BY <3>1, <3>3, SettledTyped, Typed DEF Kept
    <3>4. CASE /\ watcher' = Off /\ answer' = "none" /\ wire' \subseteq Requests
               /\ UNCHANGED << mine, removals >>
      BY <3>4, Typed DEF Kept
    <3> QED
      BY <1>13, <3>2, <3>3, <3>4, EndsRows
  <2> QED
    BY <1>1, <2>1, <2>2, <2>3, <2>4 DEF Rows, RestTypes, BackendRows
<1> QED
  BY <1>4, <1>5, <1>6, <1>7, <1>8, <1>9, <1>10, <1>11, <1>12, <1>13 DEF Controller

LEMMA TypeNext ==
  ASSUME TypeOK, StartsInOrder, WatcherInOrder, [Next]_vars
  PROVE  TypeOK'
<1>1. JobTypes'
  BY JobTyped
<1>2. CASE Elsewhere
  <2>1. RestTypes'
    BY <1>2, ElsewhereRows
  <2>2. mine' \in Mines /\ watcher' \in Watchers /\ answer' \in Outcomes
        /\ wire' \subseteq Requests /\ removals' \subseteq Attempts
    BY <1>2, ElsewhereKeeps, Typed
  <2> QED
    BY <1>1, <2>1, <2>2, TypesNext
<1>3. CASE Controller
  BY <1>1, <1>3, ControllerRows, TypesNext DEF Rows, Kept
<1> QED
  BY <1>2, <1>3, NextIs

-----------------------------------------------------------------------------
(***************************************************************************)
(* Attempts start in order.                                                *)
(***************************************************************************)

\* The steps that neither start an attempt nor end the tool's wait leave the
\* tool alone and only ever settle the agent's attempt.
LEMMA SameAttempt ==
  ASSUME TypeOK, StartsInOrder, WatcherInOrder, Controller
  PROVE  \/ StartHandoff
         \/ /\ SessionEnds \/ UNCHANGED transfer
            /\ mine'.attempt = mine.attempt
            /\ mine'.state \in Active => mine.state \in Active
<1> DEFINE Same == /\ UNCHANGED transfer
                   /\ mine'.attempt = mine.attempt
                   /\ mine'.state \in Active => mine.state \in Active
<1>1. ASSUME NEW s \in Unsuccessful, NEW e \in Reports, SettledAs(s, e)
      PROVE  mine'.attempt = mine.attempt /\ mine.state \in Active
  BY <1>1 DEF SettledAs
<1>2. /\ \A s \in {"failed", "timed_out", "canceled"} : s \in Unsuccessful
      /\ \A e \in {"fail", "time_out", "cancel"} : e \in Reports
      /\ \A s \in {"dialing", "answered"} : s \in Active
  BY DEF Unsuccessful, Reports, Active
<1>3. ASSUME NEW p \in {Caller} \union Attempts, SeesLeft(p) PROVE Same
  <2>1. UNCHANGED transfer /\ (UNCHANGED mine \/ SettledAs("failed", "fail"))
    BY <1>3, LeftRows
  <2> QED
    BY <1>1, <1>2, <2>1
<1>4. ASSUME Deadline PROVE Same
  <2>1. UNCHANGED transfer /\ SettledAs("timed_out", "time_out")
    BY <1>4, DeadlineRows
  <2> QED
    BY <1>1, <1>2, <2>1
<1>5. ASSUME SeesAnswer PROVE Same
  <2>1. /\ UNCHANGED transfer /\ mine.state = "dialing"
        /\ mine' = [attempt |-> mine.attempt, state |-> "answered"]
    BY <1>5, AnswerRows
  <2> QED
    BY <1>2, <2>1
<1>6. ASSUME HandleEvent PROVE Same
  <2>1. UNCHANGED transfer /\ (UNCHANGED mine \/ SettledAs("canceled", "cancel"))
    BY <1>6, EventRows
  <2> QED
    BY <1>1, <1>2, <2>1
<1>7. ASSUME HandleAnswered PROVE Same
  <2>1. UNCHANGED transfer
        /\ (UNCHANGED mine \/ \E s \in Unsuccessful, e \in Reports : SettledAs(s, e))
    BY <1>7, AnsweredRows
  <2> QED
    BY <1>1, <2>1
<1>8. ASSUME HandleCompleted PROVE Same
  <2>1. /\ UNCHANGED transfer /\ mine.state = "answered"
        /\ \/ \E s \in Unsuccessful, e \in Reports : SettledAs(s, e)
           \/ mine' = [attempt |-> mine.attempt, state |-> "completed"]
    BY <1>8, CompletedRows
  <2> QED
    BY <1>1, <1>2, <2>1
<1>9. ASSUME RequestTimesOut \/ \E r \in Requests : RequestLost(r) \/ ServeRequest(r)
      PROVE  Same
  <2>1. UNCHANGED << mine, transfer >>
    BY <1>9, WireRows, ServeRows
  <2> QED
    BY <2>1
<1>10. ASSUME SessionEnds \/ Shutdown \/ JobCleanup
       PROVE  /\ SessionEnds \/ UNCHANGED transfer
              /\ mine'.attempt = mine.attempt
              /\ mine'.state \in Active => mine.state \in Active
  <2>1. /\ SessionEnds \/ UNCHANGED transfer
        /\ UNCHANGED mine \/ SettledAs("canceled", "cancel")
    BY <1>10, EndsRows
  <2> QED
    BY <1>1, <1>2, <2>1
<1> QED
  BY <1>3, <1>4, <1>5, <1>6, <1>7, <1>8, <1>9, <1>10 DEF Controller

LEMMA StartsNext ==
  ASSUME TypeOK, StartsInOrder, WatcherInOrder, [Next]_vars
  PROVE  StartsInOrder'
<1>1. /\ mine.attempt \in Int /\ transfer.attempt \in Int /\ mine.attempt >= 0
      /\ transfer \in Transfers
  BY MineIsMine, TypesAre DEF RestTypes
<1>2. CASE Elsewhere
  <2>1. UNCHANGED mine
    BY <1>2, ElsewhereKeeps
  <2>2. CASE AskTransfer
    <3>1. transfer' = [step |-> "sent", attempt |-> transfer.attempt + 1, result |-> "none"]
      BY <2>2 DEF AskTransfer
    <3> QED
      BY <1>1, <2>1, <3>1 DEF StartsInOrder
  <2>3. CASE ServeTransfer
    <3>1. /\ transfer.step \in {"sent", "given_up"} /\ transfer.result = "none"
          /\ transfer'.step = IF transfer.step = "sent" THEN "done" ELSE transfer.step
          /\ transfer'.attempt = transfer.attempt
          /\ transfer'.result # "none"
          /\ transfer'.result \in {"dialing", "failed"} => backend'.attempt = transfer.attempt
      BY <2>3, ServeTransferRows
    <3>2. mine.attempt < transfer.attempt
      BY <3>1 DEF StartsInOrder
    <3> QED
      BY <1>1, <2>1, <3>1, <3>2 DEF StartsInOrder
  <2>4. CASE TransferTimesOut
    <3>1. transfer.step \in {"sent", "done"} /\ transfer' = [transfer EXCEPT !.step = "given_up"]
      BY <2>4 DEF TransferTimesOut
    <3>2. transfer'.step = "given_up" /\ transfer'.attempt = transfer.attempt
      BY <1>1, <3>1 DEF Transfers
    <3> QED
      BY <1>1, <2>1, <3>1, <3>2 DEF StartsInOrder
  <2>5. CASE UNCHANGED << transfer, backend >>
    BY <2>1, <2>5 DEF StartsInOrder
  <2>6. AskTransfer \/ ServeTransfer \/ TransferTimesOut \/ UNCHANGED << transfer, backend >>
    BY <1>2 DEF Elsewhere, HangsUp, Picks, RemoveParticipant, RelinquishCloses,
                RelinquishReports, BridgeCloses, JobLeaves, JobEnds, vars
  <2> QED
    BY <2>2, <2>3, <2>4, <2>5, <2>6
<1>3. CASE Controller
  <2>1. backend'.attempt = backend.attempt
    BY <1>3, ControllerRows DEF Rows, BackendRows
  <2>2. CASE StartHandoff
    <3>1. /\ transfer.step = "done" /\ transfer' = [transfer EXCEPT !.step = "idle"]
          /\ \/ UNCHANGED mine
             \/ mine'.attempt = transfer.attempt
      BY <2>2, StartRows
    <3>2. transfer'.step = "idle" /\ transfer'.attempt = transfer.attempt
      BY <1>1, <3>1 DEF Transfers
    <3>3. mine.attempt < transfer.attempt
      BY <3>1 DEF StartsInOrder
    <3> QED
      BY <1>1, <3>1, <3>2, <3>3 DEF StartsInOrder
  <2>3. CASE /\ SessionEnds \/ UNCHANGED transfer
             /\ mine'.attempt = mine.attempt
             /\ mine'.state \in Active => mine.state \in Active
    <3>1. CASE UNCHANGED transfer
      BY <2>1, <2>3, <3>1 DEF StartsInOrder
    <3>2. CASE SessionEnds
      <4>1. transfer' = [transfer EXCEPT !.step = IF @ \in {"sent", "done"} THEN "given_up" ELSE @]
        BY <3>2 DEF SessionEnds
      <4>2. /\ transfer'.step = IF transfer.step \in {"sent", "done"} THEN "given_up"
                                ELSE transfer.step
            /\ transfer'.attempt = transfer.attempt /\ transfer'.result = transfer.result
        BY <1>1, <4>1 DEF Transfers
      <4> QED
        BY <1>1, <2>1, <2>3, <4>2 DEF StartsInOrder
    <3> QED
      BY <2>3, <3>1, <3>2
  <2> QED
    BY <1>3, <2>2, <2>3, SameAttempt
<1> QED
  BY <1>2, <1>3, NextIs
-----------------------------------------------------------------------------
(***************************************************************************)
(* The watcher waits for one request at a time.                            *)
(***************************************************************************)

Waiting == {"answer", "complete"}

LEMMA Quiet ==
  ASSUME WatcherInOrder, watcher.phase \notin Waiting \/ answer # "none"
  PROVE  WireIsQuiet
BY DEF WatcherInOrder, WireIsQuiet, Waiting

\* An attempt that is settled leaves no request that is waited for.
LEMMA SettledOrder ==
  ASSUME TypeOK, WatcherInOrder, NEW s \in Unsuccessful, NEW e \in Reports, SettledAs(s, e),
         watcher.phase \notin Waiting \/ answer # "none" \/ WireIsQuiet',
         answer' = "none", watcher'.phase \notin Waiting
  PROVE  WatcherInOrder'
<1>1. mine'.state = s /\ s # "dialing"
  BY SettledTyped DEF Unsuccessful
<1>2. WireIsQuiet'
  BY Quiet DEF SettledAs, WireIsQuiet
<1> QED
  BY <1>1, <1>2 DEF WatcherInOrder, WireIsQuiet, Waiting

LEMMA WatcherNext ==
  ASSUME TypeOK, StartsInOrder, WatcherInOrder, [Next]_vars
  PROVE  WatcherInOrder'
<1>1. /\ \A s \in {"failed", "timed_out", "canceled"} : s \in Unsuccessful
      /\ \A e \in {"fail", "time_out", "cancel"} : e \in Reports
      /\ \A s \in {"none", "dialing", "answered", "completed"} : s \notin Unsuccessful
  BY DEF Unsuccessful, Reports
<1>2. Off.phase \notin Waiting /\ Off.event = "none" /\ "events" \notin Waiting
      /\ "bridged" \notin Waiting
  BY DEF Off, Waiting
<1>3. CASE UNCHANGED << mine, watcher, answer, wire >>
  BY <1>3 DEF WatcherInOrder
<1>4. CASE Elsewhere
  BY <1>3, <1>4, ElsewhereKeeps
<1>5. ASSUME StartHandoff PROVE WatcherInOrder'
  <2>1. /\ mine.state \notin Active /\ (\A r \in wire' : r.watched => r \in wire)
        /\ \/ UNCHANGED << mine, watcher, answer, wire >>
           \/ /\ mine'.state \in {"dialing", "failed"} /\ answer' = "none"
              /\ watcher'.phase \notin Waiting /\ watcher'.event = "none"
    BY <1>2, <1>5, StartRows
  <2>2. WireIsQuiet'
    BY <2>1, Quiet DEF WatcherInOrder, Waiting, Active, WireIsQuiet
  <2> QED
    BY <1>3, <2>1, <2>2 DEF WatcherInOrder, WireIsQuiet, Waiting
<1>6. ASSUME NEW p \in {Caller} \union Attempts, SeesLeft(p) PROVE WatcherInOrder'
  <2>1. UNCHANGED answer
    BY <1>6, LeftRows
  <2>2. CASE UNCHANGED << mine, watcher, wire >>
    BY <1>3, <2>1, <2>2
  <2>3. CASE /\ UNCHANGED << mine, wire >> /\ watcher'.phase = watcher.phase
             /\ watcher'.event = IF watcher.event = "none" THEN "cancel" ELSE watcher.event
    BY <2>1, <2>3 DEF WatcherInOrder
  <2>4. CASE /\ mine.state = "dialing" /\ SettledAs("failed", "fail")
             /\ watcher'.phase = watcher.phase
    <3>1. watcher.phase \notin Waiting /\ answer = "none"
      BY <2>4 DEF WatcherInOrder, Waiting
    <3> QED
      BY <1>1, <2>1, <2>4, <3>1, SettledOrder
  <2> QED
    BY <1>6, <2>2, <2>3, <2>4, LeftRows
<1>7. ASSUME Deadline PROVE WatcherInOrder'
  <2>1. /\ mine.state = "dialing" /\ SettledAs("timed_out", "time_out")
        /\ watcher'.phase = watcher.phase /\ UNCHANGED answer
    BY <1>7, DeadlineRows
  <2>2. watcher.phase \notin Waiting /\ answer = "none"
    BY <2>1 DEF WatcherInOrder, Waiting
  <2> QED
    BY <1>1, <2>1, <2>2, SettledOrder
<1>8. ASSUME SeesAnswer PROVE WatcherInOrder'
  <2>1. /\ mine.state = "dialing" /\ mine'.state = "answered" /\ mine'.attempt = mine.attempt
        /\ watcher'.phase = watcher.phase
        /\ watcher'.event = IF watcher.event = "none" THEN "answer" ELSE watcher.event
        /\ UNCHANGED << answer, wire >>
    BY <1>8, AnswerRows
  <2> QED
    BY <1>1, <2>1 DEF WatcherInOrder
<1>9. ASSUME HandleEvent PROVE WatcherInOrder'
  <2>1. watcher.phase = "events"
    BY <1>9, EventRows
  <2>2. WireIsQuiet /\ answer = "none"
    BY <1>2, <2>1, Quiet DEF WatcherInOrder
  <2>3. CASE watcher' = Off /\ UNCHANGED << mine, answer, wire >>
    BY <1>2, <2>2, <2>3 DEF WatcherInOrder, WireIsQuiet, Waiting
  <2>4. CASE SettledAs("canceled", "cancel") /\ watcher' = Off /\ answer' = "none"
             /\ WireIsQuiet'
    BY <1>1, <1>2, <2>4, SettledOrder
  <2>5. CASE /\ watcher.event = "answer" /\ mine.state \in Active /\ SentOne("answer")
             /\ watcher' = [phase |-> "answer", event |-> "answer"]
             /\ UNCHANGED << mine, answer >>
    <3>1. PICK r \in Requests : r.attempt = mine.attempt /\ r.watched /\ wire' = wire \union {r}
      BY <2>5 DEF SentOne
    <3>2. mine.state = "answered"
      BY <2>5 DEF WatcherInOrder, Active
    <3>3. watcher'.phase = "answer" /\ watcher'.event = "answer"
      BY <2>5
    <3> QED
      BY <2>2, <2>5, <3>1, <3>2, <3>3 DEF WatcherInOrder, WireIsQuiet
  <2> QED
    BY <1>9, <2>3, <2>4, <2>5, EventRows
<1>10. ASSUME HandleAnswered PROVE WatcherInOrder'
  <2>1. answer # "none" /\ answer' = "none" /\ mine.state = "answered"
    BY <1>10, AnsweredRows
  <2>2. WireIsQuiet
    BY <2>1, Quiet
  <2>3. CASE (\E s \in Unsuccessful, e \in Reports : SettledAs(s, e)) /\ watcher' = Off
    BY <1>2, <2>1, <2>3, SettledOrder
  <2>4. CASE /\ SentOne("complete") /\ UNCHANGED mine
             /\ watcher'.phase = "complete" /\ watcher'.event = watcher.event
    <3>1. PICK r \in Requests : r.attempt = mine.attempt /\ r.watched /\ wire' = wire \union {r}
      BY <2>4 DEF SentOne
    <3> QED
      BY <2>1, <2>2, <2>4, <3>1 DEF WatcherInOrder, WireIsQuiet
  <2> QED
    BY <1>10, <2>3, <2>4, AnsweredRows
<1>11. ASSUME HandleCompleted PROVE WatcherInOrder'
  <2>1. answer # "none" /\ answer' = "none" /\ mine.state = "answered"
    BY <1>11, CompletedRows
  <2>2. WireIsQuiet
    BY <2>1, Quiet
  <2>3. CASE (\E s \in Unsuccessful, e \in Reports : SettledAs(s, e)) /\ watcher' = Off
    BY <1>2, <2>1, <2>3, SettledOrder
  <2>4. CASE /\ mine' = [attempt |-> mine.attempt, state |-> "completed"]
             /\ watcher'.phase = "bridged" /\ watcher'.event = watcher.event
             /\ UNCHANGED wire
    <3>1. mine'.state = "completed"
      BY <2>4
    <3>2. watcher.event \notin {"time_out", "fail"}
      BY <1>1, <2>1 DEF WatcherInOrder
    <3> QED
      BY <2>1, <2>2, <2>4, <3>1, <3>2 DEF WatcherInOrder, WireIsQuiet
  <2> QED
    BY <1>11, <2>3, <2>4, CompletedRows
<1>12. ASSUME RequestTimesOut \/ \E r \in Requests : RequestLost(r) PROVE WatcherInOrder'
  <2>1. /\ UNCHANGED << mine, watcher >>
        /\ \/ wire' \subseteq wire /\ UNCHANGED answer
           \/ WireIsQuiet' /\ watcher.phase \in Waiting
    BY <1>12, WireRows DEF Waiting
  <2> QED
    BY <2>1 DEF WatcherInOrder, WireIsQuiet, Waiting
<1>13. ASSUME NEW r \in Requests, ServeRequest(r) PROVE WatcherInOrder'
  <2>1. /\ UNCHANGED << mine, watcher >> /\ r \in wire /\ wire' = wire \ {r}
        /\ ~r.watched => answer' = answer
    BY <1>13, ServeRows
  <2>2. CASE ~r.watched
    BY <2>1, <2>2 DEF WatcherInOrder
  <2>3. CASE r.watched
    <3>1. WireIsQuiet' /\ watcher.phase \in Waiting
      BY <2>1, <2>3 DEF WatcherInOrder, WireIsQuiet, Waiting
    <3> QED
      BY <2>1, <3>1 DEF WatcherInOrder, WireIsQuiet, Waiting
  <2> QED
    BY <2>2, <2>3
<1>14. ASSUME SessionEnds \/ Shutdown \/ JobCleanup PROVE WatcherInOrder'
  <2>1. CASE SettledAs("canceled", "cancel") /\ watcher' = Off /\ answer' = "none"
             /\ WireIsQuiet'
    BY <1>1, <1>2, <2>1, SettledOrder
  <2>2. CASE watcher' = Off /\ answer' = "none" /\ WireIsQuiet'
    BY <1>2, <2>2 DEF WatcherInOrder, WireIsQuiet, Waiting
  <2> QED
    BY <1>3, <1>14, <2>1, <2>2, EndsRows
<1> QED
  BY <1>4, <1>5, <1>6, <1>7, <1>8, <1>9, <1>10, <1>11, <1>12, <1>13, <1>14, NextIs
     DEF Controller

-----------------------------------------------------------------------------
(***************************************************************************)
(* COMPLETED is final at the backend.                                      *)
(***************************************************************************)

LEMMA CompletedNext ==
  ASSUME TypeOK, StartsInOrder, WatcherInOrder, CompletedIsTrue, [Next]_vars
  PROVE  CompletedIsTrue'
<1>1. /\ \A s \in Unsuccessful : s \notin Active /\ s # "completed"
      /\ "completed" \notin Active /\ "completed" \notin {"none"} \union Unsuccessful
  BY DEF Unsuccessful, Active
<1> DEFINE Final == [attempt |-> mine.attempt, state |-> "completed"]
<1>2. Final.state = "completed" /\ Final.attempt = mine.attempt
  OBVIOUS
<1>3. CASE Elsewhere
  <2>1. UNCHANGED << mine, answer >> /\ (relinquish' # "none" <=> relinquish # "none")
        /\ (backend' = backend \/ backend.state \in {"none"} \union Unsuccessful)
    BY <1>3, ElsewhereKeeps, ElsewhereRows
  <2>2. backend = Final => backend' = Final
    BY <1>1, <1>2, <2>1
  <2> QED
    BY <2>1, <2>2 DEF CompletedIsTrue
<1>4. ASSUME Controller PROVE backend = Final => backend' = Final
  BY <1>1, <1>2, <1>4, ControllerRows DEF Rows, BackendRows
<1> HIDE DEF Final
<1>5. (answer = "completed" \/ mine.state = "completed" => backend = Final)
  BY DEF CompletedIsTrue, Final
<1>6. ASSUME Controller, UNCHANGED relinquish, mine'.attempt = mine.attempt,
             mine'.state = "completed" <=> mine.state = "completed",
             answer' = "completed" => answer = "completed"
      PROVE  CompletedIsTrue'
  BY <1>4, <1>5, <1>6 DEF CompletedIsTrue, Final
<1>7. ASSUME Controller, UNCHANGED relinquish, NEW s \in Unsuccessful, NEW e \in Reports,
             SettledAs(s, e), answer' = "none" \/ UNCHANGED answer
      PROVE  CompletedIsTrue'
  <2>1. /\ mine.state # "completed" /\ mine'.attempt = mine.attempt
        /\ mine'.state # "completed"
    BY <1>1, <1>7, SettledTyped DEF SettledAs
  <2> QED
    BY <1>6, <1>7, <2>1
<1>8. /\ \A s \in {"failed", "timed_out", "canceled"} : s \in Unsuccessful
      /\ \A e \in {"fail", "time_out", "cancel"} : e \in Reports
  BY DEF Unsuccessful, Reports
<1>9. ASSUME StartHandoff PROVE CompletedIsTrue'
  <2>1. UNCHANGED relinquish
    BY <1>9, StartRows
  <2>2. CASE UNCHANGED << mine, answer >>
    BY <1>6, <1>9, <2>1, <2>2 DEF Controller
  <2>3. CASE /\ transfer.result \in {"dialing", "failed"}
             /\ mine'.state \in {"dialing", "failed"} /\ answer' = "none"
    <3>1. backend.attempt # mine.attempt
      BY <1>9, <2>3, StartRows, MineIsMine DEF StartsInOrder
    <3>2. mine.state # "completed"
      BY <1>2, <1>5, <3>1 DEF Final
    <3> QED
      BY <2>1, <2>3, <3>2 DEF CompletedIsTrue
  <2> QED
    BY <1>9, <2>2, <2>3, StartRows
<1>10. ASSUME NEW p \in {Caller} \union Attempts, SeesLeft(p) PROVE CompletedIsTrue'
  <2>1. UNCHANGED << answer, relinquish >> /\ (UNCHANGED mine \/ SettledAs("failed", "fail"))
    BY <1>10, LeftRows
  <2>2. Controller
    BY <1>10 DEF Controller
  <2> QED
    BY <1>6, <1>7, <1>8, <2>1, <2>2
<1>11. ASSUME Deadline PROVE CompletedIsTrue'
  <2>1. UNCHANGED << answer, relinquish >> /\ SettledAs("timed_out", "time_out")
    BY <1>11, DeadlineRows
  <2> QED
    BY <1>7, <1>8, <1>11, <2>1 DEF Controller
<1>12. ASSUME SeesAnswer PROVE CompletedIsTrue'
  <2>1. /\ UNCHANGED << answer, relinquish >> /\ mine.state = "dialing"
        /\ mine'.attempt = mine.attempt /\ mine'.state = "answered"
    BY <1>12, AnswerRows
  <2> QED
    BY <1>6, <1>12, <2>1 DEF Controller
<1>13. ASSUME HandleEvent PROVE CompletedIsTrue'
  <2>1. /\ UNCHANGED relinquish
        /\ \/ UNCHANGED << mine, answer >>
           \/ SettledAs("canceled", "cancel") /\ answer' = "none"
    BY <1>13, EventRows
  <2> QED
    BY <1>6, <1>7, <1>8, <1>13, <2>1 DEF Controller
<1>14. ASSUME HandleAnswered PROVE CompletedIsTrue'
  <2>1. /\ UNCHANGED relinquish /\ answer' = "none"
        /\ UNCHANGED mine \/ \E s \in Unsuccessful, e \in Reports : SettledAs(s, e)
    BY <1>14, AnsweredRows
  <2> QED
    BY <1>6, <1>7, <1>14, <2>1 DEF Controller
<1>15. ASSUME HandleCompleted PROVE CompletedIsTrue'
  <2>1. answer' = "none"
    BY <1>15, CompletedRows
  <2>2. CASE UNCHANGED relinquish /\ \E s \in Unsuccessful, e \in Reports : SettledAs(s, e)
    BY <1>7, <1>15, <2>1, <2>2 DEF Controller
  <2>3. CASE answer = "completed" /\ relinquish' # "none"
             /\ mine' = [attempt |-> mine.attempt, state |-> "completed"]
    <3>1. backend' = Final /\ mine'.attempt = mine.attempt /\ mine'.state = "completed"
      BY <1>4, <1>5, <1>15, <2>3 DEF Controller
    <3> QED
      BY <2>1, <2>3, <3>1 DEF CompletedIsTrue, Final
  <2> QED
    BY <1>15, <2>2, <2>3, CompletedRows
<1>16. ASSUME RequestTimesOut \/ \E r \in Requests : RequestLost(r) PROVE CompletedIsTrue'
  <2>1. UNCHANGED << mine, relinquish >> /\ (UNCHANGED answer \/ answer' = "error")
    BY <1>16, WireRows
  <2> QED
    BY <1>6, <1>16, <2>1 DEF Controller
<1>17. ASSUME NEW r \in Requests, ServeRequest(r) PROVE CompletedIsTrue'
  <2>1. /\ UNCHANGED << mine, relinquish >> /\ r \in wire
        /\ ~r.watched => answer' = answer
        /\ r.watched /\ answer' = "completed" =>
             backend' = [attempt |-> r.attempt, state |-> "completed"]
    BY <1>17, ServeRows DEF jobVars
  <2>2. Controller
    BY <1>17 DEF Controller
  <2>3. CASE ~r.watched
    BY <1>6, <2>1, <2>2, <2>3
  <2>4. CASE r.watched
    <3>1. r.attempt = mine.attempt
      BY <2>1, <2>4 DEF WatcherInOrder
    <3> QED
      BY <1>4, <1>5, <2>1, <2>2, <2>4, <3>1 DEF CompletedIsTrue, Final
  <2> QED
    BY <2>3, <2>4
<1>18. ASSUME SessionEnds \/ Shutdown \/ JobCleanup PROVE CompletedIsTrue'
  <2>1. /\ UNCHANGED relinquish /\ (UNCHANGED answer \/ answer' = "none")
        /\ UNCHANGED mine \/ SettledAs("canceled", "cancel")
    BY <1>18, EndsRows
  <2> QED
    BY <1>6, <1>7, <1>8, <1>18, <2>1 DEF Controller
<1> QED
  BY <1>3, <1>9, <1>10, <1>11, <1>12, <1>13, <1>14, <1>15, <1>16, <1>17, <1>18, NextIs
     DEF Controller
-----------------------------------------------------------------------------
(***************************************************************************)
(* Who is on a bridge is in the room.                                      *)
(***************************************************************************)

LEMMA BridgeNext ==
  ASSUME TypeOK, StartsInOrder, WatcherInOrder, BridgeIsWhole, [Next]_vars
  PROVE  BridgeIsWhole'
<1>1. /\ \A s \in Unsuccessful : s \notin {"answered", "completed"}
      /\ \A s \in {"failed", "timed_out", "canceled"} : s \in Unsuccessful
      /\ \A e \in {"fail", "time_out", "cancel"} : e \in Reports
  BY DEF Unsuccessful, Reports
<1>2. ASSUME UNCHANGED << mine, watcher >>, RoomKeeps,
             bridgeClose' = "none" => bridgeClose = "none",
             job' = "running" => job = "running"
      PROVE  BridgeIsWhole'
  BY <1>2 DEF BridgeIsWhole, RoomKeeps
<1>3. ASSUME UNCHANGED << room, left >> PROVE RoomKeeps
  BY <1>3 DEF RoomKeeps, TypeOK
<1>4. ASSUME NEW s \in Unsuccessful, NEW e \in Reports, SettledAs(s, e)
      PROVE  BridgeIsWhole'
  <2>1. mine'.state = s
    BY <1>4, SettledTyped
  <2> QED
    BY <1>1, <2>1 DEF BridgeIsWhole
<1>5. CASE Elsewhere
  BY <1>2, <1>5, ElsewhereKeeps, ElsewhereRows
<1>6. ASSUME StartHandoff PROVE BridgeIsWhole'
  <2>1. UNCHANGED << room, left, bridgeClose, job >>
    BY <1>6, StartRows DEF RestKept
  <2>2. CASE UNCHANGED << mine, watcher >>
    BY <1>2, <1>3, <2>1, <2>2
  <2>3. CASE mine'.state \in {"dialing", "failed"}
    BY <2>3 DEF BridgeIsWhole
  <2> QED
    BY <1>6, <2>2, <2>3, StartRows
<1>7. ASSUME NEW p \in {Caller} \union Attempts, SeesLeft(p) PROVE BridgeIsWhole'
  <2>1. UNCHANGED << room, job >> /\ left' = left \ {p}
    BY <1>7, LeftRows DEF RestKept
  <2>2. CASE bridgeClose' # "none"
    BY <2>2 DEF BridgeIsWhole
  <2>3. CASE SettledAs("failed", "fail")
    BY <1>1, <1>4, <2>3
  <2>4. CASE /\ ~EndsBridge(p) /\ UNCHANGED << mine, bridgeClose >>
             /\ watcher'.phase = watcher.phase
    <3>1. CASE mine.state \notin {"answered", "completed"}
      BY <2>4, <3>1 DEF BridgeIsWhole
    <3>2. CASE mine.state \in {"answered", "completed"}
      <4>1. p # Caller /\ (watcher.phase # "off" => p # mine.attempt)
        BY <2>4, <3>2 DEF EndsBridge, Watching
      <4> QED
        BY <2>1, <2>4, <4>1 DEF BridgeIsWhole
    <3> QED
      BY <3>1, <3>2
  <2> QED
    BY <1>7, <2>2, <2>3, <2>4, LeftRows
<1>8. ASSUME Deadline PROVE BridgeIsWhole'
  <2>1. SettledAs("timed_out", "time_out")
    BY <1>8, DeadlineRows
  <2> QED
    BY <1>1, <1>4, <2>1
<1>9. ASSUME SeesAnswer PROVE BridgeIsWhole'
  <2>1. /\ mine'.state = "answered" /\ mine'.attempt = mine.attempt
        /\ watcher'.phase = "events" /\ mine.attempt \in room \union left
        /\ UNCHANGED << room, left >>
    BY <1>9, AnswerRows DEF RestKept
  <2> QED
    BY <2>1 DEF BridgeIsWhole
<1>10. ASSUME HandleEvent PROVE BridgeIsWhole'
  <2>1. UNCHANGED << room, left, bridgeClose, job >> /\ watcher.phase = "events"
    BY <1>10, EventRows DEF RestKept
  <2>2. CASE /\ watcher.event \in {"time_out", "fail"} \/ mine.state \notin Active
             /\ UNCHANGED mine
    <3>1. mine.state # "answered"
      BY <1>1, <2>2 DEF WatcherInOrder, Active
    <3>2. bridgeClose = "none" => ~(mine.state = "completed" /\ job = "running")
      BY <2>1 DEF BridgeIsWhole
    <3> QED
      BY <2>1, <2>2, <3>1, <3>2 DEF BridgeIsWhole
  <2>3. CASE SettledAs("canceled", "cancel")
    BY <1>1, <1>4, <2>3
  <2>4. CASE /\ mine.state \in Active /\ UNCHANGED mine
             /\ watcher' = [phase |-> "answer", event |-> "answer"]
    <3>1. watcher'.phase = "answer" /\ mine.state # "completed"
      BY <2>4 DEF Active
    <3> QED
      BY <2>1, <2>4, <3>1 DEF BridgeIsWhole
  <2> QED
    BY <1>10, <2>2, <2>3, <2>4, EventRows
<1>11. ASSUME HandleAnswered PROVE BridgeIsWhole'
  <2>1. /\ UNCHANGED << room, left, bridgeClose, job >>
        /\ mine.state = "answered"
    BY <1>11, AnsweredRows DEF RestKept
  <2>2. CASE \E s \in Unsuccessful, e \in Reports : SettledAs(s, e)
    BY <1>4, <2>2
  <2>3. CASE /\ Caller \in room \union left /\ UNCHANGED mine /\ watcher'.phase = "complete"
    BY <2>1, <2>3 DEF BridgeIsWhole
  <2> QED
    BY <1>11, <2>2, <2>3, AnsweredRows
<1>12. ASSUME HandleCompleted PROVE BridgeIsWhole'
  <2>1. /\ UNCHANGED << room, left, bridgeClose, job >>
        /\ mine.state = "answered" /\ watcher.phase = "complete"
    BY <1>12, CompletedRows DEF RestKept
  <2>2. CASE \E s \in Unsuccessful, e \in Reports : SettledAs(s, e)
    BY <1>4, <2>2
  <2>3. CASE /\ mine' = [attempt |-> mine.attempt, state |-> "completed"]
             /\ watcher'.phase = "bridged"
    <3>1. mine'.attempt = mine.attempt /\ mine'.state = "completed"
      BY <2>3
    <3> QED
      BY <2>1, <2>3, <3>1 DEF BridgeIsWhole
  <2> QED
    BY <1>12, <2>2, <2>3, CompletedRows
<1>13. ASSUME RequestTimesOut \/ \E r \in Requests : RequestLost(r) PROVE BridgeIsWhole'
  <2>1. UNCHANGED << room, left, mine, watcher, bridgeClose, job >>
    BY <1>13, WireRows
  <2> QED
    BY <1>2, <1>3, <2>1
<1>14. ASSUME NEW r \in Requests, ServeRequest(r) PROVE BridgeIsWhole'
  <2>1. UNCHANGED << mine, watcher, bridgeClose, job >> /\ RoomKeeps
    BY <1>14, ServeRows DEF jobVars
  <2> QED
    BY <1>2, <2>1
<1>15. ASSUME SessionEnds \/ Shutdown \/ JobCleanup PROVE BridgeIsWhole'
  <2>1. /\ UNCHANGED << room, left, bridgeClose >>
        /\ job' = "running" => job = "running"
        /\ JobCleanup => job' # "running"
    BY <1>15, EndsRows DEF SessionEnds, Shutdown, JobCleanup
  <2>2. CASE UNCHANGED << mine, watcher >>
    BY <1>2, <1>3, <2>1, <2>2
  <2>3. CASE SettledAs("canceled", "cancel")
    BY <1>1, <1>4, <2>3
  <2>4. CASE JobCleanup /\ UNCHANGED mine /\ (bridgeClose = "none" => mine.state \notin Active)
    <3>1. bridgeClose = "none" => mine.state # "answered"
      BY <2>4 DEF Active
    <3> QED
      BY <2>1, <2>4, <3>1 DEF BridgeIsWhole
  <2> QED
    BY <1>15, <2>2, <2>3, <2>4, EndsRows
<1> QED
  BY <1>5, <1>6, <1>7, <1>8, <1>9, <1>10, <1>11, <1>12, <1>13, <1>14, <1>15, NextIs
     DEF Controller

-----------------------------------------------------------------------------
(***************************************************************************)
(* What the agent settled is reported.                                     *)
(***************************************************************************)

LEMMA ReportsNext ==
  ASSUME TypeOK, StartsInOrder, WatcherInOrder, ReportsGo, [Next]_vars
  PROVE  ReportsGo'
<1>1. /\ \A s \in {"failed", "timed_out", "canceled"} : s \in Unsuccessful
      /\ \A e \in {"fail", "time_out", "cancel"} : e \in Reports
      /\ \A s \in {"dialing", "answered", "completed"} : s \notin Unsuccessful
      /\ \A s \in Active : s \notin {"none"} \union Unsuccessful
  BY DEF Unsuccessful, Reports, Active
<1>2. ASSUME UNCHANGED << mine, backend >>, WireKeeps, faults' = 0 => faults = 0
      PROVE  ReportsGo'
  <2>1. SUFFICES ASSUME mine'.state \in Unsuccessful, faults' = 0,
                        backend'.attempt = mine'.attempt, backend'.state \in Active
                 PROVE  \E r \in wire' : r.attempt = mine'.attempt /\ r.event \in Reports
    BY DEF ReportsGo
  <2>2. PICK r \in wire : r.attempt = mine.attempt /\ r.event \in Reports
    BY <1>2, <2>1 DEF ReportsGo
  <2> QED
    BY <1>2, <2>2 DEF WireKeeps
<1>3. UNCHANGED wire => WireKeeps
  BY DEF WireKeeps
<1>4. ASSUME NEW s \in Unsuccessful, NEW e \in Reports, SettledAs(s, e) PROVE ReportsGo'
  <2>1. mine'.attempt = mine.attempt
    BY <1>4, SettledTyped
  <2>2. \E r \in wire' : r.attempt = mine.attempt /\ r.event = e
    BY <1>4 DEF SettledAs
  <2> QED
    BY <2>1, <2>2 DEF ReportsGo
<1>5. CASE Elsewhere
  <2>1. UNCHANGED << mine, wire >> /\ (faults' = 0 => faults = 0)
    BY <1>5, ElsewhereKeeps, ElsewhereRows
  <2>2. CASE UNCHANGED backend
    BY <1>2, <1>3, <2>1, <2>2
  <2>3. CASE /\ transfer.step \in {"sent", "given_up"} /\ transfer.result = "none"
             /\ backend'.attempt = transfer.attempt
    <3>1. backend'.attempt # mine.attempt
      BY <2>3, MineIsMine DEF StartsInOrder
    <3> QED
      BY <2>1, <3>1 DEF ReportsGo
  <2> QED
    BY <1>5, <2>2, <2>3, ElsewhereRows
<1>6. ASSUME StartHandoff PROVE ReportsGo'
  <2>1. UNCHANGED << backend, faults >> /\ WireKeeps
    BY <1>6, StartRows DEF RestKept
  <2>2. CASE UNCHANGED mine
    BY <1>2, <2>1, <2>2
  <2>3. CASE mine'.state = "dialing"
    BY <1>1, <2>3 DEF ReportsGo
  <2>4. CASE \E r \in wire' : r.attempt = mine'.attempt /\ r.event \in Reports
    BY <2>4 DEF ReportsGo
  <2> QED
    BY <1>6, <2>2, <2>3, <2>4, StartRows
<1>7. ASSUME NEW p \in {Caller} \union Attempts, SeesLeft(p) PROVE ReportsGo'
  <2>1. UNCHANGED << backend, faults >>
    BY <1>7, LeftRows DEF RestKept
  <2>2. UNCHANGED << mine, wire >> \/ SettledAs("failed", "fail")
    BY <1>7, LeftRows
  <2> QED
    BY <1>1, <1>2, <1>3, <1>4, <2>1, <2>2
<1>8. ASSUME Deadline PROVE ReportsGo'
  <2>1. SettledAs("timed_out", "time_out")
    BY <1>8, DeadlineRows
  <2> QED
    BY <1>1, <1>4, <2>1
<1>9. ASSUME SeesAnswer PROVE ReportsGo'
  <2>1. mine'.state = "answered"
    BY <1>9, AnswerRows
  <2> QED
    BY <1>1, <2>1 DEF ReportsGo
<1>10. ASSUME HandleEvent PROVE ReportsGo'
  <2>1. UNCHANGED << backend, faults >>
    BY <1>10, EventRows DEF RestKept
  <2>2. (UNCHANGED mine /\ WireKeeps) \/ SettledAs("canceled", "cancel")
    BY <1>3, <1>10, EventRows
  <2> QED
    BY <1>1, <1>2, <1>4, <2>1, <2>2
<1>11. ASSUME HandleAnswered PROVE ReportsGo'
  <2>1. UNCHANGED << backend, faults >>
    BY <1>11, AnsweredRows DEF RestKept
  <2>2. (UNCHANGED mine /\ WireKeeps) \/ \E s \in Unsuccessful, e \in Reports : SettledAs(s, e)
    BY <1>11, AnsweredRows
  <2> QED
    BY <1>2, <1>4, <2>1, <2>2
<1>12. ASSUME HandleCompleted PROVE ReportsGo'
  <2>1. \/ mine' = [attempt |-> mine.attempt, state |-> "completed"]
        \/ \E s \in Unsuccessful, e \in Reports : SettledAs(s, e)
    BY <1>12, CompletedRows
  <2>2. CASE mine' = [attempt |-> mine.attempt, state |-> "completed"]
    <3>1. mine'.state = "completed"
      BY <2>2
    <3> QED
      BY <1>1, <3>1 DEF ReportsGo
  <2> QED
    BY <1>4, <2>1, <2>2
<1>13. ASSUME RequestTimesOut \/ \E r \in Requests : RequestLost(r) PROVE ReportsGo'
  BY <1>13, WireRows DEF ReportsGo
<1>14. ASSUME NEW r \in Requests, ServeRequest(r) PROVE ReportsGo'
  <2>1. /\ UNCHANGED mine /\ wire' = wire \ {r} /\ (faults' = 0 => faults = 0)
        /\ backend'.attempt = backend.attempt
        /\ backend.state \notin Active => backend' = backend
        /\ r.attempt = backend.attempt /\ backend.state \in Active /\ r.event \in Reports =>
             backend'.state \notin Active
    BY <1>14, ServeRows
  <2>2. SUFFICES ASSUME mine'.state \in Unsuccessful, faults' = 0,
                        backend'.attempt = mine'.attempt, backend'.state \in Active
                 PROVE  \E s \in wire' : s.attempt = mine'.attempt /\ s.event \in Reports
    BY DEF ReportsGo
  <2>3. backend.state \in Active
    BY <2>1, <2>2
  <2>4. PICK s \in wire : s.attempt = mine.attempt /\ s.event \in Reports
    BY <2>1, <2>2, <2>3 DEF ReportsGo
  <2>5. s # r
    BY <2>1, <2>2, <2>3, <2>4
  <2> QED
    BY <2>1, <2>4, <2>5
<1>15. ASSUME SessionEnds \/ Shutdown \/ JobCleanup PROVE ReportsGo'
  <2>1. UNCHANGED << backend, faults >>
    BY <1>15, EndsRows
  <2>2. (UNCHANGED mine /\ WireKeeps) \/ SettledAs("canceled", "cancel")
    BY <1>3, <1>15, EndsRows
  <2> QED
    BY <1>1, <1>2, <1>4, <2>1, <2>2
<1> QED
  BY <1>5, <1>6, <1>7, <1>8, <1>9, <1>10, <1>11, <1>12, <1>13, <1>14, <1>15, NextIs
     DEF Controller

-----------------------------------------------------------------------------
(***************************************************************************)
(* The theorems.                                                           *)
(***************************************************************************)

LEMMA InitInv == Init => Inv
<1> SUFFICES ASSUME Init PROVE Inv
  OBVIOUS
<1>1. TypeOK
  BY BoundsAssumption
     DEF Init, TypeOK, States, Active, Unsuccessful, Events, Outcomes, Caller, Attempts
<1>2. /\ mine.state = "none" /\ mine.attempt = 0 /\ transfer.attempt = 0
      /\ transfer.step = "idle" /\ watcher.phase = "off" /\ watcher.event = "none"
      /\ answer = "none" /\ wire = {} /\ relinquish = "none"
  BY DEF Init
<1>3. mine.state \notin Active /\ mine.state \notin Unsuccessful
  BY <1>2 DEF Active, Unsuccessful
<1>4. StartsInOrder
  BY <1>2, <1>3 DEF StartsInOrder
<1>5. WatcherInOrder
  BY <1>2 DEF WatcherInOrder
<1>6. CompletedIsTrue /\ BridgeIsWhole /\ ReportsGo
  BY <1>2, <1>3 DEF CompletedIsTrue, BridgeIsWhole, ReportsGo
<1> QED
  BY <1>1, <1>4, <1>5, <1>6 DEF Inv

LEMMA InvNext == Inv /\ [Next]_vars => Inv'
BY TypeNext, StartsNext, WatcherNext, CompletedNext, BridgeNext, ReportsNext DEF Inv

\* The invariant holds of every behaviour: requests that are lost, answered late or
\* after the agent stopped waiting, participants that leave at any point.
THEOREM InvHolds == Spec => []Inv
<1>1. Init => Inv
  BY InitInv
<1>2. Inv /\ [Next]_vars => Inv'
  BY InvNext
<1> QED
  BY <1>1, <1>2, PTL DEF Spec

\* Every variable keeps its type.
THEOREM TypeCorrect == Spec => []TypeOK
<1>1. Inv => TypeOK
  BY DEF Inv
<1> QED
  BY <1>1, InvHolds, PTL

\* The AI leaves a call only for a handoff that the backend has as COMPLETED.
THEOREM TheAILeavesOnlyForACompletedHandoff == Spec => []RelinquishOnBackend
<1>1. Inv => RelinquishOnBackend
  BY DEF Inv, CompletedIsTrue, RelinquishOnBackend
<1> QED
  BY <1>1, InvHolds, PTL

\* Once the AI has left, nobody is left alone in a job that goes on: caller and
\* destination are there, or the event that ends their bridge is on its way.
THEOREM NobodyIsLeftAlone == Spec => []NotLeftAlone
<1>1. Inv => NotLeftAlone
  BY DEF Inv, CompletedIsTrue, BridgeIsWhole, NotLeftAlone
<1> QED
  BY <1>1, InvHolds, PTL

\* An attempt that the agent settled is settled at the backend, unless a report of
\* it is still on the wire or a request failed.
THEOREM SettledAttemptsAreReported == Spec => []SettledIsReported
<1>1. Inv => SettledIsReported
  BY DEF Inv, ReportsGo, SettledIsReported
<1> QED
  BY <1>1, InvHolds, PTL

=============================================================================

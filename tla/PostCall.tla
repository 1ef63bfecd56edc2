------------------------------- MODULE PostCall -------------------------------
(***************************************************************************)
(* The work after a call: the backend's FinalizationService, driven by the *)
(* call's and the recording's events and by command results, and the       *)
(* CommandWorker that generates the summary, materializes the transcript   *)
(* text and executes the configured actions.                               *)
(*                                                                         *)
(* The streams between the two are used through what Delivery promises:    *)
(* a message is handled at least once, in any order.  Every command is     *)
(* issued once per finalization, so a command is named by its work.        *)
(***************************************************************************)
EXTENDS Integers, Sequences

CONSTANTS
  Order,       \* the configured post-call actions in their order, by name
  Inputs,      \* by action: its artifact inputs, a subset of Artifacts
  StartEvents, \* what the call publishes: "ended", "relinquished", or both
  Recorded,    \* whether the call has a call_recordings row
  Workers,     \* running CommandWorker processes of the group
  Handlers,    \* running consumers of command results, one per backend process
  MaxRetries,  \* transient failures that are retried (3 in the code)
  MaxFaults    \* bound: crashes of workers and of backend processes

\* The call's summary, its recording, and its transcript as plain text.  (The
\* raw transcript is an input that is always ready.  In an action's inputs the
\* text comes before the recording.)
Artifacts == {"summary", "recording", "text"}

Actions == {Order[i] : i \in DOMAIN Order}

Before(a, b) ==
  \E i, j \in DOMAIN Order : i < j /\ Order[i] = a /\ Order[j] = b

ASSUME ActionsAssumption == Actions \intersect {"none", "summary", "text"} = {}
ASSUME EventsAssumption == StartEvents \subseteq {"ended", "relinquished"}
ASSUME InputsAssumption == Inputs \in [Actions -> SUBSET Artifacts]
ASSUME RecordedAssumption == Recorded \in BOOLEAN
ASSUME BoundsAssumption == MaxRetries \in Nat /\ MaxFaults \in Nat

VARIABLES
  announced,     \* call and recording events published so far
  events,        \* events the backend's consumer has not acknowledged
  recording,     \* status of the call_recordings row, or "absent"
  starting,      \* by event: "no", or the recording status _start has read
  finalization,  \* [status, summary, action, text]: call_finalizations with
                 \* its executions and the text's artifact_representations row
  stored,        \* the text's content is stored
  open,          \* unacknowledged command entries [work, attempt]
  worker,        \* by worker: [entry, step, outcome]
  completedKey,  \* by work: the result cached under its completed key
  results,       \* results the backend's consumers have not acknowledged
  handler,       \* by handler: [work, outcome, view], the result it is at and
                 \* what it has read of the finalization without a lock
  executed,      \* actions that have succeeded at the provider
  faults

vars == << announced, events, recording, starting, finalization, stored, open,
           worker, completedKey, results, handler, executed, faults >>

callVars == << announced, recording, starting >>
workerVars == << open, worker, completedKey, executed >>

Events == StartEvents \union {"recording"}

Works == {"summary", "text"} \union Actions
Outcomes == {"succeeded", "failed"}
WorkStatus == {"pending", "processing", "completed", "failed"}
Over == {"completed", "failed"}

NoFinalization ==
  [status |-> "none", summary |-> FALSE,
   action |-> [a \in Actions |-> "pending"], text |-> "none"]

Entry(work, attempt) == [work |-> work, attempt |-> attempt]
Entries == [work : Works, attempt : 1 .. MaxRetries + 1]
NoEntry == [work |-> "none", attempt |-> 0]
WorkerIdle == [entry |-> NoEntry, step |-> "idle", outcome |-> "failed"]
NoView == [status |-> "none", summary |-> FALSE, work |-> "none"]
HandlerIdle == [work |-> "none", outcome |-> "failed", view |-> NoView]
Steps == {"idle", "context", "execute", "requeue", "publish", "record", "ack"}

TypeOK ==
  /\ announced \subseteq Events
  /\ events \subseteq announced
  /\ recording \in {"absent", "recording", "ready", "failed"}
  /\ starting \in [StartEvents -> {"no", "absent", "recording", "ready", "failed"}]
  /\ finalization \in [ status : {"none", "processing", "completed", "failed"},
                        summary : BOOLEAN,
                        action : [Actions -> WorkStatus],
                        text : {"none"} \union (WorkStatus \ {"pending"}) ]
  /\ stored \in BOOLEAN
  /\ open \subseteq Entries
  /\ worker \in [Workers -> [entry : Entries \union {NoEntry},
                             step : Steps, outcome : Outcomes]]
  /\ completedKey \in [Works -> Outcomes \union {"none"}]
  /\ results \subseteq (Works \X Outcomes)
  /\ handler \in [Handlers -> [work : Works \union {"none"}, outcome : Outcomes,
                               view : [status : {"none"} \union WorkStatus,
                                       summary : BOOLEAN,
                                       work : {"none"} \union WorkStatus]]]
  /\ executed \subseteq Actions
  /\ faults \in 0 .. MaxFaults

Init ==
  /\ announced = {}
  /\ events = {}
  /\ recording = IF Recorded THEN "recording" ELSE "absent"
  /\ starting = [e \in StartEvents |-> "no"]
  /\ finalization = NoFinalization
  /\ stored = FALSE
  /\ open = {}
  /\ worker = [p \in Workers |-> WorkerIdle]
  /\ completedKey = [w \in Works |-> "none"]
  /\ results = {}
  /\ handler = [h \in Handlers |-> HandlerIdle]
  /\ executed = {}
  /\ faults = 0

Fault == faults < MaxFaults /\ faults' = faults + 1

-----------------------------------------------------------------------------
(***************************************************************************)
(* _schedule: what a finalization f becomes when the recording has status  *)
(* rec, and the commands that are sent.                                    *)
(***************************************************************************)

\* Mutant of InputReady: a recording row is enough, whatever its status.
InputReadyAnyRecording(f, rec, input) ==
  \/ input = "summary" /\ f.summary
  \/ input = "recording"
  \/ input = "text" /\ f.text = "completed"

InputReady(f, rec, input) ==
  \/ input = "summary" /\ f.summary
  \/ input = "recording" /\ rec = "ready"
  \/ input = "text" /\ f.text = "completed"

Pending(f) == {a \in Actions : f.action[a] = "pending"}

\* Pending actions one of whose inputs can never be ready.
Hopeless(f, rec) ==
  {a \in Pending(f) :
     \/ "recording" \in Inputs[a] /\ rec = "failed"
     \/ "text" \in Inputs[a] /\ f.text = "failed"}

\* The loop over the actions stops at the first hopeless one.
Visited(f, rec) ==
  {a \in Pending(f) : \A h \in Hopeless(f, rec) : ~Before(h, a)}

NeedsText(f, rec) ==
  f.text = "none" /\ \E a \in Visited(f, rec) : "text" \in Inputs[a]

Ready(f, rec) ==
  {a \in Visited(f, rec) : \A input \in Inputs[a] : InputReady(f, rec, input)}

\* Mutant of AllDone: an action that has been sent counts as done.
AllDoneOnceSent(f) == f.summary /\ \A a \in Actions : f.action[a] # "pending"

AllDone(f) == f.summary /\ \A a \in Actions : f.action[a] \in Over

FinalStatus(f) ==
  IF \E a \in Actions : f.action[a] = "failed" THEN "failed" ELSE "completed"

Scheduled(f, rec) ==
  LET next ==
        [f EXCEPT !.action = [a \in Actions |->
                                IF a \in Ready(f, rec) THEN "processing" ELSE f.action[a]],
                  !.text = IF NeedsText(f, rec) THEN "processing" ELSE @]
  IN  IF Hopeless(f, rec) # {} THEN [next EXCEPT !.status = "failed"]
      ELSE IF AllDone(next) THEN [next EXCEPT !.status = FinalStatus(next)]
      ELSE next

Commands(f, rec) ==
  {Entry(w, 1) : w \in Ready(f, rec) \union IF NeedsText(f, rec) THEN {"text"} ELSE {}}

\* A transaction ends with _schedule; its commands reach the stream.
Schedule(f, rec) ==
  /\ finalization' = Scheduled(f, rec)
  /\ open' = open \union Commands(f, rec)

-----------------------------------------------------------------------------
(***************************************************************************)
(* Events.                                                                 *)
(***************************************************************************)

PublishEvent(e) ==
  /\ e \notin announced
  /\ announced' = announced \union {e}
  /\ events' = events \union {e}

\* call.ended or call.agent_relinquished is published by the call session.
CallEvent(e) ==
  /\ PublishEvent(e)
  /\ UNCHANGED << recording, starting, finalization, stored, workerVars, results, handler,
                  faults >>

\* The recording settles, as Recording shows, and says so in the same transaction.
RecordingSettles(s) ==
  /\ recording = "recording"
  /\ recording' = s
  /\ PublishEvent("recording")
  /\ UNCHANGED << starting, finalization, stored, workerVars, results, handler,
                  faults >>

\* The handler is done: the event is acknowledged, or delivered again because
\* the process stopped before the acknowledgement.
Handled(e) == events' \in {events, events \ {e}}

EventStep == UNCHANGED << announced, recording, stored, worker, completedKey,
                          executed, results, handler, faults >>

\* _start finds a finalization: nothing to do.
StartAgain(e) ==
  /\ e \in events /\ starting[e] = "no"
  /\ finalization.status # "none"
  /\ events' = events \ {e}
  /\ UNCHANGED << starting, finalization, open >>
  /\ EventStep

\* _start finds none and, before it commits, reads the recording.
StartRead(e) ==
  /\ e \in events /\ starting[e] = "no"
  /\ finalization.status = "none"
  /\ starting' = [starting EXCEPT ![e] = recording]
  /\ UNCHANGED << events, finalization, open >>
  /\ EventStep

\* The insert commits; a second one violates the unique constraint on call_id,
\* its handler fails and the event is delivered again.
StartCommit(e) ==
  /\ starting[e] # "no"
  /\ starting' = [starting EXCEPT ![e] = "no"]
  /\ IF finalization.status = "none"
     THEN LET f == [NoFinalization EXCEPT !.status = "processing"]
          IN  /\ finalization' = Scheduled(f, starting[e])
              /\ open' = open \union Commands(f, starting[e]) \union {Entry("summary", 1)}
              /\ Handled(e)
     ELSE UNCHANGED << events, finalization, open >>
  /\ EventStep

\* recording_changed: only a finalization at work is scheduled again.
RecordingChanged ==
  /\ "recording" \in events
  /\ IF finalization.status = "processing"
     THEN Schedule(finalization, recording)
     ELSE UNCHANGED << finalization, open >>
  /\ Handled("recording")
  /\ UNCHANGED starting
  /\ EventStep

-----------------------------------------------------------------------------
(***************************************************************************)
(* Results.  handle_result reads the finalization and the execution or     *)
(* representation of the command, and only then locks the finalization     *)
(* row.  The objects it has read are not refreshed by the locking read, so *)
(* it decides by its view; it writes the attributes it changes, and        *)
(* _schedule reads the rows it has not read before.                        *)
(***************************************************************************)

\* Mutant of AtWork: a finalization that is over still takes results.
AtWorkAlways(f) == f.status # "none"

AtWork(f) == f.status = "processing"

\* A summary command is found by summary_command_id, cleared with the summary.
Accepts(f, w) == AtWork(f) /\ (w = "summary" => ~f.summary)

WorkOf(f, w) ==
  CASE w = "summary" -> "none"
    [] w = "text" -> f.text
    [] OTHER -> f.action[w]

View(f, w) == [status |-> f.status, summary |-> f.summary, work |-> WorkOf(f, w)]

WithWork(f, w, s) ==
  CASE w = "summary" -> f
    [] w = "text" -> [f EXCEPT !.text = s]
    [] OTHER -> [f EXCEPT !.action[w] = s]

\* The finalization as handler h sees it under the lock.
Seen(h) ==
  WithWork([finalization EXCEPT !.status = handler[h].view.status,
                                !.summary = handler[h].view.summary],
           handler[h].work, handler[h].view.work)

\* What is stored when seen has become next: the attributes that changed.
Written(seen, next) ==
  [ status |-> IF next.status # seen.status THEN next.status ELSE finalization.status,
    summary |-> IF next.summary # seen.summary THEN next.summary ELSE finalization.summary,
    action |-> [a \in Actions |-> IF next.action[a] # seen.action[a]
                                  THEN next.action[a] ELSE finalization.action[a]],
    text |-> IF next.text # seen.text THEN next.text ELSE finalization.text ]

\* A success that is not current raises FinalizationError.
Current(f, w) ==
  CASE w = "summary" -> TRUE
    [] w = "text" -> f.text = "processing" /\ stored
    [] OTHER -> f.action[w] = "processing"

\* Where a result leads, from the finalization f: its next value, and the
\* commands that are sent.
Then(next, sent) == [next |-> next, sent |-> sent]

\* Mutant of AfterFailedAction: a failed action ends the handler at once.
ForgetFailedAction(f) == Then(f, {})

AfterFailedAction(f) == Then(Scheduled(f, recording), Commands(f, recording))

Failure(f, w) ==
  CASE w = "summary" -> Then([f EXCEPT !.status = "failed"], {})
    [] w = "text" -> Then([f EXCEPT !.status = "failed", !.text = "failed"], {})
    [] OTHER -> AfterFailedAction([f EXCEPT !.action[w] = "failed"])

Success(f, w) ==
  LET done == IF w = "summary" THEN [f EXCEPT !.summary = TRUE]
              ELSE WithWork(f, w, "completed")
  IN  IF Current(f, w) THEN Then(Scheduled(done, recording), Commands(done, recording))
      ELSE Then(f, {})

HandlerStep ==
  UNCHANGED << callVars, events, stored, worker, completedKey, executed >>

\* The reads before the lock.  A result nobody waits for is acknowledged.
ReadResult(h, w, outcome) ==
  /\ handler[h] = HandlerIdle
  /\ <<w, outcome>> \in results
  /\ IF Accepts(finalization, w)
     THEN /\ handler' = [handler EXCEPT ![h] =
                           [work |-> w, outcome |-> outcome, view |-> View(finalization, w)]]
          /\ UNCHANGED results
     ELSE results' = results \ {<<w, outcome>>} /\ UNCHANGED handler
  /\ UNCHANGED << finalization, open, faults >>
  /\ HandlerStep

\* The rest of handle_result, under the lock.  The result is acknowledged, or
\* parked if the handler raises; or it comes again.
ApplyResult(h) ==
  LET w == handler[h].work
      outcome == handler[h].outcome
      then == IF outcome = "failed" THEN Failure(Seen(h), w) ELSE Success(Seen(h), w)
  IN  /\ handler[h] # HandlerIdle
      /\ finalization' = Written(Seen(h), then.next)
      /\ open' = open \union then.sent
      /\ results' \in {results, results \ {<<w, outcome>>}}
      /\ handler' = [handler EXCEPT ![h] = HandlerIdle]
      /\ UNCHANGED faults
      /\ HandlerStep

\* The backend process stops before the commit.
HandlerLost(h) ==
  /\ Fault
  /\ handler[h] # HandlerIdle
  /\ handler' = [handler EXCEPT ![h] = HandlerIdle]
  /\ UNCHANGED << finalization, open, results >>
  /\ HandlerStep

-----------------------------------------------------------------------------
(***************************************************************************)
(* CommandWorker.                                                          *)
(***************************************************************************)

WorkerStep == UNCHANGED << callVars, events, finalization, handler >>

Work(p) == worker[p].entry.work
At(p, step) == worker[p].step = step
GoTo(p, step) == worker' = [worker EXCEPT ![p].step = step]
Finish(p, outcome) ==
  worker' = [worker EXCEPT ![p].step = "publish", ![p].outcome = outcome]

MayRetry(attempt) == attempt <= MaxRetries

\* A transient failure: the entry is queued again, or the last attempt has failed.
FailForNow(p) ==
  IF MayRetry(worker[p].entry.attempt) THEN GoTo(p, "requeue") ELSE Finish(p, "failed")

\* A new entry, or one that has been pending for too long, which another
\* worker may still be at.  A command already completed is answered from its
\* completed key.
Claim(p, entry) ==
  /\ At(p, "idle")
  /\ entry \in open
  /\ LET known == completedKey[entry.work]
     IN  /\ worker' = [worker EXCEPT ![p].entry = entry,
                         ![p].step = IF known = "none" THEN "context" ELSE "ack"]
         /\ results' = results \union (IF known = "none" THEN {} ELSE {<<entry.work, known>>})
  /\ UNCHANGED << stored, open, completedKey, executed, faults >>
  /\ WorkerStep

\* summary_context, action_context and materialization_source refuse a command
\* that is not current; the refusal is an HTTP error, and so is transient.
ContextGiven(w) ==
  CASE w = "summary" -> finalization.status = "processing" /\ ~finalization.summary
    [] w = "text" -> finalization.text = "processing"
    [] OTHER -> finalization.status = "processing" /\ finalization.action[w] = "processing"

GetContext(p) ==
  /\ At(p, "context")
  /\ \/ ContextGiven(Work(p)) /\ GoTo(p, "execute")
     \/ FailForNow(p)
  /\ UNCHANGED << stored, open, completedKey, results, executed, faults >>
  /\ WorkerStep

Succeed(p) ==
  /\ Finish(p, "succeeded")
  /\ executed' = executed \union ({Work(p)} \intersect Actions)
  /\ stored' = (stored \/ Work(p) = "text")

\* The provider call; for the text, store_representation, which the backend
\* refuses when the command is no longer current.
Execute(p) ==
  /\ At(p, "execute")
  /\ \/ (Work(p) = "text" => ContextGiven("text")) /\ Succeed(p)
     \/ (FailForNow(p) \/ Finish(p, "failed")) /\ UNCHANGED << executed, stored >>
  /\ UNCHANGED << open, completedKey, results, faults >>
  /\ WorkerStep

Requeue(p) ==
  /\ At(p, "requeue")
  /\ open' = open \union {Entry(Work(p), worker[p].entry.attempt + 1)}
  /\ GoTo(p, "ack")
  /\ UNCHANGED << stored, completedKey, results, executed, faults >>
  /\ WorkerStep

\* _publish_result: XADD of the result, then SET of the completed key.
Publish(p) ==
  /\ At(p, "publish")
  /\ results' = results \union {<<Work(p), worker[p].outcome>>}
  /\ GoTo(p, "record")
  /\ UNCHANGED << stored, open, completedKey, executed, faults >>
  /\ WorkerStep

Record(p) ==
  /\ At(p, "record")
  /\ completedKey' = [completedKey EXCEPT ![Work(p)] = worker[p].outcome]
  /\ GoTo(p, "ack")
  /\ UNCHANGED << stored, open, results, executed, faults >>
  /\ WorkerStep

\* XACK, after the copy to the dead-letter stream if the command failed.
Acknowledge(p) ==
  /\ At(p, "ack")
  /\ open' = open \ {worker[p].entry}
  /\ worker' = [worker EXCEPT ![p] = WorkerIdle]
  /\ UNCHANGED << stored, completedKey, results, executed, faults >>
  /\ WorkerStep

\* run() catches nothing: a Redis error ends the process, which is restarted.
Crash(p) ==
  /\ Fault
  /\ ~At(p, "idle")
  /\ worker' = [worker EXCEPT ![p] = WorkerIdle]
  /\ UNCHANGED << stored, open, completedKey, results, executed >>
  /\ WorkerStep

Working(p) ==
  \/ GetContext(p)
  \/ Execute(p)
  \/ Requeue(p)
  \/ Publish(p)
  \/ Record(p)
  \/ Acknowledge(p)

-----------------------------------------------------------------------------
Starting(e) == StartAgain(e) \/ StartRead(e) \/ StartCommit(e)

Next ==
  \/ \E e \in StartEvents : CallEvent(e) \/ Starting(e)
  \/ \E s \in {"ready", "failed"} : RecordingSettles(s)
  \/ RecordingChanged
  \/ \E h \in Handlers :
       \/ \E w \in Works, outcome \in Outcomes : ReadResult(h, w, outcome)
       \/ ApplyResult(h)
       \/ HandlerLost(h)
  \/ \E p \in Workers : (\E entry \in open : Claim(p, entry)) \/ Working(p) \/ Crash(p)

Spec == Init /\ [][Next]_vars

(***************************************************************************)
(* Fairness: the loops of the consumers and of the workers go on (a worker *)
(* that stops is restarted), a handler that is repeated is acknowledged at *)
(* last, and the recording settles (Recording).  Nothing is assumed of the *)
(* providers.                                                              *)
(***************************************************************************)
Fairness ==
  /\ \A e \in StartEvents : WF_vars(Starting(e))
  /\ WF_vars(RecordingChanged /\ events' # events)
  /\ WF_vars(\E s \in {"ready", "failed"} : RecordingSettles(s))
  /\ \A h \in Handlers :
       /\ WF_vars(\E w \in Works, outcome \in Outcomes : ReadResult(h, w, outcome))
       /\ WF_vars(ApplyResult(h))
       /\ SF_vars(ApplyResult(h) /\ results' # results)
  /\ \A p \in Workers :
       /\ WF_vars(\E entry \in open : Claim(p, entry))
       /\ WF_vars(Working(p))

FairSpec == Spec /\ Fairness

-----------------------------------------------------------------------------
(***************************************************************************)
(* Properties.                                                             *)
(***************************************************************************)

\* COMPLETED promises that every part of the work was really done: the summary
\* is stored and every action has succeeded at its provider, in whatever order
\* commands, results and the recording's event came.
CompletedMeansDone ==
  finalization.status = "completed" => finalization.summary /\ executed = Actions

\* An action is sent out only when all its inputs are there, and they do not go
\* away while the finalization is at work: the worker that asks for them later
\* finds them.
ActionHasItsInputs ==
  finalization.status = "processing" =>
    \A a \in Actions : finalization.action[a] # "pending" =>
      /\ "summary" \in Inputs[a] => finalization.summary
      /\ "recording" \in Inputs[a] => recording = "ready"
      /\ "text" \in Inputs[a] => finalization.text = "completed" /\ stored

\* The outcome of a finalization is final, although a handler may have read it
\* as PROCESSING before another one ended it.
FinishedStays ==
  [][finalization.status \in Over => finalization'.status = finalization.status]_vars

\* Every finalization ends, although it waits for three sources at once and
\* what wakes it may have been handled before it was committed.
FinalizationEnds ==
  finalization.status = "processing" ~> finalization.status \in Over

=============================================================================

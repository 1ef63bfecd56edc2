------------------------------ MODULE Recording ------------------------------
(***************************************************************************)
(* The recording of one call: the call_recordings row, the egress LiveKit  *)
(* runs, and the four parties that act on both without a common lock: the  *)
(* request that starts the recording (ensure), the requests that stop it,  *)
(* the signed LiveKit webhook and the stale-recording reconciliation.      *)
(*                                                                         *)
(* Each of them alternates transactions of its own with calls to LiveKit,  *)
(* so each is a small process here.  The request that finishes a call is   *)
(* one too: it stops the recording while its own transaction, the one that *)
(* marks the call as over, is still uncommitted, and what other            *)
(* transactions read of the call is the committed state (over, handedOver).*)
(***************************************************************************)
EXTENDS Integers, Sequences

CONSTANT
  Faults   \* what may go wrong, a subset of FaultKinds

FaultKinds ==
  { "livekit",    \* LiveKit refuses or its answer is lost
    "database",   \* a transaction fails
    "crash",      \* the backend process stops and starts again
    "omits" }     \* LiveKit's list lacks an egress that has ended

ASSUME FaultsAssumption == Faults \subseteq FaultKinds

VARIABLES
  over,        \* committed: the call is ended or failed
  handedOver,  \* committed: the call's handoff is COMPLETED
  finishing,   \* the finishing request: "no", "stopping" or "committing"
  row,         \* [status, egress]: the call_recordings row; egress tells
               \* whether its egress_id is stored
  egress,      \* the egress at LiveKit
  reported,    \* egress results a webhook may carry, now or later
  ensure,      \* the request that starts the recording
  stops,       \* the calls of RecordingCoordinator.stop, by who makes them
  sweep,       \* reconcile_stale, at its one candidate; "ended" when an
               \* exception has ended the task that runs it
  events       \* recording events in outbox order

vars == << over, handedOver, finishing, row, egress, reported, ensure, stops,
           sweep, events >>

Settled == {"ready", "failed"}
RowStatuses == {"absent", "pending", "recording"} \union Settled

\* "invalid": the file is missing, empty or under another key.
EgressEnds == {"complete", "invalid", "failed"}
EgressStates == {"none", "active", "stopping"} \union EgressEnds

\* What LiveKit reports of an egress that is starting, active or ending.
Results == {"live"} \union EgressEnds

Stoppers == {"finish", "handover", "ensure", "sweep"}
Returned == {"done", "raised"}
StopStates == {"idle", "reading", "asking"} \union Results \union Returned

TypeOK ==
  /\ over \in BOOLEAN
  /\ handedOver \in BOOLEAN
  /\ finishing \in {"no", "stopping", "committing"}
  /\ row \in [status : RowStatuses, egress : BOOLEAN]
  /\ egress \in EgressStates
  /\ reported \in SUBSET Results
  /\ ensure \in {"idle", "claiming", "starting", "started", "failing", "stopping",
                "done", "failed", "interrupted"}
  /\ stops \in [Stoppers -> StopStates]
  /\ sweep \in [phase : {"idle", "asking", "answered", "stopping", "ended"},
                known : BOOLEAN,
                result : Results \union {"none"}]
  /\ events \in Seq(Settled)

SweepIdle == [phase |-> "idle", known |-> FALSE, result |-> "none"]

Init ==
  /\ over = FALSE
  /\ handedOver = FALSE
  /\ finishing = "no"
  /\ row = [status |-> "absent", egress |-> FALSE]
  /\ egress = "none"
  /\ reported = {}
  /\ ensure = "idle"
  /\ stops = [p \in Stoppers |-> "idle"]
  /\ sweep = SweepIdle
  /\ events = << >>

-----------------------------------------------------------------------------
(***************************************************************************)
(* RecordingService, inside a transaction that locks the recording row.    *)
(***************************************************************************)

IsSettled(r) == r.status \in Settled

\* Mutant of Outcome: the size and key of the file are not looked at.
AnyFileIsReady(result) == IF result \in {"complete", "invalid"} THEN "ready" ELSE "failed"

Outcome(result) == IF result = "complete" THEN "ready" ELSE "failed"

\* started(): store the egress id, unless the row is settled.
Started(r) == IF IsSettled(r) THEN r ELSE [status |-> "recording", egress |-> TRUE]

\* apply(): the row is found by its egress id.
Applied(r, result) ==
  IF ~r.egress \/ IsSettled(r) THEN r
  ELSE [r EXCEPT !.status = IF result = "live" THEN "recording" ELSE Outcome(result)]

\* fail_start(): only a start that is still pending can fail.
StartFailed(r) == IF r.status = "pending" THEN [r EXCEPT !.status = "failed"] ELSE r

\* Mutant of Commit: an outcome is published although it was settled before.
CommitEveryTime(r) ==
  /\ row' = r
  /\ events' = IF IsSettled(r) THEN Append(events, r.status) ELSE events

\* A transaction leaves the row as r and publishes the outcome if it set one.
Commit(r) ==
  /\ row' = r
  /\ events' = IF IsSettled(r) /\ ~IsSettled(row) THEN Append(events, r.status) ELSE events

RowUnchanged == UNCHANGED << row, events >>
CallUnchanged == UNCHANGED << over, handedOver, finishing >>
EgressUnchanged == UNCHANGED << egress, reported >>

-----------------------------------------------------------------------------
(***************************************************************************)
(* The call, as its recording sees it.                                     *)
(***************************************************************************)

\* transition_handoff commits COMPLETED; it needs the call row's lock, which a
\* finishing request holds until it commits.
HandoverCompletes ==
  /\ ~over /\ ~handedOver /\ finishing = "no"
  /\ handedOver' = TRUE
  /\ UNCHANGED << over, finishing, ensure, stops, sweep >>
  /\ RowUnchanged /\ EgressUnchanged

\* session_finished or session_failed: end() or fail() has changed the call
\* row, nothing is committed, and the request goes on to stop the recording.
FinishBegin ==
  /\ ~over /\ finishing = "no"
  /\ finishing' = "stopping"
  /\ stops' = [stops EXCEPT !["finish"] = "reading"]
  /\ UNCHANGED << over, handedOver, ensure, sweep >>
  /\ RowUnchanged /\ EgressUnchanged

FinishStopped ==
  /\ finishing = "stopping" /\ stops["finish"] \in Returned
  /\ finishing' = "committing"
  /\ UNCHANGED << over, handedOver, ensure, stops, sweep >>
  /\ RowUnchanged /\ EgressUnchanged

FinishCommit ==
  /\ finishing = "committing"
  /\ finishing' = "no"
  /\ over' = TRUE
  /\ UNCHANGED << handedOver, ensure, stops, sweep >>
  /\ RowUnchanged /\ EgressUnchanged

\* The commit fails after the recording has been stopped; the agent may retry.
FinishRollback ==
  /\ "database" \in Faults
  /\ finishing = "committing"
  /\ finishing' = "no"
  /\ stops' = [stops EXCEPT !["finish"] = "idle"]
  /\ UNCHANGED << over, handedOver, ensure, sweep >>
  /\ RowUnchanged /\ EgressUnchanged

\* The call reconciler and fail_test_call end a call and stop nothing.
EndedElsewhere ==
  /\ ~over /\ finishing = "no"
  /\ over' = TRUE
  /\ UNCHANGED << handedOver, finishing, ensure, stops, sweep >>
  /\ RowUnchanged /\ EgressUnchanged

-----------------------------------------------------------------------------
(***************************************************************************)
(* RecordingCoordinator.ensure.                                            *)
(***************************************************************************)

\* Mutant of MustStop: only the end of the call is looked at.
MustStopOnlyWhenOver == over

\* The call's committed state says there is nothing (more) to record.
MustStop == handedOver \/ over

EnsureAt(before, after) == ensure = before /\ ensure' = after

EnsureRead ==
  /\ EnsureAt("idle", IF MustStop THEN "done" ELSE "claiming")
  /\ UNCHANGED << stops, sweep >>
  /\ CallUnchanged /\ RowUnchanged /\ EgressUnchanged

\* The insert's foreign key waits for a transaction that locks the call row.
EnsureClaim ==
  /\ EnsureAt("claiming", "starting")
  /\ finishing = "no"
  /\ Commit([status |-> "pending", egress |-> FALSE])
  /\ UNCHANGED << stops, sweep >>
  /\ CallUnchanged /\ EgressUnchanged

EgressBegins == egress' = "active" /\ reported' = {"live"}

StartAccepted ==
  /\ EnsureAt("starting", "started")
  /\ EgressBegins
  /\ UNCHANGED << stops, sweep >>
  /\ CallUnchanged /\ RowUnchanged

\* start_call_recording raises: refused, or the answer is lost.
StartRaises ==
  /\ "livekit" \in Faults
  /\ EnsureAt("starting", "failing")
  /\ EgressBegins \/ EgressUnchanged
  /\ UNCHANGED << stops, sweep >>
  /\ CallUnchanged /\ RowUnchanged

\* The transaction that stores the egress id also decides whether to stop.
EnsureStarted ==
  /\ EnsureAt("started", IF MustStop THEN "stopping" ELSE "done")
  /\ Commit(Applied(Started(row), "live"))
  /\ stops' = [stops EXCEPT !["ensure"] = IF MustStop THEN "reading" ELSE @]
  /\ UNCHANGED sweep
  /\ CallUnchanged /\ EgressUnchanged

EnsureStartedFails ==
  /\ "database" \in Faults
  /\ EnsureAt("started", "failing")
  /\ UNCHANGED << stops, sweep >>
  /\ CallUnchanged /\ RowUnchanged /\ EgressUnchanged

EnsureFails ==
  /\ EnsureAt("failing", "failed")
  /\ Commit(StartFailed(row))
  /\ UNCHANGED << stops, sweep >>
  /\ CallUnchanged /\ EgressUnchanged

EnsureStopped ==
  /\ EnsureAt("stopping", "done")
  /\ stops["ensure"] \in Returned
  /\ UNCHANGED << stops, sweep >>
  /\ CallUnchanged /\ RowUnchanged /\ EgressUnchanged

-----------------------------------------------------------------------------
(***************************************************************************)
(* RecordingCoordinator.stop.                                              *)
(***************************************************************************)

StopAt(p, before, after) == stops[p] = before /\ stops' = [stops EXCEPT ![p] = after]

\* The agent asks to stop after the handover (/recording/stop, then
\* agent_relinquished), as often as it likes.
HandoverStop ==
  /\ handedOver
  /\ stops["handover"] \in {"idle"} \union Returned
  /\ stops' = [stops EXCEPT !["handover"] = "reading"]
  /\ UNCHANGED << ensure, sweep >>
  /\ CallUnchanged /\ RowUnchanged /\ EgressUnchanged

StopRead(p) ==
  /\ StopAt(p, "reading",
            IF row.status = "absent" \/ IsSettled(row) \/ ~row.egress THEN "done" ELSE "asking")
  /\ UNCHANGED << ensure, sweep >>
  /\ CallUnchanged /\ RowUnchanged /\ EgressUnchanged

\* LiveKit is told to stop; it answers that the egress is ending.
StopAccepted(p) ==
  /\ egress \in {"active", "stopping"}
  /\ StopAt(p, "asking", "live")
  /\ egress' = "stopping"
  /\ UNCHANGED << reported, ensure, sweep >>
  /\ CallUnchanged /\ RowUnchanged

\* The egress has ended already, or LiveKit fails: logged, nothing stored.
StopRaises(p) ==
  /\ egress \in EgressEnds \/ "livekit" \in Faults
  /\ StopAt(p, "asking", "raised")
  /\ UNCHANGED << ensure, sweep >>
  /\ CallUnchanged /\ RowUnchanged /\ EgressUnchanged

StopApply(p) ==
  /\ stops[p] \in Results
  /\ \/ stops' = [stops EXCEPT ![p] = "done"] /\ Commit(Applied(row, stops[p]))
     \/ /\ "database" \in Faults
        /\ stops' = [stops EXCEPT ![p] = "raised"]
        /\ RowUnchanged
  /\ UNCHANGED << ensure, sweep >>
  /\ CallUnchanged /\ EgressUnchanged

-----------------------------------------------------------------------------
(***************************************************************************)
(* LiveKit: the egress ends when it is stopped, when the room is gone, or  *)
(* by a failure of its own.  A webhook is delivered any number of times,   *)
(* in any order, or never; it is applied to what the row says by then.     *)
(***************************************************************************)

EgressEnd(s) ==
  /\ egress \in {"active", "stopping"}
  /\ egress' = s
  /\ reported' = reported \union {s}
  /\ UNCHANGED << ensure, stops, sweep >>
  /\ CallUnchanged /\ RowUnchanged

Webhook(result) ==
  /\ result \in reported
  /\ Commit(Applied(row, result))
  /\ UNCHANGED << ensure, stops, sweep >>
  /\ CallUnchanged /\ EgressUnchanged

-----------------------------------------------------------------------------
(***************************************************************************)
(* RecordingCoordinator.reconcile_stale, at one candidate.                 *)
(***************************************************************************)

\* Mutant of IsStale: only calls that ended are looked for.
StaleOnlyWhenOver == row.status \in {"pending", "recording"} /\ over

IsStale == row.status \in {"pending", "recording"} /\ MustStop

\* The grace period (120 s) outlasts the LiveKit client's timeout, so a row is
\* not stale while ensure is still waiting for LiveKit.
GraceOutlastsStart == ensure \notin {"starting", "started", "failing"}

\* The listing is outside the try of the candidates, and so are the transactions
\* of the call reconciliation before it: an error ends the one task that runs
\* both, and nothing but a new process starts it again.
ListingFails ==
  /\ "database" \in Faults
  /\ sweep.phase = "idle"
  /\ sweep' = [SweepIdle EXCEPT !.phase = "ended"]
  /\ UNCHANGED << ensure, stops >>
  /\ CallUnchanged /\ RowUnchanged /\ EgressUnchanged

SweepBegin ==
  /\ sweep.phase = "idle"
  /\ IsStale /\ GraceOutlastsStart
  /\ sweep' = [phase |-> "asking", known |-> row.egress, result |-> "none"]
  /\ UNCHANGED << ensure, stops >>
  /\ CallUnchanged /\ RowUnchanged /\ EgressUnchanged

\* get_egress or find_egress.
LiveKitAnswers ==
  CASE egress = "none" -> {"none"}
    [] egress \in {"active", "stopping"} -> {"live"}
    [] OTHER -> IF "omits" \in Faults THEN {egress, "none"} ELSE {egress}

SweepAnswered ==
  /\ sweep.phase = "asking"
  /\ \E answer \in LiveKitAnswers :
       sweep' = [sweep EXCEPT !.phase = "answered", !.result = answer]
  /\ UNCHANGED << ensure, stops >>
  /\ CallUnchanged /\ RowUnchanged /\ EgressUnchanged

SweepRaises ==
  /\ \/ sweep.phase = "asking" /\ "livekit" \in Faults
     \/ sweep.phase = "answered" /\ "database" \in Faults
  /\ sweep' = SweepIdle
  /\ UNCHANGED << ensure, stops >>
  /\ CallUnchanged /\ RowUnchanged /\ EgressUnchanged

\* LiveKit knows no egress: a start intent without an id has failed.  (With an
\* id the code does nothing, and looks again on every later pass.)
SweepNothing ==
  /\ sweep.phase = "answered" /\ sweep.result = "none"
  /\ IF sweep.known THEN RowUnchanged ELSE Commit(StartFailed(row))
  /\ sweep' = SweepIdle
  /\ UNCHANGED << ensure, stops >>
  /\ CallUnchanged /\ EgressUnchanged

\* LiveKit knows the egress: its result is stored, and a live one is stopped.
SweepFound ==
  /\ sweep.phase = "answered" /\ sweep.result # "none"
  /\ Commit(Applied(IF sweep.known THEN row ELSE Started(row), sweep.result))
  /\ IF sweep.result = "live"
     THEN /\ sweep' = [sweep EXCEPT !.phase = "stopping"]
          /\ stops' = [stops EXCEPT !["sweep"] = "reading"]
     ELSE sweep' = SweepIdle /\ UNCHANGED stops
  /\ UNCHANGED ensure
  /\ CallUnchanged /\ EgressUnchanged

SweepStopped ==
  /\ sweep.phase = "stopping" /\ stops["sweep"] \in Returned
  /\ sweep' = SweepIdle
  /\ UNCHANGED << ensure, stops >>
  /\ CallUnchanged /\ RowUnchanged /\ EgressUnchanged

\* The backend process stops: whatever was in memory or uncommitted is gone.
Crash ==
  /\ "crash" \in Faults
  /\ finishing' = "no"
  /\ ensure' = IF ensure \in {"idle", "done", "failed"} THEN ensure ELSE "interrupted"
  /\ stops' = [p \in Stoppers |-> "idle"]
  /\ sweep' = SweepIdle
  /\ UNCHANGED << over, handedOver >>
  /\ RowUnchanged /\ EgressUnchanged

-----------------------------------------------------------------------------
CallSteps ==
  \/ HandoverCompletes
  \/ FinishBegin
  \/ FinishStopped
  \/ FinishCommit
  \/ FinishRollback
  \/ EndedElsewhere

EnsureSteps ==
  \/ EnsureRead
  \/ EnsureClaim
  \/ StartAccepted
  \/ StartRaises
  \/ EnsureStarted
  \/ EnsureStartedFails
  \/ EnsureFails
  \/ EnsureStopped

StopSteps ==
  \/ HandoverStop
  \/ \E p \in Stoppers :
       StopRead(p) \/ StopAccepted(p) \/ StopRaises(p) \/ StopApply(p)

LiveKitSteps ==
  \/ \E s \in EgressEnds : EgressEnd(s)
  \/ \E result \in Results : Webhook(result)

SweepSteps ==
  \/ ListingFails
  \/ SweepBegin
  \/ SweepAnswered
  \/ SweepRaises
  \/ SweepNothing
  \/ SweepFound
  \/ SweepStopped

Next == CallSteps \/ EnsureSteps \/ StopSteps \/ LiveKitSteps \/ SweepSteps \/ Crash

Spec == Init /\ [][Next]_vars

(***************************************************************************)
(* Fairness: the reconciliation loop goes on until an exception ends it;   *)
(* LiveKit and the database answer its candidates now and then (crashes    *)
(* leave it time to), LiveKit lists an egress it has ended at last, and    *)
(* ends one it was told to stop; a start in progress goes on.  No webhook, *)
(* no client, no stop request and no restart need ever come.               *)
(***************************************************************************)
EnsureProceeds ==
  \/ StartAccepted \/ StartRaises \/ EnsureStarted \/ EnsureStartedFails
  \/ EnsureFails \/ EnsureStopped

Fairness ==
  /\ WF_vars(EnsureProceeds)
  /\ WF_vars(egress = "stopping" /\ \E s \in EgressEnds : EgressEnd(s))
  /\ WF_vars(SweepBegin)
  /\ SF_vars(SweepAnswered /\ (sweep'.result = "none" => egress = "none"))
  /\ SF_vars(SweepNothing)
  /\ SF_vars(SweepFound)
  /\ SF_vars(StopRead("sweep"))
  /\ SF_vars(StopAccepted("sweep"))
  /\ WF_vars(StopRaises("sweep") \/ StopApply("sweep") \/ SweepStopped)

FairSpec == Spec /\ Fairness

-----------------------------------------------------------------------------
(***************************************************************************)
(* Properties.                                                             *)
(***************************************************************************)

\* A recording is settled exactly when its one event is in the outbox, however
\* the webhook, the stop requests, the start and the reconciliation overlap.
OutcomeAnnouncedOnce ==
  events = IF row.status \in Settled THEN << row.status >> ELSE << >>

\* READY promises post-call work a playable file: LiveKit really completed it.
ReadyIsComplete == row.status = "ready" => egress = "complete"

\* A settled recording never changes, whatever late result arrives.
SettledRecordingStays == [][row.status \in Settled => row' = row]_vars

\* When the start and the stop that followed a handover have both returned and
\* raised nothing, the egress is not left running into the two humans'
\* conversation: whichever of them comes second sees the other's work.
HandoverStopsRecording ==
  (/\ handedOver
   /\ stops["handover"] = "done" /\ stops["ensure"] # "raised"
   /\ ensure \in {"idle", "done"})
  => egress # "active"

\* The recording of a call that is over or handed over settles, although any
\* webhook may be lost: post-call work that needs the audio waits for it.  An
\* error of a candidate delays it; one that ends the reconciliation's task is
\* the exception, and after each restart the same is promised again.
RecordingSettles ==
  (row.status \in {"pending", "recording"} /\ MustStop)
    ~> (IsSettled(row) \/ sweep.phase = "ended")

\* docs/call-recording.md: the two humans' conversation after a handover is not
\* recorded; the egress does not run on, even if the process stops between
\* LiveKit's answer and the commit of the egress id.
HandoverEndsEgress == (egress = "active" /\ handedOver) ~> egress # "active"

=============================================================================

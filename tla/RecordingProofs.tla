---------------------------- MODULE RecordingProofs ----------------------------
(***************************************************************************)
(* The safety properties of Recording, for every combination of faults.    *)
(***************************************************************************)
EXTENDS Recording, SequenceTheorems, TLAPS

(***************************************************************************)
(* The inductive invariant.  HandoverStopsRecording relates two parties    *)
(* that never meet, the start and the stop after a handover: what the row  *)
(* says at each step of the start is what lets the second one notice the   *)
(* first.  ReadyIsComplete needs that every result in flight is still true.*)
(***************************************************************************)

\* What the row and LiveKit say while the start is under way.
StartIsInOrder ==
  /\ ensure \in {"idle", "claiming"} => row = [status |-> "absent", egress |-> FALSE]
  /\ ensure \in {"starting", "started"} => row = [status |-> "pending", egress |-> FALSE]
  /\ ensure \in {"idle", "claiming", "starting"} => egress = "none"
  /\ ensure \in {"idle", "claiming", "starting", "started"} => stops["ensure"] = "idle"
  /\ ensure \in {"stopping", "done"} =>
       row.egress \/ (row.status = "absent" /\ egress = "none")

\* The sweep looks only at rows whose start is not under way.
NotSweeping == {"idle", "ended"}

SweepIsLate ==
  sweep.phase \notin NotSweeping =>
    /\ ensure \in {"stopping", "done", "failed", "interrupted"}
    /\ row.status # "absent"

\* The row names its egress only when it has been one.
NamesAnEgress == row.egress => row.status \in {"recording"} \union Settled

\* An end that anybody has heard of is the end of the egress.
ResultsAreTrue ==
  /\ egress = "none" => reported = {}
  /\ \A r \in reported : r \in EgressEnds => egress = r
  /\ sweep.result \in EgressEnds => egress = sweep.result
  /\ \A p \in Stoppers :
       stops[p] \in Results => stops[p] = "live" /\ egress \notin {"none", "active"}

SettledHasEnded == row.status \in Settled /\ row.egress => egress \in EgressEnds

\* The stop after a handover begins after it; the one of a start that was
\* overtaken leaves nothing running.
StopsAreInOrder ==
  /\ ~handedOver => stops["handover"] = "idle"
  /\ ensure \in {"stopping", "done"} /\ stops["ensure"] = "done" => egress # "active"

Inv ==
  /\ TypeOK
  /\ OutcomeAnnouncedOnce
  /\ StartIsInOrder
  /\ SweepIsLate
  /\ NamesAnEgress
  /\ ResultsAreTrue
  /\ SettledHasEnded
  /\ ReadyIsComplete
  /\ StopsAreInOrder
  /\ HandoverStopsRecording

-----------------------------------------------------------------------------
(***************************************************************************)
(* Rows.                                                                   *)
(***************************************************************************)

Rows == [status : RowStatuses, egress : BOOLEAN]

\* What apply() makes of a row.
LEMMA AppliedRow ==
  ASSUME NEW r \in Rows, NEW result \in Results
  PROVE  /\ Applied(r, result) \in Rows
         /\ Applied(r, result).egress = r.egress
         /\ ~r.egress => Applied(r, result) = r
         /\ r.status \in Settled => Applied(r, result) = r
         /\ r.egress /\ r.status \notin Settled =>
              Applied(r, result).status =
                IF result = "live" THEN "recording" ELSE Outcome(result)
<1>1. Outcome(result) \in Settled
  BY DEF Outcome, Settled
<1>2. "recording" \in RowStatuses /\ Settled \subseteq RowStatuses
  BY DEF RowStatuses
<1>3. CASE ~r.egress \/ IsSettled(r)
  BY <1>3 DEF Applied, IsSettled
<1>4. CASE ~(~r.egress \/ IsSettled(r))
  <2> DEFINE s == IF result = "live" THEN "recording" ELSE Outcome(result)
  <2>1. s \in RowStatuses
    BY <1>1, <1>2
  <2>2. Applied(r, result) = [r EXCEPT !.status = s]
    BY <1>4 DEF Applied
  <2> HIDE DEF s
  <2>3. Applied(r, result) \in Rows /\ Applied(r, result).status = s
        /\ Applied(r, result).egress = r.egress
    BY <2>1, <2>2 DEF Rows
  <2> QED
    BY <1>4, <2>3 DEF IsSettled, s
<1> QED
  BY <1>3, <1>4

\* What started() and fail_start() make of it.
LEMMA StartedRow ==
  ASSUME NEW r \in Rows
  PROVE  /\ Started(r) \in Rows /\ StartFailed(r) \in Rows
         /\ r.status \in Settled => Started(r) = r /\ StartFailed(r) = r
         /\ r.status \notin Settled => Started(r).status = "recording" /\ Started(r).egress
         /\ StartFailed(r).egress = r.egress
         /\ r.status = "pending" => StartFailed(r).status = "failed"
         /\ r.status # "pending" => StartFailed(r) = r
<1>1. {"recording", "failed"} \subseteq RowStatuses
  BY DEF RowStatuses, Settled
<1>2. Started(r) \in Rows
  BY <1>1 DEF Started, Rows
<1>3. StartFailed(r) \in Rows
  BY <1>1 DEF StartFailed, Rows
<1> QED
  BY <1>2, <1>3 DEF Started, StartFailed, IsSettled, Rows, Settled

-----------------------------------------------------------------------------
(***************************************************************************)
(* Whatever happens to the row, and what was known when it did.            *)
(***************************************************************************)

\* A result that LiveKit has given is stored, with the id of the egress or not.
Stores(r) ==
  \E result \in Results :
    /\ result \in EgressEnds => egress = result
    /\ Commit(Applied(r, result))

RowMove ==
  \/ RowUnchanged
  \/ ensure = "claiming" /\ ensure' = "starting"
     /\ Commit([status |-> "pending", egress |-> FALSE])
  \/ ensure = "started" /\ ensure' \in {"stopping", "done"}
     /\ Commit(Applied(Started(row), "live"))
  \/ ensure = "failing" /\ ensure' = "failed" /\ Commit(StartFailed(row))
  \/ sweep.phase \notin NotSweeping /\ Commit(StartFailed(row)) /\ UNCHANGED ensure
  \/ Stores(row) /\ UNCHANGED ensure
  \/ sweep.phase \notin NotSweeping /\ Stores(Started(row)) /\ UNCHANGED ensure

LEMMA RowMoves ==
  ASSUME TypeOK, ResultsAreTrue, [Next]_vars
  PROVE  RowMove
<1>1. CASE CallSteps
  BY <1>1 DEF CallSteps, HandoverCompletes, FinishBegin, FinishStopped, FinishCommit,
              FinishRollback, EndedElsewhere, RowMove
<1>2. CASE EnsureSteps
  <2>1. CASE EnsureClaim
    BY <2>1 DEF EnsureClaim, EnsureAt, RowMove
  <2>2. CASE EnsureStarted
    BY <2>2 DEF EnsureStarted, EnsureAt, RowMove
  <2>3. CASE EnsureFails
    BY <2>3 DEF EnsureFails, EnsureAt, RowMove
  <2> QED
    BY <1>2, <2>1, <2>2, <2>3 DEF EnsureSteps, EnsureRead, StartAccepted, StartRaises,
       EnsureStartedFails, EnsureStopped, RowMove
<1>3. CASE StopSteps
  <2>1. ASSUME NEW p \in Stoppers, StopApply(p) PROVE RowMove
    <3>1. stops[p] \in Results /\ stops[p] = "live" /\ UNCHANGED ensure
      BY <2>1 DEF StopApply, ResultsAreTrue
    <3>2. Commit(Applied(row, stops[p])) \/ RowUnchanged
      BY <2>1 DEF StopApply
    <3>3. "live" \in Results /\ "live" \notin EgressEnds
      BY DEF Results, EgressEnds
    <3>4. CASE Commit(Applied(row, stops[p]))
      BY <3>1, <3>3, <3>4 DEF Stores, RowMove
    <3> QED
      BY <3>2, <3>4 DEF RowMove
  <2> QED
    BY <1>3, <2>1 DEF StopSteps, HandoverStop, StopRead, StopAccepted, StopRaises, RowMove
<1>4. CASE LiveKitSteps
  <2>1. ASSUME NEW result \in Results, Webhook(result) PROVE RowMove
    BY <2>1 DEF Webhook, Stores, RowMove, ResultsAreTrue
  <2> QED
    BY <1>4, <2>1 DEF LiveKitSteps, EgressEnd, RowMove
<1>5. CASE SweepSteps
  <2>1. CASE SweepNothing
    BY <2>1 DEF SweepNothing, NotSweeping, RowMove
  <2>2. CASE SweepFound
    <3>1. sweep.result \in Results
      BY <2>2 DEF SweepFound, TypeOK
    <3>2. /\ sweep.phase \notin NotSweeping /\ UNCHANGED ensure
          /\ Commit(Applied(IF sweep.known THEN row ELSE Started(row), sweep.result))
      BY <2>2 DEF SweepFound, NotSweeping
    <3>3. sweep.result \in EgressEnds => egress = sweep.result
      BY DEF ResultsAreTrue
    <3>4. CASE sweep.known
      BY <3>1, <3>2, <3>3, <3>4 DEF Stores, RowMove
    <3>5. CASE ~sweep.known
      BY <3>1, <3>2, <3>3, <3>5 DEF Stores, RowMove
    <3> QED
      BY <3>4, <3>5
  <2> QED
    BY <1>5, <2>1, <2>2 DEF SweepSteps, ListingFails, SweepBegin, SweepAnswered,
       SweepRaises, SweepStopped, RowMove
<1>6. CASE Crash
  BY <1>6 DEF Crash, RowMove
<1>7. CASE UNCHANGED vars
  BY <1>7 DEF vars, RowMove, RowUnchanged
<1> QED
  BY <1>1, <1>2, <1>3, <1>4, <1>5, <1>6, <1>7 DEF Next

LEMMA RowIsRow == ASSUME TypeOK PROVE row \in Rows /\ row = [status |-> row.status, egress |-> row.egress]
BY DEF TypeOK, Rows

LEMMA StoresRow ==
  ASSUME NEW r \in Rows, Stores(r)
  PROVE  /\ row' \in Rows /\ Commit(row') /\ row'.egress = r.egress
         /\ ~r.egress \/ r.status \in Settled => row' = r
         /\ r.egress /\ r.status \notin Settled =>
              \/ row'.status = "recording"
              \/ egress \in EgressEnds /\ row'.status = Outcome(egress)
<1>1. PICK result \in Results : /\ result \in EgressEnds => egress = result
                                /\ Commit(Applied(r, result))
  BY DEF Stores
<1>2. row' = Applied(r, result)
  BY <1>1 DEF Commit
<1>3. result = "live" \/ result \in EgressEnds
  BY DEF Results
<1>4. Commit(row')
  BY <1>1, <1>2
<1> QED
  BY <1>1, <1>2, <1>3, <1>4, AppliedRow

\* A transaction that changes the row publishes what it settles, and nothing
\* changes a settled row.
LEMMA RowCommits ==
  ASSUME TypeOK, StartIsInOrder, RowMove
  PROVE  /\ row' \in Rows
         /\ RowUnchanged \/ Commit(row')
         /\ row.status \in Settled => row' = row
<1>1. row \in Rows
  BY RowIsRow
<1>2. CASE RowUnchanged
  BY <1>1, <1>2 DEF RowUnchanged
<1>3. CASE ensure = "claiming" /\ Commit([status |-> "pending", egress |-> FALSE])
  <2> DEFINE r == [status |-> "pending", egress |-> FALSE]
  <2>1. r \in Rows
    BY DEF Rows, RowStatuses
  <2>2. row' = r /\ Commit(r)
    BY <1>3 DEF Commit
  <2>3. row.status \notin Settled
    BY <1>3 DEF StartIsInOrder, Settled
  <2> HIDE DEF r
  <2> QED
    BY <2>1, <2>2, <2>3
<1>4. CASE ensure = "started" /\ Commit(Applied(Started(row), "live"))
  <2>1. Started(row) \in Rows /\ "live" \in Results
    BY <1>1, StartedRow DEF Results
  <2>2. Applied(Started(row), "live") \in Rows
    BY <2>1, AppliedRow
  <2>3. row.status \notin Settled
    BY <1>4 DEF StartIsInOrder, Settled
  <2>4. row' = Applied(Started(row), "live")
    BY <1>4 DEF Commit
  <2> QED
    BY <1>4, <2>2, <2>3, <2>4
<1>5. CASE Commit(StartFailed(row))
  <2>1. row' = StartFailed(row)
    BY <1>5 DEF Commit
  <2> QED
    BY <1>1, <1>5, <2>1, StartedRow
<1>6. CASE Stores(row)
  BY <1>1, <1>6, StoresRow
<1>7. CASE Stores(Started(row))
  <2>1. Started(row) \in Rows
    BY <1>1, StartedRow
  <2>2. row' \in Rows /\ Commit(row')
    BY <1>7, <2>1, StoresRow
  <2>3. row.status \in Settled => Started(row) = row
    BY <1>1, StartedRow
  <2>4. row.status \in Settled => row' = row
    BY <1>7, <1>1, <2>3, StoresRow
  <2> QED
    BY <2>2, <2>4
<1> QED
  BY <1>2, <1>3, <1>4, <1>5, <1>6, <1>7 DEF RowMove

\* The row while the start is under way, and once it names its egress.
LEMMA RowStays ==
  ASSUME TypeOK, StartIsInOrder, SweepIsLate, NamesAnEgress, RowMove
  PROVE  /\ ensure \in {"idle", "claiming", "starting", "started"} /\ ensure' = ensure =>
              row' = row
         /\ ensure \in {"idle", "starting"} => row' = row
         /\ row.egress => row'.egress
         /\ row.status # "absent" => row'.status # "absent"
         /\ row'.egress => row'.status \in {"recording"} \union Settled
         /\ row'.status \in Settled /\ row'.egress /\ row' # row => egress \in EgressEnds
         /\ row'.status = "ready" /\ row' # row => egress = "complete"
<1>1. row \in Rows
  BY RowIsRow
<1>2. CASE RowUnchanged
  BY <1>2 DEF RowUnchanged, NamesAnEgress
<1>3. CASE ensure = "claiming" /\ ensure' = "starting"
           /\ Commit([status |-> "pending", egress |-> FALSE])
  <2>1. row' = [status |-> "pending", egress |-> FALSE]
    BY <1>3 DEF Commit
  <2>2. row'.status = "pending" /\ ~row'.egress /\ ~row.egress
    BY <1>3, <2>1 DEF StartIsInOrder
  <2> QED
    BY <1>3, <2>2 DEF Settled
<1>4. CASE ensure = "started" /\ ensure' \in {"stopping", "done"}
           /\ Commit(Applied(Started(row), "live"))
  <2>1. Started(row) \in Rows /\ Started(row).status = "recording" /\ Started(row).egress
    BY <1>1, <1>4, StartedRow DEF StartIsInOrder, Settled
  <2>2. row' = Applied(Started(row), "live")
    BY <1>4 DEF Commit
  <2>3. "live" \in Results /\ "recording" \notin Settled
    BY DEF Results, Settled
  <2>4. row'.status = "recording" /\ row'.egress
    BY <2>1, <2>2, <2>3, AppliedRow
  <2> QED
    BY <1>4, <2>3, <2>4
<1>5. CASE /\ Commit(StartFailed(row))
           /\ \/ ensure = "failing" /\ ensure' = "failed"
              \/ sweep.phase \notin NotSweeping /\ UNCHANGED ensure
  <2>1. row' = StartFailed(row)
    BY <1>5 DEF Commit
  <2>2. ensure \notin {"idle", "claiming", "starting", "started"}
    BY <1>5 DEF SweepIsLate
  <2>3. row' = row \/ (row.status = "pending" /\ row'.status = "failed" /\ row'.egress = row.egress)
    BY <1>1, <2>1, StartedRow
  <2>4. row.status = "pending" => ~row.egress
    BY DEF NamesAnEgress, Settled
  <2> QED
    BY <2>2, <2>3, <2>4 DEF NamesAnEgress
<1>6. ASSUME NEW r \in Rows, Stores(r), r = row \/ (r = Started(row) /\ sweep.phase \notin NotSweeping),
             UNCHANGED ensure
      PROVE  /\ ensure \in {"idle", "claiming", "starting", "started"} => row' = row
             /\ row.egress => row'.egress
             /\ row.status # "absent" => row'.status # "absent"
             /\ row'.egress => row'.status \in {"recording"} \union Settled
             /\ row'.status \in Settled /\ row'.egress /\ row' # row => egress \in EgressEnds
             /\ row'.status = "ready" /\ row' # row => egress = "complete"
  <2>1. /\ row.egress => r.egress
        /\ row.status # "absent" => r.status # "absent"
        /\ r.egress => r.status \in {"recording"} \union Settled
        /\ r.status \in Settled => r = row
    <3>1. CASE r = row
      BY <3>1 DEF NamesAnEgress
    <3>2. CASE r = Started(row)
      <4>1. CASE row.status \in Settled
        BY <1>1, <3>2, <4>1, StartedRow DEF NamesAnEgress
      <4>2. CASE row.status \notin Settled
        <5>1. r.status = "recording" /\ r.egress
          BY <1>1, <3>2, <4>2, StartedRow
        <5> QED
          BY <5>1 DEF Settled
      <4> QED
        BY <4>1, <4>2
    <3> QED
      BY <1>6, <3>1, <3>2
  <2>2. ensure \in {"idle", "claiming", "starting", "started"} => r = row /\ ~row.egress
    BY <1>6 DEF StartIsInOrder, SweepIsLate
  <2>3. /\ row'.egress = r.egress
        /\ ~r.egress \/ r.status \in Settled => row' = r
        /\ r.egress /\ r.status \notin Settled =>
              \/ row'.status = "recording"
              \/ egress \in EgressEnds /\ row'.status = Outcome(egress)
    BY <1>6, StoresRow
  <2>4. /\ Outcome(egress) \in Settled /\ (Outcome(egress) = "ready" => egress = "complete")
        /\ "recording" \notin Settled /\ "absent" \notin Settled /\ "ready" \in Settled
    BY DEF Outcome, Settled
  <2>5. CASE ~r.egress \/ r.status \in Settled
    <3>1. row' = r
      BY <2>3, <2>5
    <3> QED
      BY <2>1, <2>2, <2>4, <2>5, <3>1
  <2>6. CASE r.egress /\ r.status \notin Settled
    BY <2>2, <2>3, <2>4, <2>6
  <2> QED
    BY <2>5, <2>6
<1>7. CASE Stores(row) /\ UNCHANGED ensure
  BY <1>1, <1>6, <1>7
<1>8. CASE sweep.phase \notin NotSweeping /\ Stores(Started(row)) /\ UNCHANGED ensure
  BY <1>1, <1>6, <1>8, StartedRow
<1> QED
  BY <1>2, <1>3, <1>4, <1>5, <1>7, <1>8 DEF RowMove

-----------------------------------------------------------------------------
(***************************************************************************)
(* The parts of the invariant, each over one step.                         *)
(***************************************************************************)

\* The steps that are not the start's.
OthersMove == CallSteps \/ StopSteps \/ LiveKitSteps \/ SweepSteps \/ UNCHANGED vars

LEMMA Others ==
  ASSUME TypeOK, OthersMove
  PROVE  /\ ensure' = ensure
         /\ egress \in {"none"} \union EgressEnds => egress' = egress
         /\ egress' = "none" => egress = "none"
         /\ egress' = "active" => egress = "active"
         /\ stops["ensure"] = "idle" => stops'["ensure"] = "idle"
         /\ handedOver => handedOver'
<1>1. stops \in [Stoppers -> StopStates] /\ "ensure" \in Stoppers
  BY DEF TypeOK, Stoppers
<1>2. CASE CallSteps
  BY <1>1, <1>2 DEF CallSteps, HandoverCompletes, FinishBegin, FinishStopped, FinishCommit,
     FinishRollback, EndedElsewhere, EgressUnchanged, CallUnchanged
<1>3. CASE StopSteps
  <2>1. CASE HandoverStop
    BY <1>1, <2>1 DEF HandoverStop, EgressUnchanged, CallUnchanged
  <2>2. ASSUME NEW p \in Stoppers, StopRead(p) \/ StopRaises(p) \/ StopApply(p)
        PROVE  /\ UNCHANGED << ensure, egress, handedOver >>
               /\ stops["ensure"] = "idle" => stops'["ensure"] = "idle"
    BY <1>1, <2>2 DEF StopRead, StopRaises, StopApply, StopAt, EgressUnchanged, CallUnchanged,
       Results, EgressEnds
  <2>3. ASSUME NEW p \in Stoppers, StopAccepted(p)
        PROVE  /\ UNCHANGED << ensure, handedOver >>
               /\ egress \in {"active", "stopping"} /\ egress' = "stopping"
               /\ stops["ensure"] = "idle" => stops'["ensure"] = "idle"
    BY <1>1, <2>3 DEF StopAccepted, StopAt, CallUnchanged
  <2> QED
    BY <1>3, <2>1, <2>2, <2>3 DEF StopSteps, EgressEnds
<1>4. CASE LiveKitSteps
  BY <1>4 DEF LiveKitSteps, EgressEnd, Webhook, EgressUnchanged, EgressEnds, CallUnchanged
<1>5. CASE SweepSteps
  <2>1. UNCHANGED << ensure, egress, handedOver >>
    BY <1>5 DEF SweepSteps, ListingFails, SweepBegin, SweepAnswered, SweepRaises,
       SweepNothing, SweepFound, SweepStopped, EgressUnchanged, CallUnchanged
  <2>2. stops' = stops \/ stops' = [stops EXCEPT !["sweep"] = "reading"]
    BY <1>5 DEF SweepSteps, ListingFails, SweepBegin, SweepAnswered, SweepRaises,
       SweepNothing, SweepFound, SweepStopped
  <2>3. stops'["ensure"] = stops["ensure"]
    BY <1>1, <2>2
  <2> QED
    BY <2>1, <2>3
<1>6. CASE UNCHANGED vars
  BY <1>6 DEF vars
<1> QED
  BY <1>2, <1>3, <1>4, <1>5, <1>6 DEF OthersMove

LEMMA StartNext ==
  ASSUME TypeOK, StartIsInOrder, SweepIsLate, NamesAnEgress, RowMove, [Next]_vars
  PROVE  StartIsInOrder'
<1>1. /\ ensure \in {"idle", "claiming", "starting", "started"} /\ ensure' = ensure => row' = row
      /\ ensure \in {"idle", "starting"} => row' = row
      /\ row.egress => row'.egress
  BY RowStays
<1>2. stops \in [Stoppers -> StopStates] /\ "ensure" \in Stoppers
  BY DEF TypeOK, Stoppers
<1>3. CASE OthersMove
  <2>1. /\ ensure' = ensure
        /\ egress = "none" => egress' = "none"
        /\ stops["ensure"] = "idle" => stops'["ensure"] = "idle"
    BY <1>3, Others
  <2>2. ensure \in {"stopping", "done"} /\ row.status = "absent" /\ egress = "none" /\ ~row.egress
          => row'.egress \/ (row'.status = "absent")
    <3> SUFFICES ASSUME ensure \in {"stopping", "done"}, row.status = "absent", ~row.egress
                 PROVE  row'.status = "absent"
      OBVIOUS
    <3>1. sweep.phase \in NotSweeping /\ row \in Rows
      BY RowIsRow DEF SweepIsLate
    <3>2. RowUnchanged \/ Stores(row)
      BY <2>1, <3>1 DEF RowMove
    <3> QED
      BY <3>1, <3>2, StoresRow DEF RowUnchanged
  <2> QED
    BY <1>1, <2>1, <2>2 DEF StartIsInOrder
<1>4. CASE EnsureRead
  BY <1>1, <1>4 DEF EnsureRead, EnsureAt, EgressUnchanged, StartIsInOrder
<1>5. CASE EnsureClaim
  BY <1>5 DEF EnsureClaim, EnsureAt, Commit, EgressUnchanged, StartIsInOrder
<1>6. CASE StartAccepted
  BY <1>1, <1>6 DEF StartAccepted, EnsureAt, StartIsInOrder
<1>7. CASE StartRaises
  BY <1>7 DEF StartRaises, EnsureAt, StartIsInOrder
<1>8. CASE EnsureStarted
  <2>1. Started(row) \in Rows /\ Started(row).egress /\ "live" \in Results
    BY <1>8, RowIsRow, StartedRow DEF EnsureStarted, EnsureAt, StartIsInOrder, Settled, Results
  <2>2. row' = Applied(Started(row), "live")
    BY <1>8 DEF EnsureStarted, Commit
  <2>3. row'.egress
    BY <2>1, <2>2, AppliedRow
  <2>4. ensure' \in {"stopping", "done"}
    BY <1>8 DEF EnsureStarted, EnsureAt
  <2> QED
    BY <2>3, <2>4 DEF StartIsInOrder
<1>9. CASE EnsureStartedFails \/ EnsureFails
  BY <1>9 DEF EnsureStartedFails, EnsureFails, EnsureAt, StartIsInOrder
<1>10. CASE EnsureStopped
  BY <1>1, <1>10 DEF EnsureStopped, EnsureAt, EgressUnchanged, RowUnchanged, StartIsInOrder
<1>11. CASE Crash
  <2>1. /\ UNCHANGED << row, egress >> /\ stops'["ensure"] = "idle"
        /\ ensure' = ensure \/ ensure' = "interrupted"
    BY <1>2, <1>11 DEF Crash, RowUnchanged, EgressUnchanged
  <2> QED
    BY <2>1 DEF StartIsInOrder
<1> QED
  BY <1>3, <1>4, <1>5, <1>6, <1>7, <1>8, <1>9, <1>10, <1>11
     DEF Next, OthersMove, EnsureSteps

LEMMA SweepNext ==
  ASSUME TypeOK, StartIsInOrder, SweepIsLate, NamesAnEgress, RowMove, [Next]_vars
  PROVE  SweepIsLate'
<1>1. row.status # "absent" => row'.status # "absent"
  BY RowStays
<1>2. CASE SweepBegin
  <2>1. /\ ensure \notin {"starting", "started", "failing"} /\ row.status \in {"pending", "recording"}
        /\ UNCHANGED << ensure, row >>
    BY <1>2 DEF SweepBegin, GraceOutlastsStart, IsStale, RowUnchanged
  <2>2. ensure \notin {"idle", "claiming"}
    BY <2>1 DEF StartIsInOrder
  <2> QED
    BY <2>1, <2>2 DEF TypeOK, SweepIsLate
<1>3. CASE \/ ListingFails \/ SweepAnswered \/ SweepFound
            \/ SweepRaises \/ SweepNothing \/ SweepStopped
  <2>1. ensure' = ensure /\ (sweep'.phase \notin NotSweeping => sweep.phase \notin NotSweeping)
    BY <1>3 DEF ListingFails, SweepAnswered, SweepFound, SweepRaises, SweepNothing,
       SweepStopped, SweepIdle, NotSweeping
  <2> QED
    BY <1>1, <2>1 DEF SweepIsLate
<1>4. CASE CallSteps \/ StopSteps \/ LiveKitSteps \/ UNCHANGED vars
  <2>1. ensure' = ensure
    BY <1>4, Others DEF OthersMove
  <2>2. sweep' = sweep
    BY <1>4 DEF CallSteps, HandoverCompletes, FinishBegin, FinishStopped, FinishCommit,
       FinishRollback, EndedElsewhere, StopSteps, HandoverStop, StopRead, StopAccepted,
       StopRaises, StopApply, LiveKitSteps, EgressEnd, Webhook, vars
  <2> QED
    BY <1>1, <2>1, <2>2 DEF SweepIsLate
<1>5. CASE EnsureSteps
  <2>1. sweep' = sweep
    BY <1>5 DEF EnsureSteps, EnsureRead, EnsureClaim, StartAccepted, StartRaises, EnsureStarted,
       EnsureStartedFails, EnsureFails, EnsureStopped
  <2>2. ensure \in {"stopping", "failed", "interrupted", "done"} => ensure' \in {"done"}
    BY <1>5 DEF EnsureSteps, EnsureRead, EnsureClaim, StartAccepted, StartRaises, EnsureStarted,
       EnsureStartedFails, EnsureFails, EnsureStopped, EnsureAt
  <2> QED
    BY <1>1, <2>1, <2>2 DEF SweepIsLate
<1>6. CASE Crash
  BY <1>6 DEF Crash, SweepIdle, SweepIsLate, NotSweeping
<1> QED
  BY <1>2, <1>3, <1>4, <1>5, <1>6 DEF Next, SweepSteps

\* What happens to the egress.
LEMMA EgressKinds ==
  ASSUME TypeOK, [Next]_vars
  PROVE  \/ UNCHANGED << egress, reported >>
         \/ ensure = "starting" /\ ensure' \in {"started", "failing"}
            /\ egress' = "active" /\ reported' = {"live"}
         \/ egress \in {"active", "stopping"} /\ egress' = "stopping" /\ UNCHANGED reported
         \/ egress \in {"active", "stopping"} /\ egress' \in EgressEnds
            /\ reported' = reported \union {egress'}
<1>1. CASE CallSteps
  BY <1>1 DEF CallSteps, HandoverCompletes, FinishBegin, FinishStopped, FinishCommit,
     FinishRollback, EndedElsewhere, EgressUnchanged
<1>2. CASE EnsureSteps
  BY <1>2 DEF EnsureSteps, EnsureRead, EnsureClaim, StartAccepted, StartRaises, EnsureStarted,
     EnsureStartedFails, EnsureFails, EnsureStopped, EnsureAt, EgressUnchanged, EgressBegins
<1>3. CASE StopSteps
  BY <1>3 DEF StopSteps, HandoverStop, StopRead, StopAccepted, StopRaises, StopApply,
     EgressUnchanged
<1>4. CASE LiveKitSteps
  BY <1>4 DEF LiveKitSteps, EgressEnd, Webhook, EgressUnchanged
<1>5. CASE SweepSteps
  BY <1>5 DEF SweepSteps, ListingFails, SweepBegin, SweepAnswered, SweepRaises,
     SweepNothing, SweepFound, SweepStopped, EgressUnchanged
<1>6. CASE Crash \/ UNCHANGED vars
  BY <1>6 DEF Crash, vars, EgressUnchanged
<1> QED
  BY <1>1, <1>2, <1>3, <1>4, <1>5, <1>6 DEF Next

LEMMA EndedStays ==
  ASSUME TypeOK, StartIsInOrder, [Next]_vars
  PROVE  /\ egress \in EgressEnds => egress' = egress
         /\ egress \notin {"none", "active"} => egress' \notin {"none", "active"}
         /\ egress' = "active" => egress = "active" \/ ensure' \in {"started", "failing"}
<1>1. /\ egress \in EgressStates /\ EgressEnds \intersect {"none", "active", "stopping"} = {}
      /\ EgressStates = {"none", "active", "stopping"} \union EgressEnds
  BY DEF TypeOK, EgressStates, EgressEnds
<1>2. ensure = "starting" => egress = "none"
  BY DEF StartIsInOrder
<1> QED
  BY <1>1, <1>2, EgressKinds

\* What happens to one call of stop.
LEMMA StopKinds ==
  ASSUME TypeOK, NEW p \in Stoppers, [Next]_vars
  PROVE  \/ stops'[p] = stops[p]
         \/ stops'[p] = "live" /\ stops[p] = "asking" /\ egress' = "stopping"
         \/ stops'[p] = "done" /\ UNCHANGED << egress, ensure, handedOver >>
            /\ \/ stops[p] = "reading"
                  /\ (row.status = "absent" \/ row.status \in Settled \/ ~row.egress)
               \/ stops[p] \in Results
         \/ stops'[p] \in {"asking", "raised"} /\ stops[p] \in {"reading", "asking"} \union Results
         \/ stops'[p] = "reading" /\ (p = "handover" => handedOver)
            /\ (p = "ensure" => ensure = "started" /\ ensure' = "stopping")
         \/ stops'[p] = "idle" /\ (p = "ensure" => Crash)
<1>1. stops \in [Stoppers -> StopStates]
  BY DEF TypeOK
<1>2. CASE CallSteps
  BY <1>1, <1>2 DEF CallSteps, HandoverCompletes, FinishBegin, FinishStopped, FinishCommit,
     FinishRollback, EndedElsewhere
<1>3. CASE EnsureSteps
  <2>1. CASE EnsureStarted
    BY <1>1, <2>1 DEF EnsureStarted, EnsureAt
  <2> QED
    BY <1>3, <2>1 DEF EnsureSteps, EnsureRead, EnsureClaim, StartAccepted, StartRaises,
       EnsureStartedFails, EnsureFails, EnsureStopped
<1>4. CASE StopSteps
  <2>1. CASE HandoverStop
    BY <1>1, <2>1 DEF HandoverStop
  <2>2. ASSUME NEW q \in Stoppers, q # p,
               StopRead(q) \/ StopAccepted(q) \/ StopRaises(q) \/ StopApply(q)
        PROVE  stops'[p] = stops[p]
    BY <1>1, <2>2 DEF StopRead, StopAccepted, StopRaises, StopApply, StopAt
  <2>3. CASE StopRead(p)
    BY <1>1, <2>3 DEF StopRead, StopAt, IsSettled, EgressUnchanged, CallUnchanged
  <2>4. CASE StopAccepted(p)
    BY <1>1, <2>4 DEF StopAccepted, StopAt
  <2>5. CASE StopRaises(p)
    BY <1>1, <2>5 DEF StopRaises, StopAt
  <2>6. CASE StopApply(p)
    BY <1>1, <2>6 DEF StopApply, EgressUnchanged, CallUnchanged
  <2> QED
    BY <1>4, <2>1, <2>2, <2>3, <2>4, <2>5, <2>6 DEF StopSteps
<1>5. CASE LiveKitSteps \/ UNCHANGED vars
  BY <1>5 DEF LiveKitSteps, EgressEnd, Webhook, vars
<1>6. CASE SweepSteps
  <2>1. stops' = stops \/ stops' = [stops EXCEPT !["sweep"] = "reading"]
    BY <1>6 DEF SweepSteps, ListingFails, SweepBegin, SweepAnswered, SweepRaises,
       SweepNothing, SweepFound, SweepStopped
  <2> QED
    BY <1>1, <2>1
<1>7. CASE Crash
  BY <1>7 DEF Crash
<1> QED
  BY <1>2, <1>3, <1>4, <1>5, <1>6, <1>7 DEF Next

LEMMA ResultsNext ==
  ASSUME TypeOK, StartIsInOrder, ResultsAreTrue, [Next]_vars
  PROVE  ResultsAreTrue'
<1>1. EgressEnds \intersect {"none", "active", "stopping", "live"} = {}
      /\ Results = {"live"} \union EgressEnds
  BY DEF EgressEnds, Results
<1>2. egress' = "none" => reported' = {}
  BY <1>1, EgressKinds DEF ResultsAreTrue
<1>3. \A r \in reported' : r \in EgressEnds => egress' = r
  <2>1. \A r \in reported : r \in EgressEnds => egress = r
    BY DEF ResultsAreTrue
  <2> QED
    BY <1>1, <2>1, EgressKinds
<1>4. sweep'.result \in EgressEnds => egress' = sweep'.result
  <2>1. sweep.result \in EgressEnds => egress' = sweep.result
    BY EndedStays DEF ResultsAreTrue
  <2>2. \/ sweep'.result = sweep.result \/ sweep'.result \notin EgressEnds
        \/ SweepAnswered
    <3>1. CASE SweepSteps
      BY <1>1, <3>1 DEF SweepSteps, ListingFails, SweepBegin, SweepRaises, SweepNothing, SweepFound,
         SweepStopped, SweepIdle, TypeOK
    <3>2. CASE Crash
      BY <1>1, <3>2 DEF Crash, SweepIdle
    <3> QED
      BY <3>1, <3>2 DEF Next, CallSteps, HandoverCompletes, FinishBegin, FinishStopped,
         FinishCommit, FinishRollback, EndedElsewhere, StopSteps, HandoverStop, StopRead,
         StopAccepted, StopRaises, StopApply, LiveKitSteps, EgressEnd, Webhook, EnsureSteps,
         EnsureRead, EnsureClaim, StartAccepted, StartRaises, EnsureStarted,
         EnsureStartedFails, EnsureFails, EnsureStopped, vars
  <2>3. CASE SweepAnswered
    <3>1. PICK answer \in LiveKitAnswers :
            sweep' = [sweep EXCEPT !.phase = "answered", !.result = answer]
      BY <2>3 DEF SweepAnswered
    <3>2. sweep'.result = answer /\ egress' = egress
      BY <2>3, <3>1 DEF SweepAnswered, EgressUnchanged, TypeOK
    <3>3. answer \in {"none", "live", egress}
      BY <3>1 DEF LiveKitAnswers
    <3> QED
      BY <1>1, <3>2, <3>3
  <2> QED
    BY <2>1, <2>2, <2>3
<1>5. ASSUME NEW p \in Stoppers, stops'[p] \in Results
      PROVE  stops'[p] = "live" /\ egress' \notin {"none", "active"}
  <2>1. stops'[p] = stops[p] \/ (stops'[p] = "live" /\ egress' = "stopping")
    BY <1>5, StopKinds DEF Results, EgressEnds
  <2>2. stops[p] \in Results => stops[p] = "live" /\ egress \notin {"none", "active"}
    BY DEF ResultsAreTrue
  <2> QED
    BY <1>5, <2>1, <2>2, EndedStays
<1> QED
  BY <1>2, <1>3, <1>4, <1>5 DEF ResultsAreTrue

LEMMA OutcomesNext ==
  ASSUME TypeOK, StartIsInOrder, SweepIsLate, NamesAnEgress, SettledHasEnded, ReadyIsComplete,
         RowMove, [Next]_vars
  PROVE  NamesAnEgress' /\ SettledHasEnded' /\ ReadyIsComplete'
<1>1. /\ row'.egress => row'.status \in {"recording"} \union Settled
      /\ row'.status \in Settled /\ row'.egress /\ row' # row => egress \in EgressEnds
      /\ row'.status = "ready" /\ row' # row => egress = "complete"
  BY RowStays
<1>2. egress \in EgressEnds => egress' = egress
  BY EndedStays
<1>3. "complete" \in EgressEnds
  BY DEF EgressEnds
<1> QED
  BY <1>1, <1>2, <1>3 DEF NamesAnEgress, SettledHasEnded, ReadyIsComplete

LEMMA EventsNext ==
  ASSUME TypeOK, OutcomeAnnouncedOnce, StartIsInOrder, RowMove
  PROVE  OutcomeAnnouncedOnce' /\ events' \in Seq(Settled)
<1>1. /\ row' \in Rows
      /\ RowUnchanged \/ Commit(row')
      /\ row.status \in Settled => row' = row
  BY RowCommits
<1>2. CASE RowUnchanged
  BY <1>2 DEF RowUnchanged, OutcomeAnnouncedOnce, TypeOK
<1>3. CASE Commit(row') /\ row.status \in Settled
  BY <1>1, <1>3 DEF Commit, IsSettled, OutcomeAnnouncedOnce, TypeOK
<1>4. CASE Commit(row') /\ row.status \notin Settled
  <2>1. events = << >>
    BY <1>4 DEF OutcomeAnnouncedOnce
  <2>2. CASE row'.status \in Settled
    <3>1. events' = Append(<< >>, row'.status)
      BY <1>4, <2>1, <2>2 DEF Commit, IsSettled
    <3>2. events' = << row'.status >>
      BY <3>1
    <3> QED
      BY <2>2, <3>2 DEF OutcomeAnnouncedOnce
  <2>3. CASE row'.status \notin Settled
    BY <1>4, <2>1, <2>3 DEF Commit, IsSettled, OutcomeAnnouncedOnce
  <2> QED
    BY <2>2, <2>3
<1> QED
  BY <1>1, <1>2, <1>3, <1>4

\* A stop that returns finds nothing to stop, or has stopped it.
LEMMA DoneMeansStopped ==
  ASSUME Inv, [Next]_vars, NEW p \in Stoppers, stops'[p] = "done", stops[p] # "done",
         ensure' \in {"stopping", "done"}
  PROVE  egress' # "active"
<1>1. /\ UNCHANGED << egress, ensure >>
      /\ \/ row.status = "absent" \/ row.status \in Settled \/ ~row.egress
         \/ stops[p] \in Results
  BY StopKinds DEF Inv
<1>2. row.egress \/ egress = "none"
  BY <1>1 DEF Inv, StartIsInOrder
<1>3. CASE stops[p] \in Results
  BY <1>1, <1>3 DEF Inv, ResultsAreTrue
<1>4. CASE row.status \in Settled /\ row.egress
  BY <1>1, <1>4 DEF Inv, SettledHasEnded, EgressEnds
<1>5. row.egress => row.status # "absent"
  BY DEF Inv, NamesAnEgress, Settled
<1> QED
  BY <1>1, <1>2, <1>3, <1>4, <1>5

LEMMA StopsNext ==
  ASSUME Inv, [Next]_vars
  PROVE  StopsAreInOrder'
<1>1. "handover" \in Stoppers /\ "ensure" \in Stoppers
  BY DEF Stoppers
<1>2. handedOver => handedOver'
  BY DEF Next, CallSteps, HandoverCompletes, FinishBegin, FinishStopped, FinishCommit,
     FinishRollback, EndedElsewhere, EnsureSteps, EnsureRead, EnsureClaim, StartAccepted,
     StartRaises, EnsureStarted, EnsureStartedFails, EnsureFails, EnsureStopped, StopSteps,
     HandoverStop, StopRead, StopAccepted, StopRaises, StopApply, LiveKitSteps, EgressEnd,
     Webhook, SweepSteps, ListingFails, SweepBegin, SweepAnswered, SweepRaises,
     SweepNothing, SweepFound, SweepStopped, Crash, CallUnchanged, vars
<1>3. ~handedOver' => stops'["handover"] = "idle"
  <2> SUFFICES ASSUME ~handedOver' PROVE stops'["handover"] = "idle"
    OBVIOUS
  <2>1. ~handedOver /\ stops["handover"] = "idle"
    BY <1>2 DEF Inv, StopsAreInOrder
  <2>2. "idle" \notin {"reading", "asking"} \union Results
    BY DEF Results, EgressEnds
  <2> QED
    BY <1>1, <2>1, <2>2, StopKinds DEF Inv
<1>4. ASSUME ensure' \in {"stopping", "done"}, stops'["ensure"] = "done", egress' = "active"
      PROVE  FALSE
  <2>1. egress = "active"
    BY <1>4, EndedStays DEF Inv
  <2>2. stops["ensure"] = "done"
    BY <1>1, <1>4, DoneMeansStopped
  <2>3. ensure \notin {"stopping", "done"}
    BY <2>1, <2>2 DEF Inv, StopsAreInOrder
  <2>4. ensure \notin {"idle", "claiming", "starting", "started"}
    BY <2>2 DEF Inv, StartIsInOrder
  <2>5. ensure' = ensure \/ ensure' \notin {"stopping", "done"} \/ ensure \in {"idle", "started", "stopping"}
    <3>1. CASE OthersMove
      BY <3>1, Others DEF Inv
    <3>2. CASE EnsureSteps
      BY <3>2 DEF EnsureSteps, EnsureRead, EnsureClaim, StartAccepted, StartRaises,
         EnsureStarted, EnsureStartedFails, EnsureFails, EnsureStopped, EnsureAt
    <3>3. CASE Crash
      BY <3>3 DEF Crash
    <3> QED
      BY <3>1, <3>2, <3>3 DEF Next, OthersMove
  <2> QED
    BY <1>4, <2>3, <2>4, <2>5
<1> QED
  BY <1>3, <1>4 DEF StopsAreInOrder

LEMMA HandoverNext ==
  ASSUME Inv, [Next]_vars
  PROVE  HandoverStopsRecording'
<1>1. "handover" \in Stoppers /\ "ensure" \in Stoppers
  BY DEF Stoppers
<1>2. SUFFICES ASSUME handedOver', stops'["handover"] = "done", stops'["ensure"] # "raised",
                      ensure' \in {"idle", "done"}, egress' = "active"
               PROVE  FALSE
  BY DEF HandoverStopsRecording
<1>3. egress = "active"
  BY <1>2, EndedStays DEF Inv
<1>4. ensure \notin {"idle", "claiming", "starting"}
  BY <1>3 DEF Inv, StartIsInOrder
<1>5. CASE OthersMove
  <2>1. ensure' = ensure /\ ensure = "done"
    BY <1>2, <1>4, <1>5, Others DEF Inv
  <2>2. stops["handover"] = "done"
    BY <1>1, <1>2, <2>1, DoneMeansStopped
  <2>3. handedOver
    BY <2>2 DEF Inv, StopsAreInOrder
  <2>4. stops["ensure"] # "raised"
    <3>1. ~Crash \/ stops'["handover"] = "idle"
      BY <1>1 DEF Crash, Inv, TypeOK
    <3>2. "raised" \notin {"reading", "asking"} \union Results
      BY DEF Results, EgressEnds
    <3> QED
      BY <1>1, <1>2, <2>1, <3>1, <3>2, StopKinds DEF Inv
  <2> QED
    BY <1>3, <2>1, <2>2, <2>3, <2>4 DEF Inv, HandoverStopsRecording
<1>6. CASE EnsureStarted
  <2>1. ~MustStop /\ handedOver' = handedOver
    BY <1>2, <1>6 DEF EnsureStarted, EnsureAt, CallUnchanged
  <2> QED
    BY <1>2, <2>1 DEF MustStop
<1>7. CASE EnsureStopped
  <2>1. ensure = "stopping" /\ stops["ensure"] \in Returned /\ stops' = stops
    BY <1>7 DEF EnsureStopped, EnsureAt
  <2>2. stops["ensure"] = "done"
    BY <1>2, <2>1 DEF Returned
  <2> QED
    BY <1>3, <2>1, <2>2 DEF Inv, StopsAreInOrder
<1>8. CASE EnsureSteps /\ ~EnsureStarted /\ ~EnsureStopped
  BY <1>2, <1>4, <1>8 DEF EnsureSteps, EnsureRead, EnsureClaim, StartAccepted, StartRaises,
     EnsureStartedFails, EnsureFails, EnsureAt
<1>9. CASE Crash
  BY <1>1, <1>2, <1>9 DEF Crash
<1> QED
  BY <1>5, <1>6, <1>7, <1>8, <1>9 DEF Next, OthersMove

-----------------------------------------------------------------------------
(***************************************************************************)
(* Types.                                                                  *)
(***************************************************************************)

LEMMA TypeNext ==
  ASSUME TypeOK, OutcomeAnnouncedOnce, StartIsInOrder, RowMove, [Next]_vars
  PROVE  TypeOK'
<1>1. row' \in Rows /\ events' \in Seq(Settled)
  BY RowCommits, EventsNext
<1>2. over' \in BOOLEAN /\ handedOver' \in BOOLEAN
      /\ finishing' \in {"no", "stopping", "committing"}
  <2>1. CASE CallSteps
    BY <2>1 DEF TypeOK, CallSteps, HandoverCompletes, FinishBegin, FinishStopped, FinishCommit,
       FinishRollback, EndedElsewhere
  <2>2. CASE Crash
    BY <2>2 DEF TypeOK, Crash
  <2>3. CASE ~CallSteps /\ ~Crash
    <3>1. UNCHANGED << over, handedOver, finishing >>
      BY <2>3 DEF Next, EnsureSteps, EnsureRead, EnsureClaim, StartAccepted, StartRaises,
         EnsureStarted, EnsureStartedFails, EnsureFails, EnsureStopped, StopSteps,
         HandoverStop, StopRead, StopAccepted, StopRaises, StopApply, LiveKitSteps, EgressEnd,
         Webhook, SweepSteps, ListingFails, SweepBegin, SweepAnswered, SweepRaises, SweepNothing,
         SweepFound, SweepStopped, CallUnchanged, vars
    <3> QED
      BY <3>1 DEF TypeOK
  <2> QED
    BY <2>1, <2>2, <2>3
<1>3. egress' \in EgressStates /\ reported' \in SUBSET Results
  <2>1. /\ EgressStates = {"none", "active", "stopping"} \union EgressEnds
        /\ Results = {"live"} \union EgressEnds
    BY DEF EgressStates, Results
  <2>2. egress \in EgressStates /\ reported \in SUBSET Results
    BY DEF TypeOK
  <2> QED
    BY <2>1, <2>2, EgressKinds
<1>4. ensure' \in {"idle", "claiming", "starting", "started", "failing", "stopping",
                   "done", "failed", "interrupted"}
  <2>1. CASE OthersMove
    BY <2>1, Others DEF TypeOK
  <2>2. CASE EnsureSteps
    BY <2>2 DEF EnsureSteps, EnsureRead, EnsureClaim, StartAccepted, StartRaises,
       EnsureStarted, EnsureStartedFails, EnsureFails, EnsureStopped, EnsureAt
  <2>3. CASE Crash
    BY <2>3 DEF Crash, TypeOK
  <2> QED
    BY <2>1, <2>2, <2>3 DEF Next, OthersMove
<1>5. stops' \in [Stoppers -> StopStates]
  <2>1. stops \in [Stoppers -> StopStates]
    BY DEF TypeOK
  <2>2. {"idle", "reading", "asking", "live", "done", "raised"} \subseteq StopStates
    BY DEF StopStates, Results, Returned
  <2>3. CASE CallSteps
    BY <2>1, <2>2, <2>3 DEF CallSteps, HandoverCompletes, FinishBegin, FinishStopped,
       FinishCommit, FinishRollback, EndedElsewhere
  <2>4. CASE EnsureSteps
    <3>1. CASE EnsureStarted
      <4> DEFINE s == IF MustStop THEN "reading" ELSE stops["ensure"]
      <4>1. s \in StopStates
        BY <2>1, <2>2 DEF Stoppers
      <4>2. stops' = [stops EXCEPT !["ensure"] = s]
        BY <3>1 DEF EnsureStarted
      <4> HIDE DEF s
      <4> QED
        BY <2>1, <4>1, <4>2
    <3> QED
      BY <2>1, <2>4, <3>1 DEF EnsureSteps, EnsureRead, EnsureClaim, StartAccepted, StartRaises,
         EnsureStartedFails, EnsureFails, EnsureStopped
  <2>5. CASE StopSteps
    BY <2>1, <2>2, <2>5 DEF StopSteps, HandoverStop, StopRead, StopAccepted, StopRaises,
       StopApply, StopAt
  <2>6. CASE LiveKitSteps \/ UNCHANGED vars
    BY <2>1, <2>6 DEF LiveKitSteps, EgressEnd, Webhook, vars
  <2>7. CASE SweepSteps
    <3>1. stops' = stops \/ stops' = [stops EXCEPT !["sweep"] = "reading"]
      BY <2>7 DEF SweepSteps, ListingFails, SweepBegin, SweepAnswered, SweepRaises, SweepNothing,
         SweepFound, SweepStopped
    <3> QED
      BY <2>1, <2>2, <3>1
  <2>8. CASE Crash
    BY <2>2, <2>8 DEF Crash
  <2> QED
    BY <2>3, <2>4, <2>5, <2>6, <2>7, <2>8 DEF Next
<1>6. sweep' \in [phase : {"idle", "asking", "answered", "stopping", "ended"},
                  known : BOOLEAN,
                  result : Results \union {"none"}]
  <2> DEFINE Sweeps == [phase : {"idle", "asking", "answered", "stopping", "ended"},
                        known : BOOLEAN,
                        result : Results \union {"none"}]
  <2>1. sweep \in Sweeps /\ SweepIdle \in Sweeps /\ row.egress \in BOOLEAN
    BY DEF TypeOK, SweepIdle
  <2>2. CASE SweepBegin
    BY <2>1, <2>2 DEF SweepBegin
  <2>3. CASE SweepAnswered
    <3>1. PICK answer \in LiveKitAnswers :
            sweep' = [sweep EXCEPT !.phase = "answered", !.result = answer]
      BY <2>3 DEF SweepAnswered
    <3>2. answer \in {"none", "live", egress}
      BY <3>1 DEF LiveKitAnswers
    <3>3. egress \in {"none", "active", "stopping"} => answer \in {"none", "live"}
      BY <3>1 DEF LiveKitAnswers
    <3>4. answer \in Results \union {"none"}
      BY <3>2, <3>3 DEF TypeOK, EgressStates, Results
    <3> QED
      BY <2>1, <3>1, <3>4
  <2>4. CASE SweepRaises \/ SweepNothing \/ SweepStopped \/ Crash
    <3>1. sweep' = SweepIdle
      BY <2>4 DEF SweepRaises, SweepNothing, SweepStopped, Crash
    <3> QED
      BY <2>1, <3>1
  <2>5. CASE SweepFound
    <3>1. sweep' = SweepIdle \/ sweep' = [sweep EXCEPT !.phase = "stopping"]
      BY <2>5 DEF SweepFound
    <3> QED
      BY <2>1, <3>1
  <2>6. CASE ListingFails
    <3>1. sweep' = [SweepIdle EXCEPT !.phase = "ended"]
      BY <2>6 DEF ListingFails
    <3> QED
      BY <2>1, <3>1
  <2>7. CASE ~SweepSteps /\ ~Crash
    <3>1. sweep' = sweep
      BY <2>7 DEF Next, CallSteps, HandoverCompletes, FinishBegin, FinishStopped,
         FinishCommit, FinishRollback, EndedElsewhere, StopSteps, HandoverStop, StopRead,
         StopAccepted, StopRaises, StopApply, LiveKitSteps, EgressEnd, Webhook, EnsureSteps,
         EnsureRead, EnsureClaim, StartAccepted, StartRaises, EnsureStarted,
         EnsureStartedFails, EnsureFails, EnsureStopped, vars
    <3> QED
      BY <2>1, <3>1
  <2> QED
    BY <2>2, <2>3, <2>4, <2>5, <2>6, <2>7 DEF SweepSteps
<1> QED
  BY <1>1, <1>2, <1>3, <1>4, <1>5, <1>6 DEF TypeOK, Rows

-----------------------------------------------------------------------------
(***************************************************************************)
(* The theorems.                                                           *)
(***************************************************************************)

LEMMA InitInv == Init => Inv
<1> SUFFICES ASSUME Init PROVE Inv
  OBVIOUS
<1>1. TypeOK
  <2>1. "absent" \in RowStatuses /\ "none" \in EgressStates /\ "idle" \in StopStates
    BY DEF RowStatuses, EgressStates, StopStates
  <2>2. row \in [status : RowStatuses, egress : BOOLEAN] /\ stops \in [Stoppers -> StopStates]
    BY <2>1 DEF Init
  <2>3. << >> \in Seq(Settled) /\ {} \in SUBSET Results
    OBVIOUS
  <2> QED
    BY <2>1, <2>2, <2>3 DEF Init, TypeOK, SweepIdle
<1>2. OutcomeAnnouncedOnce /\ NamesAnEgress /\ SettledHasEnded /\ ReadyIsComplete
  BY DEF Init, OutcomeAnnouncedOnce, NamesAnEgress, SettledHasEnded, ReadyIsComplete, Settled
<1>3. StartIsInOrder /\ SweepIsLate /\ StopsAreInOrder /\ HandoverStopsRecording
  BY DEF Init, StartIsInOrder, SweepIsLate, SweepIdle, NotSweeping, StopsAreInOrder,
     HandoverStopsRecording, Stoppers
<1>4. ResultsAreTrue
  BY DEF Init, ResultsAreTrue, SweepIdle, Results, EgressEnds
<1> QED
  BY <1>1, <1>2, <1>3, <1>4 DEF Inv

LEMMA InvNext == Inv /\ [Next]_vars => Inv'
<1> SUFFICES ASSUME Inv, [Next]_vars PROVE Inv'
  OBVIOUS
<1>1. RowMove
  BY RowMoves DEF Inv
<1>2. TypeOK'
  BY <1>1, TypeNext DEF Inv
<1>3. OutcomeAnnouncedOnce'
  BY <1>1, EventsNext DEF Inv
<1>4. StartIsInOrder'
  BY <1>1, StartNext DEF Inv
<1>5. SweepIsLate'
  BY <1>1, SweepNext DEF Inv
<1>6. ResultsAreTrue'
  BY ResultsNext DEF Inv
<1>7. NamesAnEgress' /\ SettledHasEnded' /\ ReadyIsComplete'
  BY <1>1, OutcomesNext DEF Inv
<1>8. StopsAreInOrder' /\ HandoverStopsRecording'
  BY StopsNext, HandoverNext
<1> QED
  BY <1>2, <1>3, <1>4, <1>5, <1>6, <1>7, <1>8 DEF Inv

\* Inv is an invariant of the recording, whatever goes wrong.
THEOREM InvHolds == Spec => []Inv
<1> QED
  BY InitInv, InvNext, PTL DEF Spec

\* The types of the recording's state are kept by every step.
THEOREM TypeCorrect == Spec => []TypeOK
<1>1. Inv => TypeOK
  BY DEF Inv
<1> QED
  BY <1>1, InvHolds, PTL

\* A recording is settled exactly when its one event is in the outbox, however
\* the webhook, the stops, the start and the reconciliation overlap.
THEOREM OutcomesAreAnnouncedOnce == Spec => []OutcomeAnnouncedOnce
<1>1. Inv => OutcomeAnnouncedOnce
  BY DEF Inv
<1> QED
  BY <1>1, InvHolds, PTL

\* Post-call work that is told a recording is ready finds a completed file.
THEOREM ReadyRecordingsAreComplete == Spec => []ReadyIsComplete
<1>1. Inv => ReadyIsComplete
  BY DEF Inv
<1> QED
  BY <1>1, InvHolds, PTL

\* Of the start and the stop that followed a handover, the one that comes second
\* sees the other's work, so that nothing is left running when both returned.
THEOREM HandoversStopRecording == Spec => []HandoverStopsRecording
<1>1. Inv => HandoverStopsRecording
  BY DEF Inv
<1> QED
  BY <1>1, InvHolds, PTL

\* No result that arrives late, of a webhook, a stop or the reconciliation,
\* changes a recording that is settled.
THEOREM SettledRecordingsStay == Spec => SettledRecordingStays
<1>1. Inv /\ [Next]_vars => [row.status \in Settled => row' = row]_vars
  <2> SUFFICES ASSUME Inv, [Next]_vars PROVE row.status \in Settled => row' = row
    OBVIOUS
  <2>1. RowMove
    BY RowMoves DEF Inv
  <2> QED
    BY <2>1, RowCommits DEF Inv
<1> QED
  BY <1>1, InvHolds, PTL DEF Spec, SettledRecordingStays

=============================================================================

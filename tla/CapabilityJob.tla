---------------------------- MODULE CapabilityJob ----------------------------
(***************************************************************************)
(* A business action the caller asked for during the call: the invocation  *)
(* row and its outbox row, the dispatcher that puts the job on the Redis   *)
(* stream and marks the invocation QUEUED, the CapabilityWorker that       *)
(* executes, retries, reports and parks, the backend's record_result, and  *)
(* the maintenance that trims the stream.                                  *)
(*                                                                         *)
(* The provider is a choice of outcomes; an expired job is one that fails  *)
(* for good.  Several dispatchers are the subject of Delivery, one is here.*)
(***************************************************************************)
EXTENDS Integers, Sequences, FiniteSets, FiniteSetsExt

CONSTANTS
  Jobs,        \* invocations, one job each
  Workers,     \* running CapabilityWorker processes of the group
  Count,       \* entries a worker reads or claims at once (10 in the code)
  MaxRetries,  \* transient failures that are retried (3 in the code)
  MaxLen,      \* length maintenance trims the stream to (10000 in the code)
  MaxJobFaults \* bound: worker crashes and dispatcher transactions lost

ASSUME CountAssumption == Count \in Nat \ {0}
ASSUME BoundsAssumption == MaxRetries \in Nat /\ MaxLen \in Nat /\ MaxJobFaults \in Nat

VARIABLES
  status,      \* by job: the invocation row's status, "none" before there is one
  outbox,      \* jobs whose outbox row waits for dispatch
  dispatcher,  \* [todo, sent, read, dirty]: rows locked and not sent yet, rows
               \* sent and not read yet, rows read; dirty are those seen PENDING
  stream,      \* the entries [job, attempt] ever added, in order
  trimmed,     \* entries up to this position are no longer in Redis
  trimmer,     \* maintenance: "idle", or "quiet" when XPENDING told 0
  cursor,      \* last position delivered to the group
  pending,     \* positions delivered and not acknowledged
  worker,      \* by worker: [inbox, step]
  dead,        \* positions copied to the dead-letter stream
  reported,    \* jobs a final report of which the backend has committed
  jobFaults

jobVars == << status, outbox, dispatcher, stream, trimmed, trimmer, cursor, pending,
              worker, dead, reported, jobFaults >>

dispatchVars == << outbox, dispatcher >>
trimVars == << trimmed, trimmer >>
groupVars == << cursor, pending, worker, dead >>

Terminal == {"succeeded", "failed"}
JobStatus == {"none", "pending", "queued"} \union Terminal

DispatcherIdle == [todo |-> {}, sent |-> {}, read |-> {}, dirty |-> {}]
WorkerFresh == [inbox |-> {}, step |-> "handle"]
Steps == {"handle", "success", "failure", "requeue", "park", "ack"}

JobTypeOK ==
  /\ status \in [Jobs -> JobStatus]
  /\ outbox \subseteq Jobs
  /\ dispatcher \in [todo : SUBSET Jobs, sent : SUBSET Jobs,
                     read : SUBSET Jobs, dirty : SUBSET Jobs]
  /\ stream \in Seq([job : Jobs, attempt : 1 .. MaxRetries + 1])
  /\ trimmed \in 0 .. Len(stream)
  /\ trimmer \in {"idle", "quiet"}
  /\ cursor \in 0 .. Len(stream)
  /\ pending \subseteq 1 .. cursor
  /\ worker \in [Workers -> [inbox : SUBSET (1 .. cursor), step : Steps]]
  /\ dead \subseteq 1 .. cursor
  /\ reported \subseteq Jobs
  /\ jobFaults \in 0 .. MaxJobFaults

JobInit ==
  /\ status = [j \in Jobs |-> "none"]
  /\ outbox = {}
  /\ dispatcher = DispatcherIdle
  /\ stream = << >>
  /\ trimmed = 0
  /\ trimmer = "idle"
  /\ cursor = 0
  /\ pending = {}
  /\ worker = [w \in Workers |-> WorkerFresh]
  /\ dead = {}
  /\ reported = {}
  /\ jobFaults = 0

JobFault == jobFaults < MaxJobFaults /\ jobFaults' = jobFaults + 1

-----------------------------------------------------------------------------
(***************************************************************************)
(* Backend: the invocation and its dispatch.                               *)
(***************************************************************************)

\* invoke(): invocation and outbox row in one transaction.
InvokeJob(j) ==
  /\ status[j] = "none"
  /\ status' = [status EXCEPT ![j] = "pending"]
  /\ outbox' = outbox \union {j}
  /\ UNCHANGED << dispatcher, stream, trimVars, groupVars, reported, jobFaults >>

DispatchBegin ==
  /\ dispatcher = DispatcherIdle
  /\ outbox # {}
  /\ dispatcher' = [DispatcherIdle EXCEPT !.todo = outbox]
  /\ UNCHANGED << status, outbox, stream, trimVars, groupVars, reported, jobFaults >>

Entry(j, attempt) == [job |-> j, attempt |-> attempt]

\* XADD of the next row; the worker may have it from now on.
DispatchSend(j) ==
  /\ dispatcher.sent = {}
  /\ j \in dispatcher.todo
  /\ stream' = Append(stream, Entry(j, 1))
  /\ dispatcher' = [dispatcher EXCEPT !.todo = @ \ {j}, !.sent = {j}]
  /\ UNCHANGED << status, outbox, trimVars, groupVars, reported, jobFaults >>

\* session.get reads the invocation without a lock; QUEUED is written later.
DispatchRead(j) ==
  /\ j \in dispatcher.sent
  /\ dispatcher' = [dispatcher EXCEPT !.sent = {}, !.read = @ \union {j},
                      !.dirty = IF status[j] = "pending" THEN @ \union {j} ELSE @]
  /\ UNCHANGED << status, outbox, stream, trimVars, groupVars, reported, jobFaults >>

\* The flush writes QUEUED over whatever the row says by then, and commits.
DispatchCommit ==
  /\ dispatcher.todo = {} /\ dispatcher.sent = {} /\ dispatcher.read # {}
  /\ status' = [j \in Jobs |-> IF j \in dispatcher.dirty THEN "queued" ELSE status[j]]
  /\ outbox' = outbox \ dispatcher.read
  /\ dispatcher' = DispatcherIdle
  /\ UNCHANGED << stream, trimVars, groupVars, reported, jobFaults >>

DispatchLost ==
  /\ JobFault
  /\ dispatcher # DispatcherIdle
  /\ dispatcher' = DispatcherIdle
  /\ UNCHANGED << status, outbox, stream, trimVars, groupVars, reported >>

\* record_result(): under the row lock, the first final report is kept.
RecordResult(j, outcome) ==
  /\ status' = [status EXCEPT ![j] = IF @ \in Terminal THEN @ ELSE outcome]
  /\ reported' = reported \union {j}

-----------------------------------------------------------------------------
(***************************************************************************)
(* The worker: recover_stale, xreadgroup, and _handle for every entry.     *)
(***************************************************************************)

BackendUnchanged == UNCHANGED << status, reported >>
WorkerStep == UNCHANGED << dispatchVars, trimVars >>

\* The loop fetches in turns with XAUTOCLAIM and XREADGROUP; here either may
\* come next, and fairness gives both their turn.
Fetched(w, ids) ==
  /\ worker[w].inbox = {}
  /\ worker' = [worker EXCEPT ![w].inbox = ids]

\* Mutant of Claimable: no entry ever counts as stale.
ClaimableNever == {}

\* XAUTOCLAIM hands out pending entries that still exist, and forgets others.
Claimable == pending \ (1 .. trimmed)

Recover(w, ids) ==
  /\ ids \subseteq Claimable
  /\ Cardinality(ids) <= Count
  /\ Fetched(w, ids)
  /\ pending' = pending \ (1 .. trimmed)
  /\ UNCHANGED << stream, cursor, dead, jobFaults >>
  /\ BackendUnchanged /\ WorkerStep

Read(w) ==
  /\ LET first == Max({cursor, trimmed}) + 1
         last == Min({first + Count - 1, Len(stream)})
     IN  /\ Fetched(w, first .. last)
         /\ pending' = pending \union (first .. last)
         /\ cursor' = last
  /\ UNCHANGED << stream, dead, jobFaults >>
  /\ BackendUnchanged /\ WorkerStep

Current(w) == Min(worker[w].inbox)
Job(w) == stream[Current(w)].job
Attempt(w) == stream[Current(w)].attempt
At(w, step) == worker[w].inbox # {} /\ worker[w].step = step

GoTo(w, step) == worker' = [worker EXCEPT ![w].step = step]

NextEntry(w) ==
  worker' = [worker EXCEPT ![w].inbox = @ \ {Current(w)}, ![w].step = "handle"]

MayRetry(attempt) == attempt <= MaxRetries

\* Mutant of AfterTransient: the entry is acknowledged and not queued again.
AfterTransientAck == "ack"

AfterTransient == "requeue"

\* _handle up to its outcome: the provider succeeds, fails for a while, or
\* fails for good (the plan is invalid, the job expired, the retries are used).
ExecuteJob(w) ==
  /\ At(w, "handle")
  /\ \/ GoTo(w, "success")
     \/ MayRetry(Attempt(w)) /\ GoTo(w, AfterTransient)
     \/ GoTo(w, "failure")
  /\ UNCHANGED << stream, cursor, pending, dead, jobFaults >>
  /\ BackendUnchanged /\ WorkerStep

\* The retry is a new entry, added before the old one is acknowledged.
Requeue(w) ==
  /\ At(w, "requeue")
  /\ stream' = Append(stream, Entry(Job(w), Attempt(w) + 1))
  /\ GoTo(w, "ack")
  /\ UNCHANGED << cursor, pending, dead, jobFaults >>
  /\ BackendUnchanged /\ WorkerStep

ReportAccepted(w) ==
  /\ \/ At(w, "success") /\ RecordResult(Job(w), "succeeded") /\ GoTo(w, "ack")
     \/ At(w, "failure") /\ RecordResult(Job(w), "failed") /\ GoTo(w, "park")
  /\ UNCHANGED << stream, cursor, pending, dead, jobFaults >>
  /\ WorkerStep

\* The entry stays pending and is claimed again later.
AfterLostReport(w) == NextEntry(w)

\* The backend cannot be reached, or its answer is lost.
ReportRaises(w) ==
  /\ At(w, "success") \/ At(w, "failure")
  /\ \/ BackendUnchanged
     \/ RecordResult(Job(w), IF At(w, "success") THEN "succeeded" ELSE "failed")
  /\ AfterLostReport(w)
  /\ UNCHANGED << stream, cursor, pending, dead, jobFaults >>
  /\ WorkerStep

Park(w) ==
  /\ At(w, "park")
  /\ dead' = dead \union {Current(w)}
  /\ GoTo(w, "ack")
  /\ UNCHANGED << stream, cursor, pending, jobFaults >>
  /\ BackendUnchanged /\ WorkerStep

Acknowledge(w) ==
  /\ At(w, "ack")
  /\ pending' = pending \ {Current(w)}
  /\ NextEntry(w)
  /\ UNCHANGED << stream, cursor, dead, jobFaults >>
  /\ BackendUnchanged /\ WorkerStep

\* run() catches nothing: a Redis error ends the process, which is restarted.
WorkerCrash(w) ==
  /\ JobFault
  /\ worker[w] # WorkerFresh
  /\ worker' = [worker EXCEPT ![w] = WorkerFresh]
  /\ UNCHANGED << stream, cursor, pending, dead >>
  /\ BackendUnchanged /\ WorkerStep

-----------------------------------------------------------------------------
(***************************************************************************)
(* _trim_streams: two commands, XPENDING and XTRIM.                        *)
(***************************************************************************)

TrimCheck ==
  /\ trimmer = "idle"
  /\ pending = {}
  /\ trimmer' = "quiet"
  /\ UNCHANGED << status, dispatchVars, stream, trimmed, groupVars, reported, jobFaults >>

\* An approximate XTRIM may leave more than MaxLen entries.
Trim ==
  /\ trimmer = "quiet"
  /\ trimmer' = "idle"
  /\ trimmed' \in trimmed .. Max({trimmed, Len(stream) - MaxLen})
  /\ UNCHANGED << status, dispatchVars, stream, groupVars, reported, jobFaults >>

-----------------------------------------------------------------------------
Dispatching ==
  \/ DispatchBegin
  \/ \E j \in Jobs : DispatchSend(j) \/ DispatchRead(j)
  \/ DispatchCommit

Fetching(w) == Read(w) \/ \E ids \in SUBSET pending : Recover(w, ids)

Handling(w) ==
  \/ ExecuteJob(w)
  \/ Requeue(w)
  \/ ReportAccepted(w)
  \/ ReportRaises(w)
  \/ Park(w)
  \/ Acknowledge(w)

JobNext ==
  \/ \E j \in Jobs : InvokeJob(j)
  \/ Dispatching
  \/ DispatchLost
  \/ \E w \in Workers : Fetching(w) \/ Handling(w) \/ WorkerCrash(w)
  \/ TrimCheck
  \/ Trim

JobSpec == JobInit /\ [][JobNext]_jobVars

(***************************************************************************)
(* Fairness: the dispatcher's and the workers' loops go on, an entry that  *)
(* stays pending is at last idle for long enough to be claimed, and the    *)
(* backend accepts a report that is repeated often enough.                 *)
(***************************************************************************)
Fairness ==
  /\ WF_jobVars(Dispatching)
  /\ \A w \in Workers :
       /\ SF_jobVars(Read(w))
       /\ WF_jobVars(Handling(w))
       /\ SF_jobVars(ReportAccepted(w))
  /\ \A j \in Jobs :
       SF_jobVars(\E w \in Workers, ids \in SUBSET pending :
                 /\ \E i \in ids : stream[i].job = j
                 /\ Recover(w, ids))

FairJobSpec == JobSpec /\ Fairness

-----------------------------------------------------------------------------
(***************************************************************************)
(* Properties.                                                             *)
(***************************************************************************)

\* Positions a worker will still be given.
Live == {i \in DOMAIN stream : i > trimmed /\ (i > cursor \/ i \in pending)}

\* Until its outcome is reported a job is somewhere a worker will find it,
\* although the retry, the report and the acknowledgement are separate steps
\* and any of them may be the last of its process.
JobNotLost ==
  \A j \in Jobs : status[j] # "none" =>
    j \in outbox \union reported \/ \E i \in Live : stream[i].job = j

\* Every invocation is answered at last: the agent that polls it, and the
\* caller it speaks to, are not left with a job nobody will finish.
JobIsReported == \A j \in Jobs : status[j] # "none" ~> j \in reported

\* docs/reservation-submit-request.md: the result of a job is retained and the
\* status of a terminal invocation remains.
OutcomeRetained ==
  [][\A j \in Jobs : status[j] \in Terminal => status'[j] = status[j]]_jobVars


\* docs/reservation-submit-request.md: pending messages are never trimmed by
\* maintenance.  What a worker has been given is in the stream until it is
\* acknowledged, so another worker can claim it.
PendingNotTrimmed == \A i \in pending : i > trimmed

=============================================================================

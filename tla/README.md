# A TLA+ verification of agentic-backend

agentic-backend runs voice agents on telephone and web calls. An agent answers
a call in a LiveKit room, can book or cancel things for the caller, can hand
the caller to a human, and when the call is over the backend has a summary
written and the tenant's post-call actions carried out; what an agent may do is
configured per tenant in a control plane. This directory models the part of it
that coordinates: who may change what, when, and what is still true when
requests repeat, overlap, are lost, or a process stops half-way.

Paths below are relative to the repository; `backend_core/` is
`apps/backend/src/backend_core/`, `control_plane/` is
`apps/control-plane-service/src/control_plane/`.

## 1. The system

### Parts

| Part | State it keeps | Operations | Code |
|---|---|---|---|
| Call lifecycle and human handoff | `call_sessions` row: status, failure reason, handoff request, attempt, state | claim, create, open a test session, started, connected, end, fail, transfer, five handoff transitions, relinquish | `backend_core/modules/calls/service.py`, `router.py` |
| Call runtime reconciliation | none, a loop | find stale calls, ask LiveKit for the room, end or fail the call | `backend_core/modules/calls/reconciliation.py` |
| Conversation transcript | `conversations`, `conversation_messages` | append with replay, close | `backend_core/modules/conversations/` |
| Call recording | `call_recordings` row, the egress at LiveKit | ensure, stop, webhook, fail a start, reconcile | `backend_core/runtime/finalization/recording.py`, `webhook.py` |
| Outbox and stream consumers | `outbox_messages`, Redis streams, groups, attempt counters, dead letters | publish, dispatch, read, claim, handle, retry, park, acknowledge | `backend_core/platform/outbox.py`, `stream_consumer.py` |
| Capability confirmation | `capability_confirmations`, the agent's `pending_confirmation` | prepare, confirm, invoke; the tool that pairs, polls and remembers them | `backend_core/runtime/capabilities/service.py`, `apps/voice-agent/.../main.py`, `backend.py` |
| Capability invocation and job worker | `capability_invocations`, the capability stream | invoke, dispatch, execute, retry, report, park, trim | `backend_core/runtime/capabilities/`, `apps/job-worker/.../worker.py` |
| Post-call finalization and command worker | `call_finalizations`, executions, representations, command and result streams | start, recording changed, handle result, schedule; summarise, materialize, execute | `backend_core/runtime/finalization/service.py`, `apps/job-worker/.../command_worker.py` |
| Voice agent: handoff controller | one attempt with its watcher task and deadline, cleanup tasks, the job's future | transfer tool, events of the room, deadline, hang-up, relinquish, bridge close | `apps/voice-agent/.../handoff.py`, `main.py` |
| Voice agent: transcript delivery | a queue of 128 messages, the writer task, the shared drain | enqueue, send, retry, drain, report | `apps/voice-agent/.../event_delivery.py`, `main.py` |
| Voice agent: session and speech pipeline | the LiveKit Agents session, audio buffers | speech to text, language model, text to speech, tools | `apps/voice-agent/.../main.py`, `providers.py` ... |
| Control plane: a tenant's configuration | components with draft, revisions and active revision; live components; idempotency keys; executions | save, discard, publish, roll back, for a component or the whole tenant; change what is live; create an execution | `control_plane/application/`, `infrastructure/persistence/`, `interfaces/http/app.py` |
| Control plane: the platform's resources | rows of credentials with their secrets, provider connections, integrations, model deployments, system configuration | rotate, revoke, enable, disable, update; apply or set the system configuration; resolve a runtime | `control_plane/application/credentials.py`, `providers.py`, `integrations.py`, `system_configuration.py`, `runtime_resolver.py` |
| Tenants, auth, telephony, usage, retention | rows of their own | reads and writes in one transaction | `backend_core/modules/tenants/`, `calls/usage*.py`, `capabilities/retention.py` |
| agentctl, admin web | none the system depends on | HTTP clients | `apps/agentctl/`, `apps/admin-web/` |

### How they interact

* The voice agent, the admin API and LiveKit's webhooks reach the backend by
  HTTP. A request on a call is one database transaction that first takes the
  call row's lock (`get_for_update`). Clients retry, so every request may come
  more than once, late, and in an order the agent did not intend.
* The backend calls LiveKit in the middle of some transactions (dialling a
  transfer) and between others (the recording), so a transaction may be lost
  after LiveKit has acted.
* The voice agent is one asyncio process per call: the tools the model calls,
  the controller's tasks, the writer of the transcript and the job's shutdown
  interleave at every `await`, and each of them waits for the backend.
* Domain events, job and command messages are rows of the outbox, written with
  the data they speak of. One dispatcher task copies them to Redis streams.
* Consumers (`RedisStreamConsumer` in the backend, `CapabilityWorker` and
  `CommandWorker` in the job worker) read the streams in consumer groups,
  claim what has been pending for long, and acknowledge after the work.
* `call.ended`, `call.agent_relinquished` and the recording's events start and
  drive the finalization, command results come back on another stream.
* The control plane is another service with another database. Its clients edit
  with tokens (`If-Match`) and idempotency keys; the backend creates an
  execution for a call and reads it from then on, and nothing changes it.

### What is hard

* Several actors on one row: agent, admin, reconciler and repeated requests of
  each; a transfer that keeps the row locked while LiveKit dials.
* Reads outside the lock: the reconciler's candidates, the dispatcher's
  `session.get`, the finalization and action `handle_result` loads before it
  locks, the committed call state a recording start reads while the finishing
  request has not committed, the component whose token is compared before its
  row is locked.
* The reconciler is one task that nothing restarts: `run()` has no handler, so
  the first error of its database ends it until the process is started again.
* State read before an `await` and used after it: the confirmation the tool
  remembers, the attempt the controller is at, the verdict of a drain.
* Steps that cannot be atomic: XADD and commit, result and completed marker,
  start of an egress and its id, requeue and acknowledgement, the several
  statements that make up an execution.
* Delivery more than once and out of order, entries claimed while they are at
  work, webhooks lost or early, a request that is served after its client has
  given it up.
* Work that waits for three sources at once (summary, text, recording), each of
  which may fail.
* Keys that differ for the same thing: a SIP call has a short and a long id, its
  execution a key of its own, and the number it called may change hands between
  two attempts.
* Rows that need one another: a credential is revoked while another operator
  enables what uses it, and the system configuration is validated row by row,
  each of them locked when it is reached.

`PROJECT.json` lists 40 such hazards with their lines, and the properties that
would be violated; those without a property say why.

### What makes each part correct

* Call: finished once, announced once with the outcome the row has, transcript
  sealed at the end and never changed after; a handoff settles once, completes
  only on a connected call; LiveKit rings one human at a time; a call whose
  agent is gone is finished all the same.
* Recording: settles once with one event, READY only for a complete file, does
  not run into the conversation between two humans, settles without webhooks.
* Delivery: what was committed is handled at least once or ends in the dead
  letters, never before its retries are used.
* Confirmation: what is executed is what the customer heard, once for each time
  it was prepared, and the agent does not tell him otherwise.
* Capability job: never lost, its outcome reported at last and kept.
* Post-call: COMPLETED only if all was done, an action only with its inputs,
  outcomes final, every finalization ends.
* Handoff controller: the AI leaves only when the backend has the handoff as
  completed, leaves nobody alone, removes whoever it called in vain, and the
  bridge ends with the people in it.
* Transcript delivery: a transcript called complete is whole and in order, both
  reports say the same, and a report is made whatever the backend does.
* Configuration: revisions form one line, a key acts once, nobody overwrites
  what he has not seen, and an execution is of one moment.
* Admission: what is asked for repeatedly is one call, it runs the execution of
  its own tenant, and a test session has one agent or has failed.
* Platform resources: whatever is enabled has what it refers to, and what the
  system configuration names can be resolved, whoever changes what at once.

## 2. Modules

```
CallPromise  <- refined by -  CallSession         CallProofs
                              CallAdmission       CallProofs
AtLeastOnce  <- refined by -  Delivery            DeliveryProofs
                              Recording           RecordingProofs
                              PostCall            PostCallProofs
                              Confirmation        CapabilityProofs
                              CapabilityJob       CapabilityProofs
                              HandoffBridge       HandoffBridgeProofs
                              TranscriptDelivery  TranscriptDeliveryProofs
                              Configuration       ControlPlaneProofs
                              ProviderGraph       ControlPlaneProofs
MC<Name>                      instances of <Name> for TLC
```

**CallPromise** is the abstract call: waiting, live, over; a transcript that
grows until it is sealed; a finish that seals and announces in one step.

**CallSession** is one call: the row, its conversation, the events in the
outbox, the room and the handoff participants LiveKit has in it, and the
reconciler. A request is one action, since its transaction holds the row lock
from first read to commit; rejected and replayed requests are stutters.
Two things take several actions. `TransferBegin`, `DialPlaced`,
`TransferDialing`/`Failed`/`Lost` are `transfer_to_human`, whose transaction
holds the lock across the dialling (`txn`). `ListStale`, `RoomMissing`,
`Reconcile` are `run_once`, with the candidate read in one transaction, LiveKit
asked outside, and the call re-read under the lock. Nothing catches what its
transactions raise: `ReconcilerFails`, or a commit in `Reconcile` whose answer is
lost, leaves `reconciler = "failed"`, a conflict of status `"conflict"`, and only
`Restart`, a new process, makes it `"idle"` again. `Init` leaves the channel
open; only a SIP call can be transferred.

**Recording** is one recording as five small processes without a common lock:
`ensure` (the start), `stops` (the same `stop` called by finishing requests, by
the agent after a handover, by ensure and by reconciliation), the finishing
request itself, whose commit comes after its stop (`finishing`), webhooks, and
`sweep` (`reconcile_stale`). What goes wrong with a candidate is caught and the
sweep goes on (`SweepRaises`); the listing before it is outside the `try`, and
with its error (`ListingFails`) the task has ended until the process is started
again (`Crash`). `Faults` says what may go wrong: LiveKit refuses or
its answer is lost, a transaction fails, the process stops, LiveKit's list
lacks an egress that has ended. `over` and `handedOver` are the *committed*
state of the call, which is what other transactions see.

**AtLeastOnce** is the channel the backend relies on; **Delivery** is how it is
built: `Publish` (an outbox row), `DispatchBegin/Send/Commit` with
`FOR UPDATE SKIP LOCKED` as the set of locked rows, an append-only stream with a
group cursor and a pending set, and `handle()` as the steps handle, count, park,
ack, forget, because a process may stop between any two. Messages are numbers
so that `created_at` has an order.

**CapabilityJob** follows an invocation from `invoke` through dispatch (the
read without a lock and the late flush of QUEUED are two steps), worker,
report, dead letter, and the trimming of the stream. The provider is a choice
of success, transient failure and final failure.

**PostCall** is a finalization: the start events, the recording's event,
`handle_result` in two steps (what it reads before the lock, `view`, and what it
writes under it), `_schedule` as the operators `Scheduled` and `Commands`, and
the command worker with its completed marker. `Written` stores the attributes
that changed with respect to the view, which is what the ORM flushes.
Finalization streams are used by what Delivery promises, at least once and in
any order.

**Confirmation** is the capability tool of the voice agent against the backend.
The model may call the tool in parallel. `CallTool` decides by what is
remembered at that moment whether the call prepares, confirms or invokes; the
request is on the wire until it is served, and `TimesOut`, `Repeat` and
`ConfirmRollsBack` are what may happen to it; `LockConfirmation` and `Confirm` are the
confirm transaction, which holds the row while it decides; `ToolStep` is the
tool when it goes on, and `heard` is what the model was told to read back.

**HandoffBridge** is the agent's `HandoffController` between the backend and the
room. The controller's state is `mine`; `watcher` is its task, which sends the
backend one event at a time and waits for the answer; `removals` and the
unwatched requests are the cleanup tasks; `session`, `relinquish`,
`bridgeClose` and `job` are the shutdown in `main.py`. A participant that leaves
is out of the room at once and the agent sees it later (`left`). The backend's
row changes as CallSession has it, reduced to attempt and state.

**TranscriptDelivery** is `ConversationPersistence` and the backend's append and
close: the bounded `queue`, the `writer` with its retries, requests that may be
served after they timed out (`wire`), the shared `drain` with its deadline, and
the two reporters that wait for it.

**Configuration** is one versioned and one live component of a tenant, small
enough that their relation matters (which actions exist, which are available).
`Send` is a request with what its client has read; a `handler` per copy of it
goes through check, lock and commit as the code's transactions do
(`READ COMMITTED` except for executions, which take several statements
in one snapshot). `lock` is the tenant's advisory lock, `replays` the table of
idempotency keys. `moments` is a history variable: the pairs of active revision
and availability that were ever committed.

**ProviderGraph** is the graph of platform resources: a row is whether it is
enabled, what it refers to, and the capabilities of a deployment. A command is
one transaction at `READ COMMITTED` (`tx`) that locks its own row, compares the
token (`Open`), reads who uses the row without locking them (`LookAtUses`), and
goes down its references, each row locked when it is reached (`Walk`, with the
rows still to look at as `todo`), before it commits; `graphLock` is who holds a row
or the advisory lock of the system configuration. `Abort` is PostgreSQL choosing the
victim of a circle of waits. A component value is the deployments it names, the
capabilities its settings need, and, of Policies, whether the end of a turn is
left to the VAD of the STT's provider. `Cascade`, `Realtime` and `HalfCascade` are what
`runtime_resolver.py` asks for when an execution is created.

**CallAdmission** is what comes before CallSession. A request (`req`) is a SIP
claim, a creation by the provider's id, or a test session. `Lookup`, `Route`,
`Lock`, `Execute` and `Store` are its transaction, which asks the control plane
twice: whose number it is (`route`, moved by `Enable` and `Disable`), and for the
execution (`executions`, by key), where the control plane commits on its own. A
test session goes on after the commit with `CreateDispatch`, `SetDispatch` and
the cleanup, each with its failure. Rows are found as the unique indexes find
them (`BySip`, `ByKey`). A tenant's status is left out, as nothing changes it
after the tenant was created.

State is abstracted to what properties tell apart: a message is an id, a
request is a tool-call id with its destination, a provider is its outcomes, time
is left out (a deadline may always have passed). Definitions whose comment says
*Mutant of X* are the plausible bugs each property is tested against; no
specification uses them.

## 3. What is checked

Twelve runs; states are distinct ones, times on two cores.

| Run | Instance | States | Time | Shows |
|---|---|---|---|---|
| `call_session` | 2 requests, 2 attempts, 2 messages, 1 reason, 2 relinquished events | 51,544 | 9 s | `EventsAreTrue`, `OneHandoffPeer`, `ReconcilerMeetsNoConflict`, `SettledHandoffStays`, `LostCallIsFinished`, and (`KeepsPromise`) that CallSession implements `CallPromise` |
| `recording` | all four faults | 102,356 | 75 s | `OutcomeAnnouncedOnce`, `ReadyIsComplete`, `HandoverStopsRecording`, `RecordingSettles` |
| `delivery` | 1 message, 2 dispatchers, 2 consumers in batches of 2, 2 retries, 1 fault | 73,760 | 14 s | `NothingLost`, `ParkedAfterRetries`, and (`DeliversAtLeastOnce`) that Delivery implements `AtLeastOnce` with its fairness |
| `capability_job` | 1 job, 1 worker, 1 retry, 1 fault | 13,453 | 5 s | `JobNotLost`, `JobIsReported` |
| `post_call` | 1 action that needs summary and recording, both start events, 1 retry, 1 fault | 87,465 | 75 s | `CompletedMeansDone`, `ActionHasItsInputs`, `FinishedStays`, `FinalizationEnds` |
| `confirmation` | 3 tool calls, 2 arguments, 1 fault | 225,812 | 87 s | `ExecutedWasHeard`, `OnePerPreparation`, `AnswerIsTrue`, `CallIsAnswered` |
| `handoff_bridge` | 2 attempts, 1 fault | 208,598 | 60 s | `RelinquishOnBackend`, `NotLeftAlone`, `DestinationLeaves`, `BridgeEnds` |
| `transcript_delivery` | 4 messages, a queue of 2, 3 tries, 4 faults | 366,259 | 29 s | `CompleteIsWhole`, `ReportIsMade` |
| `configuration` | 2 commands of any kind, sent twice each, 2 definitions, 2 availabilities, 3 faults | 736,897 | 30 s | `OncePerKey`, `ExecutionIsOfOneMoment`, `LosesNoEdit`, `TenantCommandsFit` |
| `provider_graph` | 2 commands of 34, on 4 graphs of 10 rows, 1 fault | 155,943 | 16 s | `EnabledIsUsable`, `ReferencesResolve`, `OnlyValidationDeadlocks`, `AppliedResolves` |
| `call_admission` | 3 requests, 1 SIP call with both ids, 2 tenants, 1 key, 2 moves of the number, 1 fault, and what fails because of it | 2,214,282 | 116 s | `AdmittedOnce`, `CallIsOfItsTenant`, `OneAgentEach` |
| `recording_leak` | LiveKit's answer may be lost | | | violation, finding 1 |

No run lists `TypeOK`: it was checked while the modules were written, and is
proved for all of them.

Seven more configurations check one property each that the code does not keep;
section 5 says what TLC finds with them: `MCCapabilityJobOutcome.cfg`
(`OutcomeRetained`), `MCCapabilityJobTrim.cfg`
(`PendingNotTrimmed`), `MCConfigurationFits.cfg` (`AvailabilityFits`),
`MCProviderGraphTranscription.cfg` (`TranscriptionResolves`),
`MCProviderGraphEndpointing.cfg` (`EndpointingIsAdvertised`),
`MCProviderGraphConnection.cfg` (`TranscriptionOnModelConnection`) and
`MCProviderGraphVAD.cfg` (`ProviderVADIsCompatible`).

### Bounds, and why they are enough

* Two requests and two attempts let an attempt be replaced and a late event of
  the first reach the second; a third attempt finds the states the second
  found. `MaxRelinquished = 2` is the first repetition of an event that may be
  published any number of times.
* Two processes of each kind is the first size at which rows are skipped because
  they are locked and an entry is claimed while another consumer works on it; a
  batch of two is the first of which a part can be lost (one message sent twice
  makes two entries). Two retries separate "before the retries are used" from
  "at once" and from "one too early". One fault puts a crash, a lost commit or a
  Redis error at any one step. That several messages do not disturb each other
  is proved rather than checked.
* `CapabilityJob` has `MaxLen = 3`, above the number of entries one job makes in
  these runs unless a crash and a retry add to it, where trimming happens to a
  drained stream.
* `PostCall` has one action with two sources, a crash at any step and both start
  events; two actions, a text as input and several workers are in the proofs.
* Three tool calls are one that prepares and two that confirm at once, or one
  that prepares, confirms and prepares again under the same id; two arguments
  tell what was heard from what was not. `OnePerPreparation` and the other
  safety properties are proved for any number.
* In `transcript_delivery` the queue is shorter than what is said, so that it
  overflows; three tries are those of the code; four faults can use them up for
  one message and then disturb the close or a report.
* Two commands sent twice give four transactions of any kinds, each against
  each; three faults are both repetitions and one transaction lost.
* In `provider_graph` two operators send any two of 34 commands, at least one of
  every kind on every kind of row; the four graphs differ in what is enabled, in
  which deployment the configuration names and in whether there is a
  configuration. Two transactions are the shortest circle of waits; longer ones
  need more validations at once, and these wait for the advisory lock.
* In `call_admission` three requests are two that repeat each other and one that
  comes between, or two that race and one that comes after; two moves are what it
  takes to give the number to the other tenant. One fault loses a transaction, an
  answer, a cleanup or the process; two were tried as well. Requests, and tenants, are
  interchangeable (symmetry; no liveness is checked).
* The live properties are checked with the same instances; in Delivery and
  CapabilityJob which process takes an entry does not matter to whether one
  does.

### Fairness, and why the code justifies it

* `CallSession`: weak fairness of the listing (one asyncio task, a loop until an
  exception ends it), strong of `RoomMissing` (LiveKit is asked again in every
  pass) and of the end of the reconciling transaction, done or failed
  (`ReconcileReturns`: restarts of the process leave it the time now and then),
  weak of the end of a transfer (the dial has a client timeout). Nothing is
  assumed of clients, so the reconciler alone must finish the call; and nothing
  of `Restart`, as `lifespan.py:162` does not watch the task. A database error
  may therefore end it for good, and `LostCallIsFinished` promises that the call
  is finished unless that has happened, and again after each restart.
* `Recording`: the reconciliation loop goes on until its listing fails, LiveKit
  and the database answer its candidates now and then (an error there is caught,
  and the next pass tries again), LiveKit ends what it was told to end and lists
  an ended egress sooner or later, a start in progress goes on. No webhook, no
  stop request and no restart need ever come. `RecordingSettles` excepts, as
  above, the task that has ended.
* `Delivery` and `CapabilityJob`: the loops of dispatcher and consumers go on
  (a worker that stops is restarted by its supervisor), an entry that stays
  pending is idle for long enough in the end, and a report repeated often
  enough is accepted. A handler or a provider may fail for ever.
* `PostCall`: the same, and the recording settles (`RecordingSettles` in
  Recording, and so as long as the reconciler lives or a webhook comes).
* `Confirmation`: the event loop runs some coroutine that can go on and the
  backend serves some request; a tool call takes finitely many steps, so that
  is enough.
* `HandoffBridge`: what runs on its own goes on: tasks, timers, events on their
  way, requests on the wire, a session that is closing. Nobody has to speak, to
  answer, to hang up or to ask for a transfer.
* `TranscriptDelivery`: the reporters and the drain or its timer go on. Nothing
  is assumed of the backend, nor of the writer.
* `Configuration`, `ProviderGraph` and `CallAdmission` state no liveness: a command
  that nobody sends again may never take effect, and the code promises nothing
  else.

Faults are bounded in number, or, in Recording, unbounded but without power
over what strong fairness promises.

## 4. What is proved

Eight modules hold machine-checked proofs about all eleven components, for
**every** value of the constants that satisfies the assumptions the component
states: that ids and the value that stands for none differ, that bounds are
natural numbers, that Delivery's `Consumers` are finitely many, that PostCall's
actions and their inputs are what their types say; for ProviderGraph that a
command is one its route accepts (the reference of a row is to a row of the
table its foreign key names) and that operators start from a graph in which what
is enabled has what it refers to; for CallAdmission that the ids of a SIP call,
the keys of test sessions and new ids differ (`call_...` and `manual:...` are put
before the latter). TLC evaluates the assumptions on the runs.

Three of the modules are about two components each: CallProofs extends CallSession
and CallAdmission, CapabilityProofs extends Confirmation and CapabilityJob,
ControlPlaneProofs extends Configuration and ProviderGraph. Where such a pair would
have used one name twice, the second component's name says whose it is
(`AdmissionSpec`, `JobTypeOK`, `graphLock`, ...).

Each proof has the same shape: an inductive invariant (`Inv`; `AdmissionInv`,
`JobInv` and `GraphInv` of the second components), one lemma per action or per conjunct
that carries it over a step, `Spec => []Inv`, and from it `TypeCorrect` and the
theorems below. Action properties and refinements are step lemmas under the
invariant, lifted to the temporal theorem in the last step. Every invariant was
checked by TLC before it was proved.

| Module | Theorem | Property of a run it states |
|---|---|---|
| CallProofs | `EventsTellTheTruth` | `EventsAreTrue` |
| | `OnePeerAtATime` | `OneHandoffPeer` |
| | `ReconciliationNeverConflicts` | `ReconcilerMeetsNoConflict` |
| | `SettledIsFinal` | `SettledHandoffStays` |
| | `HandoverBeforeTheEnd` | (in none) |
| | `Refinement` | `KeepsPromise` |
| | `FinishedIsAlwaysSealed`, `SealIsFinal` | (in none) |
| | `CallsAreAdmittedOnce` | `AdmittedOnce` |
| | `CallsAreOfTheirTenants` | `CallIsOfItsTenant` |
| | `SessionsHaveOneAgent` | `OneAgentEach` |
| RecordingProofs | `OutcomesAreAnnouncedOnce` | `OutcomeAnnouncedOnce` |
| | `ReadyRecordingsAreComplete` | `ReadyIsComplete` |
| | `HandoversStopRecording` | `HandoverStopsRecording` |
| | `SettledRecordingsStay` | (in none) |
| DeliveryProofs | `MessagesAreNotLost` | `NothingLost` |
| | `ParkedOnlyAfterRetries` | `ParkedAfterRetries` |
| | `Refinement` | the step part of `DeliversAtLeastOnce` |
| PostCallProofs | `CompletedFinalizationsAreDone` | `CompletedMeansDone` |
| | `SentActionsHaveTheirInputs` | `ActionHasItsInputs` |
| | `OutcomesAreFinal`, for one handler | `FinishedStays` |
| CapabilityProofs | `ExecutionsWereHeard` | `ExecutedWasHeard` |
| | `OneExecutionPerPreparation` | `OnePerPreparation` |
| | `AnswersAreOfTheirCall` | `AnswerIsTrue` |
| | `ConfirmationsAreConsumedTogether` | (in none) |
| | `JobsAreNotLost`, while the stream is within its limit | `JobNotLost` |
| | `OnlyTrimmingLoses`, for a stream of any length | (in none) |
| HandoffBridgeProofs | `TheAILeavesOnlyForACompletedHandoff` | `RelinquishOnBackend` |
| | `NobodyIsLeftAlone` | `NotLeftAlone` |
| | `SettledAttemptsAreReported` | (in none) |
| TranscriptDeliveryProofs | `CompleteConversationsAreWhole` | `CompleteIsWhole` |
| | `MessagesAreStoredInOrder` | (in none) |
| | `BothReportsAgree` | (in none) |
| ControlPlaneProofs | `HistoryStaysLinear` | (in none) |
| | `CommandsTakeEffectOnce` | `OncePerKey` |
| | `ExecutionsAreConsistent` | `ExecutionIsOfOneMoment` |
| | `NoEditIsLost` | `LosesNoEdit` |
| | `TenantCommandsLeaveItFit` | `TenantCommandsFit` |
| | `TenantCommandsReplaceWhatWasRead` | (in none) |
| | `UsesAreUsable` | `EnabledIsUsable` |
| | `NamedDeploymentsResolve` | `ReferencesResolve` |
| | `AppliedIsResolvable` | `AppliedResolves` |
| | `DeadlocksNeedValidation` | `OnlyValidationDeadlocks` |

The arguments, in brief; each module's header and the comments of its
invariant say more.

* **CallSession.** `ReconcilerMeetsNoConflict` needs that no call which is not over has
  a transcript sealed with a status the reconciler would contradict; only a
  relinquishing agent seals early (`SealedEarlyIsHandedOver`), such a call has a
  handoff request (`HandoffIsWhole`), and a handoff exists only from CONNECTED
  on (`HandoffNeedsConnection`). The transfer's transaction must not be
  overtaken while LiveKit dials (`DialingKeepsRow`: every other writer waits for
  the row lock). `OneHandoffPeer` needs that an attempt id is new
  (`FreshAttempt`).
* **Recording.** `HandoverStopsRecording` is about two parties that never meet,
  the start and the stop after a handover; what the row says at each step of the
  start (`StartIsInOrder`) lets the second notice the first (`StopsAreInOrder`).
  `ReadyIsComplete` needs that every result in flight is still true
  (`ResultsAreTrue`), and that LiveKit does not take an end back.
* **Delivery.** `NothingLost` does not carry over a step: a row is marked long
  after its entry was added and an entry acknowledged long after its message was
  handled. In between the dispatcher and the consumer vouch for it (`SentIsSafe`,
  `AcknowledgedIsSafe`). The attempt counter is shared, so `FailuresAreCounted`
  keeps account of failures seen and not counted yet.
* **PostCall.** A handler decides by what it read before the lock. It does no
  harm because nothing it has read is ever taken back (`ViewsHold`): a summary, an
  executed action, a stored text, a ready recording, a command that was sent; and
  a command nobody sent is known to nobody (`UnsentIsUnknown`), a success only
  said of what was executed (`DoneIsExecuted`). This holds for any number of
  handlers. `OutcomesAreFinal` assumes `OneHandler`: then only the recording's
  event comes between read and lock, and a finalization it gave up (`Stuck`) is
  given up by the handler again (`ViewsAreNow`). With two handlers and two
  workers TLC finds COMPLETED replaced by the failed second answer of a command
  that was executed twice.
* **Confirmation.** A chain: what the tool remembers it has told the model, what
  it confirms it remembered, the row it confirms holds the arguments of the call
  that prepared it (`RowsAreAsked`, `HeardIsAsked`), and the lock keeps the row as
  it was read until the execution is stored (`LocksAreHeld`). `PreparationsSuffice`
  counts.
* **HandoffBridge.** The agent takes an answer for the state of the attempt it is
  at. That needs attempts that start in order (`StartsInOrder`), one request at a
  time that the watcher waits for (`WatcherInOrder`), and a report that exists
  until the backend has it (`ReportsGo`).
* **TranscriptDelivery.** Until a failure is noticed the words lie in the store, at
  the writer and in the queue, one behind the other (`NothingMissing`); late
  copies of an append are of stored words; a drain that found nothing missing
  ends the matter (`VerdictHolds`).
* **Configuration.** Between the check of a token and the commit other commands
  run; `StepsFit`, `StoredOnce`, `LockedIsValid`, `SnapshotsHold` and `ReadsArePast`
  say what of the check is still true, and why.
* **CallAdmission.** The unique keys make `AdmittedOnce` and `CallIsOfItsTenant` a
  matter of the row that is stored: it has the tenant of the execution that was
  found or created under its key (`RequestOk`), also when the number moved in
  between, because the control plane refuses a key of another tenant. For
  `OneAgentEach` nothing is true of the dispatches alone: a call may have several
  while requests race. Each of them is the one the call names, or its request is
  at the step that will name or drop it (`Agent`); or some request is about to
  delete what there is and fail the call (`Doomed`), and stays so until the call has
  failed or was abandoned.
* **CapabilityJob.** A worker acknowledges an entry when the outcome is reported, or
  when it has put the job into the stream again, behind it. So the
  invariant says of an entry to be acknowledged that the job lives on at a later
  position (`LiveAfter` in `StepIsSafe`); without the position two entries could
  vouch for each other. The dispatcher's view of the outbox is older than its
  commit (`SentIsKept`). `JobNotLost` itself is not true for every value of the
  constants, since a stream beyond its limit is trimmed (finding 4): what is true
  then is `OnlyTrimmingLoses`, and `TrimLeavesMaxLen` makes `JobsAreNotLost` of it.
* **ProviderGraph.** A transaction goes down its references and locks each row, and
  the invariant says of everything it has to look at that it is still to come,
  or is locked and fits, or an issue was noted (`HasLooked`); a row that is locked
  does not change, so what was validated is still so at the commit. Who uses a row
  is read without locks. That is enough because whoever begins to use it must lock
  it, and the reader holds that lock. For `OnlyValidationDeadlocks` a transaction
  with one chain holds rows of higher tables than the one it waits for (`GoesDown`,
  `Level`), and in a circle of such waits the level would fall for ever.

Only model-checked: liveness everywhere (fairness and ENABLED are beyond the
prover), so `LostCallIsFinished`, `RecordingSettles`, the fairness of
`DeliversAtLeastOnce`, `JobIsReported`, `FinalizationEnds`, `CallIsAnswered`,
`DestinationLeaves`, `BridgeEnds`, `ReportIsMade`. Every safety property of a run is
stated by a theorem.

## 5. Findings

Where the code does not do what its documents say. The first is a run that
TLC refutes, the others are shown by further configurations.

1. `recording_leak`. A start whose answer is lost is settled as FAILED although
   the egress may run (`recording.py:218`); a settled row is looked at by
   nobody, so the egress records the two humans after a handover, which
   `docs/call-recording.md:101` excludes.
2. `MCCapabilityJobOutcome.cfg`. The dispatcher reads the invocation without a lock
   and writes QUEUED when it flushes (`outbox.py:136`); a worker that reports in
   between loses its outcome, which `docs/reservation-submit-request.md:186`
   says is retained.
3. `MCConfigurationFits.cfg`. Publishing or rolling back the single component
   ActionsDefinition does not look at ActionsAvailability, as the tenant's
   publication does (`components.py:131`); an available action may be left without
   a definition, which `docs/control-plane/INVARIANTS.md:249` excludes, and every
   execution is refused until somebody repairs it.
4. `MCCapabilityJobTrim.cfg`. Maintenance asks for the pending count and trims in
   two commands (`outbox.py:180`), so an entry a worker took in between is trimmed
   while it is pending; `docs/reservation-submit-request.md:180` says "Pending
   messages are never trimmed by maintenance."
5. `MCProviderGraphTranscription.cfg`. Disabling or updating a deployment looks for
   components whose `deployment_ref` it is (`persistence/providers.py:201`) and not
   for RealtimeDefaults that use it for input transcription, where
   `docs/control-plane/SCHEMAS.md:2082` wants one with
   "supports_realtime_input_transcription"; every realtime execution is refused
   then.
6. `MCProviderGraphEndpointing.cfg`. Nor does it look at Policies, which ask for
   native endpointing of the deployment of STTDefaults (`providers.py:426`, `550`);
   see `SCHEMAS.md:1895`.
7. `MCProviderGraphConnection.cfg`. A deployment moved to another connection may
   leave Azure's transcription on a connection other than the model's
   (`providers.py:344`); see `SCHEMAS.md:2099`.
8. `MCProviderGraphVAD.cfg`. Apply and set do not compare `provider_vad` of Policies
   with the provider of the STT connection (`system_configuration.py:222-324`,
   `326-473`), the resolver refuses all but ElevenLabs (`runtime_resolver.py:260`):
   a configuration is committed with which every cascade execution is refused.
   `docs/control-plane/CODEX_REPORTS/mapping_analysis.md:56` says of it "Provider
   compatibility checked". `AppliedResolves` excepts this one case.

Met while modelling, and noted at the hazards rather than run:

* A database error in the listing of calls (`calls/reconciliation.py:43`), in the
  transaction that ends one (`:60`) or in the listing of recordings
  (`recording.py:256`) ends the task, which `run()` (`:85`) and `lifespan.py:162` do
  not start again: neither calls nor recordings are reconciled until the process
  is restarted. The comment of `recording.py:305` says "recording recovery must not
  affect call reconciliation", which is so of a candidate and not of the listing.
* A finishing request stops the recording before its own transaction commits
  (`router.py:198`), so a start and that stop may miss each other; the egress
  runs until reconciliation looks for it after its grace period.
* `handle_result`'s failed branch does not test that the action is still
  PROCESSING (`service.py:254`), as the completed branch does (`service.py:279`):
  a failed second answer turns a completed action into a failed one, though not
  the finalization's own outcome.
* An agent that cancels while COMPLETE is served removes the destination of a
  handoff the backend has as COMPLETED; the caller is gone by then.
* A retried publish or rollback of a component gets 412, as `If-Match` is checked
  before the replay is looked up (`app.py:1799`); `INVARIANTS.md:656` has the
  lookup first. The command still takes effect once.
* The version of a draft starts at 1 again when one was discarded, so a token of
  the old draft fits the new one; and a component that has no row yet cannot be
  locked, so the first write is not compared with what was read. `LosesNoEdit`
  and `ReplacesWhatWasRead` except these.
* A claim that is repeated after the number has moved is refused for good: the
  execution's key is the call's and stays the first tenant's (`calls/service.py:239`).
* A copy of a test-session request that fails deletes the room and fails the call
  another copy was answered with (`router.py:511`).
* A call that was created and never started is no candidate of reconciliation
  (`calls/repository.py:105`) and stays CREATED.
* An egress LiveKit has forgotten leaves its row RECORDING (`recording.py:297`);
  an action that needs the recording of a call that was
  never recorded waits for ever (`service.py:534`). Of data the models do not
  carry: the text worker reads `item["content"]` where the source writes
  `message` (`service.py:796`).

## 6. What is not modelled, and why

* Tokens and read-only routes, which change nothing.
* Telephony reconciliation: one transaction under a row lock that lists, then
  creates or updates trunks and rule at LiveKit, repeated until they are as
  desired.
* Of the control plane, the other kinds of components, which go through the same
  commands; tenants and API clients, which are single rows with a token; and of
  credentials, connections and deployments their creation, the plan of a
  configuration, and validation against the provider itself.
* Usage, tenants, retention: one transaction each over rows nothing
  else here reads.
* The speech pipeline, provider adapters, HTTP clients, web console: I/O and
  data transformation. How a voice session is started and its providers chosen
  is part of it.
* A result or an event that is parked after its retries: PostCall assumes that
  handlers succeed at last.
* `FinalizationEnds` for calls that were never recorded but whose actions need
  the recording (it does not hold), and for several backend processes (the
  compose files start one).
* The words of a confirmation: when a prepare answers with the new summary and
  keeps the old input (`capabilities/service.py:111`), `ExecutedWasHeard` takes the
  input for what was heard.
* LiveKit placing a participant after the dial's client has timed out.
* A grace period shorter than a start: `GraceOutlastsStart` holds of the default
  120 s and the LiveKit client's own timeout, not of any setting; with tracing on,
  the client's timeout is that of its session (`livekit.py:69-80`).
* `DestinationLeaves` excepts what takes more than one fault; with the one fault of
  its run the exception is never met.
* Connection pools and stream growth.

## 7. Plan

Done, in this order: CallSession with CallPromise and its proofs, Recording,
Delivery with AtLeastOnce, CapabilityJob, PostCall; then Confirmation,
HandoffBridge, TranscriptDelivery and Configuration, the stream at its cap,
ProviderGraph and CallAdmission, and the safety proofs of all of them.

Next:

1. Composition: CallSession's events through AtLeastOnce into PostCall, with
   Recording, each by its promise.
2. An abstract finalization and an abstract handoff, and that PostCall and
   HandoffBridge with CallSession implement them.
3. Parked results in PostCall, and what an operator has to do with them.
4. Telephony reconciliation against a LiveKit whose trunks others change.

## 8. Running it

`tlc -config MC<X>.cfg MC<Module>.tla` for a run (`PROJECT.json` names both),
`tlapm <Module>Proofs.tla` for the proofs (from seconds to seven minutes each).
`PROJECT.json` also maps every definition to the lines it models.

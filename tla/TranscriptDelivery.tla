------------------------- MODULE TranscriptDelivery -------------------------
(***************************************************************************)
(* How the words of a call get from the agent session into the             *)
(* conversation the backend keeps: the bounded queue and the writer task   *)
(* of ConversationPersistence, the retried append request, the drain that  *)
(* decides whether the transcript is complete, and the two reports that    *)
(* carry that decision: agent_relinquished after a handoff, and the        *)
(* terminal one.                                                           *)
(*                                                                         *)
(* Message i is the i-th item the session adds.  A request is on the wire  *)
(* until the backend serves it, also after the agent has given it up.      *)
(***************************************************************************)
EXTENDS Integers, Sequences, FiniteSets

CONSTANTS
  MaxSpoken,  \* bound: items the session adds
  QueueSize,  \* QUEUE_MAXSIZE
  MaxTries,   \* attempts of one append
  MaxFaults   \* bound: timeouts, server errors, failed closes, lost reports

ASSUME SizesAssumption == {MaxSpoken, QueueSize, MaxTries} \subseteq Nat \ {0}
ASSUME FaultsAssumption == MaxFaults \in Nat

VARIABLES
  spoken,      \* items the session has added
  session,     \* the AgentSession is open
  listening,   \* conversation_item_added is handled
  accepting,   \* _accepting
  incomplete,  \* _incomplete
  queue,       \* _queue, the messages in it
  writer,      \* [step, message, try]: "idle", "sending", "ended"
  reply,       \* to the writer's request: "none", "stored", "refused"
  wire,        \* append requests: [message, try]
  drain,       \* the shared conversation task: "none", "joining", "done"
  verdict,     \* the status it returned
  report,      \* of each reporter, how far it is
  told,        \* the statuses reported to the backend
  store,       \* the backend's messages by sequence_number
  conversation,\* the backend's status of the conversation
  faults

agentVars == << spoken, session, listening, accepting, incomplete >>
writerVars == << queue, writer, reply, wire >>
drainVars == << drain, verdict, report, told >>
backendVars == << store, conversation >>
vars == << agentVars, writerVars, drainVars, backendVars, faults >>

Messages == 1 .. MaxSpoken
Reporters == {"relinquish", "terminal"}
Statuses == {"complete", "incomplete"}
NoMessage == 0

TypeOK ==
  /\ spoken \in 0 .. MaxSpoken
  /\ session \in BOOLEAN /\ listening \in BOOLEAN
  /\ accepting \in BOOLEAN /\ incomplete \in BOOLEAN
  /\ queue \in Seq(Messages) /\ Len(queue) <= QueueSize
  /\ writer \in [step : {"idle", "sending", "ended"},
                 message : Messages \union {NoMessage}, try : 0 .. MaxTries]
  /\ reply \in {"none", "stored", "refused"}
  /\ wire \subseteq [message : Messages, try : 1 .. MaxTries]
  /\ drain \in {"none", "joining", "done"} /\ verdict \in {"none"} \union Statuses
  /\ report \in [Reporters -> {"none", "closing", "closed", "draining", "done"}]
  /\ told \subseteq Statuses
  /\ store \in Seq(Messages) /\ conversation \in {"open"} \union Statuses
  /\ faults \in 0 .. MaxFaults

Idle == [step |-> "idle", message |-> NoMessage, try |-> 0]

Ended == [step |-> "ended", message |-> NoMessage, try |-> 0]

Init ==
  /\ spoken = 0 /\ session = TRUE /\ listening = TRUE /\ accepting = TRUE /\ incomplete = FALSE
  /\ queue = << >> /\ writer = Idle /\ reply = "none" /\ wire = {}
  /\ drain = "none" /\ verdict = "none"
  /\ report = [r \in Reporters |-> "none"] /\ told = {}
  /\ store = << >> /\ conversation = "open"
  /\ faults = 0

Fault == faults < MaxFaults /\ faults' = faults + 1

-----------------------------------------------------------------------------
(***************************************************************************)
(* ConversationPersistence.                                                *)
(***************************************************************************)

HasRoom == Len(queue) < QueueSize

\* _enqueue: a message that is not taken makes the transcript incomplete.
Enqueue(m) ==
  IF accepting /\ HasRoom
  THEN queue' = Append(queue, m) /\ UNCHANGED incomplete
  ELSE incomplete' = TRUE /\ UNCHANGED queue

Speak ==
  /\ session /\ spoken < MaxSpoken
  /\ spoken' = spoken + 1
  /\ IF listening THEN Enqueue(spoken') ELSE UNCHANGED << queue, incomplete >>
  /\ UNCHANGED << session, listening, accepting, writer, reply, wire, drainVars,
                  backendVars, faults >>

Sending(m, try) ==
  /\ writer' = [step |-> "sending", message |-> m, try |-> try]
  /\ reply' = "none"

TakeMessage ==
  /\ writer.step = "idle" /\ queue # << >>
  /\ queue' = Tail(queue)
  /\ Sending(Head(queue), 1)
  /\ wire' = wire \union {[message |-> Head(queue), try |-> 1]}
  /\ UNCHANGED << agentVars, drainVars, backendVars, faults >>

\* The append is answered; a refusal is not retried.
HandleReply ==
  /\ writer.step = "sending" /\ reply # "none"
  /\ writer' = Idle /\ reply' = "none"
  /\ incomplete' = (incomplete \/ reply = "refused")
  /\ UNCHANGED << spoken, session, listening, accepting, queue, wire, drainVars,
                  backendVars, faults >>

\* After the last attempt the message counts as lost.
GiveUp == incomplete' = TRUE

\* Two seconds without an answer, or a server error: the next attempt or none.
AppendFails ==
  /\ writer.step = "sending"
  /\ Fault
  /\ \E served \in {{}, {[message |-> writer.message, try |-> writer.try]}} :
       IF writer.try < MaxTries
       THEN /\ Sending(writer.message, writer.try + 1)
            /\ wire' = (wire \ served)
                         \union {[message |-> writer.message, try |-> writer.try + 1]}
            /\ UNCHANGED incomplete
       ELSE /\ writer' = Idle /\ reply' = "none" /\ wire' = wire \ served
            /\ GiveUp
  /\ UNCHANGED << spoken, session, listening, accepting, queue, drainVars, backendVars >>

-----------------------------------------------------------------------------
(***************************************************************************)
(* The end: the session is closed, the queue drained, the status reported. *)
(***************************************************************************)

\* A completed handoff starts relinquish_ai; the job's end waits for it.
StartReport(r) ==
  /\ report[r] = "none" /\ report["terminal"] = "none"
  /\ r = "terminal" => report["relinquish"] \in {"none", "done"}
  /\ report' = [report EXCEPT ![r] = "closing"]
  /\ UNCHANGED << agentVars, writerVars, drain, verdict, told, backendVars, faults >>

\* Mutant of MarksFailedClose: a close that failed is only logged.
LogsFailedClose == FALSE

\* mark_incomplete when the session could not be closed: it may still speak.
MarksFailedClose == TRUE

\* The session is closed and its items are no longer handled.
CloseSession(r) ==
  /\ report[r] = "closing"
  /\ report' = [report EXCEPT ![r] = "closed"]
  /\ listening' = FALSE
  /\ \/ session' = FALSE /\ UNCHANGED << incomplete, faults >>
     \/ Fault /\ UNCHANGED session /\ incomplete' = (incomplete \/ MarksFailedClose)
  /\ UNCHANGED << spoken, accepting, writerVars, drain, verdict, told, backendVars >>

\* finish_conversation: the first caller starts the drain, later ones share it.
StartsDrain == drain = "none"

FinishConversation(r) ==
  /\ report[r] = "closed"
  /\ report' = [report EXCEPT ![r] = "draining"]
  /\ IF StartsDrain THEN drain' = "joining" /\ accepting' = FALSE
                    ELSE UNCHANGED << drain, accepting >>
  /\ UNCHANGED << spoken, session, listening, incomplete, writerVars, verdict, told,
                  backendVars, faults >>

Drained == queue = << >> /\ writer.step # "sending"

Verdict == IF incomplete THEN "incomplete" ELSE "complete"

\* finish(): the queue is joined and the writer told to end.
Joined ==
  /\ drain = "joining" /\ Drained
  /\ drain' = "done" /\ verdict' = Verdict
  /\ writer' = Ended
  /\ UNCHANGED << agentVars, queue, reply, wire, report, told, backendVars, faults >>

\* Mutant of MayGiveUpDrain: the drain waits for the backend without a deadline.
NeverGivesUpDrain == FALSE

MayGiveUpDrain == drain = "joining" /\ ~Drained

\* Five seconds pass: the writer is cancelled and its request abandoned.
DrainTimesOut ==
  /\ MayGiveUpDrain
  /\ drain' = "done" /\ verdict' = "incomplete" /\ incomplete' = TRUE
  /\ writer' = Ended /\ reply' = "none"
  /\ UNCHANGED << spoken, session, listening, accepting, queue, wire, report, told,
                  backendVars, faults >>

\* The report closes the conversation, is refused, or is lost; it is not retried.
Report(r) ==
  /\ report[r] = "draining" /\ drain = "done"
  /\ report' = [report EXCEPT ![r] = "done"]
  /\ told' = told \union {verdict}
  /\ \/ /\ conversation' = IF conversation = "open" THEN verdict ELSE conversation
        /\ UNCHANGED faults
     \/ Fault /\ UNCHANGED conversation
  /\ UNCHANGED << agentVars, writerVars, drain, verdict, store >>

-----------------------------------------------------------------------------
(***************************************************************************)
(* The backend.                                                            *)
(***************************************************************************)

\* append finds a message that is already there by its id.
IsNew(m) == \A i \in DOMAIN store : store[i] # m

ServeAppend(q) ==
  /\ q \in wire
  /\ wire' = wire \ {q}
  /\ store' = IF conversation = "open" /\ IsNew(q.message) THEN Append(store, q.message)
              ELSE store
  /\ reply' = IF writer.step = "sending" /\ q = [message |-> writer.message, try |-> writer.try]
              THEN IF conversation = "open" THEN "stored" ELSE "refused"
              ELSE reply
  /\ UNCHANGED << agentVars, queue, writer, drainVars, conversation, faults >>

\* The backend ends the call on its own when the room is gone.
BackendCloses ==
  /\ conversation = "open"
  /\ conversation' = "incomplete"
  /\ UNCHANGED << agentVars, writerVars, drainVars, store, faults >>

Next ==
  \/ Speak \/ TakeMessage \/ HandleReply \/ AppendFails
  \/ \E r \in Reporters :
       StartReport(r) \/ CloseSession(r) \/ FinishConversation(r) \/ Report(r)
  \/ Joined \/ DrainTimesOut
  \/ \E q \in [message : Messages, try : 1 .. MaxTries] : ServeAppend(q)
  \/ BackendCloses

Spec == Init /\ [][Next]_vars

\* The tasks of the agent and its timers run; the backend may never answer.
FairSpec ==
  /\ Spec
  /\ WF_vars(\E r \in Reporters : CloseSession(r) \/ FinishConversation(r) \/ Report(r))
  /\ WF_vars(Joined \/ DrainTimesOut)

-----------------------------------------------------------------------------
(***************************************************************************)
(* Properties                                                              *)
(***************************************************************************)

\* A conversation that is closed as complete holds everything that was said, in the
\* order it was said: no timeout, retry, overflow or race left a gap.
CompleteIsWhole == conversation = "complete" => store = [i \in 1 .. spoken |-> i]

\* As long as no failure was noticed the stored messages are the first ones spoken,
\* each once: late copies of an append that was retried change nothing.
StoredInOrder == ~incomplete => store = [i \in 1 .. Len(store) |-> i]

\* Both reports carry the same status; the backend refuses a second that differs,
\* and the call would not end.
ReportsAgree == Cardinality(told) <= 1

\* Whatever the backend does, the job gets to its terminal report.
ReportIsMade == (report["terminal"] # "none") ~> (report["terminal"] = "done")

=============================================================================

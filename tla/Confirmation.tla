---------------------------- MODULE Confirmation -----------------------------
(***************************************************************************)
(* A business action that may need the caller's final confirmation: the    *)
(* voice agent's capability tool, its HTTP requests to the backend, and    *)
(* the backend's prepare, confirm and invoke over the confirmation and     *)
(* invocation rows.                                                        *)
(*                                                                         *)
(* The language model calls the tool when and with what it likes, several  *)
(* calls at once included, each under an id of its own.  A confirmation    *)
(* and an invocation carry the id of the tool call that made them.  The    *)
(* job itself is the subject of CapabilityJob: here it ends some way.      *)
(***************************************************************************)
EXTENDS Integers, FiniteSets

CONSTANTS
  ToolCalls,   \* ids of the tool calls the model makes in one call
  Inputs,      \* arguments the tool can be called with
  NoCall,      \* stands for no tool call
  NoInput,     \* stands for no arguments
  MaxFaults    \* bound: requests that time out, are repeated or roll back

ASSUME NothingAssumption == NoCall \notin ToolCalls /\ NoInput \notin Inputs
ASSUME FaultsAssumption == MaxFaults \in Nat

VARIABLES
  required,     \* the action's policy asks for a final confirmation
  connected,    \* the call is CONNECTED
  tool,         \* agent, by tool call: [phase, input, of]; of is what it polls
  remembered,   \* agent: pending_confirmation, [id, input]
  heard,        \* summaries the model has been given: [id, input]
  request,      \* by tool call: [kind, of, step, saw, answer], see Request
  confirmation, \* rows, by id: [status, input, lapsed, invocation, prepared]
  lock,         \* by confirmation: the request that holds its row FOR UPDATE
  invocation,   \* rows, by tool call: [status, input, from]
  faults

agentVars == << tool, remembered, heard >>
backendVars == << confirmation, lock, invocation >>
vars == << required, connected, agentVars, request, backendVars, faults >>

Calls == ToolCalls \union {NoCall}
Ended == {"asked", "ok", "failed", "pending"}     \* what the model is told
Nothing == [id |-> NoCall, input |-> NoInput]

RowStatus == {"none", "pending_confirmation", "consumed"}
InvocationStatus == {"none", "open", "succeeded", "failed"}
NoRow == [status |-> "none", input |-> NoInput, lapsed |-> FALSE,
          invocation |-> NoCall, prepared |-> 0]
Row == [status : RowStatus, input : Inputs \union {NoInput}, lapsed : BOOLEAN,
        invocation : Calls, prepared : 0 .. 1 + MaxFaults]

\* A request is sent, a confirm then holds its row with what it saw there, and
\* the answer, NoCall for a refusal, waits for the tool.
Request == [kind : {"none", "prepare", "confirm", "invoke"}, of : Calls,
            step : {"idle", "sent", "locked", "done"}, saw : Row,
            answer : Calls]
NoRequest == [kind |-> "none", of |-> NoCall, step |-> "idle", saw |-> NoRow,
              answer |-> NoCall]

TypeOK ==
  /\ required \in BOOLEAN /\ connected \in BOOLEAN
  /\ tool \in [ToolCalls -> [phase : {"none", "waiting", "polling"} \union Ended,
                             input : Inputs \union {NoInput}, of : Calls]]
  /\ remembered \in [id : Calls, input : Inputs \union {NoInput}]
  /\ heard \subseteq [id : ToolCalls, input : Inputs]
  /\ request \in [ToolCalls -> Request]
  /\ \A t \in ToolCalls : request[t].step # "idle" => request[t].of \in ToolCalls
  /\ confirmation \in [ToolCalls -> Row]
  /\ lock \in [ToolCalls -> Calls]
  /\ invocation \in [ToolCalls -> [status : InvocationStatus,
                                   input : Inputs \union {NoInput}, from : Calls]]
  /\ faults \in 0 .. MaxFaults

Init ==
  /\ required \in BOOLEAN
  /\ connected = TRUE
  /\ tool = [t \in ToolCalls |-> [phase |-> "none", input |-> NoInput, of |-> NoCall]]
  /\ remembered = Nothing
  /\ heard = {}
  /\ request = [t \in ToolCalls |-> NoRequest]
  /\ confirmation = [t \in ToolCalls |-> NoRow]
  /\ lock = [t \in ToolCalls |-> NoCall]
  /\ invocation = [t \in ToolCalls |->
                     [status |-> "none", input |-> NoInput, from |-> NoCall]]
  /\ faults = 0

Fault == faults < MaxFaults /\ faults' = faults + 1

-----------------------------------------------------------------------------
(***************************************************************************)
(* The voice agent's tool.                                                 *)
(***************************************************************************)

\* Mutant of IsConfirmed: the arguments are not compared.
IsConfirmedWhatever(x) == remembered # Nothing

\* The tool confirms when it is called with what it remembers as asked for.
IsConfirmed(x) == remembered # Nothing /\ remembered.input = x

RequestKind(x) ==
  IF ~required THEN "invoke" ELSE IF IsConfirmed(x) THEN "confirm" ELSE "prepare"

\* Mutant of CallTool: the tool remembers what it asks before the backend has answered.
CallToolRemembers(t, x) ==
  /\ tool[t].phase = "none"
  /\ connected
  /\ tool' = [tool EXCEPT ![t].phase = "waiting", ![t].input = x]
  /\ request' = [request EXCEPT ![t].step = "sent", ![t].kind = RequestKind(x),
                   ![t].of = IF RequestKind(x) = "confirm" THEN remembered.id ELSE t]
  /\ remembered' = IF RequestKind(x) = "prepare" THEN [id |-> t, input |-> x]
                   ELSE remembered
  /\ UNCHANGED << required, connected, heard, backendVars, faults >>

CallTool(t, x) ==
  /\ tool[t].phase = "none"
  /\ connected
  /\ tool' = [tool EXCEPT ![t].phase = "waiting", ![t].input = x]
  /\ request' = [request EXCEPT ![t].step = "sent", ![t].kind = RequestKind(x),
                   ![t].of = IF RequestKind(x) = "confirm" THEN remembered.id ELSE t]
  /\ UNCHANGED << required, connected, remembered, heard, backendVars, faults >>

\* A prepared confirmation is remembered and read back; a confirmed one is
\* forgotten, whichever is remembered by now; a refusal raises HTTPError.
Answered(t) ==
  LET refused == request[t].answer = NoCall
      kind == request[t].kind
      asked == [id |-> t, input |-> tool[t].input] IN
  /\ tool[t].phase = "waiting" /\ request[t].step = "done"
  /\ tool' = [tool EXCEPT
                ![t].phase = IF refused THEN "failed"
                             ELSE IF kind = "prepare" THEN "asked" ELSE "polling",
                ![t].of = request[t].answer]
  /\ remembered' = CASE refused -> remembered
                     [] ~refused /\ kind = "prepare" -> asked
                     [] ~refused /\ kind = "confirm" -> Nothing
                     [] ~refused /\ kind = "invoke" -> remembered
  /\ heard' = IF ~refused /\ kind = "prepare" THEN heard \union {asked} ELSE heard
  /\ UNCHANGED << required, connected, request, backendVars, faults >>

\* The client's timeout, or a connection that breaks: the request may be served
\* all the same, and nothing remembered changes.
TimesOut(t) ==
  /\ tool[t].phase = "waiting"
  /\ Fault
  /\ tool' = [tool EXCEPT ![t].phase = "failed"]
  /\ UNCHANGED << required, connected, remembered, heard, request, backendVars >>

PollEnds(t) ==
  /\ tool[t].phase = "polling"
  /\ invocation[tool[t].of].status \in {"succeeded", "failed"}
  /\ tool' = [tool EXCEPT ![t].phase =
                IF invocation[tool[t].of].status = "succeeded" THEN "ok" ELSE "failed"]
  /\ UNCHANGED << required, connected, remembered, heard, request, backendVars, faults >>

\* capability_poll_timeout_seconds pass, or a poll fails.
PollGivesUp(t) ==
  /\ tool[t].phase = "polling"
  /\ \/ tool' = [tool EXCEPT ![t].phase = "pending"] /\ UNCHANGED faults
     \/ tool' = [tool EXCEPT ![t].phase = "failed"] /\ Fault
  /\ UNCHANGED << required, connected, remembered, heard, request, backendVars >>

-----------------------------------------------------------------------------
(***************************************************************************)
(* The backend.                                                            *)
(***************************************************************************)

\* Mutant of MayLock: the row is read without FOR UPDATE.
MayLockAlways(c) == TRUE

MayLock(c) == lock[c] = NoCall

\* Mutant of Released: the lock outlives the transaction.
KeptLock(c) == lock

Released(c) == [lock EXCEPT ![c] = NoCall]

Reply(t, call) == [request EXCEPT ![t].step = "done", ![t].answer = call]

Refuse(t) ==
  request' = Reply(t, NoCall) /\ UNCHANGED << confirmation, invocation >>

\* A pending confirmation that has not lapsed is answered as it is; any other
\* row of the tool call, or none, becomes a fresh pending one.
IsReusable(row) == row.status = "pending_confirmation" /\ ~row.lapsed

Prepared(row, x) ==
  IF IsReusable(row) THEN row
  ELSE [status |-> "pending_confirmation", input |-> x, lapsed |-> FALSE,
        invocation |-> NoCall, prepared |-> row.prepared + 1]

Prepare(t) ==
  /\ request[t].kind = "prepare" /\ request[t].step = "sent"
  /\ IsReusable(confirmation[t]) \/ MayLock(t)
  /\ IF connected
     THEN /\ confirmation' = [confirmation EXCEPT ![t] = Prepared(@, tool[t].input)]
          /\ request' = Reply(t, t)
          /\ UNCHANGED invocation
     ELSE Refuse(t)
  /\ UNCHANGED << required, connected, agentVars, lock, faults >>

\* confirm() reads the row FOR UPDATE.
LockConfirmation(t) ==
  LET c == request[t].of IN
  /\ request[t].kind = "confirm" /\ request[t].step = "sent"
  /\ MayLock(c)
  /\ lock' = [lock EXCEPT ![c] = t]
  /\ request' = [request EXCEPT ![t].step = "locked", ![t].saw = confirmation[c]]
  /\ UNCHANGED << required, connected, agentVars, confirmation, invocation, faults >>

\* invoke(): a tool call that has an invocation is answered with it.
Execute(t, x, c) ==
  invocation' = [invocation EXCEPT ![t] =
                   IF @.status # "none" THEN @
                   ELSE [status |-> "open", input |-> x, from |-> c]]

IsReplay(saw) == saw.status = "consumed" /\ saw.invocation # NoCall

Confirm(t) ==
  LET c == request[t].of  saw == request[t].saw IN
  /\ request[t].step = "locked"
  /\ lock' = Released(c)
  /\ \/ /\ IsReplay(saw)
        /\ request' = Reply(t, saw.invocation)
        /\ UNCHANGED << confirmation, invocation >>
     \/ /\ ~IsReplay(saw)
        /\ ~IsReusable(saw) \/ ~connected
        /\ Refuse(t)
     \/ /\ IsReusable(saw) /\ connected
        /\ Execute(t, saw.input, c)
        /\ confirmation' = [confirmation EXCEPT ![c].status = "consumed",
                                                ![c].invocation = t]
        /\ request' = Reply(t, t)
  /\ UNCHANGED << required, connected, agentVars, faults >>

\* The transaction is lost: the row is as it was and the answer an error.
ConfirmRollsBack(t) ==
  /\ request[t].step = "locked"
  /\ Fault
  /\ lock' = Released(request[t].of)
  /\ Refuse(t)
  /\ UNCHANGED << required, connected, agentVars >>

\* The router's direct invocation, for an action without confirmation.
Invoke(t) ==
  /\ request[t].kind = "invoke" /\ request[t].step = "sent"
  /\ IF connected \/ invocation[t].status # "none"
     THEN /\ Execute(t, tool[t].input, NoCall)
          /\ request' = Reply(t, t)
          /\ UNCHANGED confirmation
     ELSE Refuse(t)
  /\ UNCHANGED << required, connected, agentVars, lock, faults >>

\* A request that has been served reaches the backend again under its own id;
\* the answer of the copy goes nowhere.
Repeat(t) ==
  /\ request[t].step = "done" /\ request[t].kind # "confirm"
  /\ Fault
  /\ connected
  /\ IF request[t].kind = "prepare"
     THEN /\ MayLock(t)
          /\ confirmation' = [confirmation EXCEPT ![t] = Prepared(@, tool[t].input)]
          /\ UNCHANGED invocation
     ELSE Execute(t, tool[t].input, NoCall) /\ UNCHANGED confirmation
  /\ UNCHANGED << required, connected, agentVars, request, lock >>

\* Ten minutes pass.
Lapse(c) ==
  /\ IsReusable(confirmation[c]) /\ MayLock(c)
  /\ confirmation' = [confirmation EXCEPT ![c].lapsed = TRUE]
  /\ UNCHANGED << required, connected, agentVars, request, lock, invocation, faults >>

JobEnds(t) ==
  /\ invocation[t].status = "open"
  /\ \E s \in {"succeeded", "failed"} :
       invocation' = [invocation EXCEPT ![t].status = s]
  /\ UNCHANGED << required, connected, agentVars, request, confirmation, lock, faults >>

HangUp ==
  /\ connected
  /\ connected' = FALSE
  /\ UNCHANGED << required, agentVars, request, backendVars, faults >>

-----------------------------------------------------------------------------
ServeRequest(t) == Prepare(t) \/ LockConfirmation(t) \/ Confirm(t) \/ Invoke(t)
ToolStep(t) == Answered(t) \/ PollEnds(t) \/ PollGivesUp(t)

Next ==
  \/ \E t \in ToolCalls :
       \/ \E x \in Inputs : CallTool(t, x)
       \/ ToolStep(t) \/ ServeRequest(t)
       \/ TimesOut(t) \/ ConfirmRollsBack(t) \/ Repeat(t) \/ Lapse(t) \/ JobEnds(t)
  \/ HangUp

Spec == Init /\ [][Next]_vars

\* The event loop runs some coroutine that can go on, and the backend serves some
\* request; a tool call takes finitely many steps, so that is enough.
FairSpec ==
  /\ Spec
  /\ WF_vars(\E t \in ToolCalls : ToolStep(t))
  /\ WF_vars(\E t \in ToolCalls : ServeRequest(t))

-----------------------------------------------------------------------------
(***************************************************************************)
(* Properties.                                                             *)
(***************************************************************************)

\* What is executed on a confirmation is what the model was told to read back
\* under that confirmation before, although requests time out, are served late
\* or twice and a confirmation is prepared again (service.py:104-131, 173-188).
ExecutedWasHeard ==
  \A t \in ToolCalls :
    invocation[t].from # NoCall =>
      [id |-> invocation[t].from, input |-> invocation[t].input] \in heard

\* One preparation leads to one execution: two tool calls that confirm at once,
\* or one that confirms again after an answer that was lost, share it
\* (service.py:157-169, get_confirmation for_update).
OnePerPreparation ==
  \A c \in ToolCalls :
    Cardinality({t \in ToolCalls : invocation[t].from = c}) <= confirmation[c].prepared

\* When the tool tells the model that the request is submitted, an execution of
\* the very arguments of that tool call has succeeded (main.py:446-486).
AnswerIsTrue ==
  \A t \in ToolCalls :
    tool[t].phase = "ok" =>
      /\ invocation[tool[t].of].status = "succeeded"
      /\ invocation[tool[t].of].input = tool[t].input

\* An action that needs a confirmation is executed on one, and a confirmation
\* that says it is consumed names its execution: both are of one transaction.
ConsumedTogether ==
  /\ required => \A t \in ToolCalls :
                   invocation[t].status # "none" => invocation[t].from # NoCall
  /\ \A c \in ToolCalls :
       confirmation[c].status = "consumed" =>
         /\ confirmation[c].invocation # NoCall
         /\ invocation[confirmation[c].invocation].from = c

\* Every tool call is answered: no request waits for the row of another for ever.
CallIsAnswered ==
  \A t \in ToolCalls : tool[t].phase = "waiting" ~> tool[t].phase \in Ended

==============================================================================

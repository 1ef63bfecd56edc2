-------------------------- MODULE CapabilityProofs ---------------------------
(***************************************************************************)
(* The safety properties of Confirmation, for any tool calls, arguments    *)
(* and number of faults; and those of CapabilityJob, for any jobs and      *)
(* workers, number of attempts, length of the stream and number of faults. *)
(***************************************************************************)
EXTENDS Confirmation, CapabilityJob, FiniteSetTheorems, SequenceTheorems, WellFoundedInduction,
        TLAPS

(***************************************************************************)
(* The inductive invariant.  That what is executed was read back before is *)
(* the end of a chain: what the tool remembers it has told the model, what *)
(* it confirms it remembered, the row it confirms holds the arguments of   *)
(* the tool call that prepared it, and the lock keeps the row as it was    *)
(* read until the execution is stored.                                     *)
(***************************************************************************)

\* Tool calls make their requests in order, each on rows of its own.
AskedInOrder ==
  \A t \in ToolCalls :
    /\ tool[t].phase = "none" <=> request[t].step = "idle"
    /\ tool[t].phase # "none" => tool[t].input \in Inputs
    /\ request[t].step # "idle" => request[t].kind # "none"
    /\ request[t].step # "done" => confirmation[t] = NoRow
    /\ request[t].step # "done" => invocation[t].status = "none"
    /\ invocation[t].status = "none" => invocation[t].from = NoCall
    /\ request[t].kind = "confirm" =>
         required /\ [id |-> request[t].of, input |-> tool[t].input] \in heard
    /\ request[t].kind = "invoke" => ~required
    /\ confirmation[t].prepared <= 1 + faults

RowsAreAsked ==
  \A c \in ToolCalls :
    confirmation[c].status # "none" => confirmation[c].input = tool[c].input

HeardIsAsked ==
  /\ \A h \in heard : tool[h.id].phase # "none" /\ tool[h.id].input = h.input
  /\ remembered # Nothing => remembered \in heard

LocksAreHeld ==
  /\ \A t \in ToolCalls :
       request[t].step = "locked" =>
         /\ request[t].kind = "confirm"
         /\ lock[request[t].of] = t
         /\ request[t].saw = confirmation[request[t].of]
  /\ \A c \in ToolCalls :
       lock[c] # NoCall => request[lock[c]].step = "locked" /\ request[lock[c]].of = c

\* An answer names an execution of the arguments of the tool call it answers.
AnswersAreTrue ==
  \A t \in ToolCalls :
    /\ request[t].step = "done" /\ request[t].kind # "prepare" /\ request[t].answer # NoCall =>
         /\ invocation[request[t].answer].status # "none"
         /\ invocation[request[t].answer].input = tool[t].input
    /\ tool[t].phase \in {"polling", "ok"} =>
         /\ tool[t].of # NoCall
         /\ invocation[tool[t].of].status # "none"
         /\ invocation[tool[t].of].input = tool[t].input

Executions(c) == {t \in ToolCalls : invocation[t].from = c}

\* A preparation that waits has not been executed yet.
PreparationsSuffice ==
  \A c \in ToolCalls :
    /\ IsFiniteSet(Executions(c))
    /\ Cardinality(Executions(c)) <= confirmation[c].prepared
    /\ confirmation[c].status = "pending_confirmation" =>
         Cardinality(Executions(c)) < confirmation[c].prepared

Inv ==
  /\ TypeOK
  /\ AskedInOrder
  /\ RowsAreAsked
  /\ HeardIsAsked
  /\ LocksAreHeld
  /\ AnswersAreTrue
  /\ ExecutedWasHeard
  /\ AnswerIsTrue
  /\ ConsumedTogether
  /\ PreparationsSuffice

-----------------------------------------------------------------------------
(***************************************************************************)
(* Types, by the function they are of.                                     *)
(***************************************************************************)

ToolRows == [phase : {"none", "waiting", "polling"} \union Ended,
             input : Inputs \union {NoInput}, of : Calls]
Invocations == [status : InvocationStatus, input : Inputs \union {NoInput}, from : Calls]

LEMMA Types ==
  ASSUME TypeOK
  PROVE  /\ tool \in [ToolCalls -> ToolRows]
         /\ request \in [ToolCalls -> Request]
         /\ confirmation \in [ToolCalls -> Row]
         /\ invocation \in [ToolCalls -> Invocations]
         /\ lock \in [ToolCalls -> Calls]
         /\ faults \in Nat /\ faults \in 0 .. MaxFaults
         /\ required \in BOOLEAN /\ connected \in BOOLEAN
         /\ remembered \in [id : Calls, input : Inputs \union {NoInput}]
         /\ heard \subseteq [id : ToolCalls, input : Inputs]
         /\ \A t \in ToolCalls : request[t].step # "idle" => request[t].of \in ToolCalls
         /\ NoCall \notin ToolCalls
         /\ Calls = ToolCalls \union {NoCall}
BY NothingAssumption, FaultsAssumption DEF TypeOK, ToolRows, Invocations, Calls

LEMMA PreparationsStay ==
  ASSUME PreparationsSuffice, UNCHANGED << invocation, confirmation >>
  PROVE  PreparationsSuffice'
BY DEF PreparationsSuffice, Executions

LEMMA TypesNext ==
  ASSUME TypeOK,
         required' \in BOOLEAN, connected' \in BOOLEAN,
         tool' \in [ToolCalls -> ToolRows],
         remembered' \in [id : Calls, input : Inputs \union {NoInput}],
         heard' \subseteq [id : ToolCalls, input : Inputs],
         request' \in [ToolCalls -> Request],
         \A t \in ToolCalls : request'[t].step # "idle" => request'[t].of \in ToolCalls,
         confirmation' \in [ToolCalls -> Row],
         lock' \in [ToolCalls -> Calls],
         invocation' \in [ToolCalls -> Invocations],
         faults' \in 0 .. MaxFaults
  PROVE  TypeOK'
BY Zenon DEF TypeOK, ToolRows, Invocations

-----------------------------------------------------------------------------
(***************************************************************************)
(* The tool's steps.                                                       *)
(***************************************************************************)

LEMMA CallToolNext ==
  ASSUME Inv, NEW t \in ToolCalls, NEW x \in Inputs, CallTool(t, x)
  PROVE  Inv'
<1>0. TypeOK /\ AskedInOrder /\ HeardIsAsked
  BY DEF Inv
<1>1. /\ tool \in [ToolCalls -> ToolRows] /\ request \in [ToolCalls -> Request]
      /\ confirmation \in [ToolCalls -> Row]
  BY <1>0, Types
<1>2. UNCHANGED << required, connected, remembered, heard, confirmation, lock, invocation, faults >>
  BY DEF CallTool, backendVars
<1> DEFINE k == RequestKind(x)
           o == IF k = "confirm" THEN remembered.id ELSE t
<1>3. tool' = [tool EXCEPT ![t].phase = "waiting", ![t].input = x]
  BY DEF CallTool
<1>4. request' = [request EXCEPT ![t].step = "sent", ![t].kind = k, ![t].of = o]
  BY DEF CallTool
<1>5. tool[t].phase = "none" /\ request[t].step = "idle"
  BY <1>0 DEF CallTool, AskedInOrder
<1>6. /\ k \in {"prepare", "confirm", "invoke"}
      /\ k = "confirm" => required /\ remembered \in heard /\ remembered.input = x
      /\ k = "invoke" => ~required
  BY <1>0 DEF RequestKind, IsConfirmed, HeardIsAsked
<1>7. remembered \in heard => remembered.id \in ToolCalls
                              /\ remembered = [id |-> remembered.id, input |-> remembered.input]
  BY <1>0 DEF TypeOK
<1>8. o \in ToolCalls
  BY <1>6, <1>7
<1>9. k = "confirm" => [id |-> o, input |-> x] \in heard
  BY <1>6, <1>7
<1> HIDE DEF k, o
<1>10. /\ tool' \in [ToolCalls -> ToolRows]
       /\ tool'[t].phase = "waiting" /\ tool'[t].input = x
       /\ \A u \in ToolCalls : u # t => tool'[u] = tool[u]
  BY <1>1, <1>3 DEF ToolRows
<1>11. /\ request' \in [ToolCalls -> Request]
       /\ request'[t].step = "sent" /\ request'[t].kind = k /\ request'[t].of = o
       /\ \A u \in ToolCalls : u # t => request'[u] = request[u]
  <2>1. o \in Calls /\ k \in {"none", "prepare", "confirm", "invoke"}
    BY <1>6, <1>8 DEF Calls
  <2>2. [request[t] EXCEPT !.step = "sent", !.kind = k, !.of = o] \in Request
    BY <1>1, <2>1 DEF Request
  <2>3. request' = [request EXCEPT ![t] = [request[t] EXCEPT !.step = "sent", !.kind = k, !.of = o]]
    BY <1>1, <1>4
  <2>4. request[t] \in Request
    BY <1>1
  <2> QED
    BY <1>1, <2>2, <2>3, <2>4 DEF Request
<1>12. TypeOK'
  <2>1. \A u \in ToolCalls : request'[u].step # "idle" => request'[u].of \in ToolCalls
    BY <1>0, <1>8, <1>11 DEF TypeOK
  <2> QED
    BY <1>0, <1>2, <1>10, <1>11, <2>1, Types, TypesNext
<1>13. AskedInOrder'
  <2> SUFFICES ASSUME NEW u \in ToolCalls
               PROVE  /\ tool'[u].phase = "none" <=> request'[u].step = "idle"
                      /\ tool'[u].phase # "none" => tool'[u].input \in Inputs
                      /\ request'[u].step # "idle" => request'[u].kind # "none"
                      /\ request'[u].step # "done" => confirmation[u] = NoRow
                      /\ request'[u].step # "done" => invocation[u].status = "none"
                      /\ invocation[u].status = "none" => invocation[u].from = NoCall
                      /\ request'[u].kind = "confirm" =>
                           required /\ [id |-> request'[u].of, input |-> tool'[u].input] \in heard
                      /\ request'[u].kind = "invoke" => ~required
                      /\ confirmation[u].prepared <= 1 + faults
    BY <1>2 DEF AskedInOrder
  <2>1. CASE u = t
    BY <1>0, <1>5, <1>6, <1>9, <1>10, <1>11, <2>1 DEF AskedInOrder
  <2>2. CASE u # t
    BY <1>0, <1>10, <1>11, <2>2 DEF AskedInOrder
  <2> QED
    BY <2>1, <2>2
<1>14. RowsAreAsked' /\ HeardIsAsked'
  <2>1. confirmation[t].status = "none"
    <3>1. confirmation[t] = NoRow
      BY <1>0, <1>5 DEF AskedInOrder
    <3> QED
      BY <3>1 DEF NoRow
  <2>2. \A h \in heard : h.id \in ToolCalls /\ h.id # t
    BY <1>0, <1>5 DEF TypeOK, HeardIsAsked
  <2>3. RowsAreAsked
    BY DEF Inv
  <2> QED
    BY <1>0, <1>2, <1>10, <2>1, <2>2, <2>3 DEF RowsAreAsked, HeardIsAsked
<1>15. LocksAreHeld'
  <2>1. LocksAreHeld /\ lock \in [ToolCalls -> Calls] /\ Calls = ToolCalls \union {NoCall}
    BY <1>0, Types DEF Inv
  <2> QED
    BY <1>2, <1>5, <1>11, <2>1 DEF LocksAreHeld
<1>16. AnswersAreTrue' /\ AnswerIsTrue'
  <2>1. AnswersAreTrue /\ AnswerIsTrue
    BY DEF Inv
  <2> QED
    BY <1>2, <1>10, <1>11, <2>1 DEF AnswersAreTrue, AnswerIsTrue
<1>17. ExecutedWasHeard' /\ ConsumedTogether'
  BY <1>2 DEF Inv, ExecutedWasHeard, ConsumedTogether
<1>18. PreparationsSuffice'
  BY <1>2, PreparationsStay DEF Inv
<1> QED
  BY <1>12, <1>13, <1>14, <1>15, <1>16, <1>17, <1>18 DEF Inv

\* A step of the tool that leaves its rows at the backend alone.
LEMMA ToolNext ==
  ASSUME Inv, NEW t \in ToolCalls,
         tool' \in [ToolCalls -> ToolRows],
         \A u \in ToolCalls : u # t => tool'[u] = tool[u],
         tool'[t].input = tool[t].input, tool[t].phase # "none", tool'[t].phase # "none",
         tool'[t].phase \in {"polling", "ok"} =>
           /\ tool'[t].of # NoCall
           /\ invocation[tool'[t].of].status # "none"
           /\ invocation[tool'[t].of].input = tool[t].input,
         tool'[t].phase = "ok" => invocation[tool'[t].of].status = "succeeded",
         heard \subseteq heard',
         \A h \in heard' : h \in heard \/ h = [id |-> t, input |-> tool[t].input],
         heard' \subseteq [id : ToolCalls, input : Inputs],
         remembered' = remembered \/ remembered' = Nothing
           \/ (remembered' \in heard' /\ remembered' = [id |-> t, input |-> tool[t].input]),
         faults' \in faults .. MaxFaults,
         UNCHANGED << required, connected, request, confirmation, lock, invocation >>
  PROVE  Inv'
<1>0. TypeOK /\ AskedInOrder /\ HeardIsAsked
  BY DEF Inv
<1>1. faults' \in 0 .. MaxFaults /\ faults <= faults' /\ faults \in Nat /\ faults' \in Nat
  BY <1>0, Types, FaultsAssumption
<1>2. \A u \in ToolCalls : tool'[u].input = tool[u].input
                           /\ (tool'[u].phase = "none" <=> tool[u].phase = "none")
  OBVIOUS
<1>3. TypeOK'
  <2>1. remembered' \in [id : Calls, input : Inputs \union {NoInput}]
    <3>1. CASE remembered' = Nothing
      BY <3>1 DEF Nothing, Calls
    <3>2. CASE remembered' = [id |-> t, input |-> tool[t].input]
      BY <1>0, <3>2, Types DEF Calls, ToolRows
    <3> QED
      BY <1>0, <3>1, <3>2, Types
  <2> QED
    BY <1>0, <1>1, <2>1, Types, TypesNext
<1>4. AskedInOrder'
  <2> SUFFICES ASSUME NEW u \in ToolCalls
               PROVE  /\ tool'[u].phase = "none" <=> request[u].step = "idle"
                      /\ tool'[u].phase # "none" => tool'[u].input \in Inputs
                      /\ request[u].step # "idle" => request[u].kind # "none"
                      /\ request[u].step # "done" => confirmation[u] = NoRow
                      /\ request[u].step # "done" => invocation[u].status = "none"
                      /\ invocation[u].status = "none" => invocation[u].from = NoCall
                      /\ request[u].kind = "confirm" =>
                           required /\ [id |-> request[u].of, input |-> tool'[u].input] \in heard'
                      /\ request[u].kind = "invoke" => ~required
                      /\ confirmation[u].prepared <= 1 + faults'
    BY DEF AskedInOrder
  <2>1. confirmation[u].prepared \in Int
    <3>1. confirmation[u] \in Row
      BY <1>0, Types
    <3> QED
      BY <3>1 DEF Row
  <2>2. confirmation[u].prepared <= 1 + faults'
    <3>1. confirmation[u].prepared <= 1 + faults
      BY <1>0 DEF AskedInOrder
    <3> QED
      BY <1>1, <2>1, <3>1
  <2> QED
    BY <1>0, <1>2, <2>2 DEF AskedInOrder
<1>5. RowsAreAsked'
  BY <1>2 DEF Inv, RowsAreAsked
<1>6. HeardIsAsked'
  <2>1. \A h \in heard' : tool'[h.id].phase # "none" /\ tool'[h.id].input = h.input
    <3> SUFFICES ASSUME NEW h \in heard'
                 PROVE  tool'[h.id].phase # "none" /\ tool'[h.id].input = h.input
      OBVIOUS
    <3>1. CASE h \in heard
      BY <1>0, <1>2, <3>1 DEF HeardIsAsked
    <3>2. CASE h = [id |-> t, input |-> tool[t].input]
      BY <3>2
    <3> QED
      BY <3>1, <3>2
  <2>2. remembered' # Nothing => remembered' \in heard'
    BY <1>0 DEF HeardIsAsked
  <2> QED
    BY <2>1, <2>2 DEF HeardIsAsked, Nothing
<1>7. LocksAreHeld'
  BY DEF Inv, LocksAreHeld
<1>8. AnswersAreTrue' /\ AnswerIsTrue'
  <2>1. AnswersAreTrue /\ AnswerIsTrue
    BY DEF Inv
  <2> QED
    BY <1>2, <2>1 DEF AnswersAreTrue, AnswerIsTrue
<1>9. ExecutedWasHeard' /\ ConsumedTogether'
  BY DEF Inv, ExecutedWasHeard, ConsumedTogether
<1>10. PreparationsSuffice'
  BY PreparationsStay DEF Inv
<1> QED
  BY <1>3, <1>4, <1>5, <1>6, <1>7, <1>8, <1>9, <1>10 DEF Inv

LEMMA AnsweredNext ==
  ASSUME Inv, NEW t \in ToolCalls, Answered(t)
  PROVE  Inv'
<1>0. /\ tool \in [ToolCalls -> ToolRows] /\ request[t] \in Request
      /\ faults \in 0 .. MaxFaults /\ faults \in Nat /\ heard \subseteq [id : ToolCalls, input : Inputs]
      /\ request[t].kind # "none"
  BY Types DEF Inv, Answered, AskedInOrder
<1> DEFINE refused == request[t].answer = NoCall
           kind == request[t].kind
           asked == [id |-> t, input |-> tool[t].input]
           p == IF refused THEN "failed" ELSE IF kind = "prepare" THEN "asked" ELSE "polling"
<1>1. /\ tool[t].phase = "waiting" /\ request[t].step = "done"
      /\ tool' = [tool EXCEPT ![t].phase = p, ![t].of = request[t].answer]
      /\ heard' = IF ~refused /\ kind = "prepare" THEN heard \union {asked} ELSE heard
      /\ UNCHANGED << required, connected, request, confirmation, lock, invocation, faults >>
  BY DEF Answered, backendVars
<1>2. remembered' = remembered \/ remembered' = Nothing
      \/ (~refused /\ kind = "prepare" /\ remembered' = asked)
  BY <1>0 DEF Answered, Request
<1>3. request[t].answer \in Calls
  BY <1>0 DEF Request
<1>4. p \in {"failed", "asked", "polling"} /\ (p = "polling" => ~refused /\ kind # "prepare")
  OBVIOUS
<1>5. asked.input \in Inputs /\ asked \in [id : ToolCalls, input : Inputs]
  BY <1>1 DEF Inv, AskedInOrder
<1> HIDE DEF p
<1>6. /\ tool' \in [ToolCalls -> ToolRows]
      /\ \A u \in ToolCalls : u # t => tool'[u] = tool[u]
      /\ tool'[t].input = tool[t].input /\ tool'[t].phase = p /\ tool'[t].of = request[t].answer
  <2>1. p \in {"none", "waiting", "polling"} \union Ended
    BY <1>4 DEF Ended
  <2> QED
    BY <1>0, <1>1, <1>3, <2>1 DEF ToolRows
<1>7. p = "polling" => /\ request[t].answer # NoCall
                       /\ invocation[request[t].answer].status # "none"
                       /\ invocation[request[t].answer].input = tool[t].input
  BY <1>1, <1>4 DEF Inv, AnswersAreTrue
<1>8. /\ heard \subseteq heard' /\ heard' \subseteq [id : ToolCalls, input : Inputs]
      /\ \A h \in heard' : h \in heard \/ h = [id |-> t, input |-> tool[t].input]
      /\ ~refused /\ kind = "prepare" => asked \in heard'
  BY <1>0, <1>1, <1>5
<1>9. faults' \in faults .. MaxFaults
  BY <1>0, <1>1
<1> QED
  BY <1>1, <1>2, <1>4, <1>6, <1>7, <1>8, <1>9, ToolNext

LEMMA ToolFaultNext ==
  ASSUME Inv, NEW t \in ToolCalls, TimesOut(t) \/ PollEnds(t) \/ PollGivesUp(t)
  PROVE  Inv'
<1>0. /\ tool \in [ToolCalls -> ToolRows] /\ faults \in 0 .. MaxFaults /\ faults \in Nat
      /\ heard \subseteq [id : ToolCalls, input : Inputs]
  BY Types DEF Inv
<1>1. PICK p \in {"ok", "failed", "pending"} :
        /\ tool' = [tool EXCEPT ![t].phase = p]
        /\ tool[t].phase \in {"waiting", "polling"}
        /\ p = "ok" => tool[t].phase = "polling" /\ invocation[tool[t].of].status = "succeeded"
  BY DEF TimesOut, PollEnds, PollGivesUp
<1>2. /\ faults' \in faults .. MaxFaults
      /\ UNCHANGED << required, connected, remembered, heard, request, confirmation, lock,
                      invocation >>
  BY <1>0, FaultsAssumption DEF TimesOut, PollEnds, PollGivesUp, Fault, backendVars
<1>3. /\ tool' \in [ToolCalls -> ToolRows]
      /\ \A u \in ToolCalls : u # t => tool'[u] = tool[u]
      /\ tool'[t].input = tool[t].input /\ tool'[t].phase = p /\ tool'[t].of = tool[t].of
  BY <1>0, <1>1 DEF ToolRows, Ended
<1>4. p = "ok" => /\ tool[t].of # NoCall
                  /\ invocation[tool[t].of].status # "none"
                  /\ invocation[tool[t].of].input = tool[t].input
  BY <1>1 DEF Inv, AnswersAreTrue
<1> QED
  BY <1>0, <1>1, <1>2, <1>3, <1>4, ToolNext

-----------------------------------------------------------------------------
(***************************************************************************)
(* The backend's steps.                                                    *)
(***************************************************************************)

\* The answer of a request that has been served.
LEMMA ReplyRow ==
  ASSUME TypeOK, NEW t \in ToolCalls, NEW call \in Calls, request' = Reply(t, call),
         request[t].step # "idle"
  PROVE  /\ request' \in [ToolCalls -> Request]
         /\ \A u \in ToolCalls : request'[u].step # "idle" => request'[u].of \in ToolCalls
         /\ request'[t].step = "done" /\ request'[t].answer = call
         /\ request'[t].kind = request[t].kind /\ request'[t].of = request[t].of
         /\ \A u \in ToolCalls : u # t => request'[u] = request[u]
<1>1. request \in [ToolCalls -> Request] /\ request[t] \in Request
      /\ \A u \in ToolCalls : request[u].step # "idle" => request[u].of \in ToolCalls
  BY Types
<1>2. request' = [request EXCEPT ![t] = [request[t] EXCEPT !.step = "done", !.answer = call]]
  BY <1>1 DEF Reply
<1>3. [request[t] EXCEPT !.step = "done", !.answer = call] \in Request
  BY <1>1 DEF Request
<1> QED
  BY <1>1, <1>2, <1>3 DEF Request

\* A request is answered, and the row that it held, if any, is released.  What it
\* did to the rows keeps the parts of the invariant that are about them.
LEMMA ServedNext ==
  ASSUME Inv, NEW t \in ToolCalls, NEW call \in Calls,
         request' = Reply(t, call), request[t].step \in {"sent", "locked"},
         request[t].step = "sent" => UNCHANGED lock,
         request[t].step = "locked" => lock' = Released(request[t].of),
         faults' \in faults .. MaxFaults,
         UNCHANGED << required, connected, tool, remembered, heard >>,
         confirmation' \in [ToolCalls -> Row],
         invocation' \in [ToolCalls -> Invocations],
         \A u \in ToolCalls : invocation[u].status # "none" => invocation'[u] = invocation[u],
         \A u \in ToolCalls : u # t => invocation'[u] = invocation[u],
         \A c \in ToolCalls : confirmation'[c] # confirmation[c] =>
           \/ c = t /\ lock[c] = NoCall
           \/ request[t].step = "locked" /\ c = request[t].of /\ confirmation[c] # NoRow,
         \A c \in ToolCalls : confirmation'[c].status # "none" =>
           confirmation'[c].input = tool[c].input,
         \A c \in ToolCalls : confirmation'[c].prepared <= 1 + faults',
         invocation'[t].status = "none" => invocation'[t].from = NoCall,
         request[t].kind # "prepare" /\ call # NoCall =>
           invocation'[call].status # "none" /\ invocation'[call].input = tool[t].input,
         ExecutedWasHeard', ConsumedTogether', PreparationsSuffice'
  PROVE  Inv'
<1>0. TypeOK /\ AskedInOrder /\ HeardIsAsked /\ LocksAreHeld
  BY DEF Inv
<1>1. /\ lock \in [ToolCalls -> Calls] /\ NoCall \in Calls /\ NoCall \notin ToolCalls
      /\ Calls = ToolCalls \union {NoCall} /\ faults \in Nat
      /\ request[t].of \in ToolCalls
  BY <1>0, Types
<1>2. /\ request' \in [ToolCalls -> Request]
      /\ \A u \in ToolCalls : request'[u].step # "idle" => request'[u].of \in ToolCalls
      /\ request'[t].step = "done" /\ request'[t].answer = call
      /\ request'[t].kind = request[t].kind /\ request'[t].of = request[t].of
      /\ \A u \in ToolCalls : u # t => request'[u] = request[u]
  BY <1>0, ReplyRow
<1>3. /\ lock' \in [ToolCalls -> Calls]
      /\ \A c \in ToolCalls : lock'[c] = lock[c] \/ (request[t].step = "locked" /\ c = request[t].of /\ lock'[c] = NoCall)
      /\ (request[t].step = "locked" => lock'[request[t].of] = NoCall)
  <2>1. CASE request[t].step = "sent"
    BY <1>1, <2>1
  <2>2. CASE request[t].step = "locked"
    BY <1>1, <2>2 DEF Released
  <2> QED
    BY <2>1, <2>2
<1>4. TypeOK'
  <2>1. faults' \in 0 .. MaxFaults
    BY <1>0, <1>1, FaultsAssumption
  <2> QED
    BY <1>0, <1>2, <1>3, <2>1, Types, TypesNext
<1>5. AskedInOrder'
  <2> SUFFICES ASSUME NEW u \in ToolCalls
               PROVE  /\ tool[u].phase = "none" <=> request'[u].step = "idle"
                      /\ tool[u].phase # "none" => tool[u].input \in Inputs
                      /\ request'[u].step # "idle" => request'[u].kind # "none"
                      /\ request'[u].step # "done" => confirmation'[u] = NoRow
                      /\ request'[u].step # "done" => invocation'[u].status = "none"
                      /\ invocation'[u].status = "none" => invocation'[u].from = NoCall
                      /\ request'[u].kind = "confirm" =>
                           required /\ [id |-> request'[u].of, input |-> tool[u].input] \in heard
                      /\ request'[u].kind = "invoke" => ~required
                      /\ confirmation'[u].prepared <= 1 + faults'
    BY DEF AskedInOrder
  <2>1. CASE u = t
    BY <1>0, <1>2, <2>1 DEF AskedInOrder
  <2>2. CASE u # t
    <3>1. request[u].step # "done" => confirmation'[u] = confirmation[u]
      BY <1>0, <2>2 DEF AskedInOrder
    <3> QED
      BY <1>0, <1>2, <2>2, <3>1 DEF AskedInOrder
  <2> QED
    BY <2>1, <2>2
<1>6. RowsAreAsked' /\ HeardIsAsked'
  BY <1>0 DEF RowsAreAsked, HeardIsAsked
<1>7. LocksAreHeld'
  <2>1. ASSUME NEW u \in ToolCalls, request'[u].step = "locked"
        PROVE  /\ request'[u].kind = "confirm"
               /\ lock'[request'[u].of] = u
               /\ request'[u].saw = confirmation'[request'[u].of]
    <3>1. u # t /\ request'[u] = request[u]
      BY <1>2, <2>1
    <3>2. /\ request[u].kind = "confirm" /\ lock[request[u].of] = u
          /\ request[u].saw = confirmation[request[u].of] /\ request[u].of \in ToolCalls
      BY <1>0, <2>1, <3>1, Types DEF LocksAreHeld
    <3>3. request[t].step = "locked" => request[u].of # request[t].of
      BY <1>0, <3>1, <3>2 DEF LocksAreHeld
    <3>4. confirmation'[request[u].of] = confirmation[request[u].of]
      BY <1>1, <3>2, <3>3
    <3>5. lock'[request[u].of] = u
      BY <1>3, <3>2, <3>3
    <3> QED
      BY <3>1, <3>2, <3>4, <3>5
  <2>2. ASSUME NEW c \in ToolCalls, lock'[c] # NoCall
        PROVE  request'[lock'[c]].step = "locked" /\ request'[lock'[c]].of = c
    <3>1. lock'[c] = lock[c] /\ lock[c] \in ToolCalls
      BY <1>1, <1>3, <2>2
    <3>2. request[lock[c]].step = "locked" /\ request[lock[c]].of = c
      BY <1>0, <2>2, <3>1 DEF LocksAreHeld
    <3>3. lock[c] # t
      BY <1>3, <2>2, <3>1, <3>2
    <3> QED
      BY <1>2, <3>1, <3>2, <3>3
  <2> QED
    BY <2>1, <2>2 DEF LocksAreHeld
<1>8. AnswersAreTrue' /\ AnswerIsTrue'
  <2>1. AnswersAreTrue /\ AnswerIsTrue
    BY DEF Inv
  <2>2. \A u \in ToolCalls : request'[u] \in Request /\ tool[u] \in ToolRows
    BY <1>0, <1>2, Types
  <2>3. \A u \in ToolCalls : request'[u].answer \in Calls /\ tool[u].of \in Calls
    BY <2>2 DEF Request, ToolRows
  <2>4. \A u \in Calls : u # NoCall /\ invocation[u].status # "none" =>
                           invocation'[u] = invocation[u]
    BY <1>1
  <2>5. ASSUME NEW u \in ToolCalls, request'[u].step = "done", request'[u].kind # "prepare",
               request'[u].answer # NoCall
        PROVE  /\ invocation'[request'[u].answer].status # "none"
               /\ invocation'[request'[u].answer].input = tool[u].input
    <3>1. CASE u = t
      BY <1>2, <2>5, <3>1
    <3>2. CASE u # t
      BY <1>2, <2>1, <2>3, <2>4, <2>5, <3>2 DEF AnswersAreTrue
    <3> QED
      BY <3>1, <3>2
  <2>6. ASSUME NEW u \in ToolCalls, tool[u].phase \in {"polling", "ok"}
        PROVE  /\ tool[u].of # NoCall
               /\ invocation'[tool[u].of] = invocation[tool[u].of]
               /\ invocation[tool[u].of].status # "none"
               /\ invocation[tool[u].of].input = tool[u].input
    BY <2>1, <2>3, <2>4, <2>6 DEF AnswersAreTrue
  <2> QED
    BY <2>1, <2>5, <2>6 DEF AnswersAreTrue, AnswerIsTrue
<1> QED
  BY <1>4, <1>5, <1>6, <1>7, <1>8 DEF Inv

\* The rows of a request that has been served change by themselves.
LEMMA RowsNext ==
  ASSUME Inv, NEW t \in ToolCalls, request[t].step = "done",
         UNCHANGED << required, tool, remembered, heard, request, lock >>,
         connected' \in BOOLEAN,
         faults' \in faults .. MaxFaults,
         confirmation' \in [ToolCalls -> Row],
         invocation' \in [ToolCalls -> Invocations],
         \A u \in ToolCalls : u # t =>
           invocation'[u] = invocation[u] /\ confirmation'[u] = confirmation[u],
         confirmation'[t] # confirmation[t] => lock[t] = NoCall,
         invocation[t].status # "none" =>
           /\ invocation'[t].status # "none"
           /\ invocation'[t].input = invocation[t].input
           /\ invocation[t].status = "succeeded" => invocation'[t].status = "succeeded",
         confirmation'[t].status # "none" => confirmation'[t].input = tool[t].input,
         confirmation'[t].prepared <= 1 + faults',
         invocation'[t].status = "none" => invocation'[t].from = NoCall,
         ExecutedWasHeard', ConsumedTogether', PreparationsSuffice'
  PROVE  Inv'
<1>0. TypeOK /\ AskedInOrder /\ HeardIsAsked /\ LocksAreHeld
  BY DEF Inv
<1>1. /\ NoCall \notin ToolCalls /\ Calls = ToolCalls \union {NoCall} /\ faults \in Nat
      /\ faults' \in Nat /\ faults <= faults' /\ faults' \in 0 .. MaxFaults
  BY <1>0, Types, FaultsAssumption
<1>2. TypeOK'
  BY <1>0, <1>1, Types, TypesNext
<1>3. AskedInOrder'
  <2> SUFFICES ASSUME NEW u \in ToolCalls
               PROVE  /\ tool[u].phase = "none" <=> request[u].step = "idle"
                      /\ tool[u].phase # "none" => tool[u].input \in Inputs
                      /\ request[u].step # "idle" => request[u].kind # "none"
                      /\ request[u].step # "done" => confirmation'[u] = NoRow
                      /\ request[u].step # "done" => invocation'[u].status = "none"
                      /\ invocation'[u].status = "none" => invocation'[u].from = NoCall
                      /\ request[u].kind = "confirm" =>
                           required /\ [id |-> request[u].of, input |-> tool[u].input] \in heard
                      /\ request[u].kind = "invoke" => ~required
                      /\ confirmation'[u].prepared <= 1 + faults'
    BY DEF AskedInOrder
  <2>1. CASE u = t
    BY <1>0, <2>1 DEF AskedInOrder
  <2>2. CASE u # t
    <3>1. invocation'[u] = invocation[u] /\ confirmation'[u] = confirmation[u]
      BY <2>2
    <3>2. confirmation[u].prepared \in Int
      <4>1. confirmation[u] \in Row
        BY <1>0, Types
      <4> QED
        BY <4>1 DEF Row
    <3>3. confirmation[u].prepared <= 1 + faults
      BY <1>0 DEF AskedInOrder
    <3>4. confirmation[u].prepared <= 1 + faults'
      BY <1>1, <3>2, <3>3
    <3> QED
      BY <1>0, <3>1, <3>4 DEF AskedInOrder
  <2> QED
    BY <2>1, <2>2
<1>4. RowsAreAsked' /\ HeardIsAsked'
  <2>1. RowsAreAsked
    BY DEF Inv
  <2> QED
    BY <1>0, <2>1 DEF RowsAreAsked, HeardIsAsked
<1>5. LocksAreHeld'
  <2>1. ASSUME NEW u \in ToolCalls, request[u].step = "locked"
        PROVE  confirmation'[request[u].of] = confirmation[request[u].of]
    <3>1. lock[request[u].of] = u /\ request[u].of \in ToolCalls
      BY <1>0, <2>1, Types DEF LocksAreHeld
    <3> QED
      BY <1>1, <3>1
  <2> QED
    BY <1>0, <2>1 DEF LocksAreHeld
<1>6. AnswersAreTrue' /\ AnswerIsTrue'
  <2>1. AnswersAreTrue /\ AnswerIsTrue
    BY DEF Inv
  <2>2. \A u \in ToolCalls : request[u] \in Request /\ tool[u] \in ToolRows
    BY <1>0, Types
  <2>3. \A u \in ToolCalls : request[u].answer \in Calls /\ tool[u].of \in Calls
    BY <2>2 DEF Request, ToolRows
  <2>4. \A u \in Calls : u # NoCall /\ invocation[u].status # "none" =>
          /\ invocation'[u].status # "none"
          /\ invocation'[u].input = invocation[u].input
          /\ invocation[u].status = "succeeded" => invocation'[u].status = "succeeded"
    BY <1>1
  <2> QED
    BY <2>1, <2>3, <2>4 DEF AnswersAreTrue, AnswerIsTrue
<1> QED
  BY <1>2, <1>3, <1>4, <1>5, <1>6 DEF Inv

\* What prepare() leaves of a row.
LEMMA PreparedRow ==
  ASSUME NEW r \in Row, NEW x \in Inputs, NEW f \in 0 .. MaxFaults, r.prepared <= f
  PROVE  /\ Prepared(r, x) \in Row
         /\ IsReusable(r) => Prepared(r, x) = r
         /\ ~IsReusable(r) => /\ Prepared(r, x).status = "pending_confirmation"
                              /\ Prepared(r, x).input = x
                              /\ Prepared(r, x).prepared = r.prepared + 1
         /\ Prepared(r, x).prepared <= 1 + f
<1>1. r.prepared \in Nat
  BY DEF Row
<1>2. r.prepared + 1 \in 0 .. 1 + MaxFaults
  BY <1>1, FaultsAssumption
<1>3. CASE IsReusable(r)
  BY <1>1, <1>3 DEF Prepared
<1>4. CASE ~IsReusable(r)
  BY <1>1, <1>2, <1>4 DEF Prepared, Row, RowStatus, Calls
<1> QED
  BY <1>3, <1>4

\* A row that is prepared keeps the relations between rows.
LEMMA PrepareKeeps ==
  ASSUME Inv, NEW t \in ToolCalls,
         confirmation' = [confirmation EXCEPT ![t] = Prepared(@, tool[t].input)],
         tool[t].phase # "none", NEW f \in 0 .. MaxFaults, confirmation[t].prepared <= f,
         f <= faults', faults' \in Nat,
         UNCHANGED << required, heard, invocation, tool >>
  PROVE  /\ confirmation' \in [ToolCalls -> Row]
         /\ \A u \in ToolCalls : u # t => confirmation'[u] = confirmation[u]
         /\ IsReusable(confirmation[t]) => confirmation'[t] = confirmation[t]
         /\ confirmation'[t].status # "none" => confirmation'[t].input = tool[t].input
         /\ confirmation'[t].prepared <= 1 + faults'
         /\ ExecutedWasHeard' /\ ConsumedTogether' /\ PreparationsSuffice'
<1> DEFINE r == confirmation[t]
           x == tool[t].input
           q == Prepared(r, x)
<1>1. confirmation \in [ToolCalls -> Row] /\ r \in Row /\ x \in Inputs
  BY Types DEF Inv, AskedInOrder
<1>2. /\ q \in Row
      /\ IsReusable(r) => q = r
      /\ ~IsReusable(r) => /\ q.status = "pending_confirmation"
                           /\ q.input = x /\ q.prepared = r.prepared + 1
      /\ q.prepared <= 1 + f
  BY <1>1, PreparedRow
<1>3. r.prepared \in Nat /\ q.prepared \in Nat
  BY <1>1, <1>2 DEF Row
<1>4. r.status # "none" => r.input = x
  BY DEF Inv, RowsAreAsked
<1> HIDE DEF q
<1>5. confirmation' = [confirmation EXCEPT ![t] = q]
  BY <1>1 DEF q
<1>6. /\ confirmation' \in [ToolCalls -> Row] /\ confirmation'[t] = q
      /\ \A u \in ToolCalls : u # t => confirmation'[u] = confirmation[u]
  BY <1>1, <1>2, <1>5
<1>7. ExecutedWasHeard'
  BY DEF Inv, ExecutedWasHeard
<1>8. ConsumedTogether'
  <2>1. q.status = "consumed" => q = r
    BY <1>2
  <2> QED
    BY <1>6, <2>1 DEF Inv, ConsumedTogether
<1>9. PreparationsSuffice'
  <2> SUFFICES ASSUME NEW c \in ToolCalls
               PROVE  /\ IsFiniteSet(Executions(c))
                      /\ Cardinality(Executions(c)) <= confirmation'[c].prepared
                      /\ confirmation'[c].status = "pending_confirmation" =>
                           Cardinality(Executions(c)) < confirmation'[c].prepared
    BY DEF PreparationsSuffice, Executions
  <2>1. /\ IsFiniteSet(Executions(c))
        /\ Cardinality(Executions(c)) <= confirmation[c].prepared
        /\ confirmation[c].status = "pending_confirmation" =>
             Cardinality(Executions(c)) < confirmation[c].prepared
    BY DEF Inv, PreparationsSuffice
  <2>2. Cardinality(Executions(c)) \in Nat
    BY <2>1, FS_CardinalityType
  <2>3. CASE c # t \/ q = r
    BY <1>6, <2>1, <2>3
  <2>4. CASE c = t /\ ~IsReusable(r)
    <3>1. confirmation'[c].prepared = r.prepared + 1
      BY <1>2, <1>6, <2>4
    <3> QED
      BY <1>3, <2>1, <2>2, <2>4, <3>1
  <2> QED
    BY <1>2, <2>3, <2>4
<1>10. q.prepared <= 1 + faults'
  BY <1>2, <1>3
<1>11. q.status # "none" => q.input = x
  BY <1>2, <1>4
<1> QED
  BY <1>2, <1>6, <1>7, <1>8, <1>9, <1>10, <1>11

LEMMA RefusedNext ==
  ASSUME Inv, NEW t \in ToolCalls, Refuse(t), request[t].step \in {"sent", "locked"},
         request[t].step = "sent" => UNCHANGED lock,
         request[t].step = "locked" => lock' = Released(request[t].of),
         faults' \in faults .. MaxFaults,
         UNCHANGED << required, connected, tool, remembered, heard >>
  PROVE  Inv'
<1>0. TypeOK /\ AskedInOrder
  BY DEF Inv
<1>1. request' = Reply(t, NoCall) /\ UNCHANGED << confirmation, invocation >>
  BY DEF Refuse
<1>2. /\ confirmation \in [ToolCalls -> Row] /\ invocation \in [ToolCalls -> Invocations]
      /\ faults \in Nat /\ NoCall \in Calls /\ faults' \in Nat /\ faults <= faults'
  BY <1>0, Types, FaultsAssumption
<1>3. \A c \in ToolCalls : confirmation[c].status # "none" =>
                             confirmation[c].input = tool[c].input
  BY DEF Inv, RowsAreAsked
<1>4. \A c \in ToolCalls : confirmation[c].prepared <= 1 + faults'
  <2> SUFFICES ASSUME NEW c \in ToolCalls PROVE confirmation[c].prepared <= 1 + faults'
    OBVIOUS
  <2>1. confirmation[c].prepared \in Int
    <3>1. confirmation[c] \in Row
      BY <1>2
    <3> QED
      BY <3>1 DEF Row
  <2>2. confirmation[c].prepared <= 1 + faults
    BY <1>0 DEF AskedInOrder
  <2> QED
    BY <1>2, <2>1, <2>2
<1>5. invocation[t].status = "none" => invocation[t].from = NoCall
  BY <1>0 DEF AskedInOrder
<1>6. ExecutedWasHeard' /\ ConsumedTogether' /\ PreparationsSuffice'
  BY <1>1, PreparationsStay DEF Inv, ExecutedWasHeard, ConsumedTogether
<1> QED
  BY <1>1, <1>2, <1>3, <1>4, <1>5, <1>6, ServedNext

LEMMA PrepareNext ==
  ASSUME Inv, NEW t \in ToolCalls, Prepare(t)
  PROVE  Inv'
<1>0. TypeOK /\ AskedInOrder
  BY DEF Inv
<1>1. /\ request[t].kind = "prepare" /\ request[t].step = "sent"
      /\ UNCHANGED << required, connected, tool, remembered, heard, lock, faults >>
  BY DEF Prepare, agentVars
<1>2. /\ confirmation \in [ToolCalls -> Row] /\ invocation \in [ToolCalls -> Invocations]
      /\ faults \in 0 .. MaxFaults /\ faults \in Nat /\ t \in Calls /\ NoCall \in Calls
  BY <1>0, Types
<1>3. confirmation[t] = NoRow /\ invocation[t].status = "none" /\ tool[t].phase # "none"
  BY <1>0, <1>1 DEF AskedInOrder
<1>4. ~IsReusable(confirmation[t]) /\ confirmation[t].prepared = 0
  BY <1>3 DEF IsReusable, NoRow
<1>5. lock[t] = NoCall
  BY <1>4 DEF Prepare, MayLock
<1>6. CASE connected
  <2>1. /\ confirmation' = [confirmation EXCEPT ![t] = Prepared(@, tool[t].input)]
        /\ request' = Reply(t, t)
        /\ UNCHANGED invocation
    BY <1>6 DEF Prepare
  <2>2. confirmation[t].prepared <= faults /\ faults <= faults' /\ faults' \in Nat
    BY <1>1, <1>2, <1>4
  <2>3. /\ confirmation' \in [ToolCalls -> Row]
        /\ \A u \in ToolCalls : u # t => confirmation'[u] = confirmation[u]
        /\ confirmation'[t].status # "none" => confirmation'[t].input = tool[t].input
        /\ confirmation'[t].prepared <= 1 + faults'
        /\ ExecutedWasHeard' /\ ConsumedTogether' /\ PreparationsSuffice'
    <3>1. UNCHANGED << required, heard, invocation, tool >>
      BY <1>1, <2>1
    <3> QED
      BY <1>2, <1>3, <2>1, <2>2, <3>1, PrepareKeeps
  <2>4. \A c \in ToolCalls : confirmation'[c].status # "none" =>
                               confirmation'[c].input = tool[c].input
    BY <2>3 DEF Inv, RowsAreAsked
  <2>5. \A c \in ToolCalls : confirmation'[c].prepared <= 1 + faults'
    BY <1>0, <1>1, <2>3 DEF AskedInOrder
  <2>6. invocation'[t].status = "none" => invocation'[t].from = NoCall
    BY <1>0, <2>1 DEF AskedInOrder
  <2> QED
    BY <1>1, <1>2, <1>5, <2>1, <2>3, <2>4, <2>5, <2>6, ServedNext
<1>7. CASE ~connected
  BY <1>1, <1>2, <1>7, RefusedNext DEF Prepare
<1> QED
  BY <1>6, <1>7

LEMMA LockNext ==
  ASSUME Inv, NEW t \in ToolCalls, LockConfirmation(t)
  PROVE  Inv'
<1>0. TypeOK /\ AskedInOrder /\ LocksAreHeld
  BY DEF Inv
<1> DEFINE c == request[t].of
<1>1. /\ request[t].kind = "confirm" /\ request[t].step = "sent" /\ lock[c] = NoCall
      /\ lock' = [lock EXCEPT ![c] = t]
      /\ request' = [request EXCEPT ![t].step = "locked", ![t].saw = confirmation[c]]
  BY DEF LockConfirmation, MayLock, agentVars
<1>same. UNCHANGED << required, connected, tool, remembered, heard, confirmation, invocation,
                   faults >>
  BY DEF LockConfirmation, agentVars
<1>2. /\ confirmation \in [ToolCalls -> Row] /\ request \in [ToolCalls -> Request]
      /\ lock \in [ToolCalls -> Calls] /\ t \in Calls /\ NoCall \notin ToolCalls
      /\ Calls = ToolCalls \union {NoCall} /\ c \in ToolCalls
  BY <1>0, <1>1, Types
<1>3. /\ request' \in [ToolCalls -> Request]
      /\ request'[t].step = "locked" /\ request'[t].kind = "confirm" /\ request'[t].of = c
      /\ request'[t].saw = confirmation[c]
      /\ \A u \in ToolCalls : u # t => request'[u] = request[u]
  <2> DEFINE w == [request[t] EXCEPT !.step = "locked", !.saw = confirmation[c]]
  <2>1. w \in Request /\ w.step = "locked" /\ w.kind = "confirm" /\ w.of = c
        /\ w.saw = confirmation[c]
    <3>1. confirmation[c] \in Row /\ request[t] \in Request
      BY <1>2
    <3> HIDE DEF c
    <3> QED
      BY <1>1, <3>1 DEF Request, c
  <2>2. request' = [request EXCEPT ![t] = w]
    BY <1>1, <1>2
  <2> HIDE DEF w
  <2> QED
    BY <1>2, <2>1, <2>2
<1> HIDE DEF c
<1>4. /\ lock' \in [ToolCalls -> Calls] /\ lock'[c] = t
      /\ \A u \in ToolCalls : u # c => lock'[u] = lock[u]
  BY <1>1, <1>2
<1>5. TypeOK'
  <2>1. \A u \in ToolCalls : request'[u].step # "idle" => request'[u].of \in ToolCalls
    BY <1>0, <1>2, <1>3, Types
  <2> QED
    BY <1>0, <1>same, <1>3, <1>4, <2>1, Types, TypesNext
<1>6. AskedInOrder'
  <2> SUFFICES ASSUME NEW u \in ToolCalls
               PROVE  /\ tool[u].phase = "none" <=> request'[u].step = "idle"
                      /\ tool[u].phase # "none" => tool[u].input \in Inputs
                      /\ request'[u].step # "idle" => request'[u].kind # "none"
                      /\ request'[u].step # "done" => confirmation[u] = NoRow
                      /\ request'[u].step # "done" => invocation[u].status = "none"
                      /\ invocation[u].status = "none" => invocation[u].from = NoCall
                      /\ request'[u].kind = "confirm" =>
                           required /\ [id |-> request'[u].of, input |-> tool[u].input] \in heard
                      /\ request'[u].kind = "invoke" => ~required
                      /\ confirmation[u].prepared <= 1 + faults
    BY <1>same DEF AskedInOrder
  <2>1. CASE u = t
    BY <1>0, <1>1, <1>3, <2>1 DEF AskedInOrder, c
  <2>2. CASE u # t
    BY <1>0, <1>3, <2>2 DEF AskedInOrder
  <2> QED
    BY <2>1, <2>2
<1>7. RowsAreAsked' /\ HeardIsAsked' /\ ExecutedWasHeard' /\ AnswerIsTrue' /\ ConsumedTogether'
  BY <1>same DEF Inv, RowsAreAsked, HeardIsAsked, ExecutedWasHeard, AnswerIsTrue, ConsumedTogether
<1>8. LocksAreHeld'
  <2>1. ASSUME NEW u \in ToolCalls, request'[u].step = "locked"
        PROVE  /\ request'[u].kind = "confirm" /\ lock'[request'[u].of] = u
               /\ request'[u].saw = confirmation[request'[u].of]
    <3>1. CASE u = t
      BY <1>3, <1>4, <3>1
    <3>2. CASE u # t
      <4>1. request'[u] = request[u] /\ request[u].of \in ToolCalls
        BY <1>0, <1>3, <2>1, <3>2, Types
      <4>2. /\ request[u].kind = "confirm" /\ lock[request[u].of] = u
            /\ request[u].saw = confirmation[request[u].of]
        BY <1>0, <2>1, <4>1 DEF LocksAreHeld
      <4>3. request[u].of # c
        BY <1>1, <1>2, <4>2 DEF c
      <4> QED
        BY <1>4, <4>1, <4>2, <4>3
    <3> QED
      BY <3>1, <3>2
  <2>2. ASSUME NEW d \in ToolCalls, lock'[d] # NoCall
        PROVE  request'[lock'[d]].step = "locked" /\ request'[lock'[d]].of = d
    <3>1. CASE d = c
      BY <1>3, <1>4, <3>1
    <3>2. CASE d # c
      <4>1. lock'[d] = lock[d] /\ lock[d] \in ToolCalls
        BY <1>2, <1>4, <2>2, <3>2
      <4>2. request[lock[d]].step = "locked" /\ request[lock[d]].of = d
        BY <1>0, <2>2, <4>1 DEF LocksAreHeld
      <4>3. lock[d] # t
        BY <1>1, <4>2
      <4> QED
        BY <1>3, <4>1, <4>2, <4>3
    <3> QED
      BY <3>1, <3>2
  <2> QED
    BY <1>same, <2>1, <2>2 DEF LocksAreHeld
<1>9. AnswersAreTrue'
  <2>1. AnswersAreTrue
    BY DEF Inv
  <2> QED
    BY <1>same, <1>3, <2>1 DEF AnswersAreTrue
<1>10. PreparationsSuffice'
  BY <1>same, PreparationsStay DEF Inv
<1> QED
  BY <1>5, <1>6, <1>7, <1>8, <1>9, <1>10 DEF Inv

\* The execution of a confirmation whose row is held.
LEMMA ConfirmExecutes ==
  ASSUME Inv, NEW t \in ToolCalls, Confirm(t),
         IsReusable(request[t].saw), connected, ~IsReplay(request[t].saw)
  PROVE  Inv'
<1>0. TypeOK /\ AskedInOrder /\ LocksAreHeld
  BY DEF Inv
<1> DEFINE c == request[t].of
           x == confirmation[c].input
<1>1. /\ request[t].step = "locked" /\ request[t].kind = "confirm"
      /\ request[t].saw = confirmation[c] /\ lock[c] = t
      /\ c \in ToolCalls
  BY <1>0, Types DEF Confirm, LocksAreHeld
<1>2. /\ lock' = Released(c)
      /\ Execute(t, x, c)
      /\ confirmation' = [confirmation EXCEPT ![c].status = "consumed", ![c].invocation = t]
      /\ request' = Reply(t, t)
      /\ UNCHANGED << required, connected, tool, remembered, heard, faults >>
  BY <1>1 DEF Confirm, agentVars
<1>3. /\ confirmation \in [ToolCalls -> Row] /\ invocation \in [ToolCalls -> Invocations]
      /\ faults \in 0 .. MaxFaults /\ faults \in Nat /\ t \in Calls /\ t # NoCall
      /\ c \in Calls /\ c # NoCall
  BY <1>0, <1>1, Types
<1>4. confirmation[c].status = "pending_confirmation"
  BY <1>1 DEF IsReusable
<1>5. /\ [id |-> c, input |-> tool[t].input] \in heard /\ required
      /\ tool[t].input \in Inputs
      /\ invocation[t].status = "none" /\ invocation[t].from = NoCall
  BY <1>0, <1>1 DEF AskedInOrder
<1>6. x = tool[t].input
  <2>1. x = tool[c].input
    BY <1>1, <1>4 DEF Inv, RowsAreAsked
  <2>2. tool[c].input = tool[t].input
    BY <1>5 DEF Inv, HeardIsAsked
  <2> QED
    BY <2>1, <2>2
<1> HIDE DEF x, c
<1>7. /\ invocation' \in [ToolCalls -> Invocations]
      /\ invocation'[t].status = "open" /\ invocation'[t].input = x /\ invocation'[t].from = c
      /\ \A u \in ToolCalls : u # t => invocation'[u] = invocation[u]
  <2> DEFINE i == [status |-> "open", input |-> x, from |-> c]
  <2>1. i \in Invocations
    BY <1>3, <1>5, <1>6 DEF Invocations, InvocationStatus
  <2>2. invocation' = [invocation EXCEPT ![t] = i]
    BY <1>2, <1>3, <1>5 DEF Execute
  <2> HIDE DEF i
  <2>3. invocation' \in [ToolCalls -> Invocations] /\ invocation'[t] = i
        /\ \A u \in ToolCalls : u # t => invocation'[u] = invocation[u]
    BY <1>3, <2>1, <2>2
  <2> QED
    BY <2>3 DEF i
<1>8. /\ confirmation' \in [ToolCalls -> Row]
      /\ confirmation'[c].status = "consumed" /\ confirmation'[c].invocation = t
      /\ confirmation'[c].input = confirmation[c].input
      /\ confirmation'[c].prepared = confirmation[c].prepared
      /\ \A u \in ToolCalls : u # c => confirmation'[u] = confirmation[u]
  <2> DEFINE r == [confirmation[c] EXCEPT !.status = "consumed", !.invocation = t]
  <2>1. confirmation[c] \in Row
    BY <1>1, <1>3
  <2>2. /\ r \in Row /\ r.status = "consumed" /\ r.invocation = t
        /\ r.input = confirmation[c].input /\ r.prepared = confirmation[c].prepared
    BY <1>3, <2>1 DEF Row, RowStatus
  <2>3. confirmation' = [confirmation EXCEPT ![c] = r]
    BY <1>2, <1>3
  <2> HIDE DEF r
  <2> QED
    BY <1>1, <1>3, <2>2, <2>3
<1>9. \A u \in ToolCalls : /\ confirmation'[u].prepared = confirmation[u].prepared
                           /\ confirmation'[u].input = confirmation[u].input
                           /\ confirmation'[u].status # "none" => confirmation[u].status # "none"
  BY <1>4, <1>8
<1>10. ExecutedWasHeard'
  <2>1. \A u \in ToolCalls : invocation'[u].from # NoCall =>
          [id |-> invocation'[u].from, input |-> invocation'[u].input] \in heard
    BY <1>5, <1>6, <1>7 DEF Inv, ExecutedWasHeard, c
  <2> QED
    BY <1>2, <2>1 DEF ExecutedWasHeard
<1>11. ConsumedTogether'
  <2>1. ASSUME NEW u \in ToolCalls, invocation'[u].status # "none"
        PROVE  invocation'[u].from # NoCall
    BY <1>3, <1>5, <1>7, <2>1 DEF Inv, ConsumedTogether
  <2>2. ASSUME NEW d \in ToolCalls, confirmation'[d].status = "consumed"
        PROVE  /\ confirmation'[d].invocation # NoCall
               /\ invocation'[confirmation'[d].invocation].from = d
    <3>1. CASE d = c
      BY <1>3, <1>7, <1>8, <3>1
    <3>2. CASE d # c
      <4>1. confirmation'[d] = confirmation[d] /\ confirmation[d] \in Row
        BY <1>3, <1>8, <3>2
      <4> DEFINE i == confirmation[d].invocation
      <4>2. i # NoCall /\ invocation[i].from = d
        BY <2>2, <4>1 DEF Inv, ConsumedTogether
      <4>3. i \in ToolCalls
        <5>1. i \in Calls
          BY <4>1 DEF Row
        <5> QED
          BY <4>2, <5>1 DEF Calls
      <4>4. i # t
        BY <1>0, <1>5, <4>2, Types
      <4> QED
        BY <1>7, <4>1, <4>2, <4>3, <4>4
    <3> QED
      BY <3>1, <3>2
  <2> QED
    BY <2>1, <2>2 DEF ConsumedTogether
<1>12. PreparationsSuffice'
  <2> SUFFICES ASSUME NEW d \in ToolCalls
               PROVE  /\ IsFiniteSet(Executions(d)')
                      /\ Cardinality(Executions(d)') <= confirmation'[d].prepared
                      /\ confirmation'[d].status = "pending_confirmation" =>
                           Cardinality(Executions(d)') < confirmation'[d].prepared
    BY DEF PreparationsSuffice
  <2>1. /\ IsFiniteSet(Executions(d))
        /\ Cardinality(Executions(d)) <= confirmation[d].prepared
        /\ confirmation[d].status = "pending_confirmation" =>
             Cardinality(Executions(d)) < confirmation[d].prepared
    BY DEF Inv, PreparationsSuffice
  <2>2. CASE d = c
    <3>1. Executions(d)' = Executions(d) \union {t} /\ t \notin Executions(d)
      BY <1>3, <1>5, <1>7, <2>2 DEF Executions
    <3>2. IsFiniteSet(Executions(d)') /\ Cardinality(Executions(d)') = Cardinality(Executions(d)) + 1
      BY <2>1, <3>1, FS_AddElement
    <3>3. Cardinality(Executions(d)) \in Nat
      BY <2>1, FS_CardinalityType
    <3>4. confirmation[c].prepared \in Nat
      <4>1. confirmation[c] \in Row
        BY <1>1, <1>3 DEF c
      <4> QED
        BY <4>1 DEF Row
    <3> QED
      BY <1>4, <1>8, <2>1, <2>2, <3>2, <3>3, <3>4
  <2>3. CASE d # c
    <3>1. Executions(d)' = Executions(d)
      <4>1. d # NoCall
        BY NothingAssumption
      <4> QED
        BY <1>5, <1>7, <2>3, <4>1 DEF Executions
    <3>2. confirmation'[d] = confirmation[d]
      BY <1>8, <2>3
    <3> QED
      BY <2>1, <3>1, <3>2
  <2> QED
    BY <2>2, <2>3
<1>13. \A d \in ToolCalls : confirmation'[d].prepared <= 1 + faults'
  BY <1>0, <1>2, <1>9 DEF AskedInOrder
<1>14. \A d \in ToolCalls : confirmation'[d].status # "none" =>
                              confirmation'[d].input = tool[d].input
  BY <1>9 DEF Inv, RowsAreAsked
<1>15. \A d \in ToolCalls : confirmation'[d] # confirmation[d] =>
                              d = request[t].of /\ confirmation[d] # NoRow
  <2>1. confirmation[c] # NoRow
    BY <1>4 DEF NoRow
  <2> QED
    BY <1>8, <2>1 DEF c
<1>16. /\ \A u \in ToolCalls : invocation[u].status # "none" => invocation'[u] = invocation[u]
       /\ invocation'[t].status # "none" /\ invocation'[t].input = tool[t].input
  BY <1>5, <1>6, <1>7
<1>17. faults' \in faults .. MaxFaults
  BY <1>2, <1>3
<1>18. lock' = Released(request[t].of)
  BY <1>2 DEF c
<1> QED
  BY <1>1, <1>2, <1>3, <1>7, <1>8, <1>10, <1>11, <1>12, <1>13, <1>14, <1>15, <1>16, <1>17, <1>18,
     ServedNext

LEMMA ConfirmNext ==
  ASSUME Inv, NEW t \in ToolCalls, Confirm(t)
  PROVE  Inv'
<1>0. TypeOK /\ AskedInOrder /\ LocksAreHeld
  BY DEF Inv
<1> DEFINE c == request[t].of
           saw == request[t].saw
<1>1. /\ request[t].step = "locked" /\ request[t].kind = "confirm"
      /\ saw = confirmation[c] /\ c \in ToolCalls
      /\ lock' = Released(c)
      /\ UNCHANGED << required, connected, tool, remembered, heard, faults >>
  BY <1>0, Types DEF Confirm, LocksAreHeld, agentVars
<1>2. /\ confirmation \in [ToolCalls -> Row] /\ invocation \in [ToolCalls -> Invocations]
      /\ faults \in 0 .. MaxFaults /\ faults \in Nat
  BY <1>0, Types
<1>3. faults' \in faults .. MaxFaults
  BY <1>1, <1>2
<1>4. CASE Refuse(t)
  BY <1>1, <1>3, <1>4, RefusedNext
<1>5. CASE IsReplay(saw) /\ request' = Reply(t, saw.invocation)
           /\ UNCHANGED << confirmation, invocation >>
  <2> DEFINE i == saw.invocation
  <2>1. i # NoCall /\ invocation[i].from = c
    BY <1>1, <1>5 DEF IsReplay, Inv, ConsumedTogether
  <2>2. i \in ToolCalls
    <3>1. confirmation[c] \in Row
      BY <1>1, <1>2
    <3>2. i \in Calls
      BY <1>1, <3>1 DEF Row
    <3> QED
      BY <2>1, <3>2 DEF Calls
  <2>3. c # NoCall
    BY <1>1, NothingAssumption
  <2>4. invocation[i].status # "none" /\ [id |-> c, input |-> invocation[i].input] \in heard
    BY <1>0, <2>1, <2>2, <2>3 DEF AskedInOrder, Inv, ExecutedWasHeard
  <2>5. [id |-> c, input |-> tool[t].input] \in heard
    BY <1>0, <1>1 DEF AskedInOrder
  <2>6. invocation[i].input = tool[t].input
    BY <2>4, <2>5 DEF Inv, HeardIsAsked
  <2>7. /\ \A d \in ToolCalls : confirmation[d].status # "none" =>
                                  confirmation[d].input = tool[d].input
        /\ \A d \in ToolCalls : confirmation[d].prepared <= 1 + faults'
        /\ invocation[t].status = "none" => invocation[t].from = NoCall
    BY <1>0, <1>1 DEF Inv, RowsAreAsked, AskedInOrder
  <2>8. ExecutedWasHeard' /\ ConsumedTogether' /\ PreparationsSuffice'
    BY <1>1, <1>5, PreparationsStay DEF Inv, ExecutedWasHeard, ConsumedTogether
  <2>9. i \in Calls
    BY <2>2 DEF Calls
  <2> HIDE DEF i
  <2>10. request' = Reply(t, i)
    BY <1>5 DEF i
  <2> QED
    BY <1>1, <1>2, <1>3, <1>5, <2>4, <2>6, <2>7, <2>8, <2>9, <2>10, ServedNext
<1>6. CASE IsReusable(saw) /\ connected
  BY <1>6, ConfirmExecutes DEF IsReusable, IsReplay
<1> QED
  BY <1>4, <1>5, <1>6 DEF Confirm

LEMMA ConfirmRollsBackNext ==
  ASSUME Inv, NEW t \in ToolCalls, ConfirmRollsBack(t)
  PROVE  Inv'
<1>1. faults \in 0 .. MaxFaults /\ faults \in Nat
  BY Types DEF Inv
<1>2. faults' \in faults .. MaxFaults
  BY <1>1, FaultsAssumption DEF ConfirmRollsBack, Fault
<1> QED
  BY <1>2, RefusedNext DEF ConfirmRollsBack, agentVars

\* A direct invocation: a tool call that has one is answered with it.
LEMMA DirectRows ==
  ASSUME Inv, NEW t \in ToolCalls, Execute(t, tool[t].input, NoCall), ~required,
         tool[t].phase # "none",
         UNCHANGED << required, heard, confirmation >>
  PROVE  /\ invocation' \in [ToolCalls -> Invocations]
         /\ invocation'[t].status # "none" /\ invocation'[t].from = invocation[t].from
         /\ invocation[t].status = "none" => invocation'[t].input = tool[t].input
         /\ invocation[t].status # "none" => invocation'[t] = invocation[t]
         /\ \A u \in ToolCalls : u # t => invocation'[u] = invocation[u]
         /\ ExecutedWasHeard' /\ ConsumedTogether' /\ PreparationsSuffice'
<1>0. TypeOK /\ AskedInOrder
  BY DEF Inv
<1>1. invocation \in [ToolCalls -> Invocations] /\ confirmation \in [ToolCalls -> Row]
      /\ tool[t].input \in Inputs
  BY <1>0, Types DEF AskedInOrder
<1> DEFINE i == [status |-> "open", input |-> tool[t].input, from |-> NoCall]
<1>2. i \in Invocations
  BY <1>1 DEF Invocations, InvocationStatus, Calls
<1>3. /\ invocation' \in [ToolCalls -> Invocations]
      /\ invocation'[t] = IF invocation[t].status # "none" THEN invocation[t] ELSE i
      /\ \A u \in ToolCalls : u # t => invocation'[u] = invocation[u]
  <2> DEFINE j == IF invocation[t].status # "none" THEN invocation[t] ELSE i
  <2>1. j \in Invocations
    BY <1>1, <1>2
  <2>2. invocation' = [invocation EXCEPT ![t] = j]
    BY <1>1 DEF Execute
  <2> HIDE DEF j
  <2>3. /\ invocation' \in [ToolCalls -> Invocations] /\ invocation'[t] = j
        /\ \A u \in ToolCalls : u # t => invocation'[u] = invocation[u]
    BY <1>1, <2>1, <2>2
  <2> QED
    BY <2>3 DEF j
<1>4. invocation[t].status = "none" => invocation[t].from = NoCall
  BY <1>0 DEF AskedInOrder
<1>5. /\ invocation'[t].status # "none" /\ invocation'[t].from = invocation[t].from
      /\ invocation[t].status = "none" => invocation'[t].input = tool[t].input
      /\ invocation[t].status # "none" => invocation'[t] = invocation[t]
  BY <1>3, <1>4
<1>6. \A u \in ToolCalls : /\ invocation'[u].from = invocation[u].from
                           /\ invocation[u].from # NoCall => invocation'[u] = invocation[u]
  BY <1>3, <1>4, <1>5
<1>7. ExecutedWasHeard'
  BY <1>6 DEF Inv, ExecutedWasHeard
<1>8. ConsumedTogether'
  <2>1. ASSUME NEW c \in ToolCalls, confirmation[c].status = "consumed"
        PROVE  /\ confirmation[c].invocation # NoCall
               /\ invocation'[confirmation[c].invocation].from = c
    <3> DEFINE k == confirmation[c].invocation
    <3>1. k # NoCall /\ invocation[k].from = c
      BY <2>1 DEF Inv, ConsumedTogether
    <3>2. k \in Calls
      <4>1. confirmation[c] \in Row
        BY <1>1
      <4> QED
        BY <4>1 DEF Row
    <3>3. k \in ToolCalls
      BY <3>1, <3>2 DEF Calls
    <3> QED
      BY <1>6, <3>1, <3>3
  <2> QED
    BY <2>1 DEF ConsumedTogether
<1>9. PreparationsSuffice'
  <2>1. \A c \in ToolCalls : Executions(c)' = Executions(c)
    BY <1>6 DEF Executions
  <2> QED
    BY <2>1 DEF Inv, PreparationsSuffice
<1> QED
  BY <1>3, <1>5, <1>7, <1>8, <1>9

LEMMA InvokeNext ==
  ASSUME Inv, NEW t \in ToolCalls, Invoke(t)
  PROVE  Inv'
<1>0. TypeOK /\ AskedInOrder
  BY DEF Inv
<1>1. /\ request[t].kind = "invoke" /\ request[t].step = "sent"
      /\ UNCHANGED << required, connected, tool, remembered, heard, lock, faults >>
  BY DEF Invoke, agentVars
<1>2. /\ confirmation \in [ToolCalls -> Row]
      /\ faults \in 0 .. MaxFaults /\ faults \in Nat /\ t \in Calls
  BY <1>0, Types
<1>3. ~required /\ tool[t].phase # "none" /\ invocation[t].status = "none"
  BY <1>0, <1>1 DEF AskedInOrder
<1>4. faults' \in faults .. MaxFaults
  BY <1>1, <1>2
<1>5. CASE connected
  <2>1. /\ Execute(t, tool[t].input, NoCall)
        /\ request' = Reply(t, t)
        /\ UNCHANGED confirmation
    BY <1>5 DEF Invoke
  <2>2. UNCHANGED << required, heard, confirmation >>
    BY <1>1, <2>1
  <2>3. /\ invocation' \in [ToolCalls -> Invocations]
        /\ invocation'[t].status # "none" /\ invocation'[t].from = invocation[t].from
        /\ invocation[t].status = "none" => invocation'[t].input = tool[t].input
        /\ invocation[t].status # "none" => invocation'[t] = invocation[t]
        /\ \A u \in ToolCalls : u # t => invocation'[u] = invocation[u]
        /\ ExecutedWasHeard' /\ ConsumedTogether' /\ PreparationsSuffice'
    BY <1>3, <2>1, <2>2, DirectRows
  <2>4. /\ \A c \in ToolCalls : confirmation[c].status # "none" =>
                                  confirmation[c].input = tool[c].input
        /\ \A c \in ToolCalls : confirmation[c].prepared <= 1 + faults'
    BY <1>0, <1>1 DEF Inv, RowsAreAsked, AskedInOrder
  <2> QED
    BY <1>1, <1>2, <1>3, <1>4, <2>1, <2>3, <2>4, ServedNext
<1>6. CASE ~connected
  BY <1>1, <1>3, <1>4, <1>6, RefusedNext DEF Invoke
<1> QED
  BY <1>5, <1>6

LEMMA RepeatNext ==
  ASSUME Inv, NEW t \in ToolCalls, Repeat(t)
  PROVE  Inv'
<1>0. TypeOK /\ AskedInOrder
  BY DEF Inv
<1>1. /\ request[t].step = "done" /\ request[t].kind # "confirm"
      /\ faults < MaxFaults /\ faults' = faults + 1
      /\ UNCHANGED << required, connected, tool, remembered, heard, request, lock >>
  BY DEF Repeat, Fault, agentVars
<1>2. /\ confirmation \in [ToolCalls -> Row] /\ invocation \in [ToolCalls -> Invocations]
      /\ faults \in 0 .. MaxFaults /\ faults \in Nat /\ connected \in BOOLEAN
  BY <1>0, Types
<1>3. /\ faults' \in faults .. MaxFaults /\ faults' \in 0 .. MaxFaults /\ faults' \in Nat
  BY <1>1, <1>2, FaultsAssumption
<1>4. tool[t].phase # "none" /\ request[t].kind # "none"
      /\ (request[t].kind = "invoke" => ~required)
      /\ (invocation[t].status = "none" => invocation[t].from = NoCall)
      /\ confirmation[t].prepared <= 1 + faults
  BY <1>0, <1>1 DEF AskedInOrder
<1>5. CASE request[t].kind = "prepare"
  <2>1. /\ lock[t] = NoCall
        /\ confirmation' = [confirmation EXCEPT ![t] = Prepared(@, tool[t].input)]
        /\ UNCHANGED invocation
    BY <1>5 DEF Repeat, MayLock
  <2>2. confirmation[t].prepared <= faults' /\ faults' <= faults'
    <3>1. confirmation[t] \in Row
      BY <1>2
    <3>2. confirmation[t].prepared \in Int
      BY <3>1 DEF Row
    <3> QED
      BY <1>1, <1>2, <1>3, <1>4, <3>2
  <2>3. UNCHANGED << required, heard, invocation, tool >>
    BY <1>1, <2>1
  <2>4. /\ confirmation' \in [ToolCalls -> Row]
        /\ \A u \in ToolCalls : u # t => confirmation'[u] = confirmation[u]
        /\ confirmation'[t].status # "none" => confirmation'[t].input = tool[t].input
        /\ confirmation'[t].prepared <= 1 + faults'
        /\ ExecutedWasHeard' /\ ConsumedTogether' /\ PreparationsSuffice'
    BY <1>3, <1>4, <2>1, <2>2, <2>3, PrepareKeeps
  <2> QED
    BY <1>1, <1>2, <1>3, <1>4, <2>1, <2>4, RowsNext
<1>6. CASE request[t].kind # "prepare"
  <2>1. request[t].kind = "invoke"
    <3>1. request[t] \in Request
      BY <1>0, Types
    <3> QED
      BY <1>1, <1>4, <1>6, <3>1 DEF Request
  <2>2. Execute(t, tool[t].input, NoCall) /\ UNCHANGED confirmation
    BY <1>6 DEF Repeat
  <2>3. UNCHANGED << required, heard, confirmation >>
    BY <1>1, <2>2
  <2>4. /\ invocation' \in [ToolCalls -> Invocations]
        /\ invocation'[t].status # "none" /\ invocation'[t].from = invocation[t].from
        /\ invocation[t].status # "none" => invocation'[t] = invocation[t]
        /\ \A u \in ToolCalls : u # t => invocation'[u] = invocation[u]
        /\ ExecutedWasHeard' /\ ConsumedTogether' /\ PreparationsSuffice'
    BY <1>4, <2>1, <2>2, <2>3, DirectRows
  <2>5. confirmation'[t].prepared <= 1 + faults'
    <3>1. confirmation[t] \in Row
      BY <1>2
    <3>2. confirmation[t].prepared \in Int
      BY <3>1 DEF Row
    <3> QED
      BY <1>1, <1>2, <1>4, <2>2, <3>2
  <2>6. confirmation'[t].status # "none" => confirmation'[t].input = tool[t].input
    BY <2>2 DEF Inv, RowsAreAsked
  <2> QED
    BY <1>1, <1>2, <1>3, <1>4, <2>2, <2>4, <2>5, <2>6, RowsNext
<1> QED
  BY <1>5, <1>6

LEMMA LapseNext ==
  ASSUME Inv, NEW t \in ToolCalls, Lapse(t)
  PROVE  Inv'
<1>0. TypeOK /\ AskedInOrder
  BY DEF Inv
<1>1. /\ IsReusable(confirmation[t]) /\ lock[t] = NoCall
      /\ confirmation' = [confirmation EXCEPT ![t].lapsed = TRUE]
      /\ UNCHANGED << required, connected, tool, remembered, heard, request, lock, invocation,
                      faults >>
  BY DEF Lapse, MayLock, agentVars
<1>2. /\ confirmation \in [ToolCalls -> Row] /\ invocation \in [ToolCalls -> Invocations]
      /\ faults \in 0 .. MaxFaults /\ faults \in Nat /\ connected \in BOOLEAN
  BY <1>0, Types
<1>3. request[t].step = "done"
  <2>1. confirmation[t] # NoRow
    BY <1>1 DEF IsReusable, NoRow
  <2> QED
    BY <1>0, <2>1 DEF AskedInOrder
<1>4. /\ confirmation' \in [ToolCalls -> Row]
      /\ \A u \in ToolCalls : u # t => confirmation'[u] = confirmation[u]
      /\ confirmation'[t].status = confirmation[t].status
      /\ confirmation'[t].input = confirmation[t].input
      /\ confirmation'[t].invocation = confirmation[t].invocation
      /\ confirmation'[t].prepared = confirmation[t].prepared
  <2> DEFINE r == [confirmation[t] EXCEPT !.lapsed = TRUE]
  <2>1. confirmation[t] \in Row
    BY <1>2
  <2>2. /\ r \in Row /\ r.status = confirmation[t].status /\ r.input = confirmation[t].input
        /\ r.invocation = confirmation[t].invocation
        /\ r.prepared = confirmation[t].prepared
    BY <2>1 DEF Row
  <2>3. confirmation' = [confirmation EXCEPT ![t] = r]
    BY <1>1, <1>2
  <2> HIDE DEF r
  <2> QED
    BY <1>2, <2>2, <2>3
<1>5. \A u \in ToolCalls : /\ confirmation'[u].status = confirmation[u].status
                           /\ confirmation'[u].invocation = confirmation[u].invocation
                           /\ confirmation'[u].prepared = confirmation[u].prepared
  BY <1>4
<1>6. ExecutedWasHeard'
  BY <1>1 DEF Inv, ExecutedWasHeard
<1>7. ConsumedTogether'
  BY <1>1, <1>5 DEF Inv, ConsumedTogether
<1>8. PreparationsSuffice'
  BY <1>1, <1>5 DEF Inv, PreparationsSuffice, Executions
<1>9. /\ confirmation'[t].status # "none" => confirmation'[t].input = tool[t].input
      /\ confirmation'[t].prepared <= 1 + faults'
      /\ invocation[t].status = "none" => invocation[t].from = NoCall
  BY <1>0, <1>1, <1>4 DEF Inv, RowsAreAsked, AskedInOrder
<1>10. faults' \in faults .. MaxFaults
  BY <1>1, <1>2
<1>11. UNCHANGED << required, tool, remembered, heard, request, lock, connected, invocation >>
  BY <1>1
<1>12. lock[t] = NoCall
  BY <1>1
<1> QED
  BY <1>2, <1>3, <1>4, <1>6, <1>7, <1>8, <1>9, <1>10, <1>11, <1>12, RowsNext

LEMMA JobEndsNext ==
  ASSUME Inv, NEW t \in ToolCalls, JobEnds(t)
  PROVE  Inv'
<1>0. TypeOK /\ AskedInOrder
  BY DEF Inv
<1>1. /\ invocation[t].status = "open"
      /\ UNCHANGED << required, connected, tool, remembered, heard, request, lock, confirmation,
                      faults >>
  BY DEF JobEnds, agentVars
<1>2. PICK s \in {"succeeded", "failed"} : invocation' = [invocation EXCEPT ![t].status = s]
  BY DEF JobEnds
<1>3. /\ confirmation \in [ToolCalls -> Row] /\ invocation \in [ToolCalls -> Invocations]
      /\ faults \in 0 .. MaxFaults /\ faults \in Nat /\ connected \in BOOLEAN
  BY <1>0, Types
<1>4. /\ invocation' \in [ToolCalls -> Invocations]
      /\ \A u \in ToolCalls : u # t => invocation'[u] = invocation[u]
      /\ invocation'[t].status = s /\ invocation'[t].input = invocation[t].input
      /\ invocation'[t].from = invocation[t].from
  <2> DEFINE i == [invocation[t] EXCEPT !.status = s]
  <2>1. invocation[t] \in Invocations
    BY <1>3
  <2>2. /\ i \in Invocations /\ i.status = s /\ i.input = invocation[t].input
        /\ i.from = invocation[t].from
    BY <2>1 DEF Invocations, InvocationStatus
  <2>3. invocation' = [invocation EXCEPT ![t] = i]
    BY <1>2, <1>3
  <2> HIDE DEF i
  <2> QED
    BY <1>3, <2>2, <2>3
<1>5. request[t].step = "done"
  BY <1>0, <1>1 DEF AskedInOrder
<1>6. \A u \in ToolCalls : /\ invocation'[u].from = invocation[u].from
                           /\ invocation'[u].input = invocation[u].input
                           /\ invocation'[u].status # "none" => invocation[u].status # "none"
  BY <1>1, <1>4
<1>7. ExecutedWasHeard'
  BY <1>1, <1>6 DEF Inv, ExecutedWasHeard
<1>8. ConsumedTogether'
  <2>1. \A c \in ToolCalls : confirmation[c].status = "consumed" /\ confirmation[c].invocation # NoCall
                             => confirmation[c].invocation \in ToolCalls
    <3> SUFFICES ASSUME NEW c \in ToolCalls, confirmation[c].invocation # NoCall
                 PROVE  confirmation[c].invocation \in ToolCalls
      OBVIOUS
    <3>1. confirmation[c] \in Row
      BY <1>3
    <3> QED
      BY <3>1 DEF Row, Calls
  <2>2. /\ required => \A u \in ToolCalls :
                         invocation'[u].status # "none" => invocation'[u].from # NoCall
        /\ \A c \in ToolCalls :
             confirmation[c].status = "consumed" =>
               /\ confirmation[c].invocation # NoCall
               /\ invocation'[confirmation[c].invocation].from = c
    BY <1>6, <2>1 DEF Inv, ConsumedTogether
  <2> QED
    BY <1>1, <2>2 DEF ConsumedTogether
<1>9. PreparationsSuffice'
  BY <1>1, <1>6 DEF Inv, PreparationsSuffice, Executions
<1>10. /\ confirmation[t].status # "none" => confirmation[t].input = tool[t].input
       /\ confirmation[t].prepared <= 1 + faults'
  BY <1>0, <1>1 DEF Inv, RowsAreAsked, AskedInOrder
<1>11. faults' \in faults .. MaxFaults
  BY <1>1, <1>3
<1>12. s # "none"
  OBVIOUS
<1>13. UNCHANGED << required, tool, remembered, heard, request, lock, connected, confirmation >>
  BY <1>1
<1> QED
  BY <1>1, <1>3, <1>4, <1>5, <1>7, <1>8, <1>9, <1>10, <1>11, <1>12, <1>13, RowsNext

\* The end of the call changes none of what the invariant is about.
LEMMA NothingNext ==
  ASSUME Inv, HangUp \/ UNCHANGED vars
  PROVE  Inv'
<1>1. UNCHANGED << required, tool, remembered, heard, request, confirmation, lock, invocation,
                   faults >>
  BY DEF HangUp, vars, agentVars, backendVars
<1>2. connected' \in BOOLEAN
  BY Types DEF HangUp, vars, Inv
<1>3. TypeOK'
  BY <1>1, <1>2, Types, TypesNext DEF Inv
<1>4. AskedInOrder' /\ RowsAreAsked' /\ HeardIsAsked' /\ LocksAreHeld' /\ AnswersAreTrue'
  BY <1>1 DEF Inv, AskedInOrder, RowsAreAsked, HeardIsAsked, LocksAreHeld, AnswersAreTrue
<1>5. ExecutedWasHeard' /\ AnswerIsTrue' /\ ConsumedTogether'
  BY <1>1 DEF Inv, ExecutedWasHeard, AnswerIsTrue, ConsumedTogether
<1>6. PreparationsSuffice'
  BY <1>1, PreparationsStay DEF Inv
<1> QED
  BY <1>3, <1>4, <1>5, <1>6 DEF Inv

-----------------------------------------------------------------------------
(***************************************************************************)
(* The theorems.                                                           *)
(***************************************************************************)

LEMMA InitInv == Init => Inv
<1> SUFFICES ASSUME Init PROVE Inv
  OBVIOUS
<1>1. TypeOK
  <2>1. NoCall \in Calls /\ NoRow \in Row
    BY FaultsAssumption DEF Calls, NoRow, Row, RowStatus
  <2>2. NoRequest \in Request /\ Nothing \in [id : Calls, input : Inputs \union {NoInput}]
    BY <2>1 DEF NoRequest, Request, Nothing
  <2>3. [status |-> "none", input |-> NoInput, from |-> NoCall]
          \in [status : InvocationStatus, input : Inputs \union {NoInput}, from : Calls]
    BY <2>1 DEF InvocationStatus
  <2>4. NoRequest.step = "idle"
    BY DEF NoRequest
  <2>5. 0 \in 0 .. MaxFaults
    BY FaultsAssumption
  <2> QED
    BY <2>1, <2>2, <2>3, <2>4, <2>5 DEF Init, TypeOK
<1>2. AskedInOrder
  BY FaultsAssumption DEF Init, AskedInOrder, NoRequest, NoRow
<1>3. RowsAreAsked /\ HeardIsAsked /\ LocksAreHeld
  BY DEF Init, RowsAreAsked, HeardIsAsked, LocksAreHeld, NoRequest, NoRow
<1>4. AnswersAreTrue /\ ExecutedWasHeard /\ AnswerIsTrue /\ ConsumedTogether
  BY DEF Init, AnswersAreTrue, ExecutedWasHeard, AnswerIsTrue, ConsumedTogether, NoRequest, NoRow
<1>5. PreparationsSuffice
  <2> SUFFICES ASSUME NEW c \in ToolCalls
               PROVE  /\ IsFiniteSet(Executions(c))
                      /\ Cardinality(Executions(c)) <= confirmation[c].prepared
                      /\ confirmation[c].status = "pending_confirmation" =>
                           Cardinality(Executions(c)) < confirmation[c].prepared
    BY DEF PreparationsSuffice
  <2>1. Executions(c) = {}
    BY NothingAssumption DEF Init, Executions
  <2>2. confirmation[c].prepared = 0 /\ confirmation[c].status = "none"
    BY DEF Init, NoRow
  <2> QED
    BY <2>1, <2>2, FS_EmptySet
<1> QED
  BY <1>1, <1>2, <1>3, <1>4, <1>5 DEF Inv

LEMMA InvNext == Inv /\ [Next]_vars => Inv'
<1> SUFFICES ASSUME Inv, [Next]_vars PROVE Inv'
  OBVIOUS
<1>1. ASSUME NEW t \in ToolCalls, NEW x \in Inputs, CallTool(t, x) PROVE Inv'
  BY <1>1, CallToolNext
<1>2. ASSUME NEW t \in ToolCalls, ToolStep(t) \/ TimesOut(t) PROVE Inv'
  BY <1>2, AnsweredNext, ToolFaultNext DEF ToolStep
<1>3. ASSUME NEW t \in ToolCalls, ServeRequest(t) PROVE Inv'
  BY <1>3, PrepareNext, LockNext, ConfirmNext, InvokeNext DEF ServeRequest
<1>4. ASSUME NEW t \in ToolCalls,
             ConfirmRollsBack(t) \/ Repeat(t) \/ Lapse(t) \/ JobEnds(t)
      PROVE  Inv'
  BY <1>4, ConfirmRollsBackNext, RepeatNext, LapseNext, JobEndsNext
<1>5. CASE HangUp \/ UNCHANGED vars
  BY <1>5, NothingNext
<1> QED
  BY <1>1, <1>2, <1>3, <1>4, <1>5 DEF Next

\* Inv is an invariant of prepare, confirm and invoke.
THEOREM InvHolds == Spec => []Inv
<1> QED
  BY InitInv, InvNext, PTL DEF Spec

\* The types of the rows, the requests and the tool's memory are kept.
THEOREM TypeCorrect == Spec => []TypeOK
<1>1. Inv => TypeOK
  BY DEF Inv
<1> QED
  BY <1>1, InvHolds, PTL

\* What is executed on a confirmation is what was read back under it before.
THEOREM ExecutionsWereHeard == Spec => []ExecutedWasHeard
<1>1. Inv => ExecutedWasHeard
  BY DEF Inv
<1> QED
  BY <1>1, InvHolds, PTL

\* However many tool calls confirm, at once or again, a preparation is executed once.
THEOREM OneExecutionPerPreparation == Spec => []OnePerPreparation
<1>1. Inv => OnePerPreparation
  BY DEF Inv, PreparationsSuffice, Executions, OnePerPreparation
<1> QED
  BY <1>1, InvHolds, PTL

\* The tool reports success only of an execution of its own arguments.
THEOREM AnswersAreOfTheirCall == Spec => []AnswerIsTrue
<1>1. Inv => AnswerIsTrue
  BY DEF Inv
<1> QED
  BY <1>1, InvHolds, PTL

\* An action that needs a confirmation runs on one, and a consumed confirmation
\* names the execution that consumed it.
THEOREM ConfirmationsAreConsumedTogether == Spec => []ConsumedTogether
<1>1. Inv => ConsumedTogether
  BY DEF Inv
<1> QED
  BY <1>1, InvHolds, PTL

-----------------------------------------------------------------------------
(***************************************************************************)
(* The jobs. A job is kept by the last of its entries that is not          *)
(* acknowledged: an entry is only acknowledged when the outcome is         *)
(* reported, or when a later entry of the job was added, so the induction  *)
(* carries a position behind which the job lives (LiveAfter).              *)
(***************************************************************************)
\* The outcome of job j is reported, or an entry of it behind position n is still to
\* be delivered or acknowledged, or was trimmed before it could be.
LiveAfter(j, n) ==
  \/ j \in reported
  \/ \E i \in DOMAIN stream : /\ i > n /\ stream[i].job = j
                              /\ i > cursor \/ i \in pending \/ i <= trimmed

JobsAreKept ==
  \A j \in Jobs : status[j] # "none" => j \in outbox \/ LiveAfter(j, 0)

SentIsKept ==
  /\ dispatcher.dirty \subseteq dispatcher.read
  /\ \A j \in dispatcher.sent \union dispatcher.read : LiveAfter(j, 0)

\* What a worker's step rests on.  An acknowledged entry has a later one of its job,
\* so entries that stand in for each other never do so in a circle.
StepIsSafe ==
  \A w \in Workers :
    /\ worker[w].inbox = {} => worker[w].step = "handle"
    /\ At(w, "requeue") => MayRetry(Attempt(w))
    /\ At(w, "park") => Job(w) \in reported
    /\ At(w, "ack") => LiveAfter(Job(w), Current(w))

TrimLeavesMaxLen == trimmed > 0 => trimmed <= Len(stream) - MaxLen

\* What is assumed of the constants.
JobAssumptions == CountAssumption /\ BoundsAssumption

JobInv ==
  JobAssumptions /\ JobTypeOK /\ JobsAreKept /\ SentIsKept /\ StepIsSafe /\ TrimLeavesMaxLen

-----------------------------------------------------------------------------
Less == {p \in Nat \X Nat : p[1] < p[2]}

LEMMA LessIsWellFounded == IsWellFoundedOn(Less, Nat)
<1>1. OpToRel(<, Nat) = Less
  BY Zenon DEF OpToRel, Less
<1> QED
  BY <1>1, NatLessThanWellFounded, Zenon

\* The Min of the community modules is an element of the set.
LEMMA MinBelongs ==
  ASSUME NEW S \in SUBSET Nat, S # {}
  PROVE  Min(S) \in S
<1>1. PICK x \in S : \A y \in S : ~ (<< y, x >> \in Less)
  BY LessIsWellFounded, WFMin
<1>2. \A y \in S : x <= y
  <2> SUFFICES ASSUME NEW y \in S, y < x PROVE FALSE
    OBVIOUS
  <2>1. << y, x >> \in Nat \X Nat
    OBVIOUS
  <2> QED
    BY <1>1, <2>1 DEF Less
<1> QED
  BY <1>2 DEF Min

LEMMA MaxOfTwo ==
  ASSUME NEW a \in Int, NEW b \in Int
  PROVE  Max({a, b}) \in {a, b} /\ a <= Max({a, b}) /\ b <= Max({a, b})
<1>1. \E x \in {a, b} : \A y \in {a, b} : x >= y
  OBVIOUS
<1> QED
  BY <1>1 DEF Max

LEMMA MinOfTwo ==
  ASSUME NEW a \in Int, NEW b \in Int
  PROVE  Min({a, b}) \in {a, b} /\ Min({a, b}) <= a /\ Min({a, b}) <= b
<1>1. \E x \in {a, b} : \A y \in {a, b} : x <= y
  OBVIOUS
<1> QED
  BY <1>1 DEF Min

-----------------------------------------------------------------------------
Entries == [job : Jobs, attempt : 1 .. MaxRetries + 1]

\* Positions in the stream.
LEMMA Positions ==
  ASSUME JobTypeOK
  PROVE  /\ Len(stream) \in Nat /\ DOMAIN stream = 1 .. Len(stream)
         /\ \A i \in DOMAIN stream : stream[i] \in Entries
         /\ cursor \in Nat /\ cursor <= Len(stream)
         /\ trimmed \in Nat /\ trimmed <= Len(stream)
<1>1. stream \in Seq(Entries)
  BY DEF JobTypeOK, Entries
<1>2. Len(stream) \in Nat /\ DOMAIN stream = 1 .. Len(stream)
  BY <1>1, LenProperties
<1> QED
  BY <1>1, <1>2, ElementOfSeq DEF JobTypeOK

\* The entry a worker is at is one it was given.
LEMMA CurrentEntry ==
  ASSUME JobTypeOK, NEW w \in Workers, worker[w].inbox # {}
  PROVE  /\ Current(w) \in worker[w].inbox /\ Current(w) \in 1 .. cursor
         /\ Current(w) \in DOMAIN stream /\ Current(w) \in Nat
         /\ Job(w) \in Jobs /\ Attempt(w) \in 1 .. MaxRetries + 1
<1>1. worker[w].inbox \subseteq 1 .. cursor
  BY DEF JobTypeOK
<1>2. worker[w].inbox \subseteq Nat
  BY <1>1, Positions
<1>3. Current(w) \in worker[w].inbox
  BY <1>2, MinBelongs DEF Current
<1>4. Current(w) \in DOMAIN stream
  BY <1>1, <1>3, Positions
<1> QED
  BY <1>1, <1>2, <1>3, <1>4, Positions DEF Job, Attempt, Entries

\* XADD leaves the entries that are there as they are.
LEMMA AddedEntry ==
  ASSUME JobTypeOK, NEW e \in Entries, stream' = Append(stream, e)
  PROVE  /\ stream' \in Seq(Entries) /\ Len(stream') = Len(stream) + 1
         /\ DOMAIN stream' = 1 .. Len(stream) + 1
         /\ \A i \in DOMAIN stream : i \in DOMAIN stream' /\ stream'[i] = stream[i]
         /\ stream'[Len(stream) + 1] = e
<1>1. stream \in Seq(Entries)
  BY DEF JobTypeOK, Entries
<1>2. /\ stream' \in Seq(Entries) /\ Len(stream') = Len(stream) + 1
      /\ \A i \in 1 .. Len(stream) : stream'[i] = stream[i]
      /\ stream'[Len(stream) + 1] = e
  BY <1>1, AppendProperties
<1>3. DOMAIN stream' = 1 .. Len(stream) + 1
  BY <1>2, LenProperties
<1> QED
  BY <1>2, <1>3, Positions

\* XREADGROUP goes on behind what was delivered or trimmed, and skips no other entry.
LEMMA ReadOn ==
  ASSUME JobTypeOK, JobAssumptions, NEW w \in Workers, Read(w)
  PROVE  \E ids \in SUBSET (1 .. cursor') :
           /\ Fetched(w, ids) /\ pending' = pending \union ids
           /\ cursor' \in Nat /\ cursor <= cursor' /\ cursor' <= Len(stream)
           /\ \A i \in Nat : cursor < i /\ i <= cursor' => i \in ids \/ i <= trimmed
<1> DEFINE first == Max({cursor, trimmed}) + 1
           last == Min({first + Count - 1, Len(stream)})
           ids == first .. last
<1>1. /\ cursor \in Nat /\ trimmed \in Nat /\ Len(stream) \in Nat
      /\ cursor <= Len(stream) /\ trimmed <= Len(stream) /\ Count \in Nat /\ Count > 0
  BY Positions DEF JobAssumptions, CountAssumption
<1>2. /\ first \in Nat /\ first > 0 /\ cursor < first /\ trimmed < first
      /\ first <= Len(stream) + 1 /\ first - 1 \in {cursor, trimmed}
  <2>1. /\ Max({cursor, trimmed}) \in {cursor, trimmed}
        /\ cursor <= Max({cursor, trimmed}) /\ trimmed <= Max({cursor, trimmed})
    <3>1. cursor \in Int /\ trimmed \in Int
      BY <1>1
    <3> HIDE DEF first
    <3> QED
      BY <3>1, MaxOfTwo
  <2> DEFINE top == Max({cursor, trimmed})
  <2> HIDE DEF top
  <2>2. top \in {cursor, trimmed} /\ cursor <= top /\ trimmed <= top
    BY <2>1 DEF top
  <2> QED
    BY <1>1, <2>2 DEF top
<1>3. cursor' = last /\ Fetched(w, ids) /\ pending' = pending \union ids
  BY DEF Read
<1> HIDE DEF first
<1>4. first + Count - 1 \in Int /\ last \in {first + Count - 1, Len(stream)} /\ last <= Len(stream)
  <2>1. first + Count - 1 \in Int /\ Len(stream) \in Int
    BY <1>1, <1>2
  <2> DEFINE end == first + Count - 1
  <2> HIDE DEF end
  <2>2. /\ Min({end, Len(stream)}) \in {end, Len(stream)}
        /\ Min({end, Len(stream)}) <= Len(stream)
    BY <2>1, MinOfTwo DEF end
  <2> QED
    BY <2>1, <2>2 DEF end
<1> HIDE DEF last
<1>5. last \in Nat /\ cursor <= last /\ ids \subseteq 1 .. last
  BY <1>1, <1>2, <1>4
<1>6. \A i \in Nat : cursor < i /\ i <= last => i \in ids \/ i <= trimmed
  BY <1>1, <1>2, <1>4
<1> QED
  BY <1>3, <1>4, <1>5, <1>6

-----------------------------------------------------------------------------
LEMMA JobInvInit == JobInit => JobInv
<1> SUFFICES ASSUME JobInit PROVE JobInv
  OBVIOUS
<1>0. JobAssumptions
  BY CountAssumption, BoundsAssumption DEF JobAssumptions
<1>1. /\ stream = << >> /\ Len(stream) = 0 /\ cursor = 0 /\ trimmed = 0 /\ pending = {}
      /\ dead = {} /\ jobFaults = 0 /\ reported = {} /\ outbox = {} /\ trimmer = "idle"
      /\ dispatcher = DispatcherIdle
  BY DEF JobInit
<1>2. worker = [w \in Workers |-> WorkerFresh] /\ \A j \in Jobs : status[j] = "none"
  BY DEF JobInit
<1>3. JobTypeOK
  <2>1. worker \in [Workers -> [inbox : SUBSET (1 .. cursor), step : Steps]]
    BY <1>2 DEF WorkerFresh, Steps
  <2>2. status \in [Jobs -> JobStatus]
    BY DEF JobInit, JobStatus
  <2> QED
    BY <1>0, <1>1, <2>1, <2>2, EmptySeq DEF JobTypeOK, DispatcherIdle, JobAssumptions,
                                      BoundsAssumption
<1> QED
  BY <1>0, <1>1, <1>2, <1>3 DEF JobInv, JobAssumptions, JobsAreKept, SentIsKept, StepIsSafe,
                          TrimLeavesMaxLen, WorkerFresh, DispatcherIdle, At

-----------------------------------------------------------------------------
LEMMA TypeDispatching ==
  ASSUME JobInv, \/ \E j \in Jobs : InvokeJob(j)
                 \/ Dispatching \/ DispatchLost
  PROVE  JobTypeOK'
<1> USE DEF dispatchVars, trimVars, groupVars
<1>0. JobTypeOK /\ JobAssumptions
  BY DEF JobInv
<1> DEFINE D == [todo : SUBSET Jobs, sent : SUBSET Jobs, read : SUBSET Jobs, dirty : SUBSET Jobs]
<1>1. ASSUME NEW j \in Jobs, InvokeJob(j) PROVE JobTypeOK'
  BY <1>0, <1>1 DEF InvokeJob, JobTypeOK, JobStatus
<1>2. CASE DispatchBegin
  <2>1. dispatcher' \in D
    BY <1>0, <1>2 DEF DispatchBegin, DispatcherIdle, JobTypeOK
  <2> QED
    BY <1>0, <1>2, <2>1 DEF DispatchBegin, JobTypeOK
<1>3. ASSUME NEW j \in Jobs, DispatchSend(j) PROVE JobTypeOK'
  <2>1. dispatcher' \in D
    BY <1>0, <1>3 DEF DispatchSend, JobTypeOK
  <2>2. Entry(j, 1) \in Entries
    BY <1>0 DEF Entry, Entries, JobAssumptions, BoundsAssumption
  <2>3. stream' \in Seq(Entries) /\ Len(stream') = Len(stream) + 1
    BY <1>0, <1>3, <2>2, AddedEntry DEF DispatchSend
  <2>4. cursor \in 0 .. Len(stream') /\ trimmed \in 0 .. Len(stream')
    BY <1>0, <2>3, Positions
  <2> QED
    BY <1>0, <1>3, <2>1, <2>3, <2>4 DEF DispatchSend, JobTypeOK, Entries
<1>4. ASSUME NEW j \in Jobs, DispatchRead(j) PROVE JobTypeOK'
  <2>1. dispatcher' \in D
    BY <1>0, <1>4 DEF DispatchRead, JobTypeOK
  <2> QED
    BY <1>0, <1>4, <2>1 DEF DispatchRead, JobTypeOK
<1>5. CASE DispatchCommit
  <2>1. dispatcher' \in D
    BY <1>5 DEF DispatchCommit, DispatcherIdle
  <2>2. status' \in [Jobs -> JobStatus]
    BY <1>0, <1>5 DEF DispatchCommit, JobTypeOK, JobStatus
  <2> QED
    BY <1>0, <1>5, <2>1, <2>2 DEF DispatchCommit, JobTypeOK
<1>6. CASE DispatchLost
  <2>1. dispatcher' \in D
    BY <1>6 DEF DispatchLost, DispatcherIdle
  <2>2. jobFaults' \in 0 .. MaxJobFaults
    BY <1>0, <1>6 DEF DispatchLost, JobFault, JobTypeOK, JobAssumptions,
                      BoundsAssumption
  <2> QED
    BY <1>0, <1>6, <2>1, <2>2 DEF DispatchLost, JobTypeOK
<1> QED
  BY <1>1, <1>2, <1>3, <1>4, <1>5, <1>6 DEF Dispatching

\* A worker that goes to another step or another batch keeps the type of its record.
LEMMA TypeMove ==
  ASSUME JobTypeOK, NEW w \in Workers, NEW step \in Steps, NEW ids \in SUBSET (1 .. cursor'),
         cursor \in Nat, cursor' \in Nat, cursor <= cursor',
         \/ GoTo(w, step) \/ NextEntry(w) \/ Fetched(w, ids)
         \/ worker' = [worker EXCEPT ![w] = WorkerFresh]
  PROVE  worker' \in [Workers -> [inbox : SUBSET (1 .. cursor'), step : Steps]]
<1> DEFINE R == [inbox : SUBSET (1 .. cursor'), step : Steps]
<1>1. worker \in [Workers -> R]
  BY DEF JobTypeOK
<1>2. CASE GoTo(w, step)
  BY <1>1, <1>2 DEF GoTo
<1>3. CASE NextEntry(w)
  <2>1. "handle" \in Steps
    BY DEF Steps
  <2>2. worker[w].inbox \ {Current(w)} \in SUBSET (1 .. cursor')
    BY <1>1
  <2>3. /\ worker' = [worker EXCEPT ![w] = worker'[w]]
        /\ worker'[w].inbox = worker[w].inbox \ {Current(w)} /\ worker'[w].step = "handle"
        /\ worker'[w] = [inbox |-> worker'[w].inbox, step |-> worker'[w].step]
    BY <1>1, <1>3 DEF NextEntry
  <2>4. worker'[w] \in R
    <3> DEFINE r == worker'[w]
    <3>1. r.inbox \in SUBSET (1 .. cursor') /\ r.step \in Steps
          /\ r = [inbox |-> r.inbox, step |-> r.step]
      BY <2>1, <2>2, <2>3
    <3> HIDE DEF r
    <3>2. r \in R
      BY <3>1
    <3> QED
      BY <3>2 DEF r
  <2> HIDE DEF R
  <2>5. worker' \in [Workers -> R]
    BY <1>1, <2>3, <2>4
  <2> QED
    BY <2>5 DEF R
<1>4. CASE Fetched(w, ids)
  BY <1>1, <1>4 DEF Fetched
<1>5. CASE worker' = [worker EXCEPT ![w] = WorkerFresh]
  BY <1>1, <1>5 DEF WorkerFresh, Steps
<1> QED
  BY <1>2, <1>3, <1>4, <1>5

LEMMA TypeWorking ==
  ASSUME JobInv, NEW w \in Workers, Fetching(w) \/ Handling(w) \/ WorkerCrash(w)
  PROVE  JobTypeOK'
<1> USE DEF dispatchVars, trimVars, BackendUnchanged, WorkerStep
<1>0. /\ JobTypeOK /\ JobAssumptions
      /\ cursor \in Nat /\ cursor <= Len(stream) /\ trimmed \in Nat /\ Len(stream) \in Nat
  BY Positions DEF JobInv
<1>S. /\ "success" \in Steps /\ "failure" \in Steps /\ "requeue" \in Steps
      /\ "park" \in Steps
      /\ "ack" \in Steps /\ "handle" \in Steps
  BY DEF Steps
<1>W. ASSUME NEW step \in Steps, cursor' = cursor,
             \/ GoTo(w, step) \/ NextEntry(w)
             \/ worker' = [worker EXCEPT ![w] = WorkerFresh]
      PROVE  worker' \in [Workers -> [inbox : SUBSET (1 .. cursor'), step : Steps]]
  <2>1. {} \in SUBSET (1 .. cursor') /\ cursor' \in Nat /\ cursor <= cursor'
    BY <1>0, <1>W
  <2> QED
    BY <1>0, <1>W, <2>1, TypeMove
<1>1. ASSUME NEW ids \in SUBSET pending, Recover(w, ids) PROVE JobTypeOK'
  <2>1. pending \subseteq 1 .. cursor /\ cursor' = cursor
    BY <1>0, <1>1 DEF JobTypeOK, Recover
  <2>2. ids \in SUBSET (1 .. cursor') /\ cursor' \in Nat /\ cursor <= cursor' /\ Fetched(w, ids)
    BY <1>0, <1>1, <2>1 DEF Recover
  <2>3. worker' \in [Workers -> [inbox : SUBSET (1 .. cursor'), step : Steps]]
    BY <1>0, <1>S, <2>2, TypeMove
  <2> QED
    BY <1>0, <1>1, <2>1, <2>3 DEF Recover, JobTypeOK
<1>2. CASE Read(w)
  <2>1. PICK ids \in SUBSET (1 .. cursor') :
          /\ Fetched(w, ids) /\ pending' = pending \union ids
          /\ cursor' \in Nat /\ cursor <= cursor' /\ cursor' <= Len(stream)
    BY <1>0, <1>2, ReadOn
  <2>2. worker' \in [Workers -> [inbox : SUBSET (1 .. cursor'), step : Steps]]
    BY <1>0, <1>S, <2>1, TypeMove
  <2>3. pending' \subseteq 1 .. cursor' /\ dead \subseteq 1 .. cursor'
    BY <1>0, <2>1 DEF JobTypeOK
  <2>4. /\ UNCHANGED << status, outbox, dispatcher, stream, trimmed, trimmer, dead, reported, jobFaults >>
    BY <1>2 DEF Read
  <2> QED
    BY <1>0, <2>1, <2>2, <2>3, <2>4 DEF JobTypeOK
<1>3. CASE ExecuteJob(w)
  BY <1>0, <1>3, <1>S, <1>W DEF ExecuteJob, AfterTransient, JobTypeOK
<1>4. CASE Requeue(w)
  <2>1. Entry(Job(w), Attempt(w) + 1) \in Entries
    <3>1. Attempt(w) <= MaxRetries
      BY <1>4 DEF Requeue, JobInv, StepIsSafe, MayRetry
    <3> QED
      BY <1>0, <1>4, <3>1, CurrentEntry DEF Requeue, At, Entry, Entries,
                                            JobAssumptions, BoundsAssumption
  <2>2. stream' \in Seq(Entries) /\ Len(stream') = Len(stream) + 1
    BY <1>0, <1>4, <2>1, AddedEntry DEF Requeue
  <2>3. cursor \in 0 .. Len(stream') /\ trimmed \in 0 .. Len(stream')
    BY <1>0, <2>2, Positions
  <2>4. worker' \in [Workers -> [inbox : SUBSET (1 .. cursor'), step : Steps]]
    BY <1>4, <1>S, <1>W DEF Requeue
  <2> QED
    BY <1>0, <1>4, <2>2, <2>3, <2>4 DEF Requeue, JobTypeOK, Entries
<1>R. ASSUME NEW outcome \in Terminal, RecordResult(Job(w), outcome), worker[w].inbox # {}
      PROVE  status' \in [Jobs -> JobStatus] /\ reported' \subseteq Jobs
  <2>1. Job(w) \in Jobs
    BY <1>0, <1>R, CurrentEntry
  <2> QED
    BY <1>0, <1>R, <2>1 DEF RecordResult, JobTypeOK, JobStatus
<1>T. "succeeded" \in Terminal /\ "failed" \in Terminal
  BY DEF Terminal
<1>5. CASE ReportAccepted(w)
  <2>1. status' \in [Jobs -> JobStatus] /\ reported' \subseteq Jobs
    BY <1>5, <1>R, <1>T DEF ReportAccepted, At
  <2>2. worker' \in [Workers -> [inbox : SUBSET (1 .. cursor'), step : Steps]]
    BY <1>5, <1>S, <1>W DEF ReportAccepted
  <2> QED
    BY <1>0, <1>5, <2>1, <2>2 DEF ReportAccepted, JobTypeOK
<1>6. CASE ReportRaises(w)
  <2>1. status' \in [Jobs -> JobStatus] /\ reported' \subseteq Jobs
    BY <1>0, <1>6, <1>R, <1>T DEF ReportRaises, At, JobTypeOK
  <2>2. worker' \in [Workers -> [inbox : SUBSET (1 .. cursor'), step : Steps]]
    BY <1>6, <1>S, <1>W DEF ReportRaises, AfterLostReport
  <2> QED
    BY <1>0, <1>6, <2>1, <2>2 DEF ReportRaises, JobTypeOK
<1>7. CASE Park(w)
  <2>1. Current(w) \in 1 .. cursor
    BY <1>0, <1>7, CurrentEntry DEF Park, At
  <2>2. worker' \in [Workers -> [inbox : SUBSET (1 .. cursor'), step : Steps]]
    BY <1>7, <1>S, <1>W DEF Park
  <2> QED
    BY <1>0, <1>7, <2>1, <2>2 DEF Park, JobTypeOK
<1>8. CASE Acknowledge(w)
  <2>2. worker' \in [Workers -> [inbox : SUBSET (1 .. cursor'), step : Steps]]
    BY <1>8, <1>S, <1>W DEF Acknowledge
  <2> QED
    BY <1>0, <1>8, <2>2 DEF Acknowledge, JobTypeOK
<1>9. CASE WorkerCrash(w)
  <2>1. jobFaults' \in 0 .. MaxJobFaults
    BY <1>0, <1>9 DEF WorkerCrash, JobFault, JobTypeOK, JobAssumptions,
                      BoundsAssumption
  <2>2. worker' \in [Workers -> [inbox : SUBSET (1 .. cursor'), step : Steps]]
    BY <1>9, <1>S, <1>W DEF WorkerCrash
  <2> QED
    BY <1>0, <1>9, <2>1, <2>2 DEF WorkerCrash, JobTypeOK
<1> QED
  BY <1>1, <1>2, <1>3, <1>4, <1>5, <1>6, <1>7, <1>8, <1>9 DEF Fetching, Handling

LEMMA TypeTrimming ==
  ASSUME JobInv, TrimCheck \/ Trim \/ UNCHANGED jobVars
  PROVE  JobTypeOK' /\ TrimLeavesMaxLen'
<1> USE DEF dispatchVars, trimVars, groupVars
<1>0. JobTypeOK /\ JobAssumptions /\ TrimLeavesMaxLen
  BY DEF JobInv
<1>1. CASE TrimCheck
  BY <1>0, <1>1 DEF TrimCheck, JobTypeOK, TrimLeavesMaxLen
<1>2. CASE Trim
  <2> DEFINE a == Len(stream) - MaxLen
             top == Max({trimmed, a})
  <2>1. trimmed \in Nat /\ Len(stream) \in Nat /\ MaxLen \in Nat /\ trimmed <= Len(stream)
    BY <1>0, Positions DEF JobAssumptions, BoundsAssumption
  <2>2. trimmed \in Int /\ a \in Int
    BY <2>1
  <2>3. trimmed' \in trimmed .. top
    BY <1>2 DEF Trim
  <2> HIDE DEF a
  <2>4. top \in {trimmed, a} /\ trimmed <= top
    BY <2>2, MaxOfTwo
  <2> HIDE DEF top
  <2>5. trimmed' \in 0 .. Len(stream) /\ (trimmed' > 0 => trimmed' <= a)
    BY <1>0, <2>1, <2>2, <2>3, <2>4 DEF a, TrimLeavesMaxLen
  <2> QED
    BY <1>0, <1>2, <2>5 DEF a, Trim, JobTypeOK, TrimLeavesMaxLen
<1>3. CASE UNCHANGED jobVars
  BY <1>0, <1>3 DEF jobVars, JobTypeOK, TrimLeavesMaxLen
<1> QED
  BY <1>1, <1>2, <1>3

-----------------------------------------------------------------------------
\* Entries are never changed, what is trimmed or reported stays so.
LEMMA Growth ==
  ASSUME JobInv, [JobNext]_jobVars
  PROVE  /\ \A i \in DOMAIN stream : i \in DOMAIN stream' /\ stream'[i] = stream[i]
         /\ Len(stream) <= Len(stream') /\ Len(stream) \in Nat /\ Len(stream') \in Nat
         /\ reported \subseteq reported' /\ trimmed <= trimmed'
<1> USE DEF dispatchVars, trimVars, groupVars, BackendUnchanged, WorkerStep
<1>0. JobTypeOK /\ Len(stream) \in Nat /\ trimmed \in Nat
  BY Positions DEF JobInv
<1> DEFINE Grown == /\ \A i \in DOMAIN stream : i \in DOMAIN stream' /\ stream'[i] = stream[i]
                    /\ Len(stream) <= Len(stream') /\ Len(stream') \in Nat
<1>1. ASSUME NEW e \in Entries, stream' = Append(stream, e)
      PROVE  Grown
  BY <1>0, <1>1, AddedEntry
<1>2. ASSUME stream' = stream PROVE Grown
  BY <1>0, <1>2
<1>3. ASSUME NEW j \in Jobs, DispatchSend(j)
      PROVE  Grown /\ reported' = reported /\ trimmed' = trimmed
  <2>1. Entry(j, 1) \in Entries
    BY DEF Entry, Entries, JobInv, JobAssumptions, BoundsAssumption
  <2> QED
    BY <1>1, <1>3, <2>1 DEF DispatchSend
<1>4. ASSUME NEW w \in Workers, Requeue(w)
      PROVE  Grown /\ reported' = reported /\ trimmed' = trimmed
  <2>1. Attempt(w) <= MaxRetries
    BY <1>4 DEF Requeue, JobInv, StepIsSafe, MayRetry
  <2>2. Entry(Job(w), Attempt(w) + 1) \in Entries
    BY <1>0, <1>4, <2>1, CurrentEntry
       DEF Requeue, At, Entry, Entries, JobInv, JobAssumptions, BoundsAssumption
  <2> QED
    BY <1>1, <1>4, <2>2 DEF Requeue
<1>5. ASSUME Trim
      PROVE  Grown /\ reported' = reported /\ trimmed <= trimmed'
  <2>1. trimmed <= trimmed'
    <3> DEFINE top == Max({trimmed, Len(stream) - MaxLen})
    <3>1. trimmed' \in trimmed .. top
      BY <1>5 DEF Trim
    <3>2. top \in Int
      <4>1. trimmed \in Int /\ Len(stream) - MaxLen \in Int
        BY <1>0 DEF JobInv, JobAssumptions, BoundsAssumption
      <4>2. top \in {trimmed, Len(stream) - MaxLen}
        BY <4>1, MaxOfTwo
      <4> QED
        BY <4>1, <4>2
    <3> HIDE DEF top
    <3> QED
      BY <1>0, <3>1, <3>2
  <2> QED
    BY <1>2, <1>5, <2>1 DEF Trim
<1>6. ASSUME \/ UNCHANGED jobVars \/ \E j \in Jobs : InvokeJob(j) \/ DispatchRead(j)
             \/ DispatchBegin \/ DispatchCommit \/ DispatchLost \/ TrimCheck
      PROVE  Grown /\ reported' = reported /\ trimmed' = trimmed
  BY <1>0, <1>2, <1>6 DEF jobVars, InvokeJob, DispatchRead, DispatchBegin,
                          DispatchCommit, DispatchLost, TrimCheck
<1>7. ASSUME NEW w \in Workers,
             \/ Fetching(w) \/ ExecuteJob(w) \/ ReportAccepted(w) \/ ReportRaises(w)
             \/ Park(w) \/ Acknowledge(w) \/ WorkerCrash(w)
      PROVE  Grown /\ reported \subseteq reported' /\ trimmed' = trimmed
  <2>1. stream' = stream /\ reported \subseteq reported' /\ trimmed' = trimmed
    BY <1>7 DEF Fetching, Read, Recover, ExecuteJob, ReportAccepted,
                ReportRaises, RecordResult,
                Park, Acknowledge, WorkerCrash
  <2> QED
    BY <1>2, <2>1
<1> HIDE DEF Grown
<1>8. Grown /\ reported \subseteq reported' /\ trimmed <= trimmed'
  <2>1. trimmed <= trimmed
    BY <1>0
  <2> QED
    BY <2>1, <1>3, <1>4, <1>5, <1>6, <1>7 DEF JobNext, Dispatching, Handling
<1> QED
  BY <1>0, <1>8 DEF Grown

\* An entry leaves the pending list when a later one of its job was added, when the
\* job is reported, or when it is no longer in the stream.
LEMMA EntryStays ==
  ASSUME JobInv, [JobNext]_jobVars, NEW j, NEW n \in Nat, LiveAfter(j, n)
  PROVE  LiveAfter(j, n)'
<1> USE DEF dispatchVars, trimVars, groupVars
<1>0. /\ JobTypeOK /\ StepIsSafe /\ cursor \in Nat /\ trimmed \in Nat /\ DOMAIN stream \subseteq Nat
  BY Positions DEF JobInv
<1>1. /\ \A i \in DOMAIN stream : i \in DOMAIN stream' /\ stream'[i] = stream[i]
      /\ reported \subseteq reported' /\ trimmed <= trimmed'
  BY Growth
<1>T. trimmed' \in Nat
  BY TypeDispatching, TypeWorking, TypeTrimming, Positions DEF JobNext, JobTypeOK
<1>2. CASE j \in reported
  BY <1>1, <1>2 DEF LiveAfter
<1>3. CASE j \notin reported
  <2>1. PICK i \in DOMAIN stream : /\ i > n /\ stream[i].job = j
                                   /\ i > cursor \/ i \in pending \/ i <= trimmed
    BY <1>3 DEF LiveAfter
  <2>N. i \in Nat /\ (i <= trimmed => i <= trimmed')
    BY <1>0, <1>1, <1>T, <2>1
  <2>G. /\ i \in DOMAIN stream' /\ i > n /\ stream'[i].job = j
        /\ (i > cursor' \/ i \in pending' \/ i <= trimmed') => LiveAfter(j, n)'
    <3>1. i \in DOMAIN stream' /\ stream'[i] = stream[i]
      BY <1>1, <2>1, Zenon
    <3>2. i > n /\ stream'[i].job = j
      BY <2>1, <3>1, Zenon
    <3> QED
      BY <3>1, <3>2 DEF LiveAfter
  <2>2. CASE \E w \in Workers : Read(w)
    <3>1. PICK w \in Workers : Read(w)
      BY <2>2
    <3>2. PICK ids : /\ pending' = pending \union ids /\ cursor' \in Nat
                     /\ \A k \in Nat : cursor < k /\ k <= cursor' => k \in ids \/ k <= trimmed
      BY <1>0, <3>1, ReadOn DEF JobInv
    <3>3. i > cursor' \/ i \in pending' \/ i <= trimmed'
      BY <1>0, <2>1, <2>N, <3>2
    <3> QED
      BY <2>G, <3>3
  <2>3. CASE \E w \in Workers : Acknowledge(w)
    <3>1. PICK w \in Workers : Acknowledge(w)
      BY <2>3
    <3>2. /\ cursor' = cursor /\ pending' = pending \ {Current(w)} /\ At(w, "ack")
      BY <3>1 DEF Acknowledge
    <3>3. CASE i # Current(w)
      BY <2>G, <2>1, <2>N, <3>2, <3>3
    <3>4. CASE i = Current(w)
      <4>1. LiveAfter(j, i)
        <5>1. LiveAfter(Job(w), Current(w))
          BY <1>0, <3>2 DEF StepIsSafe
        <5>2. Job(w) = j
          BY <2>1, <3>4, Zenon DEF Job
        <5> QED
          BY <3>4, <5>1, <5>2, Zenon
      <4>2. PICK k \in DOMAIN stream : /\ k > i /\ stream[k].job = j
                                       /\ k > cursor \/ k \in pending \/ k <= trimmed
        BY <1>3, <4>1 DEF LiveAfter
      <4>3. k \in Nat /\ k > n /\ k # Current(w) /\ (k <= trimmed => k <= trimmed')
        <5>1. k \in Nat /\ k > i /\ i > n
          BY <1>0, <2>1, <4>2, Zenon
        <5> QED
          BY <1>0, <1>1, <1>T, <2>N, <3>4, <5>1
      <4>4. k \in DOMAIN stream' /\ stream'[k].job = j
        <5>1. k \in DOMAIN stream' /\ stream'[k] = stream[k]
          BY <1>1, <4>2, Zenon
        <5> QED
          BY <4>2, <5>1, Zenon
      <4>5. k > cursor' \/ k \in pending' \/ k <= trimmed'
        BY <3>2, <4>2, <4>3
      <4> QED
        BY <4>3, <4>4, <4>5 DEF LiveAfter
    <3> QED
      BY <3>3, <3>4
  <2>4. CASE \E w \in Workers, ids \in SUBSET pending : Recover(w, ids)
    <3>1. cursor' = cursor /\ pending' = pending \ (1 .. trimmed)
      BY <2>4 DEF Recover
    <3>2. i > cursor \/ i \in pending' \/ i <= trimmed'
      BY <1>0, <2>1, <2>N, <3>1
    <3> QED
      BY <2>G, <3>1, <3>2
  <2>5. CASE ~(\E w \in Workers : Read(w) \/ Acknowledge(w) \/ \E ids \in SUBSET pending : Recover(w, ids))
    <3>1. UNCHANGED << cursor, pending >>
      BY <2>5 DEF JobNext, jobVars, InvokeJob, Dispatching, DispatchBegin,
                  DispatchSend, DispatchRead,
                  DispatchCommit, DispatchLost, Fetching, Handling,
                  ExecuteJob, Requeue,
                  ReportAccepted, ReportRaises, Park, WorkerCrash,
                  TrimCheck, Trim
    <3> QED
      BY <2>G, <2>1, <2>N, <3>1
  <2> QED
    BY <2>2, <2>3, <2>4, <2>5
<1> QED
  BY <1>2, <1>3

-----------------------------------------------------------------------------
Stays(w) == worker'[w] = worker[w]

\* A step is of one worker at most; the others keep their batch and their place.
LEMMA OthersStay ==
  ASSUME JobInv, NEW w \in Workers, Fetching(w) \/ Handling(w) \/ WorkerCrash(w)
  PROVE  \A x \in Workers : x # w => Stays(x)
<1>1. JobTypeOK
  BY DEF JobInv
<1> QED
  BY <1>1 DEF Fetching, Handling, Recover, Read, Fetched, ExecuteJob,
              Requeue, ReportAccepted,
              ReportRaises, AfterLostReport, Park, Acknowledge,
              WorkerCrash, GoTo, NextEntry,
              Stays, JobTypeOK

LEMMA AllStay ==
  ASSUME [JobNext]_jobVars, ~(\E w \in Workers : Fetching(w) \/ Handling(w) \/ WorkerCrash(w))
  PROVE  \A x \in Workers : Stays(x)
BY DEF JobNext, InvokeJob, Dispatching, DispatchBegin, DispatchSend,
       DispatchRead, DispatchCommit,
       DispatchLost, TrimCheck, Trim, groupVars, jobVars, Stays

\* What StepIsSafe says of one worker.
SafeAt(w) ==
  /\ worker[w].inbox = {} => worker[w].step = "handle"
  /\ At(w, "requeue") => MayRetry(Attempt(w))
  /\ At(w, "park") => Job(w) \in reported
  /\ At(w, "ack") => LiveAfter(Job(w), Current(w))

\* A worker that is not at one of those steps has nothing to show for it.
LEMMA SafeElsewhere ==
  ASSUME NEW w \in Workers,
         \/ worker'[w].step = "handle"
         \/ worker'[w].step \in {"success", "failure"} /\ worker'[w].inbox # {}
  PROVE  SafeAt(w)'
BY DEF SafeAt, At

LEMMA StepNext == JobInv /\ [JobNext]_jobVars => StepIsSafe'
<1> SUFFICES ASSUME JobInv, [JobNext]_jobVars, NEW x \in Workers PROVE SafeAt(x)'
  BY DEF StepIsSafe, SafeAt
<1>0. JobTypeOK /\ SafeAt(x)
  BY DEF JobInv, StepIsSafe, SafeAt
<1>1. /\ \A i \in DOMAIN stream : i \in DOMAIN stream' /\ stream'[i] = stream[i]
      /\ reported \subseteq reported'
  BY Growth
<1>2. CASE Stays(x)
  <2>1. /\ Current(x)' = Current(x) /\ \A step : At(x, step)' <=> At(x, step)
        /\ worker'[x] = worker[x]
    BY <1>2 DEF Stays, Current, At
  <2>2. CASE worker[x].inbox = {}
    BY <1>0, <2>1, <2>2 DEF SafeAt, At
  <2>3. CASE worker[x].inbox # {}
    <3>1. Current(x) \in DOMAIN stream /\ Current(x) \in Nat
      BY <1>0, <2>3, CurrentEntry
    <3>2. Job(x)' = Job(x) /\ Attempt(x)' = Attempt(x)
      BY <1>1, <2>1, <3>1 DEF Job, Attempt
    <3>3. LiveAfter(Job(x), Current(x)) => LiveAfter(Job(x), Current(x))'
      <4>1. PICK j \in Jobs, n \in Nat : j = Job(x) /\ n = Current(x)
        BY <1>0, <2>3, <3>1, CurrentEntry
      <4>2. LiveAfter(j, n) => LiveAfter(j, n)'
        BY EntryStays
      <4>3. Job(x)' = j /\ Current(x)' = n
        BY <2>1, <3>2, <4>1
      <4> QED
        BY <4>1, <4>2, <4>3 DEF LiveAfter
    <3> QED
      BY <1>0, <1>1, <2>1, <3>2, <3>3, <2>3 DEF SafeAt, MayRetry, LiveAfter
  <2> QED
    BY <2>2, <2>3
<1>3. CASE ~Stays(x)
  <2>1. Fetching(x) \/ Handling(x) \/ WorkerCrash(x)
    BY <1>3, AllStay, OthersStay
  <2>2. CASE Fetching(x)
    <3>1. worker'[x].step = "handle"
      BY <1>0, <2>2 DEF Fetching, Read, Recover, Fetched, SafeAt, JobTypeOK
    <3> QED
      BY <3>1, SafeElsewhere
  <2>3. CASE ReportRaises(x) \/ Acknowledge(x) \/ WorkerCrash(x)
    <3>1. worker'[x].step = "handle"
      BY <1>0, <2>3 DEF ReportRaises, AfterLostReport, Acknowledge,
                        WorkerCrash, NextEntry,
                        WorkerFresh, JobTypeOK
    <3> QED
      BY <3>1, SafeElsewhere
  <2>4. ASSUME NEW step \in Steps, GoTo(x, step), worker[x].inbox # {}
        PROVE  /\ worker'[x].step = step /\ worker'[x].inbox = worker[x].inbox
               /\ Current(x)' = Current(x) /\ Job(x)' = Job(x)
               /\ Attempt(x)' = Attempt(x)
               /\ Current(x) \in DOMAIN stream /\ Current(x) \in Nat
    <3>1. worker'[x].step = step /\ worker'[x].inbox = worker[x].inbox
      BY <1>0, <2>4 DEF GoTo, JobTypeOK
    <3>2. Current(x)' = Current(x)
      BY <3>1 DEF Current
    <3>3. Current(x) \in DOMAIN stream /\ Current(x) \in Nat
      BY <1>0, <2>4, CurrentEntry
    <3> QED
      BY <1>1, <3>1, <3>2, <3>3 DEF Job, Attempt
  <2>S. /\ "success" \in Steps /\ "failure" \in Steps /\ "requeue" \in Steps
        /\ "park" \in Steps
        /\ "ack" \in Steps
    BY DEF Steps
  <2>5. CASE ExecuteJob(x)
    <3>1. worker[x].inbox # {}
      BY <2>5 DEF ExecuteJob, At
    <3>2. CASE GoTo(x, "success") \/ GoTo(x, "failure")
      BY <2>4, <2>S, <3>1, <3>2, SafeElsewhere
    <3>3. CASE MayRetry(Attempt(x)) /\ GoTo(x, "requeue")
      <4>1. worker'[x].step = "requeue" /\ worker'[x].inbox # {} /\ Attempt(x)' = Attempt(x)
        BY <2>4, <2>S, <3>1, <3>3
      <4> QED
        BY <3>3, <4>1 DEF SafeAt, At, MayRetry
    <3> QED
      BY <2>5, <3>2, <3>3 DEF ExecuteJob, AfterTransient
  <2>6. CASE Requeue(x)
    <3>1. worker[x].inbox # {} /\ GoTo(x, "ack") /\ At(x, "requeue")
      BY <2>6 DEF Requeue, At
    <3>2. /\ worker'[x].step = "ack" /\ worker'[x].inbox # {} /\ Current(x)' = Current(x)
          /\ Job(x)' = Job(x) /\ Current(x) \in DOMAIN stream /\ Current(x) \in Nat
      BY <2>4, <2>S, <3>1
    <3>3. Entry(Job(x), Attempt(x) + 1) \in Entries
      <4>1. Attempt(x) <= MaxRetries
        BY <1>0, <3>1 DEF SafeAt, MayRetry
      <4> QED
        BY <1>0, <3>1, <4>1, CurrentEntry
           DEF Entry, Entries, JobInv, JobAssumptions, BoundsAssumption
    <3>4. /\ DOMAIN stream' = 1 .. Len(stream) + 1
          /\ stream'[Len(stream) + 1] = Entry(Job(x), Attempt(x) + 1)
      BY <1>0, <2>6, <3>3, AddedEntry DEF Requeue
    <3>5. /\ Len(stream) + 1 \in DOMAIN stream' /\ Len(stream) + 1 > Current(x)
          /\ Len(stream) + 1 > cursor'
      BY <1>0, <2>6, <3>2, <3>4, Positions DEF Requeue
    <3>6. stream'[Len(stream) + 1].job = Job(x)
      BY <3>4 DEF Entry
    <3>7. LiveAfter(Job(x), Current(x))'
      BY <3>2, <3>5, <3>6 DEF LiveAfter
    <3> QED
      BY <3>2, <3>7 DEF SafeAt, At
  <2>7. CASE ReportAccepted(x)
    <3>1. worker[x].inbox # {} /\ (GoTo(x, "ack") \/ GoTo(x, "park")) /\ Job(x) \in reported'
      BY <2>7 DEF ReportAccepted, RecordResult, At
    <3>2. /\ worker'[x].step \in {"ack", "park"} /\ worker'[x].inbox # {} /\ Job(x)' = Job(x)
      BY <2>4, <2>S, <3>1
    <3> QED
      BY <3>1, <3>2 DEF SafeAt, At, LiveAfter
  <2>8. CASE Park(x)
    <3>1. worker[x].inbox # {} /\ GoTo(x, "ack") /\ Job(x) \in reported'
      BY <1>0, <1>1, <2>8 DEF Park, At, SafeAt
    <3>2. /\ worker'[x].step = "ack" /\ worker'[x].inbox # {} /\ Job(x)' = Job(x)
      BY <2>4, <2>S, <3>1
    <3> QED
      BY <3>1, <3>2 DEF SafeAt, At, LiveAfter
  <2> QED
    BY <2>1, <2>2, <2>3, <2>5, <2>6, <2>7, <2>8 DEF Handling
<1> QED
  BY <1>2, <1>3

LEMMA SentNext == JobInv /\ [JobNext]_jobVars => SentIsKept'
<1> USE DEF dispatchVars
<1> SUFFICES ASSUME JobInv, [JobNext]_jobVars PROVE SentIsKept'
  OBVIOUS
<1>0. JobTypeOK /\ SentIsKept
  BY DEF JobInv
<1>1. ASSUME NEW j, LiveAfter(j, 0) PROVE LiveAfter(j, 0)'
  BY <1>1, EntryStays
<1>2. ASSUME NEW j \in Jobs, DispatchSend(j) PROVE SentIsKept'
  <2>1. Entry(j, 1) \in Entries
    BY DEF Entry, Entries, JobInv, JobAssumptions, BoundsAssumption
  <2>2. DOMAIN stream' = 1 .. Len(stream) + 1 /\ stream'[Len(stream) + 1] = Entry(j, 1)
    BY <1>0, <1>2, <2>1, AddedEntry DEF DispatchSend
  <2>3. /\ Len(stream) + 1 \in DOMAIN stream' /\ Len(stream) + 1 > 0
        /\ Len(stream) + 1 > cursor'
    BY <1>0, <1>2, <2>2, Positions DEF DispatchSend, groupVars
  <2>4. stream'[Len(stream) + 1].job = j
    BY <2>2 DEF Entry
  <2>5. LiveAfter(j, 0)'
    BY <2>3, <2>4 DEF LiveAfter
  <2>6. /\ dispatcher'.sent = {j} /\ dispatcher'.read = dispatcher.read
        /\ dispatcher'.dirty = dispatcher.dirty
    BY <1>0, <1>2 DEF DispatchSend, JobTypeOK
  <2> QED
    BY <1>0, <1>1, <2>5, <2>6 DEF SentIsKept
<1>3. ASSUME NEW j \in Jobs, DispatchRead(j) PROVE SentIsKept'
  <2>1. /\ dispatcher'.sent = {} /\ dispatcher'.read = dispatcher.read \union {j}
        /\ dispatcher'.dirty \subseteq dispatcher.dirty \union {j} /\ j \in dispatcher.sent
    BY <1>0, <1>3 DEF DispatchRead, JobTypeOK
  <2> QED
    BY <1>0, <1>1, <2>1 DEF SentIsKept
<1>4. CASE DispatchBegin \/ DispatchCommit \/ DispatchLost
  <2>1. dispatcher'.sent = {} /\ dispatcher'.read = {} /\ dispatcher'.dirty = {}
    BY <1>4 DEF DispatchBegin, DispatchCommit, DispatchLost, DispatcherIdle
  <2> QED
    BY <2>1 DEF SentIsKept
<1>5. CASE UNCHANGED dispatcher
  BY <1>0, <1>1, <1>5 DEF SentIsKept
<1>6. ASSUME \/ \E j \in Jobs : InvokeJob(j)
             \/ \E w \in Workers : Fetching(w) \/ Handling(w) \/ WorkerCrash(w)
             \/ TrimCheck \/ Trim \/ UNCHANGED jobVars
      PROVE  UNCHANGED dispatcher
  BY <1>6 DEF InvokeJob, Fetching, Handling, Recover, Read, ExecuteJob,
              Requeue, ReportAccepted,
              ReportRaises, Park, Acknowledge, WorkerCrash, WorkerStep,
              TrimCheck, Trim, jobVars
<1> QED
  BY <1>2, <1>3, <1>4, <1>5, <1>6 DEF JobNext, Dispatching

LEMMA KeptNext == JobInv /\ [JobNext]_jobVars => JobsAreKept'
<1> USE DEF dispatchVars
<1> SUFFICES ASSUME JobInv, [JobNext]_jobVars, NEW j \in Jobs, status'[j] # "none"
             PROVE  j \in outbox' \/ LiveAfter(j, 0)'
  BY DEF JobsAreKept
<1>0. JobTypeOK /\ SentIsKept /\ (status[j] # "none" => j \in outbox \/ LiveAfter(j, 0))
  BY DEF JobInv, JobsAreKept
<1>1. LiveAfter(j, 0) => LiveAfter(j, 0)'
  BY EntryStays
<1>2. ASSUME NEW k \in Jobs, InvokeJob(k) PROVE j \in outbox' \/ LiveAfter(j, 0)'
  BY <1>0, <1>1, <1>2 DEF InvokeJob, JobTypeOK
<1>3. CASE DispatchCommit
  <2>1. CASE j \in dispatcher.read
    BY <1>0, <1>1, <2>1 DEF SentIsKept
  <2>2. CASE j \notin dispatcher.read
    BY <1>0, <1>1, <1>3, <2>2 DEF DispatchCommit, SentIsKept
  <2> QED
    BY <2>1, <2>2
<1>4. ASSUME NEW w \in Workers, ReportAccepted(w) \/ ReportRaises(w)
      PROVE  j \in outbox' \/ LiveAfter(j, 0)'
  <2>1. outbox' = outbox
    BY <1>4 DEF ReportAccepted, ReportRaises, WorkerStep
  <2>2. status'[j] = status[j] \/ j \in reported'
    BY <1>0, <1>4 DEF ReportAccepted, ReportRaises, RecordResult,
                      BackendUnchanged, JobTypeOK
  <2> QED
    BY <1>0, <1>1, <2>1, <2>2 DEF LiveAfter
<1>5. ASSUME \/ DispatchBegin \/ \E k \in Jobs : DispatchSend(k) \/ DispatchRead(k)
             \/ DispatchLost \/ TrimCheck \/ Trim \/ UNCHANGED jobVars
             \/ \E w \in Workers : \/ Fetching(w) \/ ExecuteJob(w) \/ Requeue(w) \/ Park(w)
                                   \/ Acknowledge(w) \/ WorkerCrash(w)
      PROVE  status' = status /\ outbox' = outbox
  BY <1>5 DEF DispatchBegin, DispatchSend, DispatchRead, DispatchLost,
              TrimCheck, Trim, jobVars,
              Fetching, Recover, Read, ExecuteJob, Requeue, Park,
              Acknowledge, WorkerCrash,
              WorkerStep, BackendUnchanged
<1>6. CASE status' = status /\ outbox' = outbox
  BY <1>0, <1>1, <1>6
<1> QED
  BY <1>2, <1>3, <1>4, <1>5, <1>6 DEF JobNext, Dispatching, Handling

LEMMA TrimNext == JobInv /\ [JobNext]_jobVars => TrimLeavesMaxLen'
<1> SUFFICES ASSUME JobInv, [JobNext]_jobVars PROVE TrimLeavesMaxLen'
  OBVIOUS
<1>1. CASE Trim
  BY <1>1, TypeTrimming
<1>2. CASE ~Trim
  <2>1. trimmed' = trimmed
    BY <1>2 DEF JobNext, InvokeJob, Dispatching, DispatchBegin, DispatchSend,
                DispatchRead,
                DispatchCommit, DispatchLost, Fetching, Handling, Recover,
                Read, ExecuteJob,
                Requeue, ReportAccepted, ReportRaises, Park, Acknowledge,
                WorkerCrash,
                WorkerStep, TrimCheck, trimVars, jobVars
  <2>2. Len(stream) <= Len(stream') /\ Len(stream) \in Nat /\ Len(stream') \in Nat
    BY Growth
  <2>3. trimmed \in Nat /\ MaxLen \in Nat
    BY Positions DEF JobInv, JobAssumptions, BoundsAssumption
  <2> QED
    BY <2>1, <2>2, <2>3 DEF JobInv, TrimLeavesMaxLen
<1> QED
  BY <1>1, <1>2

LEMMA JobInvHolds == JobSpec => []JobInv
<1>1. JobInv /\ [JobNext]_jobVars => JobInv'
  <2> SUFFICES ASSUME JobInv, [JobNext]_jobVars PROVE JobInv'
    OBVIOUS
  <2>1. JobTypeOK'
    BY TypeDispatching, TypeWorking, TypeTrimming DEF JobNext
  <2>2. JobsAreKept' /\ SentIsKept' /\ StepIsSafe' /\ TrimLeavesMaxLen'
    BY KeptNext, SentNext, StepNext, TrimNext
  <2> QED
    BY <2>1, <2>2 DEF JobInv, JobAssumptions, CountAssumption, BoundsAssumption
<1> QED
  BY JobInvInit, <1>1, PTL DEF JobSpec

\* Every variable of a job's way keeps its type.
THEOREM JobTypeCorrect == JobSpec => []JobTypeOK
<1>1. JobInv => JobTypeOK
  BY DEF JobInv
<1> QED
  BY <1>1, JobInvHolds, PTL

\* A job that has no outcome yet is in the outbox, in the stream, or was trimmed.
THEOREM OnlyTrimmingLoses ==
  JobSpec =>
    [](\A j \in Jobs : status[j] # "none" =>
         \/ j \in outbox \union reported
         \/ \E i \in DOMAIN stream : stream[i].job = j /\ (i \in Live \/ i <= trimmed))
<1>1. JobInv => \A j \in Jobs : status[j] # "none" =>
                  \/ j \in outbox \union reported
                  \/ \E i \in DOMAIN stream : stream[i].job = j /\ (i \in Live \/ i <= trimmed)
  <2> SUFFICES ASSUME JobInv, NEW j \in Jobs, status[j] # "none",
                      j \notin outbox, j \notin reported
               PROVE  \E i \in DOMAIN stream : stream[i].job = j /\ (i \in Live \/ i <= trimmed)
    OBVIOUS
  <2>1. PICK i \in DOMAIN stream :
          stream[i].job = j /\ (i > cursor \/ i \in pending \/ i <= trimmed)
    BY DEF JobInv, JobsAreKept, LiveAfter
  <2>2. i \in Live \/ i <= trimmed
    BY <2>1, Positions DEF JobInv, Live
  <2> QED
    BY <2>1, <2>2
<1> QED
  BY <1>1, JobInvHolds, PTL

\* As long as the stream is not longer than maintenance trims it to, no job is lost.
THEOREM JobsAreNotLost ==
  JobSpec => [](Len(stream) <= MaxLen => JobNotLost)
<1>1. JobInv => (Len(stream) <= MaxLen => JobNotLost)
  <2> SUFFICES ASSUME JobInv, Len(stream) <= MaxLen, NEW j \in Jobs, status[j] # "none",
                      j \notin outbox, j \notin reported
               PROVE  \E i \in Live : stream[i].job = j
    BY DEF JobNotLost
  <2>1. PICK i \in DOMAIN stream :
          i > 0 /\ stream[i].job = j /\ (i > cursor \/ i \in pending \/ i <= trimmed)
    BY DEF JobInv, JobsAreKept, LiveAfter
  <2>2. trimmed = 0
    BY Positions DEF JobInv, TrimLeavesMaxLen, JobAssumptions, BoundsAssumption
  <2>3. i \in Live
    BY <2>1, <2>2, Positions DEF JobInv, Live
  <2> QED
    BY <2>1, <2>3
<1> QED
  BY <1>1, JobInvHolds, PTL

=============================================================================

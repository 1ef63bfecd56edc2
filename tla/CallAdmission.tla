---------------------------- MODULE CallAdmission ----------------------------
(***************************************************************************)
(* How a call comes into being: the voice agent claims an inbound SIP call *)
(* for its room, another service creates one by its provider's id, an      *)
(* administrator opens a test session.  The backend finds the tenant by    *)
(* the number that was called, has the control plane create an execution   *)
(* under a key made of the provider's id, and stores the call under unique *)
(* keys; a test session is given an agent by a dispatch at LiveKit,        *)
(* outside of any transaction.                                             *)
(*                                                                         *)
(* Requests with the same content are repetitions of each other, by the    *)
(* same client or by a second job of the agent.  A call is named by the    *)
(* request that stored it, a dispatch by the request that created it.  All *)
(* SIP calls are to one number, which operators move between tenants.      *)
(***************************************************************************)
EXTENDS Naturals

CONSTANTS
  Tenants, SipCalls,
  TestKeys,    \* idempotency keys of test sessions
  Admissions, Nothing,
  MaxMoves,    \* bound: changes of who has the number
  MaxFaults    \* bound: transactions, answers and processes lost

\* full: the agent knows the long form of the SIP call id as well.
Claims == [sip : SipCalls, full : BOOLEAN]
Creates == [id : SipCalls \X BOOLEAN]
Tests == [tenant : Tenants, key : TestKeys \union {Nothing}]
Asks == Claims \union Creates \union Tests

\* provider_call_id: the longest id of a SIP call, the key of a test session,
\* or a new id.
Keys == (SipCalls \X BOOLEAN) \union TestKeys \union Admissions

ASSUME KeysAssumption ==
  /\ (SipCalls \X BOOLEAN) \intersect (TestKeys \union Admissions) = {}
  /\ TestKeys \intersect Admissions = {}
ASSUME BoundsAssumption == MaxMoves \in Nat /\ MaxFaults \in Nat

VARIABLES
  route,       \* control plane: the tenant that has the number
  executions,  \* control plane: the tenant of the execution stored under a key
  calls,       \* backend: rows, by the request that stored them
  lock,        \* backend: who holds the row of a tenant
  req,         \* of each request [at, ask, tenant, call]
  dispatches,  \* LiveKit: dispatches there are
  abandoned,   \* calls on which a cleanup was lost or a process stopped
  moves, faults

admissionVars ==
  << route, executions, calls, lock, req, dispatches, abandoned, moves, faults >>

InTransaction == {"lookup", "route", "lock", "execute", "store"}
SettingUp == {"dispatch", "set", "drop", "clean", "fail"}
Ended == {"answered", "refused", "failed"}

Rows == [tenant : Tenants, key : Keys, sip : SipCalls \union {Nothing}, full : BOOLEAN,
         status : {"created", "started", "failed"}, dispatch : Admissions \union {Nothing}]

ASSUME NothingAssumption ==
  Nothing \notin Tenants \union SipCalls \union TestKeys \union Admissions \union Rows

AdmissionTypeOK ==
  /\ route \in Tenants \union {Nothing}
  /\ executions \in [Keys -> Tenants \union {Nothing}]
  /\ calls \in [Admissions -> Rows \union {Nothing}]
  /\ lock \in [Tenants -> Admissions \union {Nothing}]
  /\ req \in [Admissions -> [at : {"idle"} \union InTransaction \union SettingUp \union Ended,
                             ask : Asks \union {Nothing},
                             tenant : Tenants \union {Nothing},
                             call : Admissions \union {Nothing}]]
  /\ dispatches \subseteq Admissions /\ abandoned \subseteq Admissions
  /\ moves \in 0 .. MaxMoves /\ faults \in 0 .. MaxFaults

AdmissionInit ==
  /\ route \in Tenants \union {Nothing}
  /\ executions = [k \in Keys |-> Nothing]
  /\ calls = [c \in Admissions |-> Nothing]
  /\ lock = [t \in Tenants |-> Nothing]
  /\ req = [q \in Admissions |->
               [at |-> "idle", ask |-> Nothing, tenant |-> Nothing, call |-> Nothing]]
  /\ dispatches = {} /\ abandoned = {}
  /\ moves = 0 /\ faults = 0

-----------------------------------------------------------------------------
IsClaim(q) == req[q].ask \in Claims
IsTest(q) == req[q].ask \in Tests

Key(q) ==
  LET ask == req[q].ask IN
  CASE IsClaim(q) -> << ask.sip, ask.full >>
    [] ask \in Creates -> ask.id
    [] IsTest(q) -> IF ask.key = Nothing THEN q ELSE ask.key

\* The rows the unique indexes allow one of.
BySip(q) ==
  {c \in Admissions : calls[c] # Nothing /\ IsClaim(q) /\ calls[c].sip = req[q].ask.sip}
ByKey(q) == {c \in Admissions : calls[c] # Nothing /\ calls[c].key = Key(q)}

\* Mutant of Existing: rows are found by their provider id alone.
ExistingByKey(q) == ByKey(q)

\* _existing_for.
Existing(q) == IF BySip(q) # {} THEN BySip(q) ELSE ByKey(q)

\* What a repetition is compared with.  The numbers of a SIP call are those of
\* its first claim.
Fits(q, c) ==
  LET ask == req[q].ask IN
  CASE IsClaim(q) -> calls[c].sip = ask.sip
    [] ask \in Creates -> TRUE
    [] IsTest(q) -> calls[c].tenant = ask.tenant /\ calls[c].status = "created"

\* Mutant of ExecutionFits: an execution is answered to whoever has its key.
ExecutionFitsAnyone(q) == TRUE

\* The fingerprint of a stored execution contains its tenant.
ExecutionFits(q) == executions[Key(q)] \in {Nothing, req[q].tenant}

At(q, step) == req' = [req EXCEPT ![q].at = step]

Unlocked(q) == [t \in Tenants |-> IF lock[t] = q THEN Nothing ELSE lock[t]]

\* The request is over, and its transaction if one is open.
EndRequest(q, how) == At(q, how) /\ lock' = Unlocked(q)

Fault == faults < MaxFaults /\ faults' = faults + 1

-----------------------------------------------------------------------------
(***************************************************************************)
(* The number.  One assignment of it is enabled at most.                   *)
(***************************************************************************)
Enable(t) ==
  /\ route = Nothing /\ moves < MaxMoves
  /\ route' = t /\ moves' = moves + 1
  /\ UNCHANGED << executions, calls, lock, req, dispatches, abandoned, faults >>

Disable ==
  /\ route # Nothing /\ moves < MaxMoves
  /\ route' = Nothing /\ moves' = moves + 1
  /\ UNCHANGED << executions, calls, lock, req, dispatches, abandoned, faults >>

-----------------------------------------------------------------------------
(***************************************************************************)
(* The transaction that stores the call.                                   *)
(***************************************************************************)
Send(q, ask) ==
  /\ req[q].at = "idle"
  /\ req' = [req EXCEPT ![q] = [at |-> "lookup", ask |-> ask, call |-> Nothing,
                                tenant |-> IF ask \in Tests THEN ask.tenant ELSE Nothing]]
  /\ UNCHANGED << route, executions, calls, lock, dispatches, abandoned, moves, faults >>

\* The call is there: a claim is answered with it, and leaves the long id; a test
\* session goes on with it unless it has its dispatch.
Found(q, c) ==
  IF Fits(q, c)
  THEN /\ req' = [req EXCEPT ![q].call = c,
                             ![q].at = IF IsTest(q) /\ calls[c].dispatch = Nothing
                                       THEN "dispatch" ELSE "answered"]
       /\ calls' = IF IsClaim(q) THEN [calls EXCEPT ![c].full = @ \/ req[q].ask.full] ELSE calls
       /\ lock' = Unlocked(q)
  ELSE EndRequest(q, "refused") /\ UNCHANGED calls

Lookup(q) ==
  /\ req[q].at = "lookup"
  /\ LET found == IF IsClaim(q) THEN BySip(q) ELSE ByKey(q) IN
     \/ \E c \in found : Found(q, c)
     \/ /\ found = {}
        /\ At(q, IF IsTest(q) THEN "lock" ELSE "route")
        /\ UNCHANGED << calls, lock >>
  /\ UNCHANGED << route, executions, dispatches, abandoned, moves, faults >>

\* The control plane says whose number it is.
Route(q) ==
  /\ req[q].at = "route"
  /\ req' = [req EXCEPT ![q].at = IF route = Nothing THEN "refused" ELSE "lock",
                        ![q].tenant = route]
  /\ UNCHANGED << route, executions, calls, lock, dispatches, abandoned, moves, faults >>

Lock(q) ==
  /\ req[q].at = "lock" /\ lock[req[q].tenant] = Nothing
  /\ lock' = [lock EXCEPT ![req[q].tenant] = q]
  /\ At(q, "execute")
  /\ UNCHANGED << route, executions, calls, dispatches, abandoned, moves, faults >>

\* The control plane creates the execution, or finds it, in its own
\* transaction; or refuses, also because the tenant's configuration is wanting.
Execute(q) ==
  /\ req[q].at = "execute"
  /\ \/ /\ ExecutionFits(q)
        /\ executions' = [executions EXCEPT ![Key(q)] =
                            IF @ = Nothing THEN req[q].tenant ELSE @]
        /\ At(q, "store") /\ UNCHANGED lock
     \/ /\ executions[Key(q)] = Nothing \/ ~ExecutionFits(q)
        /\ EndRequest(q, "refused") /\ UNCHANGED executions
  /\ UNCHANGED << route, calls, dispatches, abandoned, moves, faults >>

NewCall(q) ==
  [tenant |-> req[q].tenant, key |-> Key(q), status |-> "created", dispatch |-> Nothing,
   sip |-> IF IsClaim(q) THEN req[q].ask.sip ELSE Nothing,
   full |-> IsClaim(q) /\ req[q].ask.full]

\* add_or_get and the commit.  An insert that meets another one's key waits for
\* it and reads again.
Store(q) ==
  /\ req[q].at = "store"
  /\ \/ \E c \in Existing(q) : Found(q, c)
     \/ /\ Existing(q) = {}
        /\ calls' = [calls EXCEPT ![q] = NewCall(q)]
        /\ req' = [req EXCEPT ![q].call = q,
                              ![q].at = IF IsTest(q) THEN "dispatch" ELSE "answered"]
        /\ lock' = Unlocked(q)
  /\ UNCHANGED << route, executions, dispatches, abandoned, moves, faults >>

\* The transaction is lost before it commits.  What the control plane has stored
\* stays.
Lose(q) ==
  /\ req[q].at \in InTransaction /\ Fault
  /\ EndRequest(q, "failed")
  /\ UNCHANGED << route, executions, calls, dispatches, abandoned, moves >>

-----------------------------------------------------------------------------
(***************************************************************************)
(* The dispatch of a test session.                                         *)
(***************************************************************************)
Other == << route, executions, lock, moves >>

Abandon(q) == abandoned' = abandoned \union {req[q].call}

CreateDispatch(q) ==
  /\ req[q].at = "dispatch"
  /\ dispatches' = dispatches \union {q}
  /\ At(q, "set")
  /\ UNCHANGED << Other, calls, abandoned, faults >>

\* LiveKit refuses, or its answer is lost: the request knows no dispatch.
CreateDispatchFails(q) ==
  /\ req[q].at = "dispatch" /\ Fault
  /\ dispatches' \in {dispatches, dispatches \union {q}}
  /\ At(q, "fail")
  /\ UNCHANGED << Other, calls, abandoned >>

\* Mutant of MaySetDispatch: the last dispatch is the one that is named.
MayAlwaysSetDispatch(c) == TRUE

MaySetDispatch(c) == calls[c].dispatch = Nothing

SetDispatch(q) ==
  LET c == req[q].call IN
  /\ req[q].at = "set"
  /\ IF MaySetDispatch(c)
     THEN calls' = [calls EXCEPT ![c].dispatch = q] /\ At(q, "answered")
     ELSE At(q, "drop") /\ UNCHANGED calls
  /\ UNCHANGED << Other, dispatches, abandoned, faults >>

\* The transaction fails, or has committed and its answer is lost.
SetDispatchFails(q) ==
  LET c == req[q].call IN
  /\ req[q].at = "set" /\ Fault
  /\ \/ UNCHANGED calls
     \/ calls[c].dispatch = Nothing /\ calls' = [calls EXCEPT ![c].dispatch = q]
  /\ At(q, "clean")
  /\ UNCHANGED << Other, dispatches, abandoned >>

\* Another request has given the call its dispatch: this one's is deleted, and
\* the call is read again.
DropDispatch(q) ==
  /\ req[q].at = "drop"
  /\ dispatches' = dispatches \ {q}
  /\ At(q, "answered")
  /\ UNCHANGED << Other, calls, abandoned, faults >>

\* LiveKit does not delete it, or the call cannot be read.
DropDispatchFails(q) ==
  /\ req[q].at = "drop" /\ Fault
  /\ \/ At(q, "answered") /\ Abandon(q) /\ UNCHANGED dispatches
     \/ At(q, "clean") /\ dispatches' = dispatches \ {q} /\ UNCHANGED abandoned
  /\ UNCHANGED << Other, calls >>

\* The dispatch is deleted, and the room, with whatever was dispatched to it.
Clean(q) ==
  /\ req[q].at = "clean"
  /\ dispatches' = {d \in dispatches : req[d].call # req[q].call}
  /\ At(q, "fail")
  /\ UNCHANGED << Other, calls, abandoned, faults >>

\* The fault that made it necessary lasts: no other one is counted.
CleanFails(q) ==
  /\ req[q].at = "clean"
  /\ dispatches' \in {dispatches, dispatches \ {q}}
  /\ At(q, "fail")
  /\ UNCHANGED << Other, calls, abandoned, faults >>

\* fail_test_call.
FailCall(q) ==
  /\ req[q].at = "fail"
  /\ calls' = [calls EXCEPT ![req[q].call].status = "failed"]
  /\ At(q, "failed")
  /\ UNCHANGED << Other, dispatches, abandoned, faults >>

FailCallFails(q) ==
  /\ req[q].at = "fail"
  /\ Abandon(q) /\ At(q, "failed")
  /\ UNCHANGED << Other, calls, dispatches, faults >>

\* The process stops: docs/livekit-voice.md, "Failure consistency".
Stop(q) ==
  /\ req[q].at \in SettingUp /\ Fault
  /\ Abandon(q) /\ At(q, "failed")
  /\ UNCHANGED << Other, calls, dispatches >>

-----------------------------------------------------------------------------
\* The agent a call was dispatched to, or whose request was answered, starts it.
Start(c) ==
  /\ calls[c] # Nothing /\ calls[c].status = "created"
  /\ \E q \in Admissions : /\ req[q].call = c
                           /\ q \in dispatches \/ (~IsTest(q) /\ req[q].at = "answered")
  /\ calls' = [calls EXCEPT ![c].status = "started"]
  /\ UNCHANGED << Other, req, dispatches, abandoned, faults >>

Admit(q) == Lookup(q) \/ Route(q) \/ Lock(q) \/ Execute(q) \/ Store(q) \/ Lose(q)

SetUp(q) ==
  \/ CreateDispatch(q) \/ CreateDispatchFails(q)
  \/ SetDispatch(q) \/ SetDispatchFails(q)
  \/ DropDispatch(q) \/ DropDispatchFails(q)
  \/ Clean(q) \/ CleanFails(q) \/ FailCall(q) \/ FailCallFails(q) \/ Stop(q)

AdmissionNext ==
  \/ \E t \in Tenants : Enable(t)
  \/ Disable
  \/ \E q \in Admissions : \/ \E ask \in Asks : Send(q, ask)
                           \/ Admit(q) \/ SetUp(q) \/ Start(q)

AdmissionSpec == AdmissionInit /\ [][AdmissionNext]_admissionVars

-----------------------------------------------------------------------------
(***************************************************************************)
(* Properties.                                                             *)
(***************************************************************************)
\* What a request asks for, a SIP call or a session under a key, is one call,
\* however often and by whomever it is asked for; every answer names it.
AdmittedOnce ==
  /\ \A c, d \in {c \in Admissions : calls[c] # Nothing} :
       c # d => /\ calls[c].key # calls[d].key
                /\ calls[c].sip # Nothing => calls[c].sip # calls[d].sip
  /\ \A q \in Admissions :
       req[q].at = "answered" => req[q].call \in Existing(q)

\* A call runs the execution of its own tenant, also when its number was given to
\* another tenant between two attempts to admit it; and a session is answered
\* only to who asked for that tenant.
CallIsOfItsTenant ==
  /\ \A c \in Admissions : calls[c] # Nothing => executions[calls[c].key] = calls[c].tenant
  /\ \A q \in Admissions :
       req[q].at = "answered" /\ IsTest(q) => calls[req[q].call].tenant = req[q].ask.tenant

\* Who is still at work on a call.
AtWork(c) == \E q \in Admissions : req[q].call = c /\ req[q].at \in SettingUp

\* Once nobody is at work on a test session it has the dispatch it names and no
\* other, so that one agent joins it, or has failed; except where the process or
\* the cleanup was lost, as docs/livekit-voice.md says.
OneAgentEach ==
  \A c \in Admissions :
    calls[c] # Nothing /\ calls[c].key \in TestKeys \union Admissions =>
      \/ AtWork(c) \/ calls[c].status = "failed" \/ c \in abandoned
      \/ /\ calls[c].dispatch # Nothing
         /\ {d \in dispatches : req[d].call = c} = {calls[c].dispatch}

=============================================================================

---------------------------- MODULE Configuration ----------------------------
(***************************************************************************)
(* How a tenant's configuration changes in the control plane: one          *)
(* versioned component, ActionsDefinition, with its draft and its numbered *)
(* revisions; one live component, ActionsAvailability; the management      *)
(* routes of the single components and of the whole tenant configuration   *)
(* with their tokens and idempotency keys; and the executions the backend  *)
(* creates from what is published.                                         *)
(*                                                                         *)
(* A definition and an availability are sets of action keys.  A command is *)
(* a request with its token and its key; its client may send it again, and *)
(* each copy runs in a handler of its own.  A transaction is one step      *)
(* unless something can come in between: what it read before it waited for *)
(* a row another one has locked.                                           *)
(***************************************************************************)
EXTENDS Integers, Sequences, FiniteSets

CONSTANTS
  Commands,     \* requests the clients make, by principal and key
  MaxCopies,    \* bound: times a command is sent
  Definitions,  \* values of ActionsDefinition: sets of action keys
  Availabilities, \* values of ActionsAvailability
  NoCommand,    \* the author of what was there before
  MaxFaults     \* bound: commands sent again, transactions lost

ASSUME CopiesAssumption == MaxCopies \in Nat \ {0}
ASSUME NoCommandAssumption == NoCommand \notin Commands
ASSUME FaultsAssumption == MaxFaults \in Nat

VARIABLES
  exists,     \* the component has a row
  active,     \* active_revision_id, as the number of the revision; 0 for none
  draft,      \* [value, version, basedOn, by, birth]; version 0 for none;
              \* birth is the handler that made it, so no two drafts share one
  revisions,  \* published, in order: [value, basedOn, restored, by]
  live,       \* [value, generation]; generation 0 for none
  replays,    \* stored results of idempotent commands: [command, result]
  executions, \* [command, copy, revision, availability]
  command,    \* what each command asks for: [op, value, actions, target, read]
  handler,    \* of each copy: [step, saw, result]
  lock,       \* the tenant's advisory lock: [holder, row]
  moments,    \* pairs of active revision and availability there have been
  faults

componentVars == << exists, active, draft, revisions >>
requestVars == << command, faults >>
storeVars == << componentVars, live, replays, executions, moments >>
vars == << storeVars, requestVars, handler, lock >>

Copies == 1 .. MaxCopies
Handlers == Commands \X Copies
Authors == Commands \union {NoCommand}
Nobody == << NoCommand, 0 >>

ComponentOps == {"save", "discard", "publish", "rollback"}
TenantOps == {"apply", "publish_all", "set_live"}
Ops == ComponentOps \union TenantOps \union {"execute"}

NoDraft == [value |-> {}, version |-> 0, basedOn |-> 0,
            by |-> NoCommand, birth |-> Nobody]
NoLive == [value |-> {}, generation |-> 0]
NoPair == [revision |-> 0, availability |-> {}]

\* What a client can read of the configuration.
View == [exists |-> exists, active |-> active, draft |-> draft, live |-> live]
NoView == [exists |-> FALSE, active |-> 0, draft |-> NoDraft, live |-> NoLive]

\* The actions of a revision, none without one.
Known(r) == IF r = 0 THEN {} ELSE revisions[r].value

Revision == [value : Definitions, basedOn : Nat, restored : Nat, by : Authors]
Draft == [value : Definitions, version : Nat \ {0}, basedOn : Nat,
          by : Authors, birth : Handlers \union {Nobody}] \union {NoDraft}
Live == [value : Availabilities, generation : Nat \ {0}] \union {NoLive}
Views == [exists : BOOLEAN, active : Nat, draft : Draft, live : Live]
Pair == [revision : Nat, availability : Availabilities \union {{}}]

TypeOK ==
  /\ exists \in BOOLEAN /\ (active # 0 \/ draft # NoDraft => exists)
  /\ revisions \in Seq(Revision) /\ active \in 0 .. Len(revisions)
  /\ draft \in Draft /\ live \in Live
  /\ replays \subseteq [command : Commands, result : Nat]
  /\ executions \subseteq [command : Commands, copy : Copies, revision : Nat,
                           availability : Availabilities \union {{}}]
  /\ command \in [Commands -> [op : Ops \union {"none"},
                               value : Definitions \union {{}},
                               actions : Availabilities \union {{}},
                               target : Nat, read : Views]]
  /\ handler \in [Handlers -> [step : {"none", "sent", "checked", "begun", "loaded",
                                       "done", "refused"},
                               saw : Pair, result : Nat]]
  /\ lock \in [holder : Handlers \union {Nobody}, row : BOOLEAN]
  /\ moments \subseteq Pair
  /\ faults \in 0 .. MaxFaults

\* A tenant without configuration, or one with a first revision, perhaps a draft
\* on it, and availabilities of its actions.
Init ==
  /\ \/ /\ exists = FALSE /\ active = 0 /\ draft = NoDraft /\ revisions = << >>
        /\ live = NoLive
     \/ \E d \in Definitions, x \in Definitions, v \in Availabilities :
          /\ v \subseteq d
          /\ exists = TRUE /\ active = 1
          /\ revisions = << [value |-> d, basedOn |-> 0, restored |-> 0, by |-> NoCommand] >>
          /\ draft \in {NoDraft, [value |-> x, version |-> 1, basedOn |-> 1,
                                  by |-> NoCommand, birth |-> Nobody]}
          /\ live = [value |-> v, generation |-> 1]
  /\ replays = {} /\ executions = {}
  /\ command = [c \in Commands |-> [op |-> "none", value |-> {}, actions |-> {},
                                    target |-> 0, read |-> NoView]]
  /\ handler = [h \in Handlers |-> [step |-> "none", saw |-> NoPair, result |-> 0]]
  /\ lock = [holder |-> Nobody, row |-> FALSE]
  /\ moments = {[revision |-> active, availability |-> live.value]}
  /\ faults = 0

Fault == faults < MaxFaults /\ faults' = faults + 1

-----------------------------------------------------------------------------
(***************************************************************************)
(* Tokens.                                                                 *)
(***************************************************************************)

\* _component_etag; "*" for a component that has no row.
ComponentToken(v) == << v.exists, v.active, v.draft.version >>

\* A hash of the contents; the same, "*", for whatever has no content at all.
TenantToken(v) ==
  << v.active # 0, Known(v.active), v.draft # NoDraft, v.draft.value,
     v.live # NoLive, v.live.value >>

LiveToken(v) == v.live.generation

-----------------------------------------------------------------------------
(***************************************************************************)
(* Clients.                                                                *)
(***************************************************************************)

\* The routes that answer with a token: there is none of a component without a row
\* or of a tenant configuration that is incomplete; "*" is known.
TokenIsKnown(op) ==
  /\ op \in {"discard", "publish", "rollback"} => exists
  /\ op \in {"apply", "publish_all"} =>
       live # NoLive \/ TenantToken(View) = TenantToken(NoView)

\* A client reads the configuration and sends a command on what it read.
Send(c) ==
  /\ command[c].op = "none"
  /\ \E op \in Ops, value \in Definitions \union {{}},
        actions \in Availabilities \union {{}}, target \in 0 .. Len(revisions) :
       /\ TokenIsKnown(op)
       /\ op \in TenantOps => lock.holder = Nobody
       /\ IF op \in {"save", "apply"} THEN value \in Definitions ELSE value = {}
       /\ IF op \in {"set_live", "apply"} THEN actions \in Availabilities ELSE actions = {}
       /\ op = "rollback" <=> target # 0
       /\ command' = [command EXCEPT ![c] = [op |-> op, value |-> value,
                        actions |-> actions, target |-> target, read |-> View]]
  /\ handler' = [handler EXCEPT ![<< c, 1 >>].step = "sent"]
  /\ UNCHANGED << storeVars, lock, faults >>

\* The answer is lost or late: the same command again, with its token and key.
SendAgain(c) ==
  /\ Fault
  /\ \E n \in Copies \ {1} :
       /\ handler[<< c, n >>].step = "none" /\ handler[<< c, n - 1 >>].step # "none"
       /\ handler' = [handler EXCEPT ![<< c, n >>].step = "sent"]
  /\ UNCHANGED << storeVars, command, lock >>

-----------------------------------------------------------------------------
(***************************************************************************)
(* Replays and answers.                                                    *)
(***************************************************************************)

Op(h) == command[h[1]].op
Step(h, s) == handler[h].step = s
Goes(h, s) == handler' = [handler EXCEPT ![h].step = s]
Refuse(h) == Goes(h, "refused")
Answer(h, result) ==
  handler' = [handler EXCEPT ![h].step = "done", ![h].result = result]

Stored(h) == {r \in replays : r.command = h[1]}

\* Mutant of MayStore: the key of a stored result is not unique.
MayStoreAgain(h) == TRUE

\* replays.add: a second row of the same key fails, and with it the transaction.
MayStore(h) == Stored(h) = {}

AddReplay(h, result) ==
  replays' = replays \union {[command |-> h[1], result |-> result]}

AnswerStored(h) ==
  /\ \E r \in Stored(h) : Answer(h, r.result)
  /\ UNCHANGED << storeVars, requestVars, lock >>

Moment(r, v) == moments' = moments \union {[revision |-> r, availability |-> v]}

-----------------------------------------------------------------------------
(***************************************************************************)
(* The routes of one component.                                            *)
(***************************************************************************)

\* The handler compares the token with a component it reads for that alone.
CheckPrecondition(h) ==
  /\ Op(h) \in ComponentOps /\ Step(h, "sent")
  /\ LET read == command[h[1]].read IN
       IF /\ ComponentToken(View) = ComponentToken(read)
          /\ Op(h) \in {"discard", "publish"} => read.draft # NoDraft
       THEN Goes(h, "checked") ELSE Refuse(h)
  /\ UNCHANGED << storeVars, requestVars, lock >>

\* The idempotent ones look for a stored result before they lock the row.
LookForReplay(h) ==
  /\ Op(h) \in {"publish", "rollback"} /\ Step(h, "checked")
  /\ IF Stored(h) # {} THEN AnswerStored(h)
     ELSE Goes(h, "begun") /\ UNCHANGED << storeVars, requestVars, lock >>

RowFree == ~lock.row

\* Mutant of NextVersion: overwriting a draft keeps its version.
SameVersion == draft.version

\* save_draft: a draft that is there is overwritten, or a first one made.
NextVersion == draft.version + 1

Written(h, x) ==
  IF draft = NoDraft
  THEN [value |-> x, version |-> 1, basedOn |-> active, by |-> h[1], birth |-> h]
  ELSE [draft EXCEPT !.value = x, !.version = NextVersion, !.by = h[1]]

SaveDraft(h) ==
  LET read == command[h[1]].read IN
  /\ Op(h) = "save" /\ Step(h, "checked") /\ RowFree
  /\ IF active = read.active /\ draft.version = read.draft.version
     THEN /\ exists' = TRUE
          /\ draft' = Written(h, command[h[1]].value)
          /\ Goes(h, "done")
     ELSE Refuse(h) /\ UNCHANGED << exists, draft >>
  /\ UNCHANGED << active, revisions, live, replays, executions, moments, requestVars, lock >>

DiscardDraft(h) ==
  /\ Op(h) = "discard" /\ Step(h, "checked") /\ RowFree
  /\ IF draft.version = command[h[1]].read.draft.version
     THEN draft' = NoDraft /\ Goes(h, "done")
     ELSE Refuse(h) /\ UNCHANGED draft
  /\ UNCHANGED << exists, active, revisions, live, replays, executions, moments,
                  requestVars, lock >>

\* A new revision becomes the active one.
Activate(value, basedOn, restored, c) ==
  /\ revisions' = Append(revisions, [value |-> value, basedOn |-> basedOn,
                                     restored |-> restored, by |-> c])
  /\ active' = Len(revisions) + 1

PublishDraft(h) ==
  /\ Op(h) = "publish" /\ Step(h, "begun") /\ RowFree
  /\ IF draft.version = command[h[1]].read.draft.version /\ MayStore(h)
     THEN /\ Activate(draft.value, draft.basedOn, 0, h[1])
          /\ draft' = NoDraft
          /\ AddReplay(h, active') /\ Answer(h, active')
          /\ Moment(active', live.value)
     ELSE Refuse(h) /\ UNCHANGED << active, draft, revisions, replays, moments >>
  /\ UNCHANGED << exists, live, executions, requestVars, lock >>

\* A draft is in the way of a rollback.
MayRollback(r) == draft = NoDraft /\ active # 0 /\ r \in DOMAIN revisions

Rollback(h) ==
  LET r == command[h[1]].target IN
  /\ Op(h) = "rollback" /\ Step(h, "begun") /\ RowFree
  /\ IF MayRollback(r) /\ MayStore(h)
     THEN /\ Activate(revisions[r].value, active, r, h[1])
          /\ AddReplay(h, active') /\ Answer(h, active')
          /\ Moment(active', live.value)
     ELSE Refuse(h) /\ UNCHANGED << active, revisions, replays, moments >>
  /\ UNCHANGED << exists, draft, live, executions, requestVars, lock >>

-----------------------------------------------------------------------------
(***************************************************************************)
(* The routes of the tenant's configuration: one transaction under the     *)
(* tenant's lock, with the component's row locked too if there is one.     *)
(***************************************************************************)

ReadStillHolds(h) ==
  LET read == command[h[1]].read IN
  IF Op(h) = "set_live" THEN LiveToken(View) = LiveToken(read)
  ELSE TenantToken(View) = TenantToken(read)

\* Mutant of IsValid: the actions of a draft count as defined at once.
IsValidInDraft(h) ==
  LET coming == IF draft # NoDraft THEN draft.value ELSE Known(active) IN
  CASE Op(h) \in {"apply", "set_live"} -> command[h[1]].actions \subseteq coming
    [] Op(h) = "publish_all" -> live # NoLive /\ live.value \subseteq coming

\* Availability is live: a draft's actions do not count until they are published;
\* what publish makes active has to leave the availabilities their actions.
IsValid(h) ==
  CASE Op(h) \in {"apply", "set_live"} -> command[h[1]].actions \subseteq Known(active)
    [] Op(h) = "publish_all" ->
         /\ live # NoLive
         /\ live.value \subseteq IF draft # NoDraft THEN draft.value ELSE Known(active)

LocksRow == exists

Load(h) ==
  /\ Op(h) \in TenantOps /\ Step(h, "sent")
  /\ lock.holder = Nobody
  /\ IF Stored(h) # {} THEN AnswerStored(h)
     ELSE /\ IF ReadStillHolds(h) /\ IsValid(h)
             THEN Goes(h, "loaded") /\ lock' = [holder |-> h, row |-> LocksRow]
             ELSE Refuse(h) /\ UNCHANGED lock
          /\ UNCHANGED << storeVars, requestVars >>

Unlocked == [holder |-> Nobody, row |-> FALSE]

SetTo(v) == [value |-> v, generation |-> live.generation + 1]

SetLive(h) ==
  /\ Op(h) = "set_live" /\ Step(h, "loaded")
  /\ live' = SetTo(command[h[1]].actions)
  /\ AddReplay(h, live'.generation) /\ Answer(h, live'.generation)
  /\ Moment(active, live'.value)
  /\ lock' = Unlocked
  /\ UNCHANGED << componentVars, executions, requestVars >>

\* Against the contents it loaded: the draft is kept, dropped or written.
Apply(h) ==
  LET read == command[h[1]].read  x == command[h[1]].value
      v == command[h[1]].actions
      keeps == read.draft # NoDraft /\ read.draft.value = x
      drops == ~keeps /\ read.active # 0 /\ Known(read.active) = x IN
  /\ Op(h) = "apply" /\ Step(h, "loaded")
  /\ live' = IF live # NoLive /\ live.value = v THEN live ELSE SetTo(v)
  /\ draft' = CASE keeps -> draft
                [] drops -> NoDraft
                [] ~keeps /\ ~drops -> Written(h, x)
  /\ exists' = (exists \/ ~(keeps \/ drops))
  /\ AddReplay(h, live'.generation) /\ Answer(h, live'.generation)
  /\ Moment(active, live'.value)
  /\ lock' = Unlocked
  /\ UNCHANGED << active, revisions, executions, requestVars >>

PublishAll(h) ==
  /\ Op(h) = "publish_all" /\ Step(h, "loaded")
  /\ IF draft # NoDraft THEN Activate(draft.value, draft.basedOn, 0, h[1])
                        ELSE UNCHANGED << active, revisions >>
  /\ draft' = NoDraft
  /\ AddReplay(h, active') /\ Answer(h, active')
  /\ Moment(active', live.value)
  /\ lock' = Unlocked
  /\ UNCHANGED << exists, live, executions, requestVars >>

-----------------------------------------------------------------------------
(***************************************************************************)
(* An execution is created from one snapshot of the database; it needs a   *)
(* definition, availabilities, and every available action defined.         *)
(***************************************************************************)

Resolves == active # 0 /\ live # NoLive /\ live.value \subseteq Known(active)

StartExecution(h) ==
  /\ Op(h) = "execute" /\ Step(h, "sent")
  /\ IF Stored(h) # {} THEN AnswerStored(h)
     ELSE /\ IF Resolves
             THEN handler' = [handler EXCEPT ![h].step = "begun",
                    ![h].saw = [revision |-> active, availability |-> live.value]]
             ELSE Refuse(h)
          /\ UNCHANGED << storeVars, requestVars, lock >>

\* Mutant of ReadsFrom: each statement reads what is committed when it runs.
ReadsCommitted(h) == [revision |-> active, availability |-> handler[h].saw.availability]

\* The snapshot the transaction began with is what it reads.
ReadsFrom(h) == handler[h].saw

CreateExecution(h) ==
  /\ Op(h) = "execute" /\ Step(h, "begun")
  /\ IF MayStore(h)
     THEN /\ executions' = executions \union
               {[command |-> h[1], copy |-> h[2], revision |-> ReadsFrom(h).revision,
                 availability |-> ReadsFrom(h).availability]}
          /\ AddReplay(h, h[2]) /\ Answer(h, h[2])
     ELSE Refuse(h) /\ UNCHANGED << executions, replays >>
  /\ UNCHANGED << componentVars, live, moments, requestVars, lock >>

-----------------------------------------------------------------------------
\* A transaction is lost: nothing of it stays and the answer is an error.
TransactionFails(h) ==
  /\ handler[h].step \in {"checked", "begun", "loaded"}
  /\ Fault
  /\ Refuse(h)
  /\ lock' = IF lock.holder = h THEN Unlocked ELSE lock
  /\ UNCHANGED << storeVars, command >>

Handle(h) ==
  \/ CheckPrecondition(h) \/ LookForReplay(h)
  \/ SaveDraft(h) \/ DiscardDraft(h) \/ PublishDraft(h) \/ Rollback(h)
  \/ Load(h) \/ SetLive(h) \/ Apply(h) \/ PublishAll(h)
  \/ StartExecution(h) \/ CreateExecution(h)

Next ==
  \/ \E c \in Commands : Send(c) \/ SendAgain(c)
  \/ \E h \in Handlers : Handle(h) \/ TransactionFails(h)

Spec == Init /\ [][Next]_vars

-----------------------------------------------------------------------------
(***************************************************************************)
(* Properties.                                                             *)
(***************************************************************************)

Commits(h) == handler[h].step # "done" /\ handler'[h].step = "done"

\* The history is a line: the newest revision is the active one, each was made on
\* the one before it, a rollback's too, and a draft is always one of changes to the
\* active revision (repository.py:79-273).
HistoryIsLinear ==
  /\ active = Len(revisions)
  /\ \A i \in DOMAIN revisions :
       /\ revisions[i].basedOn = i - 1
       /\ revisions[i].restored < i
  /\ draft # NoDraft => draft.basedOn = active

\* However often and however close together a command is sent, it makes one
\* revision or one execution, and the copies that succeed have the same answer
\* (components.py:122-168, execution_materialization.py:93-155).
OncePerKey ==
  \A c \in Commands :
    /\ Cardinality({i \in DOMAIN revisions : revisions[i].by = c}) <= 1
    /\ Cardinality({e \in executions : e.command = c}) <= 1
    /\ command[c].op \notin {"save", "discard"} =>
         \A m, n \in Copies :
           Step(<< c, m >>, "done") /\ Step(<< c, n >>, "done") =>
             handler[<< c, m >>].result = handler[<< c, n >>].result

\* An execution has a definition and availabilities that were there at the same
\* time, with every available action defined.
ExecutionIsOfOneMoment ==
  \A e \in executions :
    /\ [revision |-> e.revision, availability |-> e.availability] \in moments
    /\ e.availability \subseteq revisions[e.revision].value

\* A draft that was written since the client read it is not overwritten, discarded
\* or published by a command on one component, unless it was made anew meanwhile.
LosesNoEdit ==
  [][\A h \in Handlers :
       LET read == command[h[1]].read IN
       /\ Commits(h) /\ Op(h) \in {"save", "discard", "publish"} /\ draft' # draft
       /\ draft.birth = read.draft.birth
       => draft = read.draft]_vars

\* A change of the whole configuration leaves no available action undefined, also
\* if one was undefined before (tenant_configuration.py:360-376, 640-661).
TenantCommandsFit ==
  [][live' # live \/ (\E h \in Handlers : Op(h) \in TenantOps /\ lock.holder = h /\ Commits(h))
       => live'.value \subseteq Known(active)']_vars

\* What a change of the whole configuration replaces is what its client read, though
\* the routes of the component do not take the tenant's lock; the client has to have
\* found the component there, as a row that is not there yet cannot be locked.
ReplacesWhatWasRead ==
  [][\A h \in Handlers :
       /\ lock.holder = h /\ Commits(h)
       /\ Op(h) # "set_live" /\ command[h[1]].read.exists
       => TenantToken(View) = TenantToken(command[h[1]].read)]_vars

\* Every available action is defined.
AvailabilityFits == live.value \subseteq Known(active)

=============================================================================

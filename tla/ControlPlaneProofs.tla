------------------------- MODULE ControlPlaneProofs --------------------------
(***************************************************************************)
(* The safety properties of Configuration, for every number of commands    *)
(* and copies and all values; and those of ProviderGraph, for all rows,    *)
(* features, commands and requests, and any number of faults.              *)
(***************************************************************************)
EXTENDS Configuration, ProviderGraph, SequenceTheorems, FiniteSetTheorems, TLAPS

(***************************************************************************)
(* The inductive invariant.  Between the check of a token and the commit   *)
(* other commands run: StepsFit, StoredOnce, LockedIsValid and ReadsArePast*)
(* say what of the check is still true, and why.                           *)
(***************************************************************************)

\* Where a handler can be, by what it is asked, and whose lock it holds.
StepsFit ==
  \A h \in Handlers :
    /\ ~Step(h, "none") => Op(h) \in Ops
    /\ Step(h, "checked") =>
         /\ Op(h) \in ComponentOps
         /\ Op(h) \in {"discard", "publish"} => command[h[1]].read.draft # NoDraft
    /\ Step(h, "begun") =>
         /\ Op(h) \in {"publish", "rollback", "execute"}
         /\ Op(h) = "publish" => command[h[1]].read.draft # NoDraft
    /\ Step(h, "loaded") <=> lock.holder = h
    /\ lock.holder = h => Op(h) \in TenantOps

\* What a command asks for, by its kind.
CommandsFit ==
  \A c \in Commands :
    /\ command[c].op \in {"save", "apply"} => command[c].value \in Definitions
    /\ command[c].op \in {"set_live", "apply"} => command[c].actions \in Availabilities

\* A stored result stands for what its command did.
StoredOnce ==
  /\ \A r, s \in replays : r.command = s.command => r = s
  /\ \A i \in DOMAIN revisions : revisions[i].by # NoCommand =>
       \E r \in replays : r.command = revisions[i].by
  /\ \A e \in executions : \E r \in replays : r.command = e.command
  /\ \A h \in Handlers : lock.holder = h => Stored(h) = {}

DoneOnce ==
  /\ \A i, j \in DOMAIN revisions :
       revisions[i].by = revisions[j].by /\ revisions[i].by # NoCommand => i = j
  /\ \A e, f \in executions : e.command = f.command => e = f

AnswersAreStored ==
  \A h \in Handlers : Step(h, "done") /\ Op(h) \notin {"save", "discard"} =>
    [command |-> h[1], result |-> handler[h].result] \in replays

\* A pair there has been, of a revision there is.
WasThere(p) ==
  /\ [revision |-> p.revision, availability |-> p.availability] \in moments
  /\ p.revision \in DOMAIN revisions
  /\ p.availability \subseteq revisions[p.revision].value

SnapshotsHold ==
  /\ [revision |-> active, availability |-> live.value] \in moments
  /\ \A h \in Handlers : Step(h, "begun") /\ Op(h) = "execute" => WasThere(handler[h].saw)
  /\ \A e \in executions : WasThere(e)

\* A draft is made by a handler that is done.
Born(d) == d # NoDraft /\ d.birth # Nobody => d.birth \in Handlers /\ Step(d.birth, "done")

\* A draft a client has read is the one there is now, or an older version of it,
\* or another one.
IsOlder(d) ==
  d # NoDraft /\ draft # NoDraft /\ d.birth = draft.birth =>
    /\ d.version <= draft.version
    /\ d.version = draft.version => d = draft

ReadsArePast ==
  /\ Born(draft)
  /\ \A c \in Commands : command[c].op # "none" =>
       /\ Born(command[c].read.draft) /\ IsOlder(command[c].read.draft)
       /\ command[c].read.active <= active
       /\ command[c].read.exists => exists

\* What holds when the tenant's lock is taken still holds when it is given back: the
\* row is locked too, or there is nothing that could be undefined.
LockedIsValid ==
  \A h \in Handlers : lock.holder = h =>
    /\ IsValid(h)
    /\ ~lock.row => IF Op(h) = "publish_all" THEN live.value = {} ELSE command[h[1]].actions = {}
    /\ Op(h) # "set_live" /\ command[h[1]].read.exists =>
         lock.row /\ TenantToken(View) = TenantToken(command[h[1]].read)

Inv ==
  /\ TypeOK
  /\ StepsFit
  /\ CommandsFit
  /\ HistoryIsLinear
  /\ StoredOnce
  /\ DoneOnce
  /\ AnswersAreStored
  /\ SnapshotsHold
  /\ ReadsArePast
  /\ LockedIsValid

-----------------------------------------------------------------------------
(***************************************************************************)
(* Records and what a handler's step changes of its own.                   *)
(***************************************************************************)

\* Version 0 is no draft.
LEMMA DraftFields ==
  ASSUME NEW d \in Draft
  PROVE  /\ d = NoDraft <=> d.version = 0
         /\ d.version \in Nat /\ d.basedOn \in Nat
         /\ d.by \in Authors /\ d.birth \in Handlers \union {Nobody}
         /\ d # NoDraft => d.value \in Definitions
<1>1. NoDraft.version = 0 /\ NoDraft.basedOn = 0 /\ NoDraft.by = NoCommand /\ NoDraft.birth = Nobody
  BY DEF NoDraft
<1>2. CASE d = NoDraft
  BY <1>1, <1>2 DEF Authors
<1>3. CASE d # NoDraft
  <2>1. d \in [value : Definitions, version : Nat \ {0}, basedOn : Nat,
              by : Authors, birth : Handlers \union {Nobody}]
    BY <1>3 DEF Draft
  <2> QED
    BY <1>3, <2>1
<1> QED
  BY <1>2, <1>3

LEMMA LiveFields ==
  ASSUME NEW v \in Live
  PROVE  /\ v.value \in Availabilities \union {{}} /\ v.generation \in Nat
         /\ v = NoLive <=> v.generation = 0
<1>1. NoLive.value = {} /\ NoLive.generation = 0
  BY DEF NoLive
<1>2. CASE v = NoLive
  BY <1>1, <1>2
<1>3. CASE v # NoLive
  <2>1. v \in [value : Availabilities, generation : Nat \ {0}]
    BY <1>3 DEF Live
  <2> QED
    BY <1>3, <2>1
<1> QED
  BY <1>2, <1>3

Row == [step : {"none", "sent", "checked", "begun", "loaded", "done", "refused"},
        saw : Pair, result : Nat]

LEMMA Moved ==
  ASSUME TypeOK, NEW h \in Handlers, NEW s, Goes(h, s)
  PROVE  /\ \A g \in Handlers : g # h => handler'[g] = handler[g]
         /\ handler'[h].step = s /\ handler'[h].saw = handler[h].saw
         /\ handler'[h].result = handler[h].result
         /\ s \in {"none", "sent", "checked", "begun", "loaded", "done", "refused"} =>
              handler' \in [Handlers -> Row]
<1>1. handler \in [Handlers -> Row]
  BY DEF TypeOK, Row
<1>2. /\ handler' = [handler EXCEPT ![h] = handler'[h]]
      /\ handler'[h] = [step |-> s, saw |-> handler[h].saw, result |-> handler[h].result]
  BY <1>1 DEF Goes, Row
<1>3. s \in {"none", "sent", "checked", "begun", "loaded", "done", "refused"} =>
        handler'[h] \in Row
  BY <1>1, <1>2 DEF Row
<1> QED
  BY <1>1, <1>2, <1>3

LEMMA Answered ==
  ASSUME TypeOK, NEW h \in Handlers, NEW n \in Nat, Answer(h, n)
  PROVE  /\ \A g \in Handlers : g # h => handler'[g] = handler[g]
         /\ handler'[h].step = "done" /\ handler'[h].saw = handler[h].saw
         /\ handler'[h].result = n
         /\ handler' \in [Handlers -> Row]
<1>1. handler \in [Handlers -> Row]
  BY DEF TypeOK, Row
<1>2. /\ handler' = [handler EXCEPT ![h] = handler'[h]]
      /\ handler'[h] = [step |-> "done", saw |-> handler[h].saw, result |-> n]
  BY <1>1 DEF Answer, Row
<1>3. handler'[h] \in Row
  BY <1>1, <1>2 DEF Row
<1> QED
  BY <1>1, <1>2, <1>3

\* A revision is added at the end.
LEMMA Activated ==
  ASSUME TypeOK, NEW v \in Definitions, NEW b \in Nat, NEW r \in Nat, NEW c \in Commands,
         Activate(v, b, r, c)
  PROVE  /\ revisions' \in Seq(Revision) /\ Len(revisions') = Len(revisions) + 1
         /\ active' = Len(revisions) + 1 /\ active' = Len(revisions')
         /\ Len(revisions) \in Nat
         /\ DOMAIN revisions = 1 .. Len(revisions) /\ DOMAIN revisions' = 1 .. Len(revisions) + 1
         /\ \A i \in DOMAIN revisions : revisions'[i] = revisions[i]
         /\ revisions'[Len(revisions) + 1] = [value |-> v, basedOn |-> b, restored |-> r, by |-> c]
<1>1. [value |-> v, basedOn |-> b, restored |-> r, by |-> c] \in Revision
  BY DEF Revision, Authors
<1>2. /\ revisions \in Seq(Revision) /\ active' = Len(revisions) + 1
      /\ revisions' = Append(revisions, [value |-> v, basedOn |-> b, restored |-> r, by |-> c])
  BY DEF TypeOK, Activate
<1> DEFINE x == [value |-> v, basedOn |-> b, restored |-> r, by |-> c]
<1>3. x \in Revision /\ revisions' = Append(revisions, x)
  BY <1>1, <1>2
<1> HIDE DEF x
<1>4. /\ revisions' \in Seq(Revision) /\ Len(revisions') = Len(revisions) + 1
      /\ \A i \in 1 .. Len(revisions) : revisions'[i] = revisions[i]
      /\ revisions'[Len(revisions) + 1] = x
  BY <1>2, <1>3, AppendProperties
<1>5. Len(revisions) \in Nat /\ DOMAIN revisions = 1 .. Len(revisions)
  BY <1>2, LenProperties
<1>6. DOMAIN revisions' = 1 .. Len(revisions')
  BY <1>4, LenProperties
<1> QED
  BY <1>2, <1>4, <1>5, <1>6 DEF x

\* The command of a handler, and the number of its copy.
LEMMA HandlerParts ==
  ASSUME NEW h \in Handlers
  PROVE  h[1] \in Commands /\ h[2] \in Copies /\ h[2] \in Nat /\ h = << h[1], h[2] >>
BY CopiesAssumption DEF Handlers, Copies

LEMMA NobodyIsNoHandler == Nobody \notin Handlers
BY NoCommandAssumption DEF Nobody, Handlers

\* A stored answer changes the handler alone.
LEMMA StoredAnswered ==
  ASSUME TypeOK, NEW h \in Handlers, AnswerStored(h)
  PROVE  /\ \A g \in Handlers : g # h => handler'[g] = handler[g]
         /\ handler'[h].step = "done" /\ handler'[h].saw = handler[h].saw
         /\ [command |-> h[1], result |-> handler'[h].result] \in replays
         /\ handler' \in [Handlers -> Row]
         /\ UNCHANGED << storeVars, requestVars, lock >>
<1>1. PICK r \in Stored(h) : Answer(h, r.result)
  BY DEF AnswerStored
<1>2. r \in [command : Commands, result : Nat] /\ r \in replays /\ r.command = h[1]
  BY DEF Stored, TypeOK
<1>3. r = [command |-> h[1], result |-> r.result] /\ r.result \in Nat
  BY <1>2
<1>4. UNCHANGED << storeVars, requestVars, lock >>
  BY DEF AnswerStored
<1>5. /\ \A g \in Handlers : g # h => handler'[g] = handler[g]
      /\ handler'[h].step = "done" /\ handler'[h].saw = handler[h].saw
      /\ handler'[h].result = r.result
      /\ handler' \in [Handlers -> Row]
  BY <1>1, <1>3, Answered
<1> QED
  BY <1>2, <1>3, <1>4, <1>5

LEMMA ViewIsView == ASSUME TypeOK PROVE View \in Views
<1>1. Len(revisions) \in Nat
  BY LenProperties DEF TypeOK
<1>2. active \in Nat
  BY <1>1 DEF TypeOK
<1> QED
  BY <1>2 DEF TypeOK, View, Views

\* What a client asks for.
LEMMA Sent ==
  ASSUME TypeOK, NEW c \in Commands, Send(c)
  PROVE  /\ << c, 1 >> \in Handlers /\ Goes(<< c, 1 >>, "sent")
         /\ command[c].op = "none"
         /\ \A d \in Commands : d # c => command'[d] = command[d]
         /\ command'[c].op \in Ops /\ command'[c].read = View
         /\ command'[c].op \in {"save", "apply"} => command'[c].value \in Definitions
         /\ command'[c].op \in {"set_live", "apply"} => command'[c].actions \in Availabilities
         /\ command' \in [Commands -> [op : Ops \union {"none"},
                                       value : Definitions \union {{}},
                                       actions : Availabilities \union {{}},
                                       target : Nat, read : Views]]
         /\ UNCHANGED << storeVars, lock, faults >>
<1>1. PICK op \in Ops, value \in Definitions \union {{}},
        actions \in Availabilities \union {{}}, target \in 0 .. Len(revisions) :
       /\ TokenIsKnown(op)
       /\ op \in TenantOps => lock.holder = Nobody
       /\ IF op \in {"save", "apply"} THEN value \in Definitions ELSE value = {}
       /\ IF op \in {"set_live", "apply"} THEN actions \in Availabilities ELSE actions = {}
       /\ op = "rollback" <=> target # 0
       /\ command' = [command EXCEPT ![c] = [op |-> op, value |-> value,
                        actions |-> actions, target |-> target, read |-> View]]
  BY Zenon DEF Send
<1>2. target \in Nat
  BY LenProperties DEF TypeOK
<1> DEFINE x == [op |-> op, value |-> value, actions |-> actions,
                 target |-> target, read |-> View]
<1>3. x \in [op : Ops \union {"none"}, value : Definitions \union {{}},
             actions : Availabilities \union {{}}, target : Nat, read : Views]
  BY <1>2, ViewIsView
<1>4. x.op = op /\ x.value = value /\ x.actions = actions /\ x.read = View
  OBVIOUS
<1>5. command' = [command EXCEPT ![c] = x]
  BY <1>1
<1> HIDE DEF x
<1>6. << c, 1 >> \in Handlers
  BY CopiesAssumption DEF Handlers, Copies
<1>7. /\ command[c].op = "none" /\ Goes(<< c, 1 >>, "sent")
      /\ UNCHANGED << storeVars, lock, faults >>
  BY DEF Send, Goes
<1>8. command'[c] = x /\ \A d \in Commands : d # c => command'[d] = command[d]
  BY <1>5 DEF TypeOK
<1>9. command' \in [Commands -> [op : Ops \union {"none"},
                                 value : Definitions \union {{}},
                                 actions : Availabilities \union {{}},
                                 target : Nat, read : Views]]
  BY <1>3, <1>5 DEF TypeOK
<1>10. IF op \in {"save", "apply"} THEN value \in Definitions ELSE value = {}
  BY <1>1
<1>11. IF op \in {"set_live", "apply"} THEN actions \in Availabilities ELSE actions = {}
  BY <1>1
<1> QED
  BY <1>4, <1>6, <1>7, <1>8, <1>9, <1>10, <1>11

LEMMA SentAgain ==
  ASSUME TypeOK, NEW c \in Commands, SendAgain(c)
  PROVE  /\ UNCHANGED << storeVars, command, lock >> /\ faults' \in 0 .. MaxFaults
         /\ \E h \in Handlers : handler[h].step = "none" /\ Goes(h, "sent") /\ h[1] = c
                                /\ \E g \in Handlers : g[1] = c /\ handler[g].step # "none"
<1>1. PICK n \in Copies \ {1} :
        /\ handler[<< c, n >>].step = "none" /\ handler[<< c, n - 1 >>].step # "none"
        /\ handler' = [handler EXCEPT ![<< c, n >>].step = "sent"]
  BY DEF SendAgain
<1>2. n \in 1 .. MaxCopies /\ n - 1 \in 1 .. MaxCopies
  BY CopiesAssumption DEF Copies
<1>3. << c, n >> \in Handlers /\ << c, n - 1 >> \in Handlers
  BY <1>2 DEF Handlers, Copies
<1>4. Goes(<< c, n >>, "sent")
  BY <1>1 DEF Goes
<1>5. faults' \in 0 .. MaxFaults
  BY FaultsAssumption DEF SendAgain, Fault, TypeOK
<1>6. UNCHANGED << storeVars, command, lock >>
  BY DEF SendAgain
<1> DEFINE h == << c, n >>
<1> DEFINE g == << c, n - 1 >>
<1>7. h \in Handlers /\ handler[h].step = "none" /\ Goes(h, "sent") /\ h[1] = c
  BY <1>1, <1>3, <1>4
<1>8. g \in Handlers /\ handler[g].step # "none" /\ g[1] = c
  BY <1>1, <1>3
<1> HIDE DEF h, g
<1> QED
  BY <1>5, <1>6, <1>7, <1>8

\* A handler's step is its own: it was at work, and no other handler moves.
LEMMA OwnStep ==
  ASSUME TypeOK, NEW h \in Handlers, Handle(h) \/ TransactionFails(h)
  PROVE  /\ \A g \in Handlers : g # h => handler'[g] = handler[g]
         /\ handler[h].step \in {"sent", "checked", "begun", "loaded"}
         /\ handler'[h].step \in {"checked", "begun", "loaded", "done", "refused"}
         /\ handler' \in [Handlers -> Row]
         /\ command' = command
<1> DEFINE Own == /\ \A g \in Handlers : g # h => handler'[g] = handler[g]
                  /\ handler'[h].step \in {"checked", "begun", "loaded", "done", "refused"}
                  /\ handler' \in [Handlers -> Row]
<1>1. \A s \in {"checked", "begun", "loaded", "done", "refused"} : Goes(h, s) => Own
  BY Moved
<1>2. \A n \in Nat : Answer(h, n) => Own
  BY Answered
<1>3. AnswerStored(h) => Own /\ command' = command
  BY StoredAnswered DEF requestVars
<1>4. Refuse(h) => Own
  BY <1>1 DEF Refuse
<1> HIDE DEF Own
<1>5. Len(revisions) \in Nat /\ active \in Nat
  <2>1. Len(revisions) \in Nat
    BY LenProperties DEF TypeOK
  <2> QED
    BY <2>1 DEF TypeOK
<1>6. CASE CheckPrecondition(h)
  BY <1>1, <1>4, <1>6 DEF CheckPrecondition, Step, requestVars, Own
<1>7. CASE LookForReplay(h)
  BY <1>1, <1>3, <1>7 DEF LookForReplay, Step, requestVars, Own
<1>8. CASE SaveDraft(h)
  BY <1>1, <1>4, <1>8 DEF SaveDraft, Step, requestVars, Own
<1>9. CASE DiscardDraft(h)
  BY <1>1, <1>4, <1>9 DEF DiscardDraft, Step, requestVars, Own
<1>10. CASE PublishDraft(h)
  <2>1. Activate(draft.value, draft.basedOn, 0, h[1]) => active' \in Nat
    BY <1>5 DEF Activate
  <2> QED
    BY <2>1, <1>2, <1>4, <1>10 DEF PublishDraft, Step, requestVars, Own
<1>11. CASE Rollback(h)
  <2> DEFINE r == command[h[1]].target
  <2>1. Activate(revisions[r].value, active, r, h[1]) => active' \in Nat
    BY <1>5 DEF Activate
  <2> QED
    BY <2>1, <1>2, <1>4, <1>11 DEF Rollback, Step, requestVars, Own
<1>12. CASE Load(h)
  BY <1>1, <1>3, <1>4, <1>12 DEF Load, Step, requestVars, Own
<1>13. live.generation \in Nat
  BY LiveFields DEF TypeOK
<1>14. SetTo(command[h[1]].actions).generation \in Nat
  BY <1>13 DEF SetTo
<1>15. CASE SetLive(h)
  <2>1. live'.generation \in Nat
    BY <1>14, <1>15 DEF SetLive
  <2> QED
    BY <2>1, <1>2, <1>15 DEF SetLive, Step, requestVars, Own
<1>16. CASE Apply(h)
  <2>1. live' = live \/ live' = SetTo(command[h[1]].actions)
    BY <1>16 DEF Apply
  <2>2. live'.generation \in Nat
    BY <1>13, <1>14, <2>1
  <2> QED
    BY <2>2, <1>2, <1>16 DEF Apply, Step, requestVars, Own
<1>17. CASE PublishAll(h)
  <2>1. active' \in Nat
    BY <1>5, <1>17 DEF PublishAll, Activate
  <2> QED
    BY <2>1, <1>2, <1>17 DEF PublishAll, Step, requestVars, Own
<1>18. CASE StartExecution(h)
  <2>1. CASE AnswerStored(h)
    BY <2>1, <1>3, <1>18 DEF StartExecution, Step, requestVars, Own
  <2>2. CASE Refuse(h) /\ command' = command
    BY <2>2, <1>4, <1>18 DEF StartExecution, Step, Own
  <2>3. CASE Resolves /\ handler' = [handler EXCEPT ![h].step = "begun",
                    ![h].saw = [revision |-> active, availability |-> live.value]]
    <3> DEFINE p == [revision |-> active, availability |-> live.value]
    <3>1. p \in Pair
      BY <1>5, LiveFields DEF Pair, TypeOK
    <3> HIDE DEF p
    <3>2. handler \in [Handlers -> Row]
      BY DEF TypeOK, Row
    <3>3. handler' = [handler EXCEPT ![h].step = "begun", ![h].saw = p]
      BY <2>3 DEF p
    <3>4. /\ handler' = [handler EXCEPT ![h] = handler'[h]]
          /\ handler'[h] = [step |-> "begun", saw |-> p, result |-> handler[h].result]
      BY <3>2, <3>3 DEF Row
    <3>5. handler'[h] \in Row
      BY <3>1, <3>2, <3>4 DEF Row
    <3>6. handler' \in [Handlers -> Row] /\ \A g \in Handlers : g # h => handler'[g] = handler[g]
      BY <3>2, <3>4, <3>5
    <3>7. Step(h, "sent") /\ (command' = command \/ AnswerStored(h))
      BY <1>18 DEF StartExecution, requestVars
    <3>8. command' = command
      BY <3>7, <1>3
    <3> QED
      BY <3>4, <3>6, <3>7, <3>8 DEF Step
  <2> QED
    BY <2>1, <2>2, <2>3, <1>18 DEF StartExecution, requestVars
<1>19. CASE CreateExecution(h)
  <2>1. h[2] \in Nat
    BY HandlerParts
  <2> QED
    BY <2>1, <1>2, <1>4, <1>19 DEF CreateExecution, Step, requestVars, Own
<1>20. CASE TransactionFails(h)
  BY <1>4, <1>20 DEF TransactionFails, Own
<1> QED
  BY <1>6, <1>7, <1>8, <1>9, <1>10, <1>11, <1>12, <1>15, <1>16, <1>17, <1>18, <1>19, <1>20
     DEF Handle

LEMMA CommandFields ==
  ASSUME TypeOK, NEW h \in Handlers
  PROVE  /\ h[1] \in Commands
         /\ command[h[1]].target \in Nat /\ command[h[1]].read \in Views
         /\ command[h[1]].read.draft \in Draft /\ command[h[1]].read.active \in Nat
BY HandlerParts DEF TypeOK, Views

LEMMA Nats ==
  ASSUME TypeOK
  PROVE  Len(revisions) \in Nat /\ active \in Nat /\ active <= Len(revisions)
         /\ DOMAIN revisions = 1 .. Len(revisions)
<1>1. Len(revisions) \in Nat /\ DOMAIN revisions = 1 .. Len(revisions)
  BY LenProperties DEF TypeOK
<1> QED
  BY <1>1 DEF TypeOK

LEMMA WrittenDraft ==
  ASSUME TypeOK, NEW h \in Handlers, NEW x \in Definitions
  PROVE  /\ Written(h, x) \in Draft /\ Written(h, x) # NoDraft
         /\ Written(h, x).value = x
         /\ draft = NoDraft => /\ Written(h, x).birth = h
                               /\ Written(h, x).basedOn = active
         /\ draft # NoDraft => /\ Written(h, x).birth = draft.birth
                               /\ Written(h, x).basedOn = draft.basedOn
                               /\ Written(h, x).version = draft.version + 1
<1>1. h[1] \in Authors /\ active \in Nat
  BY HandlerParts, Nats DEF Authors
<1>2. CASE draft = NoDraft
  <2> DEFINE d == [value |-> x, version |-> 1, basedOn |-> active, by |-> h[1], birth |-> h]
  <2>1. d \in Draft /\ d.version = 1 /\ d.birth = h /\ d.basedOn = active /\ d.value = x
    BY <1>1 DEF Draft
  <2>2. Written(h, x) = d
    BY <1>2 DEF Written
  <2> HIDE DEF d
  <2> QED
    BY <1>2, <2>1, <2>2, DraftFields
<1>3. CASE draft # NoDraft
  <2>1. draft \in [value : Definitions, version : Nat \ {0}, basedOn : Nat,
                   by : Authors, birth : Handlers \union {Nobody}]
    BY <1>3 DEF Draft, TypeOK
  <2> DEFINE d == [value |-> x, version |-> draft.version + 1, basedOn |-> draft.basedOn,
                   by |-> h[1], birth |-> draft.birth]
  <2>2. /\ d \in Draft /\ d.version = draft.version + 1 /\ d.birth = draft.birth
        /\ d.basedOn = draft.basedOn /\ d.value = x
    BY <2>1, <1>1 DEF Draft
  <2>3. Written(h, x) = d
    BY <1>3, <2>1 DEF Written, NextVersion
  <2> HIDE DEF d
  <2>4. d.version # 0
    BY <2>1, <2>2
  <2> QED
    BY <1>3, <2>2, <2>3, <2>4, DraftFields
<1> QED
  BY <1>2, <1>3

LEMMA SetLiveTo ==
  ASSUME TypeOK, NEW v \in Availabilities
  PROVE  /\ SetTo(v) \in Live /\ SetTo(v).value = v /\ SetTo(v).generation \in Nat
         /\ SetTo(v) # NoLive
<1>1. live.generation + 1 \in Nat \ {0}
  BY LiveFields DEF TypeOK
<1> DEFINE w == [value |-> v, generation |-> live.generation + 1]
<1>2. w \in Live /\ w.value = v /\ w.generation \in Nat \ {0}
  BY <1>1 DEF Live
<1>3. SetTo(v) = w
  BY DEF SetTo
<1> HIDE DEF w
<1> QED
  BY <1>2, <1>3, LiveFields

-----------------------------------------------------------------------------
(***************************************************************************)
(* Type correctness.                                                       *)
(***************************************************************************)

StoreOK ==
  /\ exists \in BOOLEAN /\ (active # 0 \/ draft # NoDraft => exists)
  /\ revisions \in Seq(Revision) /\ active \in 0 .. Len(revisions)
  /\ draft \in Draft /\ live \in Live
  /\ replays \subseteq [command : Commands, result : Nat]
  /\ executions \subseteq [command : Commands, copy : Copies, revision : Nat,
                           availability : Availabilities \union {{}}]
  /\ moments \subseteq Pair

LEMMA StoreTyped == ASSUME TypeOK PROVE StoreOK
BY DEF TypeOK, StoreOK

LEMMA StoreKept == ASSUME StoreOK, UNCHANGED storeVars PROVE StoreOK'
BY DEF StoreOK, storeVars, componentVars

\* What the transactions add.
LEMMA AddedTyped ==
  ASSUME StoreOK
  PROVE  /\ \A h \in Handlers : \A n \in Nat :
              AddReplay(h, n) => replays' \subseteq [command : Commands, result : Nat]
         /\ \A r \in Nat : \A v \in Availabilities \union {{}} :
              Moment(r, v) => moments' \subseteq Pair
<1>1. ASSUME NEW h \in Handlers, NEW n \in Nat, AddReplay(h, n)
      PROVE  replays' \subseteq [command : Commands, result : Nat]
  <2>1. [command |-> h[1], result |-> n] \in [command : Commands, result : Nat]
    BY HandlerParts
  <2> QED
    BY <1>1, <2>1 DEF AddReplay, StoreOK
<1>2. ASSUME NEW r \in Nat, NEW v \in Availabilities \union {{}}, Moment(r, v)
      PROVE  moments' \subseteq Pair
  <2>1. [revision |-> r, availability |-> v] \in Pair
    BY DEF Pair
  <2> QED
    BY <1>2, <2>1 DEF Moment, StoreOK
<1> QED
  BY <1>1, <1>2

\* A published draft or a restored revision becomes the active one.
LEMMA PublishedTyped ==
  ASSUME TypeOK, NEW h \in Handlers, NEW v \in Definitions, NEW b \in Nat, NEW r \in Nat,
         Activate(v, b, r, h[1])
  PROVE  /\ revisions' \in Seq(Revision) /\ active' \in 0 .. Len(revisions')
         /\ active' \in Nat /\ active' # 0
<1>1. /\ revisions' \in Seq(Revision) /\ Len(revisions') = Len(revisions) + 1
      /\ active' = Len(revisions) + 1 /\ Len(revisions) \in Nat
  BY HandlerParts, Activated
<1> QED
  BY <1>1

LEMMA StoreNext ==
  ASSUME TypeOK, StepsFit, CommandsFit, NEW h \in Handlers, Handle(h)
  PROVE  StoreOK'
<1>1. StoreOK
  BY StoreTyped
<1>2. /\ Len(revisions) \in Nat /\ active \in Nat /\ active <= Len(revisions)
      /\ DOMAIN revisions = 1 .. Len(revisions)
  BY Nats
<1>3. live.value \in Availabilities \union {{}} /\ live.generation \in Nat
  BY LiveFields DEF TypeOK
<1>4. /\ h[1] \in Commands /\ h[2] \in Copies /\ h[2] \in Nat
      /\ command[h[1]].target \in Nat
  BY HandlerParts, CommandFields
<1>5. NoDraft \in Draft
  BY DEF Draft
<1>6. AnswerStored(h) => StoreOK'
  BY <1>1, StoredAnswered, StoreKept
<1>7. CASE CheckPrecondition(h)
  BY <1>1, <1>7, StoreKept DEF CheckPrecondition
<1>8. CASE LookForReplay(h)
  <2>1. AnswerStored(h) \/ UNCHANGED storeVars
    BY <1>8 DEF LookForReplay
  <2> QED
    BY <1>1, <1>6, <2>1, StoreKept
<1>9. CASE SaveDraft(h)
  <2>1. command[h[1]].value \in Definitions
    BY <1>4, <1>9 DEF SaveDraft, Op, CommandsFit
  <2>2. Written(h, command[h[1]].value) \in Draft
    BY <2>1, WrittenDraft
  <2>3. draft' \in Draft /\ exists' \in BOOLEAN /\ (exists' \/ (exists' = exists /\ draft' = draft))
    BY <1>1, <1>9, <2>2 DEF SaveDraft, StoreOK
  <2>4. UNCHANGED << active, revisions, live, replays, executions, moments >>
    BY <1>9 DEF SaveDraft
  <2> QED
    BY <1>1, <2>3, <2>4 DEF StoreOK
<1>10. CASE DiscardDraft(h)
  <2>1. draft' = draft \/ draft' = NoDraft
    BY <1>10 DEF DiscardDraft
  <2>2. UNCHANGED << exists, active, revisions, live, replays, executions, moments >>
    BY <1>10 DEF DiscardDraft
  <2> QED
    BY <1>1, <1>5, <2>1, <2>2 DEF StoreOK
<1>11. CASE PublishDraft(h)
  <2>1. UNCHANGED << exists, live, executions >>
    BY <1>11 DEF PublishDraft
  <2>2. CASE UNCHANGED << active, draft, revisions, replays, moments >>
    BY <1>1, <2>1, <2>2 DEF StoreOK
  <2>3. CASE ~ UNCHANGED << active, draft, revisions, replays, moments >>
    <3>1. /\ draft.version = command[h[1]].read.draft.version
          /\ Activate(draft.value, draft.basedOn, 0, h[1])
          /\ draft' = NoDraft /\ AddReplay(h, active') /\ Moment(active', live.value)
      BY <1>11, <2>3 DEF PublishDraft
    <3>2. command[h[1]].read.draft # NoDraft
      BY <1>11 DEF PublishDraft, StepsFit
    <3>3. draft # NoDraft
      BY <3>1, <3>2, CommandFields, DraftFields DEF TypeOK
    <3>4. draft.value \in Definitions /\ draft.basedOn \in Nat /\ exists
      BY <3>3, DraftFields DEF TypeOK
    <3>5. /\ revisions' \in Seq(Revision) /\ active' \in 0 .. Len(revisions')
          /\ active' \in Nat /\ active' # 0
      BY <3>1, <3>4, PublishedTyped
    <3>6. replays' \subseteq [command : Commands, result : Nat] /\ moments' \subseteq Pair
      BY <1>1, <1>3, <3>1, <3>5, AddedTyped
    <3> QED
      BY <1>1, <1>5, <2>1, <3>1, <3>4, <3>5, <3>6 DEF StoreOK
  <2> QED
    BY <2>2, <2>3
<1>12. CASE Rollback(h)
  <2> DEFINE r == command[h[1]].target
  <2>1. UNCHANGED << exists, draft, live, executions >>
    BY <1>12 DEF Rollback
  <2>2. CASE UNCHANGED << active, revisions, replays, moments >>
    BY <1>1, <2>1, <2>2 DEF StoreOK
  <2>3. CASE ~ UNCHANGED << active, revisions, replays, moments >>
    <3>1. /\ active # 0 /\ r \in DOMAIN revisions
          /\ Activate(revisions[r].value, active, r, h[1])
          /\ AddReplay(h, active') /\ Moment(active', live.value)
      BY <1>12, <2>3 DEF Rollback, MayRollback
    <3>2. revisions[r] \in Revision
      BY <3>1, ElementOfSeq DEF TypeOK
    <3>3. revisions[r].value \in Definitions /\ exists
      BY <3>1, <3>2 DEF Revision, TypeOK
    <3>4. /\ revisions' \in Seq(Revision) /\ active' \in 0 .. Len(revisions')
          /\ active' \in Nat /\ active' # 0
      BY <1>2, <1>4, <3>1, <3>3, PublishedTyped
    <3>5. replays' \subseteq [command : Commands, result : Nat] /\ moments' \subseteq Pair
      BY <1>1, <1>3, <3>1, <3>4, AddedTyped
    <3> QED
      BY <1>1, <2>1, <3>3, <3>4, <3>5 DEF StoreOK
  <2> QED
    BY <2>2, <2>3
<1>13. CASE Load(h)
  <2>1. AnswerStored(h) \/ UNCHANGED storeVars
    BY <1>13 DEF Load
  <2> QED
    BY <1>1, <1>6, <2>1, StoreKept
<1>14. CASE SetLive(h)
  <2>1. command[h[1]].actions \in Availabilities
    BY <1>4, <1>14 DEF SetLive, Op, CommandsFit
  <2>2. /\ live' \in Live /\ live'.value = command[h[1]].actions /\ live'.generation \in Nat
    BY <1>14, <2>1, SetLiveTo DEF SetLive
  <2>3. /\ AddReplay(h, live'.generation) /\ Moment(active, live'.value)
        /\ UNCHANGED << componentVars, executions >>
    BY <1>14 DEF SetLive
  <2>4. replays' \subseteq [command : Commands, result : Nat] /\ moments' \subseteq Pair
    BY <1>1, <1>2, <2>1, <2>2, <2>3, AddedTyped
  <2> QED
    BY <1>1, <2>2, <2>3, <2>4 DEF StoreOK, componentVars
<1>15. CASE Apply(h)
  <2> DEFINE x == command[h[1]].value
  <2>1. x \in Definitions /\ command[h[1]].actions \in Availabilities
    BY <1>4, <1>15 DEF Apply, Op, CommandsFit
  <2>2. live' = live \/ live' = SetTo(command[h[1]].actions)
    BY <1>15 DEF Apply
  <2>3. live' \in Live
    BY <1>1, <2>1, <2>2, SetLiveTo DEF StoreOK
  <2>4. live'.value \in Availabilities \union {{}} /\ live'.generation \in Nat
    BY <2>3, LiveFields
  <2>5. /\ draft' = draft \/ draft' = NoDraft \/ draft' = Written(h, x)
        /\ exists' \in BOOLEAN /\ (exists => exists')
        /\ draft' = Written(h, x) => exists' \/ draft' = draft \/ draft' = NoDraft
    BY <1>1, <1>15 DEF Apply, StoreOK
  <2>6. draft' \in Draft
    BY <1>1, <1>5, <2>1, <2>5, WrittenDraft DEF StoreOK
  <2>7. /\ AddReplay(h, live'.generation) /\ Moment(active, live'.value)
        /\ UNCHANGED << active, revisions, executions >>
    BY <1>15 DEF Apply
  <2>8. replays' \subseteq [command : Commands, result : Nat] /\ moments' \subseteq Pair
    BY <1>1, <1>2, <2>4, <2>7, AddedTyped
  <2>9. active' # 0 \/ draft' # NoDraft => exists'
    BY <1>1, <2>5, <2>7 DEF StoreOK
  <2> QED
    BY <1>1, <2>3, <2>5, <2>6, <2>7, <2>8, <2>9 DEF StoreOK
<1>16. CASE PublishAll(h)
  <2>1. /\ draft' = NoDraft /\ AddReplay(h, active') /\ Moment(active', live.value)
        /\ UNCHANGED << exists, live, executions >>
        /\ draft # NoDraft => Activate(draft.value, draft.basedOn, 0, h[1])
        /\ draft = NoDraft => UNCHANGED << active, revisions >>
    BY <1>16 DEF PublishAll
  <2>2. /\ revisions' \in Seq(Revision) /\ active' \in 0 .. Len(revisions')
        /\ active' \in Nat /\ (active' # 0 => exists)
    <3>1. CASE draft = NoDraft
      BY <1>1, <1>2, <2>1, <3>1 DEF StoreOK
    <3>2. CASE draft # NoDraft
      <4>1. draft.value \in Definitions /\ draft.basedOn \in Nat /\ exists
        BY <3>2, DraftFields DEF TypeOK
      <4> QED
        BY <2>1, <3>2, <4>1, PublishedTyped
    <3> QED
      BY <3>1, <3>2
  <2>3. replays' \subseteq [command : Commands, result : Nat] /\ moments' \subseteq Pair
    BY <1>1, <1>3, <2>1, <2>2, AddedTyped
  <2> QED
    BY <1>1, <1>5, <2>1, <2>2, <2>3 DEF StoreOK
<1>17. CASE StartExecution(h)
  <2>1. AnswerStored(h) \/ UNCHANGED storeVars
    BY <1>17 DEF StartExecution
  <2> QED
    BY <1>1, <1>6, <2>1, StoreKept
<1>18. CASE CreateExecution(h)
  <2>1. UNCHANGED << componentVars, live, moments >>
    BY <1>18 DEF CreateExecution
  <2>2. CASE UNCHANGED << executions, replays >>
    BY <1>1, <2>1, <2>2 DEF StoreOK, componentVars
  <2>3. CASE ~ UNCHANGED << executions, replays >>
    <3> DEFINE e == [command |-> h[1], copy |-> h[2], revision |-> handler[h].saw.revision,
                     availability |-> handler[h].saw.availability]
    <3>1. executions' = executions \union {e} /\ AddReplay(h, h[2])
      BY <1>18, <2>3 DEF CreateExecution, ReadsFrom
    <3>2. handler[h].saw \in Pair
      BY DEF TypeOK
    <3>3. e \in [command : Commands, copy : Copies, revision : Nat,
                 availability : Availabilities \union {{}}]
      BY <1>4, <3>2 DEF Pair
    <3>4. replays' \subseteq [command : Commands, result : Nat]
      BY <1>1, <1>4, <3>1, AddedTyped
    <3> HIDE DEF e
    <3> QED
      BY <1>1, <2>1, <3>1, <3>3, <3>4 DEF StoreOK, componentVars
  <2> QED
    BY <2>2, <2>3
<1> QED
  BY <1>7, <1>8, <1>9, <1>10, <1>11, <1>12, <1>13, <1>14, <1>15, <1>16, <1>17, <1>18 DEF Handle

\* The tenant's lock is taken by Load and given back when its handler answers.
LEMMA LockMoves ==
  ASSUME TypeOK, StepsFit, NEW h \in Handlers, Handle(h) \/ TransactionFails(h)
  PROVE  \/ /\ handler[h].step # "loaded" /\ handler'[h].step # "loaded"
            /\ lock' = lock
         \/ /\ handler[h].step = "loaded" /\ handler'[h].step # "loaded"
            /\ lock.holder = h /\ lock' = Unlocked
         \/ /\ handler[h].step = "sent" /\ handler'[h].step = "loaded"
            /\ lock.holder = Nobody /\ lock' = [holder |-> h, row |-> LocksRow]
            /\ Op(h) \in TenantOps /\ Stored(h) = {}
            /\ ReadStillHolds(h) /\ IsValid(h)
            /\ UNCHANGED << storeVars, requestVars >>
<1>1. \A s : Goes(h, s) => handler'[h].step = s
  BY Moved
<1>2. \A n \in Nat : Answer(h, n) => handler'[h].step = "done"
  BY Answered
<1>3. Refuse(h) => handler'[h].step = "refused"
  BY <1>1 DEF Refuse
<1>4. AnswerStored(h) => handler'[h].step = "done" /\ lock' = lock
  BY StoredAnswered
<1>5. handler[h].step = "loaded" <=> lock.holder = h
  BY DEF StepsFit, Step
<1>6. handler'[h].step \in {"checked", "begun", "loaded", "done", "refused"}
  BY OwnStep
<1>7. CASE CheckPrecondition(h)
  BY <1>1, <1>3, <1>7 DEF CheckPrecondition, Step
<1>8. CASE LookForReplay(h)
  BY <1>1, <1>4, <1>8 DEF LookForReplay, Step
<1>9. CASE SaveDraft(h)
  BY <1>1, <1>3, <1>9 DEF SaveDraft, Step
<1>10. CASE DiscardDraft(h)
  BY <1>1, <1>3, <1>10 DEF DiscardDraft, Step
<1>11. ASSUME Answer(h, active') PROVE handler'[h].step # "loaded"
  <2>1. handler \in [Handlers -> Row]
    BY DEF TypeOK, Row
  <2>2. handler'[h] = [step |-> "done", saw |-> handler[h].saw, result |-> active']
    BY <2>1, <1>11 DEF Answer, Row
  <2> QED
    BY <2>2
<1>12. CASE PublishDraft(h)
  BY <1>3, <1>11, <1>12 DEF PublishDraft, Step
<1>13. CASE Rollback(h)
  BY <1>3, <1>11, <1>13 DEF Rollback, Step
<1>14. CASE Load(h)
  <2>1. Op(h) \in TenantOps /\ handler[h].step = "sent" /\ lock.holder = Nobody
    BY <1>14 DEF Load, Step
  <2>2. CASE Stored(h) # {}
    BY <1>4, <1>14, <2>1, <2>2 DEF Load
  <2>3. CASE Stored(h) = {} /\ ReadStillHolds(h) /\ IsValid(h)
    <3>1. /\ Goes(h, "loaded") /\ lock' = [holder |-> h, row |-> LocksRow]
          /\ UNCHANGED << storeVars, requestVars >>
      BY <1>14, <2>3 DEF Load
    <3> QED
      BY <1>1, <2>1, <2>3, <3>1
  <2>4. CASE Stored(h) = {} /\ ~(ReadStillHolds(h) /\ IsValid(h))
    <3>1. Refuse(h) /\ lock' = lock
      BY <1>14, <2>4 DEF Load
    <3> QED
      BY <1>3, <2>1, <3>1
  <2> QED
    BY <2>2, <2>3, <2>4
<1>15. ASSUME handler[h].step = "loaded", lock' = Unlocked, Answer(h, active') \/ Answer(h, live'.generation)
       PROVE  /\ handler[h].step = "loaded" /\ handler'[h].step # "loaded"
              /\ lock.holder = h /\ lock' = Unlocked
  <2>1. handler \in [Handlers -> Row]
    BY DEF TypeOK, Row
  <2>2. handler'[h].step = "done"
    BY <2>1, <1>15 DEF Answer, Row
  <2> QED
    BY <1>5, <1>15, <2>2
<1>16. CASE SetLive(h) \/ Apply(h) \/ PublishAll(h)
  BY <1>15, <1>16 DEF SetLive, Apply, PublishAll, Step
<1>17. CASE StartExecution(h)
  <2>1. handler[h].step = "sent"
    BY <1>17 DEF StartExecution, Step
  <2>2. CASE Stored(h) # {}
    BY <1>4, <1>17, <2>1, <2>2 DEF StartExecution
  <2>3. CASE Stored(h) = {}
    <3>1. handler \in [Handlers -> Row]
      BY DEF TypeOK, Row
    <3>2. lock' = lock
      BY <1>17, <2>3 DEF StartExecution
    <3>3. CASE Resolves
      <4>1. handler' = [handler EXCEPT ![h].step = "begun",
                    ![h].saw = [revision |-> active, availability |-> live.value]]
        BY <1>17, <2>3, <3>3 DEF StartExecution
      <4>2. handler'[h].step = "begun"
        BY <3>1, <4>1 DEF Row
      <4> QED
        BY <2>1, <3>2, <4>2
    <3>4. CASE ~Resolves
      <4>1. Refuse(h)
        BY <1>17, <2>3, <3>4 DEF StartExecution
      <4> QED
        BY <1>3, <2>1, <3>2, <4>1
    <3> QED
      BY <3>3, <3>4
  <2> QED
    BY <2>2, <2>3
<1>18. CASE CreateExecution(h)
  <2>1. h[2] \in Nat
    BY HandlerParts
  <2> QED
    BY <2>1, <1>2, <1>3, <1>18 DEF CreateExecution, Step
<1>19. CASE TransactionFails(h)
  BY <1>3, <1>5, <1>19 DEF TransactionFails
<1> QED
  BY <1>7, <1>8, <1>9, <1>10, <1>12, <1>13, <1>14, <1>16, <1>17, <1>18, <1>19 DEF Handle

\* Of a request nobody has sent no handler is at work.
LEMMA NobodyWorks ==
  ASSUME StepsFit, NEW c \in Commands, command[c].op = "none"
  PROVE  \A h \in Handlers : h[1] = c => handler[h].step = "none" /\ lock.holder # h
<1>1. "none" \notin Ops
  BY DEF Ops, ComponentOps, TenantOps
<1>2. SUFFICES ASSUME NEW h \in Handlers, h[1] = c
               PROVE  handler[h].step = "none" /\ lock.holder # h
  OBVIOUS
<1>3. Op(h) = "none"
  BY <1>2 DEF Op
<1>4. handler[h].step = "none"
  BY <1>1, <1>3 DEF StepsFit, Step
<1>5. handler[h].step = "loaded" <=> lock.holder = h
  BY DEF StepsFit, Step
<1> QED
  BY <1>4, <1>5

LEMMA TypeNext ==
  ASSUME TypeOK, StepsFit, CommandsFit, [Next]_vars
  PROVE  TypeOK'
<1>1. StoreOK
  BY StoreTyped
<1>2. ASSUME NEW c \in Commands, Send(c) PROVE TypeOK'
  <2>1. handler' \in [Handlers -> Row]
    BY <1>2, Sent, Moved
  <2>2. /\ UNCHANGED << storeVars, lock, faults >>
        /\ command' \in [Commands -> [op : Ops \union {"none"},
                                      value : Definitions \union {{}},
                                      actions : Availabilities \union {{}},
                                      target : Nat, read : Views]]
    BY <1>2, Sent
  <2>3. StoreOK'
    BY <1>1, <2>2, StoreKept
  <2> QED
    BY <2>1, <2>2, <2>3 DEF TypeOK, StoreOK, Row
<1>3. ASSUME NEW c \in Commands, SendAgain(c) PROVE TypeOK'
  <2>1. /\ UNCHANGED << storeVars, command, lock >> /\ faults' \in 0 .. MaxFaults
        /\ \E h \in Handlers : Goes(h, "sent")
    BY <1>3, SentAgain
  <2>2. handler' \in [Handlers -> Row]
    BY <2>1, Moved
  <2>3. StoreOK'
    BY <1>1, <2>1, StoreKept
  <2> QED
    BY <2>1, <2>2, <2>3 DEF TypeOK, StoreOK, Row
<1>4. ASSUME NEW h \in Handlers, Handle(h) \/ TransactionFails(h) PROVE TypeOK'
  <2>1. handler' \in [Handlers -> Row] /\ command' = command
    BY <1>4, OwnStep
  <2>2. lock' \in [holder : Handlers \union {Nobody}, row : BOOLEAN]
    <3>1. Unlocked \in [holder : Handlers \union {Nobody}, row : BOOLEAN]
      BY DEF Unlocked
    <3>2. [holder |-> h, row |-> LocksRow] \in [holder : Handlers \union {Nobody}, row : BOOLEAN]
      BY DEF LocksRow, TypeOK
    <3>3. lock' = lock \/ lock' = Unlocked \/ lock' = [holder |-> h, row |-> LocksRow]
      BY <1>4, LockMoves
    <3> QED
      BY <3>1, <3>2, <3>3 DEF TypeOK
  <2>3. StoreOK'
    <3>1. CASE Handle(h)
      BY <3>1, StoreNext
    <3>2. CASE TransactionFails(h)
      BY <1>1, <3>2, StoreKept DEF TransactionFails
    <3> QED
      BY <1>4, <3>1, <3>2
  <2>4. faults' \in 0 .. MaxFaults
    <3>1. CASE TransactionFails(h)
      BY <3>1, FaultsAssumption DEF TransactionFails, Fault, TypeOK
    <3>2. CASE Handle(h)
      <4>1. AnswerStored(h) => faults' = faults
        BY DEF AnswerStored, requestVars
      <4>2. faults' = faults
        BY <3>2, <4>1 DEF Handle, CheckPrecondition, LookForReplay, SaveDraft, DiscardDraft,
             PublishDraft, Rollback, Load, SetLive, Apply, PublishAll, StartExecution,
             CreateExecution, requestVars
      <4> QED
        BY <4>2 DEF TypeOK
    <3> QED
      BY <1>4, <3>1, <3>2
  <2> QED
    BY <2>1, <2>2, <2>3, <2>4 DEF TypeOK, StoreOK, Row
<1>5. ASSUME UNCHANGED vars PROVE TypeOK'
  BY <1>5 DEF TypeOK, vars, storeVars, componentVars, requestVars
<1> QED
  BY <1>2, <1>3, <1>4, <1>5 DEF Next

LEMMA CommandsNext ==
  ASSUME TypeOK, CommandsFit, [Next]_vars
  PROVE  CommandsFit'
<1>1. ASSUME NEW c \in Commands, Send(c) PROVE CommandsFit'
  <2>1. /\ \A d \in Commands : d # c => command'[d] = command[d]
        /\ command'[c].op \in {"save", "apply"} => command'[c].value \in Definitions
        /\ command'[c].op \in {"set_live", "apply"} => command'[c].actions \in Availabilities
    BY <1>1, Sent
  <2> QED
    BY <2>1 DEF CommandsFit
<1>2. ASSUME command' = command PROVE CommandsFit'
  BY <1>2 DEF CommandsFit
<1>3. ASSUME NEW c \in Commands, SendAgain(c) PROVE command' = command
  BY <1>3, SentAgain
<1>4. ASSUME NEW h \in Handlers, Handle(h) \/ TransactionFails(h) PROVE command' = command
  BY <1>4, OwnStep
<1>5. ASSUME UNCHANGED vars PROVE command' = command
  BY <1>5 DEF vars, requestVars
<1> QED
  BY <1>1, <1>2, <1>3, <1>4, <1>5 DEF Next

\* What has been checked of a handler that is between two of its steps.
LEMMA HasChecked ==
  ASSUME TypeOK, StepsFit, NEW h \in Handlers, Handle(h) \/ TransactionFails(h)
  PROVE  /\ handler'[h].step = "checked" =>
              /\ Op(h) \in ComponentOps
              /\ Op(h) \in {"discard", "publish"} => command[h[1]].read.draft # NoDraft
         /\ handler'[h].step = "begun" =>
              /\ Op(h) \in {"publish", "rollback", "execute"}
              /\ Op(h) = "publish" => command[h[1]].read.draft # NoDraft
<1>1. \A s : Goes(h, s) => handler'[h].step = s
  BY Moved
<1>2. ASSUME NEW n, Answer(h, n) PROVE handler'[h].step = "done"
  <2>1. handler \in [Handlers -> Row]
    BY DEF TypeOK, Row
  <2>2. handler'[h] = [step |-> "done", saw |-> handler[h].saw, result |-> n]
    BY <2>1, <1>2 DEF Answer, Row
  <2> QED
    BY <2>2
<1>3. Refuse(h) => handler'[h].step = "refused"
  BY <1>1 DEF Refuse
<1>4. AnswerStored(h) => handler'[h].step = "done"
  BY StoredAnswered
<1>5. CASE CheckPrecondition(h)
  <2>1. Op(h) \in ComponentOps
    BY <1>5 DEF CheckPrecondition
  <2>2. \/ Refuse(h)
        \/ /\ Op(h) \in {"discard", "publish"} => command[h[1]].read.draft # NoDraft
           /\ Goes(h, "checked")
    BY <1>5 DEF CheckPrecondition
  <2> QED
    BY <1>1, <1>3, <2>1, <2>2
<1>6. CASE LookForReplay(h)
  <2>1. /\ Op(h) \in {"publish", "rollback"} /\ Step(h, "checked")
        /\ AnswerStored(h) \/ Goes(h, "begun")
    BY <1>6 DEF LookForReplay
  <2>2. Op(h) = "publish" => command[h[1]].read.draft # NoDraft
    BY <2>1 DEF StepsFit
  <2> QED
    BY <1>1, <1>4, <2>1, <2>2
<1>7. CASE SaveDraft(h) \/ DiscardDraft(h)
  <2>1. Goes(h, "done") \/ Refuse(h)
    BY <1>7 DEF SaveDraft, DiscardDraft
  <2> QED
    BY <1>1, <1>3, <2>1
<1>8. CASE PublishDraft(h) \/ Rollback(h)
  <2>1. Answer(h, active') \/ Refuse(h)
    BY <1>8 DEF PublishDraft, Rollback
  <2> QED
    BY <1>2, <1>3, <2>1
<1>9. CASE Load(h)
  <2>1. handler'[h].step \notin {"checked", "begun"}
    <3>1. CASE Stored(h) # {}
      BY <1>4, <1>9, <3>1 DEF Load
    <3>2. CASE Stored(h) = {}
      <4>1. Goes(h, "loaded") \/ Refuse(h)
        BY <1>9, <3>2 DEF Load
      <4> QED
        BY <1>1, <1>3, <4>1
    <3> QED
      BY <3>1, <3>2
  <2> QED
    BY <2>1
<1>10. CASE SetLive(h) \/ Apply(h) \/ PublishAll(h)
  <2>1. Answer(h, live'.generation) \/ Answer(h, active')
    BY <1>10 DEF SetLive, Apply, PublishAll
  <2> QED
    BY <1>2, <2>1
<1>11. CASE StartExecution(h)
  <2>1. Op(h) = "execute"
    BY <1>11 DEF StartExecution
  <2>2. handler'[h].step # "checked"
    <3>1. CASE Stored(h) # {}
      BY <1>4, <1>11, <3>1 DEF StartExecution
    <3>2. CASE Stored(h) = {} /\ ~Resolves
      <4>1. Refuse(h)
        BY <1>11, <3>2 DEF StartExecution
      <4> QED
        BY <1>3, <4>1
    <3>3. CASE Stored(h) = {} /\ Resolves
      <4>1. handler \in [Handlers -> Row]
        BY DEF TypeOK, Row
      <4>2. handler' = [handler EXCEPT ![h].step = "begun",
                    ![h].saw = [revision |-> active, availability |-> live.value]]
        BY <1>11, <3>3 DEF StartExecution
      <4> QED
        BY <4>1, <4>2 DEF Row
    <3> QED
      BY <3>1, <3>2, <3>3
  <2> QED
    BY <2>1, <2>2
<1>12. CASE CreateExecution(h)
  <2>1. Answer(h, h[2]) \/ Refuse(h)
    BY <1>12 DEF CreateExecution
  <2> QED
    BY <1>2, <1>3, <2>1
<1>13. CASE TransactionFails(h)
  BY <1>3, <1>13 DEF TransactionFails
<1> QED
  BY <1>5, <1>6, <1>7, <1>8, <1>9, <1>10, <1>11, <1>12, <1>13 DEF Handle

\* StepsFit of one handler.
Fits(h) ==
  /\ ~Step(h, "none") => Op(h) \in Ops
  /\ Step(h, "checked") =>
       /\ Op(h) \in ComponentOps
       /\ Op(h) \in {"discard", "publish"} => command[h[1]].read.draft # NoDraft
  /\ Step(h, "begun") =>
       /\ Op(h) \in {"publish", "rollback", "execute"}
       /\ Op(h) = "publish" => command[h[1]].read.draft # NoDraft
  /\ Step(h, "loaded") <=> lock.holder = h
  /\ lock.holder = h => Op(h) \in TenantOps

LEMMA StepsFitIsFits == StepsFit <=> \A h \in Handlers : Fits(h)
BY DEF StepsFit, Fits

LEMMA FitsKept ==
  ASSUME NEW h \in Handlers, Fits(h), handler'[h] = handler[h],
         command'[h[1]] = command[h[1]], lock'.holder = h <=> lock.holder = h
  PROVE  Fits(h)'
BY DEF Fits, Op, Step

LEMMA StepsNext ==
  ASSUME TypeOK, StepsFit, [Next]_vars
  PROVE  StepsFit'
<1>1. \A h \in Handlers : Fits(h)
  BY StepsFitIsFits
<1>2. ASSUME NEW c \in Commands, Send(c), NEW g \in Handlers PROVE Fits(g)'
  <2>1. /\ Goes(<< c, 1 >>, "sent") /\ << c, 1 >> \in Handlers /\ command[c].op = "none"
        /\ \A d \in Commands : d # c => command'[d] = command[d]
        /\ command'[c].op \in Ops /\ lock' = lock
    BY <1>2, Sent
  <2>2. /\ \A k \in Handlers : k # << c, 1 >> => handler'[k] = handler[k]
        /\ handler'[<< c, 1 >>].step = "sent"
    BY <2>1, Moved
  <2>3. CASE g[1] # c
    <3>1. g # << c, 1 >> /\ g[1] \in Commands
      BY <2>3, HandlerParts
    <3> QED
      BY <1>1, <2>1, <2>2, <2>3, <3>1, FitsKept
  <2>4. CASE g[1] = c
    <3>1. handler[g].step = "none" /\ lock.holder # g
      BY <2>1, <2>4, NobodyWorks
    <3>2. handler'[g].step \in {"none", "sent"}
      BY <2>2, <3>1
    <3>3. command'[g[1]].op \in Ops /\ lock'.holder # g
      BY <2>1, <2>4, <3>1
    <3> QED
      BY <3>2, <3>3 DEF Fits, Op, Step
  <2> QED
    BY <2>3, <2>4
<1>3. ASSUME NEW c \in Commands, SendAgain(c), NEW g \in Handlers PROVE Fits(g)'
  <2>1. PICK h \in Handlers : /\ handler[h].step = "none" /\ Goes(h, "sent") /\ h[1] = c
                              /\ \E k \in Handlers : k[1] = c /\ handler[k].step # "none"
    BY <1>3, SentAgain
  <2>2. command' = command /\ lock' = lock
    BY <1>3, SentAgain
  <2>3. /\ \A k \in Handlers : k # h => handler'[k] = handler[k]
        /\ handler'[h].step = "sent"
    BY <2>1, Moved
  <2>4. Op(h) \in Ops
    BY <1>1, <2>1 DEF Fits, Op, Step
  <2>5. CASE g # h
    BY <1>1, <2>2, <2>3, <2>5, FitsKept
  <2>6. CASE g = h
    <3>1. lock.holder # h
      BY <1>1, <2>1 DEF Fits, Step
    <3> QED
      BY <2>2, <2>3, <2>4, <2>6, <3>1 DEF Fits, Op, Step
  <2> QED
    BY <2>5, <2>6
<1>4. ASSUME NEW h \in Handlers, Handle(h) \/ TransactionFails(h), NEW g \in Handlers
      PROVE  Fits(g)'
  <2>1. /\ \A k \in Handlers : k # h => handler'[k] = handler[k]
        /\ command' = command
        /\ handler[h].step \in {"sent", "checked", "begun", "loaded"}
    BY <1>4, OwnStep
  <2>2. Unlocked.holder = Nobody /\ [holder |-> h, row |-> LocksRow].holder = h
    BY DEF Unlocked
  <2>3. \A k \in Handlers : k # Nobody
    BY NobodyIsNoHandler
  <2>4. CASE g # h
    <3>1. lock'.holder = g <=> lock.holder = g
      BY <1>4, <2>2, <2>3, <2>4, LockMoves
    <3> QED
      BY <1>1, <2>1, <2>4, <3>1, FitsKept
  <2>5. CASE g = h
    <3>1. Op(h) \in Ops
      BY <1>1, <2>1 DEF Fits, Step
    <3>2. /\ handler'[h].step = "loaded" <=> lock'.holder = h
          /\ lock'.holder = h => Op(h) \in TenantOps
      <4>1. handler[h].step = "loaded" <=> lock.holder = h
        BY <1>1 DEF Fits, Step
      <4> QED
        BY <1>4, <2>2, <2>3, <4>1, LockMoves
    <3> QED
      BY <1>4, <2>1, <2>5, <3>1, <3>2, HasChecked DEF Fits, Op, Step
  <2> QED
    BY <2>4, <2>5
<1>5. ASSUME UNCHANGED vars, NEW g \in Handlers PROVE Fits(g)'
  BY <1>1, <1>5, FitsKept DEF vars, requestVars
<1>6. \A g \in Handlers : Fits(g)'
  BY <1>2, <1>3, <1>4, <1>5 DEF Next
<1> QED
  BY <1>6 DEF StepsFit, Fits

-----------------------------------------------------------------------------
(***************************************************************************)
(* What a handler's step does to the store: nothing, or what one of the    *)
(* transactions commits.                                                   *)
(***************************************************************************)

NewRevision(h, v, b, r) ==
  /\ Len(revisions') = Len(revisions) + 1 /\ active' = Len(revisions) + 1
  /\ DOMAIN revisions' = 1 .. Len(revisions) + 1
  /\ \A i \in 1 .. Len(revisions) : revisions'[i] = revisions[i]
  /\ revisions'[Len(revisions) + 1].value = v
  /\ revisions'[Len(revisions) + 1].basedOn = b
  /\ revisions'[Len(revisions) + 1].restored = r
  /\ revisions'[Len(revisions) + 1].by = h[1]

Answers(h, n) ==
  /\ Stored(h) = {} /\ AddReplay(h, n)
  /\ handler'[h].step = "done" /\ handler'[h].result = n /\ n \in Nat

Kept(h) ==
  /\ UNCHANGED storeVars
  /\ handler'[h].step = "done" => [command |-> h[1], result |-> handler'[h].result] \in replays
  /\ handler'[h].step = "begun" /\ Op(h) = "execute" =>
       /\ Resolves
       /\ handler'[h].saw = [revision |-> active, availability |-> live.value]

DraftSaved(h) ==
  /\ Op(h) = "save" /\ RowFree /\ handler'[h].step = "done"
  /\ draft.version = command[h[1]].read.draft.version
  /\ draft' = Written(h, command[h[1]].value) /\ command[h[1]].value \in Definitions
  /\ exists' = TRUE
  /\ UNCHANGED << active, revisions, live, replays, executions, moments >>

DraftDiscarded(h) ==
  /\ Op(h) = "discard" /\ RowFree /\ handler'[h].step = "done"
  /\ draft.version = command[h[1]].read.draft.version
  /\ draft' = NoDraft
  /\ UNCHANGED << exists, active, revisions, live, replays, executions, moments >>

Published(h) ==
  /\ Op(h) = "publish" /\ RowFree /\ draft # NoDraft
  /\ draft.version = command[h[1]].read.draft.version
  /\ NewRevision(h, draft.value, draft.basedOn, 0)
  /\ draft' = NoDraft
  /\ Answers(h, active') /\ Moment(active', live.value)
  /\ UNCHANGED << exists, live, executions >>

RolledBack(h) ==
  LET r == command[h[1]].target IN
  /\ Op(h) = "rollback" /\ RowFree
  /\ draft = NoDraft /\ active # 0 /\ r \in 1 .. Len(revisions)
  /\ NewRevision(h, revisions[r].value, active, r)
  /\ Answers(h, active') /\ Moment(active', live.value)
  /\ UNCHANGED << exists, draft, live, executions >>

LiveSet(h) ==
  /\ Op(h) = "set_live" /\ lock.holder = h /\ lock'.holder = Nobody
  /\ live' \in Live /\ live'.value = command[h[1]].actions
  /\ Answers(h, live'.generation) /\ Moment(active, live'.value)
  /\ UNCHANGED << componentVars, executions >>

Applied(h) ==
  /\ Op(h) = "apply" /\ lock.holder = h /\ lock'.holder = Nobody
  /\ live' \in Live /\ live'.value = command[h[1]].actions
  /\ \/ draft' = draft
     \/ draft' = NoDraft
     \/ draft' = Written(h, command[h[1]].value) /\ command[h[1]].value \in Definitions
  /\ exists => exists'
  /\ Answers(h, live'.generation) /\ Moment(active, live'.value)
  /\ UNCHANGED << active, revisions, executions >>

AllPublished(h) ==
  /\ Op(h) = "publish_all" /\ lock.holder = h /\ lock'.holder = Nobody
  /\ \/ draft # NoDraft /\ NewRevision(h, draft.value, draft.basedOn, 0)
     \/ draft = NoDraft /\ UNCHANGED << active, revisions >>
  /\ draft' = NoDraft
  /\ Answers(h, active') /\ Moment(active', live.value)
  /\ UNCHANGED << exists, live, executions >>

ExecutionCreated(h) ==
  /\ Op(h) = "execute" /\ handler[h].step = "begun"
  /\ executions' = executions \union
       {[command |-> h[1], copy |-> h[2], revision |-> handler[h].saw.revision,
         availability |-> handler[h].saw.availability]}
  /\ Answers(h, h[2])
  /\ UNCHANGED << componentVars, live, moments >>

LEMMA Effects ==
  ASSUME TypeOK, StepsFit, CommandsFit, StoredOnce,
         NEW h \in Handlers, Handle(h) \/ TransactionFails(h)
  PROVE  \/ Kept(h)
         \/ DraftSaved(h) \/ DraftDiscarded(h) \/ Published(h) \/ RolledBack(h)
         \/ LiveSet(h) \/ Applied(h) \/ AllPublished(h) \/ ExecutionCreated(h)
<1>1. \A s : Goes(h, s) => handler'[h].step = s
  BY Moved
<1>2. \A n \in Nat : Answer(h, n) => handler'[h].step = "done" /\ handler'[h].result = n
  BY Answered
<1>3. Refuse(h) => handler'[h].step = "refused"
  BY <1>1 DEF Refuse
<1>4. AnswerStored(h) => Kept(h)
  BY StoredAnswered DEF Kept
<1>5. Refuse(h) /\ UNCHANGED storeVars => Kept(h)
  BY <1>3 DEF Kept
<1>6. \A s : Goes(h, s) /\ s # "done" /\ Op(h) # "execute" /\ UNCHANGED storeVars => Kept(h)
  BY <1>1 DEF Kept
<1>7. /\ Len(revisions) \in Nat /\ active \in Nat /\ active <= Len(revisions)
      /\ DOMAIN revisions = 1 .. Len(revisions)
  BY Nats
<1>8. h[1] \in Commands /\ h[2] \in Nat /\ command[h[1]].target \in Nat
  BY HandlerParts, CommandFields
<1>9. handler[h].step = "loaded" => lock.holder = h /\ Stored(h) = {}
  <2>1. handler[h].step = "loaded" => lock.holder = h
    BY DEF StepsFit, Step
  <2> QED
    BY <2>1 DEF StoredOnce
<1>10. Unlocked.holder = Nobody
  BY DEF Unlocked
<1>11. ASSUME NEW v \in Definitions, NEW b \in Nat, NEW r \in Nat, Activate(v, b, r, h[1])
       PROVE  NewRevision(h, v, b, r) /\ active' \in Nat
  <2>1. /\ Len(revisions') = Len(revisions) + 1 /\ active' = Len(revisions) + 1
        /\ DOMAIN revisions' = 1 .. Len(revisions) + 1
        /\ \A i \in 1 .. Len(revisions) : revisions'[i] = revisions[i]
        /\ revisions'[Len(revisions) + 1] = [value |-> v, basedOn |-> b, restored |-> r, by |-> h[1]]
    BY <1>7, <1>8, <1>11, Activated
  <2> DEFINE x == [value |-> v, basedOn |-> b, restored |-> r, by |-> h[1]]
  <2>2. x.value = v /\ x.basedOn = b /\ x.restored = r /\ x.by = h[1]
    OBVIOUS
  <2>3. revisions'[Len(revisions) + 1] = x
    BY <2>1
  <2> HIDE DEF x
  <2>4. active' \in Nat
    BY <1>7, <2>1
  <2> QED
    BY <2>1, <2>2, <2>3, <2>4 DEF NewRevision
<1>12. CASE CheckPrecondition(h)
  <2>1. Op(h) # "execute"
    BY <1>12 DEF CheckPrecondition, ComponentOps
  <2>2. UNCHANGED storeVars /\ (Goes(h, "checked") \/ Refuse(h))
    BY <1>12 DEF CheckPrecondition
  <2> QED
    BY <1>5, <1>6, <2>1, <2>2
<1>13. CASE LookForReplay(h)
  <2>1. Op(h) # "execute"
    BY <1>13 DEF LookForReplay
  <2>2. AnswerStored(h) \/ (UNCHANGED storeVars /\ Goes(h, "begun"))
    BY <1>13 DEF LookForReplay
  <2> QED
    BY <1>4, <1>6, <2>1, <2>2
<1>14. CASE SaveDraft(h)
  <2>1. command[h[1]].value \in Definitions
    BY <1>8, <1>14 DEF SaveDraft, Op, CommandsFit
  <2>2. /\ Op(h) = "save" /\ RowFree
        /\ UNCHANGED << active, revisions, live, replays, executions, moments >>
        /\ \/ /\ draft.version = command[h[1]].read.draft.version
              /\ exists' = TRUE /\ draft' = Written(h, command[h[1]].value)
              /\ Goes(h, "done")
           \/ Refuse(h) /\ UNCHANGED << exists, draft >>
    BY <1>14 DEF SaveDraft
  <2>3. CASE Refuse(h) /\ UNCHANGED << exists, draft >>
    BY <1>5, <2>2, <2>3 DEF storeVars, componentVars
  <2> QED
    BY <1>1, <2>1, <2>2, <2>3 DEF DraftSaved
<1>15. CASE DiscardDraft(h)
  <2>1. /\ Op(h) = "discard" /\ RowFree
        /\ UNCHANGED << exists, active, revisions, live, replays, executions, moments >>
        /\ \/ /\ draft.version = command[h[1]].read.draft.version
              /\ draft' = NoDraft /\ Goes(h, "done")
           \/ Refuse(h) /\ UNCHANGED draft
    BY <1>15 DEF DiscardDraft
  <2>2. CASE Refuse(h) /\ UNCHANGED draft
    BY <1>5, <2>1, <2>2 DEF storeVars, componentVars
  <2> QED
    BY <1>1, <2>1, <2>2 DEF DraftDiscarded
<1>16. CASE PublishDraft(h)
  <2>1. /\ Op(h) = "publish" /\ RowFree /\ Step(h, "begun")
        /\ UNCHANGED << exists, live, executions >>
        /\ \/ /\ draft.version = command[h[1]].read.draft.version /\ MayStore(h)
              /\ Activate(draft.value, draft.basedOn, 0, h[1])
              /\ draft' = NoDraft /\ AddReplay(h, active') /\ Answer(h, active')
              /\ Moment(active', live.value)
           \/ Refuse(h) /\ UNCHANGED << active, draft, revisions, replays, moments >>
    BY <1>16 DEF PublishDraft
  <2>2. CASE Refuse(h) /\ UNCHANGED << active, draft, revisions, replays, moments >>
    BY <1>5, <2>1, <2>2 DEF storeVars, componentVars
  <2>3. CASE ~(Refuse(h) /\ UNCHANGED << active, draft, revisions, replays, moments >>)
    <3>1. command[h[1]].read.draft # NoDraft
      BY <2>1 DEF StepsFit
    <3>2. draft # NoDraft
      BY <2>1, <2>3, <3>1, CommandFields, DraftFields DEF TypeOK
    <3>3. draft.value \in Definitions /\ draft.basedOn \in Nat
      BY <3>2, DraftFields DEF TypeOK
    <3>4. NewRevision(h, draft.value, draft.basedOn, 0) /\ active' \in Nat
      BY <1>11, <2>1, <2>3, <3>3
    <3>5. handler'[h].step = "done" /\ handler'[h].result = active'
      BY <1>2, <2>1, <2>3, <3>4
    <3>6. Answers(h, active')
      BY <2>1, <2>3, <3>4, <3>5 DEF Answers, MayStore
    <3> QED
      BY <2>1, <2>3, <3>2, <3>4, <3>6 DEF Published
  <2> QED
    BY <2>2, <2>3
<1>17. CASE Rollback(h)
  <2> DEFINE r == command[h[1]].target
  <2>1. /\ Op(h) = "rollback" /\ RowFree
        /\ UNCHANGED << exists, draft, live, executions >>
        /\ \/ /\ MayRollback(r) /\ MayStore(h)
              /\ Activate(revisions[r].value, active, r, h[1])
              /\ AddReplay(h, active') /\ Answer(h, active')
              /\ Moment(active', live.value)
           \/ Refuse(h) /\ UNCHANGED << active, revisions, replays, moments >>
    BY <1>17 DEF Rollback
  <2>2. CASE Refuse(h) /\ UNCHANGED << active, revisions, replays, moments >>
    BY <1>5, <2>1, <2>2 DEF storeVars, componentVars
  <2>3. CASE ~(Refuse(h) /\ UNCHANGED << active, revisions, replays, moments >>)
    <3>1. draft = NoDraft /\ active # 0 /\ r \in DOMAIN revisions
      BY <2>1, <2>3 DEF MayRollback
    <3>2. revisions[r] \in Revision
      BY <3>1, ElementOfSeq DEF TypeOK
    <3>3. revisions[r].value \in Definitions
      BY <3>2 DEF Revision
    <3>4. NewRevision(h, revisions[r].value, active, r) /\ active' \in Nat
      BY <1>7, <1>8, <1>11, <2>1, <2>3, <3>3
    <3>5. handler'[h].step = "done" /\ handler'[h].result = active'
      BY <1>2, <2>1, <2>3, <3>4
    <3>6. Answers(h, active')
      BY <2>1, <2>3, <3>4, <3>5 DEF Answers, MayStore
    <3> QED
      BY <1>7, <2>1, <2>3, <3>1, <3>4, <3>6 DEF RolledBack
  <2> QED
    BY <2>2, <2>3
<1>18. CASE Load(h)
  <2>1. Op(h) # "execute"
    BY <1>18 DEF Load, TenantOps
  <2>2. CASE Stored(h) # {}
    BY <1>4, <1>18, <2>2 DEF Load
  <2>3. CASE Stored(h) = {}
    <3>1. UNCHANGED storeVars /\ (Goes(h, "loaded") \/ Refuse(h))
      BY <1>18, <2>3 DEF Load
    <3> QED
      BY <1>5, <1>6, <2>1, <3>1
  <2> QED
    BY <2>2, <2>3
<1>19. CASE SetLive(h)
  <2>1. command[h[1]].actions \in Availabilities
    BY <1>8, <1>19 DEF SetLive, Op, CommandsFit
  <2>2. /\ Op(h) = "set_live" /\ handler[h].step = "loaded"
        /\ live' = SetTo(command[h[1]].actions)
        /\ AddReplay(h, live'.generation) /\ Answer(h, live'.generation)
        /\ Moment(active, live'.value) /\ lock' = Unlocked
        /\ UNCHANGED << componentVars, executions >>
    BY <1>19 DEF SetLive, Step
  <2>3. live' \in Live /\ live'.value = command[h[1]].actions /\ live'.generation \in Nat
    BY <2>1, <2>2, SetLiveTo
  <2>4. Answers(h, live'.generation)
    BY <1>2, <1>9, <2>2, <2>3 DEF Answers
  <2> QED
    BY <1>9, <1>10, <2>2, <2>3, <2>4 DEF LiveSet
<1>20. CASE Apply(h)
  <2>1. command[h[1]].actions \in Availabilities /\ command[h[1]].value \in Definitions
    BY <1>8, <1>20 DEF Apply, Op, CommandsFit
  <2>2. /\ Op(h) = "apply" /\ handler[h].step = "loaded"
        /\ \/ live' = live /\ live.value = command[h[1]].actions
           \/ live' = SetTo(command[h[1]].actions)
        /\ AddReplay(h, live'.generation) /\ Answer(h, live'.generation)
        /\ Moment(active, live'.value) /\ lock' = Unlocked
        /\ UNCHANGED << active, revisions, executions >>
    BY <1>20 DEF Apply, Step
  <2>3. /\ exists => exists'
        /\ draft' = draft \/ draft' = NoDraft \/ draft' = Written(h, command[h[1]].value)
    BY <1>20 DEF Apply
  <2>4. live' \in Live /\ live'.value = command[h[1]].actions
    BY <2>1, <2>2, SetLiveTo DEF TypeOK
  <2>5. live'.generation \in Nat
    BY <2>4, LiveFields
  <2>6. Answers(h, live'.generation)
    BY <1>2, <1>9, <2>2, <2>5 DEF Answers
  <2> QED
    BY <1>9, <1>10, <2>1, <2>2, <2>3, <2>4, <2>6 DEF Applied
<1>21. CASE PublishAll(h)
  <2>1. /\ Op(h) = "publish_all" /\ handler[h].step = "loaded"
        /\ draft # NoDraft => Activate(draft.value, draft.basedOn, 0, h[1])
        /\ draft = NoDraft => UNCHANGED << active, revisions >>
        /\ draft' = NoDraft /\ AddReplay(h, active') /\ Answer(h, active')
        /\ Moment(active', live.value) /\ lock' = Unlocked
        /\ UNCHANGED << exists, live, executions >>
    BY <1>21 DEF PublishAll, Step
  <2>2. /\ active' \in Nat
        /\ draft # NoDraft => NewRevision(h, draft.value, draft.basedOn, 0)
    <3>1. CASE draft = NoDraft
      BY <1>7, <2>1, <3>1
    <3>2. CASE draft # NoDraft
      <4>1. draft.value \in Definitions /\ draft.basedOn \in Nat
        BY <3>2, DraftFields DEF TypeOK
      <4> QED
        BY <1>11, <2>1, <3>2, <4>1
    <3> QED
      BY <3>1, <3>2
  <2>3. Answers(h, active')
    BY <1>2, <1>9, <2>1, <2>2 DEF Answers
  <2> QED
    BY <1>9, <1>10, <2>1, <2>2, <2>3 DEF AllPublished
<1>22. CASE StartExecution(h)
  <2>1. CASE Stored(h) # {}
    BY <1>4, <1>22, <2>1 DEF StartExecution
  <2>2. CASE Stored(h) = {} /\ ~Resolves
    <3>1. UNCHANGED storeVars /\ Refuse(h)
      BY <1>22, <2>2 DEF StartExecution
    <3> QED
      BY <1>5, <3>1
  <2>3. CASE Stored(h) = {} /\ Resolves
    <3>1. handler \in [Handlers -> Row]
      BY DEF TypeOK, Row
    <3>2. /\ handler' = [handler EXCEPT ![h].step = "begun",
                    ![h].saw = [revision |-> active, availability |-> live.value]]
          /\ UNCHANGED storeVars
      BY <1>22, <2>3 DEF StartExecution
    <3>3. /\ handler'[h].step = "begun"
          /\ handler'[h].saw = [revision |-> active, availability |-> live.value]
      BY <3>1, <3>2 DEF Row
    <3> QED
      BY <2>3, <3>2, <3>3 DEF Kept
  <2> QED
    BY <2>1, <2>2, <2>3
<1>23. CASE CreateExecution(h)
  <2>1. /\ Op(h) = "execute" /\ handler[h].step = "begun"
        /\ UNCHANGED << componentVars, live, moments >>
        /\ \/ /\ MayStore(h)
              /\ executions' = executions \union
                   {[command |-> h[1], copy |-> h[2], revision |-> handler[h].saw.revision,
                     availability |-> handler[h].saw.availability]}
              /\ AddReplay(h, h[2]) /\ Answer(h, h[2])
           \/ Refuse(h) /\ UNCHANGED << executions, replays >>
    BY <1>23 DEF CreateExecution, ReadsFrom, Step
  <2>2. CASE Refuse(h) /\ UNCHANGED << executions, replays >>
    BY <1>5, <2>1, <2>2 DEF storeVars
  <2>3. CASE ~(Refuse(h) /\ UNCHANGED << executions, replays >>)
    <3>1. Answers(h, h[2])
      BY <1>2, <1>8, <2>1, <2>3 DEF Answers, MayStore
    <3> QED
      BY <2>1, <2>3, <3>1 DEF ExecutionCreated
  <2> QED
    BY <2>2, <2>3
<1>24. CASE TransactionFails(h)
  BY <1>5, <1>24 DEF TransactionFails
<1> QED
  BY <1>12, <1>13, <1>14, <1>15, <1>16, <1>17, <1>18, <1>19, <1>20, <1>21, <1>22, <1>23, <1>24
     DEF Handle

-----------------------------------------------------------------------------
(***************************************************************************)
(* The kinds of steps: a client sends something, or one handler moves.     *)
(***************************************************************************)

Quiet ==
  /\ UNCHANGED << storeVars, lock >>
  /\ \A g \in Handlers :
       handler'[g] = handler[g] \/ (handler[g].step = "none" /\ handler'[g].step = "sent")
  /\ \A c \in Commands :
       command'[c] = command[c] \/ (command[c].op = "none" /\ command'[c].read = View)

OneMoves(h) ==
  /\ \A g \in Handlers : g # h => handler'[g] = handler[g]
  /\ handler[h].step \in {"sent", "checked", "begun", "loaded"}
  /\ command' = command

LocksOrNot(h) ==
  \/ handler[h].step # "loaded" /\ handler'[h].step # "loaded" /\ lock' = lock
  \/ handler'[h].step # "loaded" /\ lock.holder = h /\ lock'.holder = Nobody
  \/ /\ handler'[h].step = "loaded" /\ lock' = [holder |-> h, row |-> exists]
     /\ Op(h) \in TenantOps /\ Stored(h) = {}
     /\ ReadStillHolds(h) /\ IsValid(h) /\ UNCHANGED storeVars

Effect(h) ==
  \/ Kept(h)
  \/ DraftSaved(h) \/ DraftDiscarded(h) \/ Published(h) \/ RolledBack(h)
  \/ LiveSet(h) \/ Applied(h) \/ AllPublished(h) \/ ExecutionCreated(h)

LEMMA StepKinds ==
  ASSUME TypeOK, StepsFit, CommandsFit, StoredOnce, [Next]_vars
  PROVE  Quiet \/ \E h \in Handlers : OneMoves(h) /\ LocksOrNot(h) /\ Effect(h)
<1>1. ASSUME NEW c \in Commands, Send(c) PROVE Quiet
  <2>1. /\ << c, 1 >> \in Handlers /\ Goes(<< c, 1 >>, "sent") /\ command[c].op = "none"
        /\ \A d \in Commands : d # c => command'[d] = command[d]
        /\ command'[c].read = View /\ UNCHANGED << storeVars, lock >>
    BY <1>1, Sent
  <2>2. /\ \A g \in Handlers : g # << c, 1 >> => handler'[g] = handler[g]
        /\ handler'[<< c, 1 >>].step = "sent"
    BY <2>1, Moved
  <2>3. handler[<< c, 1 >>].step = "none"
    BY <2>1, NobodyWorks
  <2> QED
    BY <2>1, <2>2, <2>3 DEF Quiet
<1>2. ASSUME NEW c \in Commands, SendAgain(c) PROVE Quiet
  <2>1. PICK h \in Handlers : handler[h].step = "none" /\ Goes(h, "sent")
    BY <1>2, SentAgain
  <2>2. UNCHANGED << storeVars, command, lock >>
    BY <1>2, SentAgain
  <2>3. /\ \A g \in Handlers : g # h => handler'[g] = handler[g]
        /\ handler'[h].step = "sent"
    BY <2>1, Moved
  <2> QED
    BY <2>1, <2>2, <2>3 DEF Quiet
<1>3. ASSUME NEW h \in Handlers, Handle(h) \/ TransactionFails(h)
      PROVE  OneMoves(h) /\ LocksOrNot(h) /\ Effect(h)
  <2>1. OneMoves(h)
    BY <1>3, OwnStep DEF OneMoves
  <2>2. LocksOrNot(h)
    BY <1>3, LockMoves DEF LocksOrNot, Unlocked, LocksRow
  <2>3. Effect(h)
    BY <1>3, Effects DEF Effect
  <2> QED
    BY <2>1, <2>2, <2>3
<1>4. ASSUME UNCHANGED vars PROVE Quiet
  BY <1>4 DEF vars, requestVars, Quiet
<1> QED
  BY <1>1, <1>2, <1>3, <1>4 DEF Next

\* The store only grows, but for the draft and the live component.
LEMMA Grows ==
  ASSUME TypeOK, NEW h \in Handlers, Effect(h)
  PROVE  /\ DOMAIN revisions \subseteq DOMAIN revisions'
         /\ \A i \in DOMAIN revisions : revisions'[i] = revisions[i]
         /\ active <= active' /\ (exists => exists')
         /\ replays \subseteq replays' /\ moments \subseteq moments'
<1>1. /\ Len(revisions) \in Nat /\ active \in Nat /\ active <= Len(revisions)
      /\ DOMAIN revisions = 1 .. Len(revisions)
  BY Nats
<1>2. active <= active
  BY <1>1
<1>3. ASSUME NEW v, NEW b, NEW r, NewRevision(h, v, b, r)
      PROVE  /\ DOMAIN revisions \subseteq DOMAIN revisions'
             /\ \A i \in DOMAIN revisions : revisions'[i] = revisions[i]
             /\ active <= active'
  BY <1>1, <1>3 DEF NewRevision
<1>4. \A n : Answers(h, n) => replays \subseteq replays'
  BY DEF Answers, AddReplay
<1>5. \A r, v : Moment(r, v) => moments \subseteq moments'
  BY DEF Moment
<1>6. CASE Kept(h)
  BY <1>2, <1>6 DEF Kept, storeVars, componentVars
<1>7. CASE DraftSaved(h)
  BY <1>2, <1>7 DEF DraftSaved
<1>8. CASE DraftDiscarded(h)
  BY <1>2, <1>8 DEF DraftDiscarded
<1>9. CASE Published(h)
  BY <1>3, <1>4, <1>5, <1>9 DEF Published
<1>10. CASE RolledBack(h)
  BY <1>3, <1>4, <1>5, <1>10 DEF RolledBack
<1>11. CASE LiveSet(h)
  BY <1>2, <1>4, <1>5, <1>11 DEF LiveSet, componentVars
<1>12. CASE Applied(h)
  BY <1>2, <1>4, <1>5, <1>12 DEF Applied
<1>13. CASE AllPublished(h)
  BY <1>2, <1>3, <1>4, <1>5, <1>13 DEF AllPublished
<1>14. CASE ExecutionCreated(h)
  BY <1>2, <1>4, <1>14 DEF ExecutionCreated, componentVars
<1> QED
  BY <1>6, <1>7, <1>8, <1>9, <1>10, <1>11, <1>12, <1>13, <1>14 DEF Effect

-----------------------------------------------------------------------------
(***************************************************************************)
(* The parts of the invariant, each over one step.                         *)
(***************************************************************************)

LEMMA HistoryNext ==
  ASSUME TypeOK, HistoryIsLinear, NEW h \in Handlers, Effect(h)
  PROVE  HistoryIsLinear'
<1>1. /\ Len(revisions) \in Nat /\ active = Len(revisions)
      /\ DOMAIN revisions = 1 .. Len(revisions)
  BY Nats DEF HistoryIsLinear
<1>2. /\ \A i \in DOMAIN revisions : revisions[i].basedOn = i - 1 /\ revisions[i].restored < i
      /\ draft # NoDraft => draft.basedOn = active
  BY DEF HistoryIsLinear
<1>3. ASSUME NEW v, NEW r \in Nat, r <= Len(revisions), NewRevision(h, v, active, r),
             draft' = NoDraft
      PROVE  HistoryIsLinear'
  <2>1. active' = Len(revisions')
    BY <1>3 DEF NewRevision
  <2>2. ASSUME NEW i \in DOMAIN revisions'
        PROVE  revisions'[i].basedOn = i - 1 /\ revisions'[i].restored < i
    <3>1. i \in 1 .. Len(revisions) \/ i = Len(revisions) + 1
      BY <1>1, <1>3, <2>2 DEF NewRevision
    <3>2. CASE i \in 1 .. Len(revisions)
      BY <1>1, <1>2, <1>3, <3>2 DEF NewRevision
    <3>3. CASE i = Len(revisions) + 1
      <4>1. revisions'[i].basedOn = Len(revisions) /\ revisions'[i].restored = r
        BY <1>1, <1>3, <3>3 DEF NewRevision
      <4>2. Len(revisions) = i - 1 /\ r < i
        BY <1>1, <1>3, <3>3
      <4> QED
        BY <4>1, <4>2
    <3> QED
      BY <3>1, <3>2, <3>3
  <2> QED
    BY <1>3, <2>1, <2>2 DEF HistoryIsLinear
<1>4. ASSUME UNCHANGED << active, revisions >>, draft' # NoDraft => draft'.basedOn = active
      PROVE  HistoryIsLinear'
  BY <1>1, <1>2, <1>4 DEF HistoryIsLinear
<1>5. ASSUME NEW x \in Definitions, draft' = Written(h, x)
      PROVE  draft'.basedOn = active
  BY <1>2, <1>5, WrittenDraft
<1>6. CASE Kept(h) \/ LiveSet(h) \/ ExecutionCreated(h)
  BY <1>2, <1>4, <1>6 DEF Kept, LiveSet, ExecutionCreated, storeVars, componentVars
<1>7. CASE DraftSaved(h) \/ DraftDiscarded(h) \/ Applied(h)
  BY <1>2, <1>4, <1>5, <1>7 DEF DraftSaved, DraftDiscarded, Applied
<1>8. CASE Published(h)
  BY <1>1, <1>2, <1>3, <1>8 DEF Published
<1>9. CASE RolledBack(h)
  BY <1>1, <1>3, <1>9 DEF RolledBack
<1>10. CASE AllPublished(h)
  BY <1>1, <1>2, <1>3, <1>4, <1>10 DEF AllPublished
<1> QED
  BY <1>6, <1>7, <1>8, <1>9, <1>10 DEF Effect

\* A result is stored for a key that had none.
LEMMA AnsweredOnce ==
  ASSUME TypeOK, StepsFit, StoredOnce, NEW h \in Handlers, NEW n, Answers(h, n),
         OneMoves(h), LocksOrNot(h), Op(h) \in TenantOps => lock.holder = h
  PROVE  /\ \A r, s \in replays' : r.command = s.command => r = s
         /\ [command |-> h[1], result |-> n] \in replays'
         /\ \A g \in Handlers : lock'.holder = g => Stored(g)' = {}
<1>1. \A r \in replays : r.command # h[1]
  BY DEF Answers, Stored
<1>2. \A r, s \in replays : r.command = s.command => r = s
  BY DEF StoredOnce
<1> DEFINE new == [command |-> h[1], result |-> n]
<1>3. replays' = replays \union {new} /\ new.command = h[1]
  BY DEF Answers, AddReplay
<1> HIDE DEF new
<1>4. \A r, s \in replays' : r.command = s.command => r = s
  BY <1>1, <1>2, <1>3
<1>5. ASSUME NEW g \in Handlers, lock'.holder = g PROVE Stored(g)' = {}
  <2>1. handler'[h].step = "done"
    BY DEF Answers
  <2>2. handler[h].step # "loaded" /\ lock.holder = g
    BY <1>5, <2>1, NobodyIsNoHandler DEF LocksOrNot
  <2>3. handler[h].step = "loaded" <=> lock.holder = h
    BY DEF StepsFit, Step
  <2>4. Op(g) \in TenantOps /\ Stored(g) = {}
    BY <2>2 DEF StepsFit, StoredOnce
  <2>5. g[1] # h[1]
    BY <2>2, <2>3, <2>4 DEF Op
  <2>6. \A r \in replays : r.command # g[1]
    BY <2>4 DEF Stored
  <2>7. \A r \in replays' : r.command # g[1]
    BY <1>3, <2>5, <2>6
  <2> QED
    BY <2>7 DEF Stored
<1> QED
  BY <1>3, <1>4, <1>5 DEF new

\* A revision that is added is the first of its command.
LEMMA NewRevisionOnce ==
  ASSUME TypeOK, StoredOnce, DoneOnce, NEW h \in Handlers, NEW v, NEW b, NEW r, NEW n,
         NewRevision(h, v, b, r), Answers(h, n)
  PROVE  /\ \A i \in DOMAIN revisions' : revisions'[i].by # NoCommand =>
              \E s \in replays' : s.command = revisions'[i].by
         /\ \A i, j \in DOMAIN revisions' :
              revisions'[i].by = revisions'[j].by /\ revisions'[i].by # NoCommand => i = j
<1>1. /\ Len(revisions) \in Nat /\ DOMAIN revisions = 1 .. Len(revisions)
      /\ h[1] # NoCommand
  BY Nats, HandlerParts, NoCommandAssumption
<1>2. \A s \in replays : s.command # h[1]
  BY DEF Answers, Stored
<1>3. \A i \in DOMAIN revisions : revisions[i].by # NoCommand =>
        \E s \in replays : s.command = revisions[i].by
  BY DEF StoredOnce
<1>4. \A i \in DOMAIN revisions : revisions[i].by # h[1]
  BY <1>1, <1>2, <1>3
<1> DEFINE new == [command |-> h[1], result |-> n]
<1>5. replays' = replays \union {new} /\ new.command = h[1]
  BY DEF Answers, AddReplay
<1> HIDE DEF new
<1>6. /\ \A i \in DOMAIN revisions : revisions'[i] = revisions[i]
      /\ revisions'[Len(revisions) + 1].by = h[1]
      /\ \A i \in DOMAIN revisions' : i \in DOMAIN revisions \/ i = Len(revisions) + 1
  BY <1>1 DEF NewRevision
<1>7. \A i, j \in DOMAIN revisions :
        revisions[i].by = revisions[j].by /\ revisions[i].by # NoCommand => i = j
  BY DEF DoneOnce
<1>8. \A i \in DOMAIN revisions' : revisions'[i].by # NoCommand =>
         \E s \in replays' : s.command = revisions'[i].by
  BY <1>3, <1>5, <1>6
<1>9. \A i, j \in DOMAIN revisions' :
        revisions'[i].by = revisions'[j].by /\ revisions'[i].by # NoCommand => i = j
  BY <1>4, <1>6, <1>7
<1> QED
  BY <1>8, <1>9

LEMMA ResultsNext ==
  ASSUME TypeOK, StepsFit, StoredOnce, DoneOnce, NEW h \in Handlers,
         OneMoves(h), LocksOrNot(h), Effect(h)
  PROVE  StoredOnce' /\ DoneOnce'
<1> DEFINE Fresh == /\ \A r, s \in replays' : r.command = s.command => r = s
                    /\ \A g \in Handlers : lock'.holder = g => Stored(g)' = {}
<1> DEFINE Revs == /\ \A i \in DOMAIN revisions' : revisions'[i].by # NoCommand =>
                        \E s \in replays' : s.command = revisions'[i].by
                   /\ \A i, j \in DOMAIN revisions' :
                        revisions'[i].by = revisions'[j].by /\ revisions'[i].by # NoCommand => i = j
<1> DEFINE Execs == /\ \A e \in executions' : \E r \in replays' : r.command = e.command
                    /\ \A e, f \in executions' : e.command = f.command => e = f
<1>1. Fresh /\ Revs /\ Execs => StoredOnce' /\ DoneOnce'
  BY DEF StoredOnce, DoneOnce
<1>2. ASSUME NEW n, Answers(h, n), Op(h) \in TenantOps => lock.holder = h PROVE Fresh
  BY <1>2, AnsweredOnce
<1>3. ASSUME UNCHANGED replays PROVE Fresh
  <2>1. \A g \in Handlers : Stored(g)' = Stored(g)
    BY <1>3 DEF Stored
  <2>2. \A g \in Handlers : lock.holder = g => Stored(g) = {}
    BY DEF StoredOnce
  <2>3. \A g \in Handlers : lock'.holder = g => lock.holder = g \/ (g = h /\ Stored(h) = {})
    BY NobodyIsNoHandler DEF LocksOrNot
  <2>4. \A g \in Handlers : lock'.holder = g => Stored(g)' = {}
    BY <2>1, <2>2, <2>3
  <2> QED
    BY <1>3, <2>4 DEF StoredOnce
<1>4. replays \subseteq replays'
  BY Grows
<1>5. ASSUME UNCHANGED revisions PROVE Revs
  BY <1>4, <1>5 DEF StoredOnce, DoneOnce
<1>6. ASSUME UNCHANGED executions PROVE Execs
  BY <1>4, <1>6 DEF StoredOnce, DoneOnce
<1>7. ASSUME NEW v, NEW b, NEW r, NEW n, NewRevision(h, v, b, r), Answers(h, n) PROVE Revs
  BY <1>7, NewRevisionOnce
<1> HIDE DEF Fresh, Revs, Execs
<1>8. CASE Kept(h) \/ DraftSaved(h) \/ DraftDiscarded(h)
  BY <1>1, <1>3, <1>5, <1>6, <1>8 DEF Kept, DraftSaved, DraftDiscarded, storeVars, componentVars
<1>9. CASE Published(h) \/ RolledBack(h)
  BY <1>1, <1>2, <1>6, <1>7, <1>9 DEF Published, RolledBack, TenantOps
<1>10. CASE LiveSet(h) \/ Applied(h)
  BY <1>1, <1>2, <1>5, <1>6, <1>10 DEF LiveSet, Applied, componentVars
<1>11. CASE AllPublished(h)
  BY <1>1, <1>2, <1>5, <1>6, <1>7, <1>11 DEF AllPublished
<1>12. CASE ExecutionCreated(h)
  <2>1. Fresh /\ Revs
    BY <1>2, <1>5, <1>12 DEF ExecutionCreated, TenantOps, componentVars
  <2>2. Execs
    <3> DEFINE x == [command |-> h[1], copy |-> h[2], revision |-> handler[h].saw.revision,
                     availability |-> handler[h].saw.availability]
    <3> DEFINE new == [command |-> h[1], result |-> h[2]]
    <3>1. executions' = executions \union {x} /\ x.command = h[1]
      BY <1>12 DEF ExecutionCreated
    <3>2. replays' = replays \union {new} /\ new.command = h[1]
      BY <1>12 DEF ExecutionCreated, Answers, AddReplay
    <3>3. \A s \in replays : s.command # h[1]
      BY <1>12 DEF ExecutionCreated, Answers, Stored
    <3> HIDE DEF x, new
    <3>4. \A e \in executions : \E r \in replays : r.command = e.command
      BY DEF StoredOnce
    <3>5. \A e, f \in executions : e.command = f.command => e = f
      BY DEF DoneOnce
    <3> QED
      BY <3>1, <3>2, <3>3, <3>4, <3>5 DEF Execs
  <2> QED
    BY <1>1, <2>1, <2>2
<1> QED
  BY <1>8, <1>9, <1>10, <1>11, <1>12 DEF Effect

\* The steps that commit have the answer that is stored.
LEMMA AnswersNext ==
  ASSUME TypeOK, AnswersAreStored, NEW h \in Handlers, OneMoves(h), Effect(h)
  PROVE  AnswersAreStored'
<1>1. \A n : Answers(h, n) =>
        handler'[h].result = n /\ [command |-> h[1], result |-> n] \in replays'
  BY DEF Answers, AddReplay
<1>2. handler'[h].step = "done" /\ Op(h) \notin {"save", "discard"} =>
        [command |-> h[1], result |-> handler'[h].result] \in replays'
  <2>1. CASE Kept(h)
    BY <2>1 DEF Kept, storeVars
  <2>2. CASE DraftSaved(h) \/ DraftDiscarded(h)
    BY <2>2 DEF DraftSaved, DraftDiscarded
  <2>3. CASE Published(h) \/ RolledBack(h)
    BY <1>1, <2>3 DEF Published, RolledBack
  <2>4. CASE LiveSet(h) \/ Applied(h) \/ AllPublished(h)
    BY <1>1, <2>4 DEF LiveSet, Applied, AllPublished
  <2>5. CASE ExecutionCreated(h)
    BY <1>1, <2>5 DEF ExecutionCreated
  <2> QED
    BY <2>1, <2>2, <2>3, <2>4, <2>5 DEF Effect
<1>3. replays \subseteq replays'
  BY Grows
<1>4. ASSUME NEW g \in Handlers, handler'[g].step = "done", command'[g[1]].op \notin {"save", "discard"}
      PROVE  [command |-> g[1], result |-> handler'[g].result] \in replays'
  <2>1. command' = command
    BY DEF OneMoves
  <2>2. CASE g = h
    BY <1>2, <1>4, <2>1, <2>2 DEF Op
  <2>3. CASE g # h
    <3>1. handler'[g] = handler[g]
      BY <2>3 DEF OneMoves
    <3>2. [command |-> g[1], result |-> handler[g].result] \in replays
      BY <1>4, <2>1, <3>1 DEF AnswersAreStored, Step, Op
    <3> QED
      BY <1>3, <3>1, <3>2
  <2> QED
    BY <2>2, <2>3
<1> QED
  BY <1>4 DEF AnswersAreStored, Step, Op

LEMMA SnapshotsNext ==
  ASSUME TypeOK, SnapshotsHold, NEW h \in Handlers, OneMoves(h), Effect(h)
  PROVE  SnapshotsHold'
<1>1. /\ DOMAIN revisions \subseteq DOMAIN revisions'
      /\ \A i \in DOMAIN revisions : revisions'[i] = revisions[i]
      /\ moments \subseteq moments'
  BY Grows
<1>2. ASSUME NEW p, WasThere(p)
      PROVE  /\ [revision |-> p.revision, availability |-> p.availability] \in moments'
             /\ p.revision \in DOMAIN revisions'
             /\ p.availability \subseteq revisions'[p.revision].value
  BY <1>1, <1>2 DEF WasThere
<1>3. [revision |-> active', availability |-> live'.value] \in moments'
  <2>1. [revision |-> active, availability |-> live.value] \in moments
    BY DEF SnapshotsHold
  <2>2. CASE UNCHANGED << active, live >>
    BY <1>1, <2>1, <2>2
  <2>3. CASE Moment(active', live'.value)
    BY <2>3 DEF Moment
  <2>4. \/ UNCHANGED << active, live >> \/ Moment(active', live'.value)
    <3>1. CASE Kept(h) \/ DraftSaved(h) \/ DraftDiscarded(h) \/ ExecutionCreated(h)
      BY <3>1 DEF Kept, DraftSaved, DraftDiscarded, ExecutionCreated, storeVars, componentVars
    <3>2. CASE Published(h) \/ RolledBack(h) \/ AllPublished(h)
      <4>1. live' = live /\ Moment(active', live.value)
        BY <3>2 DEF Published, RolledBack, AllPublished
      <4> QED
        BY <4>1
    <3>3. CASE LiveSet(h) \/ Applied(h)
      <4>1. active' = active /\ Moment(active, live'.value)
        BY <3>3 DEF LiveSet, Applied, componentVars
      <4> QED
        BY <4>1
    <3> QED
      BY <3>1, <3>2, <3>3 DEF Effect
  <2> QED
    BY <2>2, <2>3, <2>4
<1>4. ASSUME NEW g \in Handlers, handler'[g].step = "begun", command'[g[1]].op = "execute"
      PROVE  WasThere(handler'[g].saw)
  <2>1. command' = command
    BY DEF OneMoves
  <2>2. CASE g # h
    <3>1. handler'[g] = handler[g]
      BY <2>2 DEF OneMoves
    <3> QED
      BY <1>4, <2>1, <3>1 DEF SnapshotsHold, Step, Op
  <2>3. CASE g = h
    <3>1. \A n : ~Answers(h, n)
      BY <1>4, <2>3 DEF Answers
    <3>2. Kept(h)
      BY <1>4, <2>3, <3>1 DEF Effect, DraftSaved, DraftDiscarded, Published, RolledBack,
           LiveSet, Applied, AllPublished, ExecutionCreated
    <3>3. Resolves /\ handler'[h].saw = [revision |-> active, availability |-> live.value]
      BY <1>4, <2>1, <2>3, <3>2 DEF Kept, Op
    <3> DEFINE p == [revision |-> active, availability |-> live.value]
    <3>4. active \in DOMAIN revisions
      BY <3>3, Nats DEF Resolves
    <3>5. live.value \subseteq revisions[active].value
      BY <3>3 DEF Resolves, Known
    <3>6. p \in moments
      BY DEF SnapshotsHold
    <3>7. p.revision = active /\ p.availability = live.value
      OBVIOUS
    <3>8. WasThere(p)
      BY <3>4, <3>5, <3>6, <3>7 DEF WasThere
    <3> QED
      BY <2>3, <3>3, <3>8
  <2> QED
    BY <2>2, <2>3
<1>5. ASSUME NEW e \in executions' PROVE WasThere(e)
  <2>1. CASE e \in executions
    BY <2>1 DEF SnapshotsHold
  <2>2. CASE e \notin executions
    <3>1. ExecutionCreated(h)
      BY <1>5, <2>2 DEF Effect, Kept, DraftSaved, DraftDiscarded, Published, RolledBack,
           LiveSet, Applied, AllPublished, storeVars
    <3>2. e = [command |-> h[1], copy |-> h[2], revision |-> handler[h].saw.revision,
               availability |-> handler[h].saw.availability]
      BY <1>5, <2>2, <3>1 DEF ExecutionCreated
    <3>3. e.revision = handler[h].saw.revision /\ e.availability = handler[h].saw.availability
      BY <3>2
    <3>4. WasThere(handler[h].saw)
      BY <3>1 DEF ExecutionCreated, SnapshotsHold, Step
    <3> QED
      BY <3>3, <3>4 DEF WasThere
  <2> QED
    BY <2>1, <2>2
<1> QED
  BY <1>2, <1>3, <1>4, <1>5 DEF SnapshotsHold, WasThere, Step, Op

LEMMA DraftIsDraft == ASSUME TypeOK PROVE draft.version \in Nat
BY DraftFields DEF TypeOK

\* A handler that is done stays done.
LEMMA DoneStays ==
  ASSUME NEW h \in Handlers, OneMoves(h)
  PROVE  \A g \in Handlers : Step(g, "done") => handler'[g].step = "done"
BY DEF OneMoves, Step

LEMMA ReadsNext ==
  ASSUME TypeOK, ReadsArePast, NEW h \in Handlers, OneMoves(h), Effect(h)
  PROVE  ReadsArePast'
<1>1. command' = command /\ ~Step(h, "done")
  BY DEF OneMoves, Step
<1>2. active <= active' /\ (exists => exists')
  BY Grows
<1>3. \A d : Born(d) =>
        (d # NoDraft /\ d.birth # Nobody => d.birth \in Handlers /\ handler'[d.birth].step = "done")
  BY DoneStays DEF Born
<1>4. \/ draft' = draft
      \/ draft' = NoDraft
      \/ \E x \in Definitions : draft' = Written(h, x) /\ handler'[h].step = "done"
  <2>1. CASE Kept(h) \/ RolledBack(h) \/ LiveSet(h) \/ ExecutionCreated(h)
    BY <2>1 DEF Kept, RolledBack, LiveSet, ExecutionCreated, storeVars, componentVars
  <2>2. CASE DraftSaved(h) \/ DraftDiscarded(h) \/ Published(h) \/ AllPublished(h)
    BY <2>2 DEF DraftSaved, DraftDiscarded, Published, AllPublished
  <2>3. CASE Applied(h)
    BY <2>3 DEF Applied, Answers
  <2> QED
    BY <2>1, <2>2, <2>3 DEF Effect
<1>5. Born(draft)'
  <2>1. CASE draft' = draft \/ draft' = NoDraft
    BY <1>3, <2>1 DEF ReadsArePast, Born, Step
  <2>2. ASSUME NEW x \in Definitions, draft' = Written(h, x), handler'[h].step = "done"
        PROVE  Born(draft)'
    <3>1. draft = NoDraft => draft'.birth = h
      BY <2>2, WrittenDraft
    <3>2. draft # NoDraft => draft'.birth = draft.birth
      BY <2>2, WrittenDraft
    <3>3. CASE draft = NoDraft
      BY <2>2, <3>1, <3>3 DEF Born, Step
    <3>4. CASE draft # NoDraft
      <4>1. draft.birth # Nobody => draft.birth \in Handlers /\ handler'[draft.birth].step = "done"
        BY <1>3, <3>4 DEF ReadsArePast
      <4> QED
        BY <3>2, <3>4, <4>1 DEF Born, Step
    <3> QED
      BY <3>3, <3>4
  <2> QED
    BY <1>4, <2>1, <2>2
<1>6. ASSUME NEW d, d \in Draft, Born(d), IsOlder(d) PROVE IsOlder(d)'
  <2>1. CASE draft' = draft \/ draft' = NoDraft
    BY <1>6, <2>1 DEF IsOlder
  <2>2. ASSUME NEW x \in Definitions, draft' = Written(h, x) PROVE IsOlder(d)'
    <3>1. SUFFICES ASSUME d # NoDraft, d.birth = draft'.birth
                   PROVE  d.version <= draft'.version /\ d.version # draft'.version
      BY DEF IsOlder
    <3>2. CASE draft = NoDraft
      <4>1. draft'.birth = h
        BY <2>2, <3>2, WrittenDraft
      <4>2. d.birth = h /\ h # Nobody
        BY <3>1, <4>1, NobodyIsNoHandler
      <4>3. Step(h, "done")
        BY <1>6, <3>1, <4>2 DEF Born
      <4> QED
        BY <1>1, <4>3
    <3>3. CASE draft # NoDraft
      <4>1. draft'.birth = draft.birth /\ draft'.version = draft.version + 1
        BY <2>2, <3>3, WrittenDraft
      <4>2. d.version <= draft.version
        BY <1>6, <3>1, <3>3, <4>1 DEF IsOlder
      <4>3. d.version \in Nat /\ draft.version \in Nat
        BY <1>6, DraftFields, DraftIsDraft
      <4> QED
        BY <4>1, <4>2, <4>3
    <3> QED
      BY <3>2, <3>3
  <2> QED
    BY <1>4, <2>1, <2>2
<1>7. \A d : Born(d) => Born(d)'
  BY <1>3 DEF Born, Step
<1>8. ASSUME NEW c \in Commands, command[c].op # "none"
      PROVE  /\ Born(command[c].read.draft)' /\ IsOlder(command[c].read.draft)'
             /\ command[c].read.active <= active'
             /\ command[c].read.exists => exists'
  <2>1. /\ Born(command[c].read.draft) /\ IsOlder(command[c].read.draft)
        /\ command[c].read.active <= active
        /\ command[c].read.exists => exists
    BY <1>8 DEF ReadsArePast
  <2>2. command[c].read \in Views
    BY DEF TypeOK
  <2>3. command[c].read.draft \in Draft /\ command[c].read.active \in Nat
    BY <2>2 DEF Views
  <2> DEFINE d == command[c].read.draft
  <2>4. d \in Draft /\ Born(d) /\ IsOlder(d) /\ d' = d
    BY <1>1, <2>1, <2>3
  <2>5. (d # NoDraft /\ d.birth # Nobody => d.birth \in Handlers /\ handler'[d.birth].step = "done")
    BY <1>3, <2>4
  <2>6. Born(d)'
    BY <2>4, <2>5 DEF Born, Step
  <2>7. PICK e : e = d
    OBVIOUS
  <2>8. IsOlder(e)'
    BY <1>6, <2>4, <2>7
  <2>9. IsOlder(d)'
    BY <2>4, <2>7, <2>8 DEF IsOlder
  <2>10. active \in Nat /\ command[c].read.active <= active'
    <3>1. active \in Nat
      BY Nats
    <3>2. active' = active \/ active' = Len(revisions) + 1
      BY DEF Effect, Kept, DraftSaved, DraftDiscarded, Published, RolledBack, LiveSet, Applied,
             AllPublished, ExecutionCreated, NewRevision, storeVars, componentVars
    <3>3. active' \in Nat
      BY <3>1, <3>2, Nats
    <3> QED
      BY <1>2, <2>1, <2>3, <3>1, <3>3
  <2> QED
    BY <1>1, <1>2, <2>1, <2>6, <2>9, <2>10
<1> QED
  BY <1>1, <1>5, <1>8 DEF ReadsArePast

\* LockedIsValid of one handler.
StillHolds(h) ==
  /\ IsValid(h)
  /\ ~lock.row => IF Op(h) = "publish_all" THEN live.value = {} ELSE command[h[1]].actions = {}
  /\ Op(h) # "set_live" /\ command[h[1]].read.exists =>
       lock.row /\ TenantToken(View) = TenantToken(command[h[1]].read)

LEMMA LockedIsStillHolds ==
  LockedIsValid <=> \A h \in Handlers : lock.holder = h => StillHolds(h)
BY DEF LockedIsValid, StillHolds

\* While nothing it depends on changes.
LEMMA StillHoldsKept ==
  ASSUME NEW h \in Handlers, StillHolds(h), command'[h[1]] = command[h[1]],
         UNCHANGED << active, draft, revisions, live, lock >>
  PROVE  StillHolds(h)'
<1>1. command[h[1]]' = command[h[1]]
  OBVIOUS
<1> QED
  BY <1>1 DEF StillHolds, IsValid, TenantToken, View, Known, Op

LEMMA LockedNext ==
  ASSUME TypeOK, StepsFit, ReadsArePast, LockedIsValid, NEW h \in Handlers,
         OneMoves(h), LocksOrNot(h), Effect(h)
  PROVE  LockedIsValid'
<1>1. command' = command
  BY DEF OneMoves
<1>2. SUFFICES ASSUME NEW g \in Handlers, lock'.holder = g PROVE StillHolds(g)'
  BY DEF LockedIsValid, StillHolds
<1>3. Op(g) \in TenantOps \/ lock.holder # g
  BY DEF StepsFit
<1>4. CASE handler[h].step # "loaded" /\ lock' = lock
  <2>1. lock.holder = g /\ g # h /\ Op(g) \in TenantOps /\ StillHolds(g)
    <3>1. lock.holder = g /\ Op(g) \in TenantOps /\ StillHolds(g)
      BY <1>2, <1>3, <1>4, LockedIsStillHolds
    <3>2. lock.holder # h
      BY <1>4 DEF StepsFit, Step
    <3> QED
      BY <3>1, <3>2
  <2>2. UNCHANGED live
    BY <2>1 DEF Effect, Kept, DraftSaved, DraftDiscarded, Published, RolledBack, LiveSet,
         Applied, AllPublished, ExecutionCreated, storeVars
  <2>3. CASE lock.row
    <3>1. UNCHANGED << active, draft, revisions >>
      BY <2>1, <2>3 DEF Effect, Kept, DraftSaved, DraftDiscarded, Published, RolledBack, LiveSet,
           Applied, AllPublished, ExecutionCreated, storeVars, componentVars, RowFree
    <3> QED
      BY <1>1, <1>4, <2>1, <2>2, <3>1, StillHoldsKept
  <2>4. CASE ~lock.row
    <3>1. /\ IF Op(g) = "publish_all" THEN live.value = {} ELSE command[g[1]].actions = {}
          /\ Op(g) = "set_live" \/ ~command[g[1]].read.exists
          /\ Op(g) = "publish_all" => live # NoLive
      BY <2>1, <2>4 DEF StillHolds, IsValid
    <3>2. IsValid(g)'
      <4>1. CASE Op(g) = "publish_all"
        BY <1>1, <2>2, <3>1, <4>1 DEF IsValid, Op
      <4>2. CASE Op(g) \in {"apply", "set_live"}
        BY <1>1, <3>1, <4>2 DEF IsValid, Op
      <4> QED
        BY <2>1, <4>1, <4>2 DEF TenantOps
    <3> QED
      BY <1>1, <1>4, <2>2, <3>1, <3>2 DEF StillHolds, Op
  <2> QED
    BY <2>3, <2>4
<1>5. CASE lock'.holder = Nobody
  BY <1>2, <1>5, NobodyIsNoHandler
<1>6. CASE /\ handler'[h].step = "loaded" /\ lock' = [holder |-> h, row |-> exists]
           /\ Op(h) \in TenantOps /\ ReadStillHolds(h) /\ IsValid(h) /\ UNCHANGED storeVars
  <2>1. g = h
    BY <1>2, <1>6
  <2>2. UNCHANGED << exists, active, draft, revisions, live >> /\ lock'.row = exists
    BY <1>6 DEF storeVars, componentVars
  <2>3. IsValid(h)'
    BY <1>1, <1>6, <2>2 DEF IsValid, Known, Op
  <2>4. handler'[h].step = "loaded" /\ exists \in BOOLEAN
    BY <1>6 DEF TypeOK
  <2>5. Op(h) \in Ops /\ command[h[1]].op # "none" /\ h[1] \in Commands
    <3>1. Op(h) \in Ops
      BY DEF StepsFit, OneMoves, Step
    <3>2. "none" \notin Ops
      BY DEF Ops, ComponentOps, TenantOps
    <3> QED
      BY <3>1, <3>2, HandlerParts DEF Op
  <2>6. ASSUME ~exists
        PROVE  IF Op(h) = "publish_all" THEN live.value = {}
               ELSE Op(h) \in {"apply", "set_live"} => command[h[1]].actions = {}
    <3>1. active = 0 /\ draft = NoDraft
      BY <2>6 DEF TypeOK
    <3>2. Known(active) = {}
      BY <3>1 DEF Known
    <3>3. CASE Op(h) = "publish_all"
      BY <1>6, <3>1, <3>2, <3>3 DEF IsValid
    <3>4. CASE Op(h) \in {"apply", "set_live"}
      BY <1>6, <3>2, <3>4 DEF IsValid
    <3> QED
      BY <3>3, <3>4
  <2>8. ASSUME Op(h) # "set_live", command[h[1]].read.exists
        PROVE  exists /\ TenantToken(View) = TenantToken(command[h[1]].read)
    BY <1>6, <2>5, <2>8 DEF ReadsArePast, ReadStillHolds
  <2>9. TenantToken(View)' = TenantToken(View)
        /\ TenantToken(command[h[1]].read)' = TenantToken(command[h[1]].read)
    BY <1>1, <2>2 DEF TenantToken, View, Known
  <2>10. /\ ~lock'.row => IF Op(h) = "publish_all" THEN live.value = {}
                          ELSE command[h[1]].actions = {}
         /\ Op(h) # "set_live" /\ command[h[1]].read.exists =>
              lock'.row /\ TenantToken(View)' = TenantToken(command[h[1]].read)'
    BY <1>6, <2>2, <2>6, <2>8, <2>9 DEF TenantOps
  <2> QED
    BY <1>1, <2>1, <2>2, <2>3, <2>10 DEF StillHolds, Op
<1> QED
  BY <1>4, <1>5, <1>6 DEF LocksOrNot

\* Clients and copies of requests change nothing of all this.
LEMMA QuietNext ==
  ASSUME Inv, Quiet
  PROVE  /\ HistoryIsLinear' /\ StoredOnce' /\ DoneOnce' /\ AnswersAreStored'
         /\ SnapshotsHold' /\ ReadsArePast' /\ LockedIsValid'
<1>1. UNCHANGED << exists, active, draft, revisions, live, replays, executions, moments, lock >>
  BY DEF Quiet, storeVars, componentVars
<1>2. \A g \in Handlers :
        handler'[g].step \notin {"none", "sent"} =>
          handler'[g] = handler[g] /\ command'[g[1]] = command[g[1]]
  <2> SUFFICES ASSUME NEW g \in Handlers, handler'[g].step \notin {"none", "sent"}
               PROVE  handler'[g] = handler[g] /\ command'[g[1]] = command[g[1]]
    OBVIOUS
  <2>1. handler'[g] = handler[g]
    BY DEF Quiet
  <2>2. g[1] \in Commands
    BY HandlerParts
  <2>3. command[g[1]].op # "none"
    BY <2>1, <2>2, NobodyWorks DEF Inv
  <2> QED
    BY <2>1, <2>2, <2>3 DEF Quiet
<1>3. \A g \in Handlers : lock.holder = g => command'[g[1]] = command[g[1]]
  BY HandlerParts, NobodyWorks DEF Quiet, Inv
<1>4. \A g \in Handlers : handler[g].step = "done" => handler'[g].step = "done"
  BY DEF Quiet
<1>5. HistoryIsLinear' /\ DoneOnce'
  BY <1>1 DEF Inv, HistoryIsLinear, DoneOnce
<1>6. StoredOnce'
  <2>1. \A g \in Handlers : Stored(g)' = Stored(g)
    BY <1>1 DEF Stored
  <2> QED
    BY <1>1, <2>1 DEF Inv, StoredOnce
<1>7. AnswersAreStored'
  <2> SUFFICES ASSUME NEW g \in Handlers, handler'[g].step = "done",
                      command'[g[1]].op \notin {"save", "discard"}
               PROVE  [command |-> g[1], result |-> handler'[g].result] \in replays'
    BY DEF AnswersAreStored, Step, Op
  <2>1. handler'[g] = handler[g] /\ command'[g[1]] = command[g[1]]
    BY <1>2
  <2> QED
    BY <1>1, <2>1 DEF Inv, AnswersAreStored, Step, Op
<1>8. SnapshotsHold'
  <2>1. \A p : WasThere(p) =>
          /\ [revision |-> p.revision, availability |-> p.availability] \in moments'
          /\ p.revision \in DOMAIN revisions'
          /\ p.availability \subseteq revisions'[p.revision].value
    BY <1>1 DEF WasThere
  <2>2. ASSUME NEW g \in Handlers, handler'[g].step = "begun", command'[g[1]].op = "execute"
        PROVE  WasThere(handler'[g].saw)
    <3>1. handler'[g] = handler[g] /\ command'[g[1]] = command[g[1]]
      BY <1>2, <2>2
    <3> QED
      BY <2>2, <3>1 DEF Inv, SnapshotsHold, Step, Op
  <2>3. \A e \in executions' : WasThere(e)
    BY <1>1 DEF Inv, SnapshotsHold
  <2>4. [revision |-> active', availability |-> live'.value] \in moments'
    BY <1>1 DEF Inv, SnapshotsHold
  <2> QED
    BY <2>1, <2>2, <2>3, <2>4 DEF SnapshotsHold, WasThere, Step, Op
<1>9. ReadsArePast'
  <2>1. \A d : Born(d) => Born(d)'
    BY <1>4 DEF Born, Step
  <2>2. Born(draft) /\ Born(draft)'
    BY <1>1, <1>4 DEF Inv, ReadsArePast, Born, Step
  <2>3. ASSUME NEW c \in Commands, command'[c].op # "none"
        PROVE  /\ Born(command[c].read.draft)' /\ IsOlder(command[c].read.draft)'
               /\ command'[c].read.active <= active'
               /\ command'[c].read.exists => exists'
    <3>1. CASE command'[c] = command[c]
      <4>1. /\ Born(command[c].read.draft) /\ IsOlder(command[c].read.draft)
            /\ command[c].read.active <= active
            /\ command[c].read.exists => exists
        BY <2>3, <3>1 DEF Inv, ReadsArePast
      <4>2. Born(command[c].read.draft)'
        BY <1>4, <3>1, <4>1 DEF Born, Step
      <4>3. IsOlder(command[c].read.draft)'
        BY <1>1, <3>1, <4>1 DEF IsOlder
      <4> QED
        BY <1>1, <3>1, <4>1, <4>2, <4>3
    <3>2. CASE command'[c].read = View
      <4>1. View.draft = draft /\ View.active = active /\ View.exists = exists
        BY DEF View
      <4>2. command'[c].read.draft = draft /\ command'[c].read.active = active
            /\ command'[c].read.exists = exists
        BY <3>2, <4>1
      <4>3. Born(command[c].read.draft)'
        BY <1>4, <2>2, <4>2 DEF Born, Step
      <4>4. draft.version <= draft.version
        BY DraftIsDraft DEF Inv
      <4>5. IsOlder(command[c].read.draft)'
        BY <1>1, <4>2, <4>4 DEF IsOlder
      <4>6. active <= active
        BY Nats DEF Inv
      <4> QED
        BY <1>1, <4>2, <4>3, <4>5, <4>6
    <3> QED
      BY <3>1, <3>2 DEF Quiet
  <2> QED
    BY <2>2, <2>3 DEF ReadsArePast
<1>10. LockedIsValid'
  <2> SUFFICES ASSUME NEW g \in Handlers, lock'.holder = g PROVE StillHolds(g)'
    BY DEF LockedIsValid, StillHolds
  <2>1. lock.holder = g /\ StillHolds(g)
    BY <1>1, LockedIsStillHolds DEF Inv
  <2> QED
    BY <1>1, <1>3, <2>1, StillHoldsKept
<1> QED
  BY <1>5, <1>6, <1>7, <1>8, <1>9, <1>10

-----------------------------------------------------------------------------
(***************************************************************************)
(* The invariant holds.                                                    *)
(***************************************************************************)

LEMMA InitInv == Init => Inv
<1> SUFFICES ASSUME Init PROVE Inv
  OBVIOUS
<1>1. /\ replays = {} /\ executions = {} /\ lock = [holder |-> Nobody, row |-> FALSE]
      /\ command = [c \in Commands |-> [op |-> "none", value |-> {}, actions |-> {},
                                        target |-> 0, read |-> NoView]]
      /\ handler = [h \in Handlers |-> [step |-> "none", saw |-> NoPair, result |-> 0]]
      /\ moments = {[revision |-> active, availability |-> live.value]} /\ faults = 0
  BY DEF Init
<1>2. \A h \in Handlers : handler[h].step = "none" /\ lock.holder # h
  BY <1>1, NobodyIsNoHandler
<1>3. /\ NoDraft \in Draft /\ NoLive \in Live /\ NoPair \in Pair /\ NoView \in Views
      /\ NoLive.value = {} /\ NoDraft.birth = Nobody
  <2>1. NoDraft \in Draft /\ NoLive \in Live
    BY DEF Draft, Live
  <2> QED
    BY <2>1 DEF NoPair, Pair, NoView, Views, NoDraft, NoLive
<1>4. /\ exists \in BOOLEAN /\ (active # 0 \/ draft # NoDraft => exists)
      /\ revisions \in Seq(Revision) /\ active \in Nat /\ active = Len(revisions)
      /\ draft \in Draft /\ live \in Live
      /\ \A i \in DOMAIN revisions :
           revisions[i].basedOn = i - 1 /\ revisions[i].restored < i /\ revisions[i].by = NoCommand
      /\ draft # NoDraft => draft.basedOn = active
      /\ draft.birth = Nobody
      /\ \A i, j \in DOMAIN revisions : i = j
  <2>1. CASE /\ exists = FALSE /\ active = 0 /\ draft = NoDraft /\ revisions = << >>
             /\ live = NoLive
    <3>1. revisions \in Seq(Revision) /\ Len(revisions) = 0 /\ DOMAIN revisions = {}
      BY <2>1
    <3> QED
      BY <1>3, <2>1, <3>1
  <2>2. ASSUME NEW d \in Definitions, NEW x \in Definitions, NEW v \in Availabilities,
          exists = TRUE, active = 1,
          revisions = << [value |-> d, basedOn |-> 0, restored |-> 0, by |-> NoCommand] >>,
          draft \in {NoDraft, [value |-> x, version |-> 1, basedOn |-> 1,
                               by |-> NoCommand, birth |-> Nobody]},
          live = [value |-> v, generation |-> 1]
        PROVE /\ exists \in BOOLEAN /\ (active # 0 \/ draft # NoDraft => exists)
              /\ revisions \in Seq(Revision) /\ active \in Nat /\ active = Len(revisions)
              /\ draft \in Draft /\ live \in Live
              /\ \A i \in DOMAIN revisions : /\ revisions[i].basedOn = i - 1
                                             /\ revisions[i].restored < i
                                             /\ revisions[i].by = NoCommand
              /\ draft # NoDraft => draft.basedOn = active
              /\ draft.birth = Nobody
              /\ \A i, j \in DOMAIN revisions : i = j
    <3> DEFINE r == [value |-> d, basedOn |-> 0, restored |-> 0, by |-> NoCommand]
    <3>1. r \in Revision /\ r.basedOn = 0 /\ r.restored = 0 /\ r.by = NoCommand
      BY DEF Revision, Authors
    <3>2. revisions = << r >>
      BY <2>2
    <3> HIDE DEF r
    <3>3. /\ revisions \in Seq(Revision) /\ Len(revisions) = 1
          /\ DOMAIN revisions = {1} /\ revisions[1] = r
      BY <3>1, <3>2
    <3> DEFINE e == [value |-> x, version |-> 1, basedOn |-> 1,
                     by |-> NoCommand, birth |-> Nobody]
    <3>4. e \in Draft /\ e.basedOn = 1 /\ e.birth = Nobody
      BY DEF Draft, Authors
    <3>5. draft = NoDraft \/ draft = e
      BY <2>2
    <3> HIDE DEF e
    <3>6. [value |-> v, generation |-> 1] \in Live
      BY DEF Live
    <3>7. \A i \in DOMAIN revisions : /\ revisions[i].basedOn = i - 1
                                      /\ revisions[i].restored < i
                                      /\ revisions[i].by = NoCommand
      BY <3>1, <3>3
    <3> QED
      BY <1>3, <2>2, <3>3, <3>4, <3>5, <3>6, <3>7
  <2> QED
    BY <2>1, <2>2 DEF Init
<1>5. active \in 0 .. Len(revisions)
  BY <1>4
<1>6. live.value \in Availabilities \union {{}}
  BY <1>4, LiveFields
<1>7. TypeOK
  <2>1. [op |-> "none", value |-> {}, actions |-> {}, target |-> 0, read |-> NoView] \in
          [op : Ops \union {"none"}, value : Definitions \union {{}},
           actions : Availabilities \union {{}}, target : Nat, read : Views]
    BY <1>3
  <2>2. [step |-> "none", saw |-> NoPair, result |-> 0] \in
          [step : {"none", "sent", "checked", "begun", "loaded", "done", "refused"},
           saw : Pair, result : Nat]
    BY <1>3
  <2>3. [revision |-> active, availability |-> live.value] \in Pair
    BY <1>4, <1>6 DEF Pair
  <2>4. lock \in [holder : Handlers \union {Nobody}, row : BOOLEAN] /\ faults \in 0 .. MaxFaults
    BY <1>1, FaultsAssumption
  <2>5. handler \in [Handlers -> [step : {"none", "sent", "checked", "begun", "loaded",
                                          "done", "refused"}, saw : Pair, result : Nat]]
    BY <1>1, <2>2
  <2>6. command \in [Commands -> [op : Ops \union {"none"}, value : Definitions \union {{}},
                                  actions : Availabilities \union {{}}, target : Nat,
                                  read : Views]]
    BY <1>1, <2>1
  <2>7. moments \subseteq Pair /\ replays = {} /\ executions = {}
    BY <1>1, <2>3
  <2> QED
    BY <1>4, <1>5, <2>4, <2>5, <2>6, <2>7 DEF TypeOK
<1>8. StepsFit
  BY <1>2 DEF StepsFit, Step
<1>9. \A c \in Commands : command[c].op = "none"
  BY <1>1
<1>10. CommandsFit
  BY <1>9 DEF CommandsFit
<1>11. HistoryIsLinear /\ StoredOnce /\ DoneOnce
  BY <1>1, <1>2, <1>4 DEF HistoryIsLinear, StoredOnce, DoneOnce
<1>12. AnswersAreStored /\ SnapshotsHold
  BY <1>1, <1>2 DEF AnswersAreStored, SnapshotsHold, Step
<1>13. ReadsArePast
  BY <1>4, <1>9 DEF ReadsArePast, Born
<1>14. LockedIsValid
  BY <1>2 DEF LockedIsValid
<1> QED
  BY <1>7, <1>8, <1>10, <1>11, <1>12, <1>13, <1>14 DEF Inv

LEMMA InvNext == Inv /\ [Next]_vars => Inv'
<1> SUFFICES ASSUME Inv, [Next]_vars PROVE Inv'
  OBVIOUS
<1>1. TypeOK' /\ StepsFit' /\ CommandsFit'
  BY TypeNext, StepsNext, CommandsNext DEF Inv
<1>2. CASE Quiet
  BY <1>1, <1>2, QuietNext DEF Inv
<1>3. ASSUME NEW h \in Handlers, OneMoves(h), LocksOrNot(h), Effect(h) PROVE Inv'
  <2>1. HistoryIsLinear' /\ StoredOnce' /\ DoneOnce'
    BY <1>3, HistoryNext, ResultsNext DEF Inv
  <2>2. AnswersAreStored' /\ SnapshotsHold' /\ ReadsArePast'
    BY <1>3, AnswersNext, SnapshotsNext, ReadsNext DEF Inv
  <2>3. LockedIsValid'
    BY <1>3, LockedNext DEF Inv
  <2> QED
    BY <1>1, <2>1, <2>2, <2>3 DEF Inv
<1> QED
  BY <1>2, <1>3, StepKinds DEF Inv

\* The inductive invariant holds in every state.
THEOREM InvHolds == Spec => []Inv
BY InitInv, InvNext, PTL DEF Spec

-----------------------------------------------------------------------------
(***************************************************************************)
(* The properties.                                                         *)
(***************************************************************************)

\* Every variable has its type.
THEOREM TypeCorrect == Spec => []TypeOK
<1>1. Inv => TypeOK
  BY DEF Inv
<1> QED
  BY <1>1, InvHolds, PTL

\* Revisions form one line, the newest is active and every draft is based on it
\* (repository.py:79-273).
THEOREM HistoryStaysLinear == Spec => []HistoryIsLinear
<1>1. Inv => HistoryIsLinear
  BY DEF Inv
<1> QED
  BY <1>1, InvHolds, PTL

\* A set whose elements are all equal has at most one.
LEMMA AtMostOne ==
  ASSUME NEW S, \A x, y \in S : x = y
  PROVE  Cardinality(S) <= 1
<1>1. CASE S = {}
  BY <1>1, FS_EmptySet
<1>2. ASSUME NEW x \in S PROVE Cardinality(S) <= 1
  <2>1. S = {x}
    OBVIOUS
  <2> QED
    BY <2>1, FS_Singleton
<1> QED
  BY <1>1, <1>2

\* A command makes one revision or one execution however often it is sent, and its
\* copies that succeed have one answer (components.py:122-168).
THEOREM CommandsTakeEffectOnce == Spec => []OncePerKey
<1>1. Inv => OncePerKey
  <2> SUFFICES ASSUME Inv, NEW c \in Commands
               PROVE  /\ Cardinality({i \in DOMAIN revisions : revisions[i].by = c}) <= 1
                      /\ Cardinality({e \in executions : e.command = c}) <= 1
                      /\ command[c].op \notin {"save", "discard"} =>
                           \A m, n \in Copies :
                             Step(<< c, m >>, "done") /\ Step(<< c, n >>, "done") =>
                               handler[<< c, m >>].result = handler[<< c, n >>].result
    BY DEF OncePerKey
  <2>1. Cardinality({i \in DOMAIN revisions : revisions[i].by = c}) <= 1
    <3>1. \A i, j \in {i \in DOMAIN revisions : revisions[i].by = c} : i = j
      BY NoCommandAssumption DEF Inv, DoneOnce
    <3> QED
      BY <3>1, AtMostOne
  <2>2. Cardinality({e \in executions : e.command = c}) <= 1
    <3>1. \A e, f \in {e \in executions : e.command = c} : e = f
      BY DEF Inv, DoneOnce
    <3> QED
      BY <3>1, AtMostOne
  <2>3. ASSUME command[c].op \notin {"save", "discard"}, NEW m \in Copies, NEW n \in Copies,
               Step(<< c, m >>, "done"), Step(<< c, n >>, "done")
        PROVE  handler[<< c, m >>].result = handler[<< c, n >>].result
    <3> DEFINE g == << c, m >>
    <3> DEFINE h == << c, n >>
    <3>1. g \in Handlers /\ h \in Handlers /\ g[1] = c /\ h[1] = c
      BY DEF Handlers
    <3>2. Step(g, "done") /\ Step(h, "done")
      BY <2>3
    <3> HIDE DEF g, h
    <3> DEFINE r == [command |-> c, result |-> handler[g].result]
    <3> DEFINE s == [command |-> c, result |-> handler[h].result]
    <3>3. r \in replays /\ s \in replays
      BY <2>3, <3>1, <3>2 DEF Inv, AnswersAreStored, Op
    <3>4. r.command = s.command
      OBVIOUS
    <3>5. r = s
      BY <3>3, <3>4 DEF Inv, StoredOnce
    <3> QED
      BY <3>5 DEF g, h
  <2> QED
    BY <2>1, <2>2, <2>3
<1> QED
  BY <1>1, InvHolds, PTL

\* An execution is made of a definition and availabilities that were there together,
\* and every available action is defined (execution_materialization.py:93-155).
THEOREM ExecutionsAreConsistent == Spec => []ExecutionIsOfOneMoment
<1>1. Inv => ExecutionIsOfOneMoment
  BY DEF Inv, SnapshotsHold, WasThere, ExecutionIsOfOneMoment
<1> QED
  BY <1>1, InvHolds, PTL

\* No command on one component overwrites, discards or publishes changes its client
\* has not seen, as long as it is the draft the client has read.
THEOREM NoEditIsLost == Spec => LosesNoEdit
<1>1. Inv /\ [Next]_vars =>
        [\A h \in Handlers :
           LET read == command[h[1]].read IN
           /\ Commits(h) /\ Op(h) \in {"save", "discard", "publish"} /\ draft' # draft
           /\ draft.birth = read.draft.birth
           => draft = read.draft]_vars
  <2> SUFFICES ASSUME Inv, [Next]_vars, NEW h \in Handlers, Commits(h),
                      Op(h) \in {"save", "discard", "publish"}, draft' # draft,
                      draft.birth = command[h[1]].read.draft.birth
               PROVE  draft = command[h[1]].read.draft
    OBVIOUS
  <2>1. ~Quiet
    BY DEF Quiet, storeVars, componentVars
  <2>2. PICK g \in Handlers : OneMoves(g) /\ LocksOrNot(g) /\ Effect(g)
    BY <2>1, StepKinds DEF Inv
  <2>3. g = h
    BY <2>2 DEF OneMoves, Commits
  <2>4. draft.version = command[h[1]].read.draft.version
    BY <2>2, <2>3 DEF Effect, Kept, DraftSaved, DraftDiscarded, Published, RolledBack, LiveSet,
         Applied, AllPublished, ExecutionCreated, storeVars, componentVars
  <2>5. command[h[1]].op # "none" /\ h[1] \in Commands
    BY HandlerParts DEF Op
  <2> DEFINE d == command[h[1]].read.draft
  <2>6. IsOlder(d)
    BY <2>5 DEF Inv, ReadsArePast
  <2>7. d \in Draft /\ draft \in Draft
    BY CommandFields DEF Inv, TypeOK
  <2>8. CASE draft = NoDraft
    BY <2>4, <2>7, <2>8, DraftFields
  <2>9. CASE draft # NoDraft
    <3>1. d # NoDraft
      BY <2>4, <2>7, <2>9, DraftFields
    <3> QED
      BY <2>4, <2>6, <2>9, <3>1 DEF IsOlder
  <2> QED
    BY <2>8, <2>9
<1> QED
  BY <1>1, InvHolds, PTL DEF Spec, LosesNoEdit

\* What a command on the whole configuration leaves behind has no available action
\* without a definition (tenant_configuration.py:360-376).
THEOREM TenantCommandsLeaveItFit == Spec => TenantCommandsFit
<1>1. Inv /\ [Next]_vars =>
        [live' # live \/ (\E h \in Handlers : Op(h) \in TenantOps /\ lock.holder = h /\ Commits(h))
           => live'.value \subseteq Known(active)']_vars
  <2> SUFFICES ASSUME Inv, [Next]_vars,
                      live' # live \/ (\E h \in Handlers : Op(h) \in TenantOps /\ lock.holder = h
                                                          /\ Commits(h))
               PROVE  live'.value \subseteq Known(active)'
    OBVIOUS
  <2>1. ~Quiet
    BY DEF Quiet, storeVars, Commits
  <2>2. PICK g \in Handlers : OneMoves(g) /\ LocksOrNot(g) /\ Effect(g)
    BY <2>1, StepKinds DEF Inv
  <2>3. LiveSet(g) \/ Applied(g) \/ AllPublished(g)
    <3>1. CASE live' # live
      BY <2>2, <3>1 DEF Effect, Kept, DraftSaved, DraftDiscarded, Published, RolledBack,
           ExecutionCreated, storeVars
    <3>2. ASSUME NEW h \in Handlers, Op(h) \in TenantOps, lock.holder = h, Commits(h)
          PROVE  LiveSet(g) \/ Applied(g) \/ AllPublished(g)
      <4>1. g = h
        BY <2>2, <3>2 DEF OneMoves, Commits
      <4>2. handler'[h].step = "done" /\ Stored(h) = {}
        BY <3>2 DEF Commits, Inv, StoredOnce
      <4>3. ~Kept(g)
        <5>1. SUFFICES ASSUME Kept(h) PROVE FALSE
          BY <4>1
        <5>2. [command |-> h[1], result |-> handler'[h].result] \in replays
          BY <4>2, <5>1 DEF Kept
        <5> QED
          BY <4>2, <5>2 DEF Stored
      <4> QED
        BY <2>2, <3>2, <4>1, <4>3 DEF Effect, DraftSaved, DraftDiscarded, Published, RolledBack,
           ExecutionCreated, TenantOps
    <3> QED
      BY <3>1, <3>2
  <2>4. IsValid(g)
    BY <2>3 DEF LiveSet, Applied, AllPublished, Inv, LockedIsValid
  <2>5. CASE LiveSet(g) \/ Applied(g)
    <3>1. /\ Op(g) \in {"apply", "set_live"} /\ live'.value = command[g[1]].actions
          /\ UNCHANGED << active, revisions >>
      BY <2>5 DEF LiveSet, Applied, componentVars
    <3>2. command[g[1]].actions \subseteq Known(active)
      BY <2>4, <3>1 DEF IsValid
    <3> QED
      BY <3>1, <3>2 DEF Known
  <2>6. CASE AllPublished(g)
    <3>1. Op(g) = "publish_all" /\ live' = live
      BY <2>6 DEF AllPublished
    <3>2. live.value \subseteq IF draft # NoDraft THEN draft.value ELSE Known(active)
      BY <2>4, <3>1 DEF IsValid
    <3>3. CASE draft = NoDraft
      BY <2>6, <3>1, <3>2, <3>3 DEF AllPublished, Known
    <3>4. CASE draft # NoDraft
      <4>1. NewRevision(g, draft.value, draft.basedOn, 0)
        BY <2>6, <3>4 DEF AllPublished
      <4>2. active' # 0 /\ revisions'[active'].value = draft.value
        BY <4>1, Nats DEF NewRevision, Inv
      <4> QED
        BY <3>1, <3>2, <3>4, <4>2 DEF Known
    <3> QED
      BY <3>3, <3>4
  <2> QED
    BY <2>3, <2>5, <2>6
<1> QED
  BY <1>1, InvHolds, PTL DEF Spec, TenantCommandsFit

\* A command on the whole configuration replaces what its client has read, although
\* the routes of the component take no part in the tenant's lock.
THEOREM TenantCommandsReplaceWhatWasRead == Spec => ReplacesWhatWasRead
<1>1. Inv /\ [Next]_vars =>
        [\A h \in Handlers :
           /\ lock.holder = h /\ Commits(h)
           /\ Op(h) # "set_live" /\ command[h[1]].read.exists
           => TenantToken(View) = TenantToken(command[h[1]].read)]_vars
  BY DEF Inv, LockedIsValid
<1> QED
  BY <1>1, InvHolds, PTL DEF Spec, ReplacesWhatWasRead

-----------------------------------------------------------------------------
(***************************************************************************)
(* The provider graph. What a transaction has found usable stays so        *)
(* because it holds the rows (HasLooked), and who uses its row cannot grow *)
(* behind its back, as whoever starts to use it has to lock it first.      *)
(***************************************************************************)
\* What is assumed of the constants.
GraphAssumptions ==
  /\ FeaturesAssumption /\ ProvidersAssumption /\ NoneAssumption /\ TablesAssumption
  /\ CommandsAssumption /\ StartsAssumption /\ GraphFaultsAssumption

InSeq(e, s) == \E i \in DOMAIN s : s[i] = e

\* Rows and components refer to what they should.
KindsFit ==
  /\ \A x \in Rows : RefFits(x, row[x].ref)
  /\ \A k \in Components : Present(config, k) => ValueFits(k, config[k])

\* The deployment a component names first is enabled and has what it needs.
FirstFits(k) ==
  LET d == row[config[k].refs[1]] IN d.on /\ KindNeeds(config, k) \subseteq d.features

ComponentsFit ==
  \A k \in Components \ {"Policies"} : Present(config, k) => FirstFits(k)

Looks == [row : Rows, needs : SUBSET Features]

\* What a command needs is still to be looked at, or is held and was found to fit,
\* or an issue is noted.
Covered(q, item) ==
  InSeq(item, tx[q].todo) \/ tx[q].bad \/ (graphLock[item.row] = q /\ IsUsable(item))

\* A command that has begun holds the row it changes, in the state it asks for,
\* and has looked at what uses it and at what it needs.
HasLooked(q, c) ==
  /\ tx[q].at \in {"uses", "walk"} =>
       graphLock[c.target] = q /\ (c.target = System \/ Applicable(c))
  /\ tx[q].at = "walk" =>
       /\ ~InUse(c)
       /\ tx[q].todo \in Seq(Looks)
       /\ tx[q].bad => c.target = System
       /\ \A item \in Looks : InSeq(item, Chain(c)) => Covered(q, item)

\* Rows are locked from the deployment down to the credential.
Level(x) == IF x = System THEN 0 ELSE IF x \in Deployments THEN 1
            ELSE IF x \in Users THEN 2 ELSE 3

\* A command that goes down for one deployment only.
Narrow(c) == ~(c.target = System /\ "RealtimeDefaults" \in DOMAIN c.desired)

HoldsOnly(q, x) == \A y \in Rows \union {System} : graphLock[y] = q => y = x
HoldsAbove(q, x) == \A y \in Rows \union {System} : graphLock[y] = q => Level(y) < Level(x)
HoldsNothing(q) == \A y \in Rows \union {System} : graphLock[y] # q

GoesDown(q, c) ==
  /\ tx[q].at = "open" => tx[q].todo = << Item(c.target, {}) >>
  /\ tx[q].at = "uses" => HoldsOnly(q, c.target)
  /\ tx[q].at = "walk" /\ Narrow(c) =>
       \/ tx[q].todo = << >> /\ (Chain(c) = << >> => HoldsOnly(q, c.target))
       \/ \E item \in Looks : /\ tx[q].todo = << item >> /\ Chain(c) # << >>
                              /\ HoldsAbove(q, item.row)

RequestInv(q) ==
  /\ tx[q].at \in {"open", "uses", "walk"} => tx[q].command \in GraphCommands
  /\ tx[q].at \notin {"uses", "walk"} => HoldsNothing(q)
  /\ \A c \in GraphCommands : tx[q].command = c => HasLooked(q, c) /\ GoesDown(q, c)

GraphInv ==
  /\ GraphAssumptions /\ GraphTypeOK /\ KindsFit /\ EnabledIsUsable /\ ComponentsFit
  /\ \A q \in Requests : RequestInv(q)

-----------------------------------------------------------------------------
(***************************************************************************)
(* Sequences of what is to be looked at.                                   *)
(***************************************************************************)
LEMMA InConcat ==
  ASSUME NEW S, NEW s \in Seq(S), NEW t \in Seq(S), NEW e
  PROVE  InSeq(e, s \o t) <=> InSeq(e, s) \/ InSeq(e, t)
<1>1. /\ s \o t \in Seq(S) /\ Len(s \o t) = Len(s) + Len(t)
      /\ \A i \in 1 .. Len(s) + Len(t) : (s \o t)[i] = IF i <= Len(s) THEN s[i] ELSE t[i - Len(s)]
  BY ConcatProperties
<1>2. /\ Len(s) \in Nat /\ DOMAIN s = 1 .. Len(s) /\ Len(t) \in Nat /\ DOMAIN t = 1 .. Len(t)
      /\ DOMAIN (s \o t) = 1 .. Len(s) + Len(t)
  BY <1>1, LenProperties
<1>3. ASSUME NEW i \in DOMAIN s, s[i] = e PROVE InSeq(e, s \o t)
  <2>1. i \in 1 .. Len(s) + Len(t) /\ i <= Len(s)
    BY <1>2
  <2> QED
    BY <1>1, <1>2, <1>3, <2>1 DEF InSeq
<1>4. ASSUME NEW i \in DOMAIN t, t[i] = e PROVE InSeq(e, s \o t)
  <2> DEFINE n == Len(s) + i
  <2>1. n \in 1 .. Len(s) + Len(t) /\ ~(n <= Len(s)) /\ n - Len(s) = i
    BY <1>2
  <2> HIDE DEF n
  <2>2. (s \o t)[n] = t[i]
    BY <1>1, <2>1
  <2> QED
    BY <1>2, <1>4, <2>1, <2>2 DEF InSeq
<1>5. ASSUME NEW i \in DOMAIN (s \o t), (s \o t)[i] = e PROVE InSeq(e, s) \/ InSeq(e, t)
  <2>1. CASE i <= Len(s)
    BY <1>1, <1>2, <1>5, <2>1 DEF InSeq
  <2>2. CASE ~(i <= Len(s))
    <3>1. i - Len(s) \in DOMAIN t /\ t[i - Len(s)] = e
      BY <1>1, <1>2, <1>5, <2>2
    <3> QED
      BY <3>1 DEF InSeq
  <2> QED
    BY <2>1, <2>2
<1> QED
  BY <1>3, <1>4, <1>5 DEF InSeq

LEMMA InHeadOrTail ==
  ASSUME NEW S, NEW s \in Seq(S), s # << >>, NEW e, InSeq(e, s)
  PROVE  e = Head(s) \/ InSeq(e, Tail(s))
<1>1. /\ Len(s) \in Nat /\ DOMAIN s = 1 .. Len(s) /\ Head(s) = s[1]
      /\ Tail(s) \in Seq(S) /\ Len(Tail(s)) = Len(s) - 1
      /\ \A i \in 1 .. Len(Tail(s)) : Tail(s)[i] = s[i + 1]
  BY HeadTailProperties, LenProperties
<1>2. PICK i \in 1 .. Len(s) : s[i] = e
  BY <1>1 DEF InSeq
<1>3. CASE i = 1
  BY <1>1, <1>2, <1>3
<1>4. CASE i # 1
  <2>1. i - 1 \in 1 .. Len(Tail(s)) /\ (i - 1) + 1 = i
    BY <1>1, <1>4
  <2>2. DOMAIN Tail(s) = 1 .. Len(Tail(s))
    BY <1>1, LenProperties
  <2>3. Tail(s)[i - 1] = e
    BY <1>1, <1>2, <2>1
  <2> QED
    BY <2>1, <2>2, <2>3 DEF InSeq
<1> QED
  BY <1>3, <1>4

LEMMA ItemOfRow ==
  ASSUME NEW r \in Rows \union {None}, GraphAssumptions
  PROVE  /\ ItemOf(r) \in Seq(Looks) /\ ItemOf(r) \in Seq(Todo)
         /\ r = None => ItemOf(r) = << >>
         /\ r # None => /\ ItemOf(r) = << Item(r, {}) >> /\ Item(r, {}).row = r /\ r \in Rows
                        /\ InSeq(Item(r, {}), ItemOf(r))
<1>1. CASE r = None
  BY <1>1, EmptySeq DEF ItemOf
<1>2. CASE r # None
  <2>1. /\ r \in Rows /\ Item(r, {}) \in Looks /\ Item(r, {}) \in Todo
        /\ Item(r, {}).row = r
    BY <1>2 DEF Item, Looks, Todo
  <2>2. ItemOf(r) = << Item(r, {}) >>
    BY <1>2 DEF ItemOf
  <2>3. 1 \in DOMAIN ItemOf(r) /\ ItemOf(r)[1] = Item(r, {})
    BY <2>2
  <2> QED
    BY <1>2, <2>1, <2>2, <2>3 DEF InSeq
<1> QED
  BY <1>1, <1>2

-----------------------------------------------------------------------------
(***************************************************************************)
(* Commands and what they ask for.                                         *)
(***************************************************************************)
LEMMA RowCommand ==
  ASSUME GraphAssumptions, NEW c \in GraphCommands, c.target # System
  PROVE  /\ c.op \in RowOps /\ c.target \in Rows
         /\ c.op \in {"rotate", "revoke"} <=> c.target \in Credentials
         /\ c.op = "update" => /\ RefFits(c.target, c.to) /\ c.features \subseteq Features
                               /\ c.to \in Rows \union {None}
BY DEF GraphAssumptions, CommandsAssumption, RowOps, SystemOps, RefFits,
       Rows, Users

LEMMA SystemCommand ==
  ASSUME GraphAssumptions, NEW c \in GraphCommands, c.target = System
  PROVE  /\ c.op \in SystemOps /\ DOMAIN c.desired \subseteq Components
         /\ c.op = "apply" => DOMAIN c.desired = Components
         /\ c.op = "set" => \E k \in Components : DOMAIN c.desired = {k}
         /\ \A k \in DOMAIN c.desired : c.desired[k] \in Values /\ ValueFits(k, c.desired[k])
BY DEF GraphAssumptions, CommandsAssumption, TablesAssumption, RowOps,
       SystemOps

\* The tables are disjoint.
LEMMA Kinds ==
  ASSUME GraphAssumptions, NEW x \in Rows
  PROVE  /\ x # System /\ x # None /\ x \in Credentials \union Users \union Deployments
         /\ x \in Credentials => x \notin Users /\ x \notin Deployments
         /\ x \in Users => x \notin Deployments
         /\ x \in Connections => x \notin Integrations
BY DEF GraphAssumptions, TablesAssumption, NoneAssumption, Rows, Users

LEMMA DesiredValues ==
  ASSUME GraphAssumptions, config \in Configs, NEW c \in GraphCommands, c.target = System
  PROVE  /\ Desired(c) \in Configs
         /\ \A k \in DOMAIN c.desired :
              /\ Desired(c)[k].refs = c.desired[k].refs
              /\ Desired(c)[k].needs = c.desired[k].needs
              /\ Desired(c)[k].vad = c.desired[k].vad
              /\ Present(Desired(c), k) /\ ValueFits(k, Desired(c)[k])
         /\ \A k \in Components \ DOMAIN c.desired : Desired(c)[k] = config[k]
<1>1. /\ \A k \in DOMAIN c.desired : /\ k \in Components
                                     /\ c.desired[k] \in Values
                                     /\ ValueFits(k, c.desired[k])
  BY SystemCommand
<1>2. \A k \in Components : config[k] \in Values
  BY DEF Configs
<1>3. ASSUME NEW k \in DOMAIN c.desired
      PROVE  /\ Desired(c)[k].refs = c.desired[k].refs
             /\ Desired(c)[k].needs = c.desired[k].needs
             /\ Desired(c)[k].vad = c.desired[k].vad
             /\ Desired(c)[k].generation = config[k].generation + 1
             /\ Desired(c)[k] \in Values
  <2>1. /\ c.desired[k] \in Values /\ k \in Components /\ config[k].generation \in Nat
    BY <1>1, <1>2 DEF Values
  <2>2. Desired(c)[k] = [c.desired[k] EXCEPT !.generation = config[k].generation + 1]
    BY <2>1 DEF Desired
  <2> QED
    BY <2>1, <2>2 DEF Values
<1>4. \A k \in Components \ DOMAIN c.desired : Desired(c)[k] = config[k]
  BY DEF Desired
<1>5. Desired(c) \in Configs
  BY <1>1, <1>2, <1>3, <1>4 DEF Desired, Configs
<1>6. \A k \in DOMAIN c.desired : Present(Desired(c), k) /\ ValueFits(k, Desired(c)[k])
  <2> SUFFICES ASSUME NEW k \in DOMAIN c.desired
               PROVE  Present(Desired(c), k) /\ ValueFits(k, Desired(c)[k])
    OBVIOUS
  <2>1. config[k].generation \in Nat
    BY <1>1, <1>2 DEF Values
  <2>2. Desired(c)[k].generation # 0
    BY <1>3, <2>1
  <2>3. /\ ValueFits(k, c.desired[k]) /\ Desired(c)[k].refs = c.desired[k].refs
        /\ Desired(c)[k].needs = c.desired[k].needs /\ Desired(c)[k].vad = c.desired[k].vad
    BY <1>1, <1>3
  <2> QED
    BY <2>2, <2>3 DEF Present, ValueFits
<1> QED
  BY <1>3, <1>4, <1>5, <1>6

LEMMA DesiredFits ==
  ASSUME GraphAssumptions, GraphTypeOK, KindsFit, NEW c \in GraphCommands, c.target = System,
         NEW k \in Components, Present(Desired(c), k)
  PROVE  ValueFits(k, Desired(c)[k])
<1>1. config \in Configs
  BY DEF GraphTypeOK
<1>2. CASE k \in DOMAIN c.desired
  BY <1>1, <1>2, DesiredValues
<1>3. CASE k \notin DOMAIN c.desired
  <2>1. Desired(c)[k] = config[k]
    BY <1>1, <1>3, DesiredValues
  <2> QED
    BY <2>1 DEF Present, KindsFit
<1> QED
  BY <1>2, <1>3

-----------------------------------------------------------------------------
(***************************************************************************)
(* What a command looks at.                                                *)
(***************************************************************************)
\* What validation asks of the deployment a component names first.
SlotNeeds(cfg, k) ==
  IF k = "STTDefaults" THEN {"cascade"} \union cfg["Policies"].needs ELSE cfg[k].needs

LEMMA OneItem ==
  ASSUME NEW e
  PROVE  /\ InSeq(e, << e >>) /\ Len(<< e >>) = 1
         /\ \A x : InSeq(x, << e >>) => x = e
<1>1. DOMAIN << e >> = {1} /\ << e >>[1] = e
  OBVIOUS
<1> QED
  BY <1>1 DEF InSeq

LEMMA TwoItems ==
  ASSUME NEW e, NEW f
  PROVE  InSeq(e, << e, f >>) /\ InSeq(f, << e, f >>)
<1>1. DOMAIN << e, f >> = {1, 2} /\ << e, f >>[1] = e /\ << e, f >>[2] = f
  OBVIOUS
<1> QED
  BY <1>1 DEF InSeq

LEMMA SlotsOfOne ==
  ASSUME GraphAssumptions, NEW cfg \in Configs, NEW k \in Components, ValueFits(k, cfg[k]),
         Present(cfg, "STTDefaults") => ValueFits("STTDefaults", cfg["STTDefaults"])
  PROVE  /\ Slots(cfg, k) \in Seq(Looks)
         /\ k # "RealtimeDefaults" =>
              \/ Slots(cfg, k) = << >>
              \/ \E e \in Looks : e.row \in Deployments /\ Slots(cfg, k) = << e >>
         /\ k # "Policies" => /\ cfg[k].refs[1] \in Deployments
                              /\ InSeq(Item(cfg[k].refs[1], SlotNeeds(cfg, k)), Slots(cfg, k))
         /\ k = "RealtimeDefaults" =>
              /\ cfg[k].refs[2] \in Deployments
              /\ InSeq(Item(cfg[k].refs[2], {"transcription"}), Slots(cfg, k))
<1>0. /\ "STTDefaults" \in Components /\ "Policies" \in Components
      /\ Deployments \subseteq Rows /\ {"cascade"} \subseteq Features
      /\ {"transcription"} \subseteq Features
  BY DEF Components, Rows, GraphAssumptions, FeaturesAssumption
<1>1. \A x \in Components : cfg[x].refs \in Seq(Deployments) /\ cfg[x].needs \subseteq Features
  BY DEF Configs, Values
<1>2. ASSUME NEW d \in Deployments, NEW needs \in SUBSET Features
      PROVE  /\ Item(d, needs) \in Looks /\ Item(d, needs).row \in Deployments
             /\ << Item(d, needs) >> \in Seq(Looks)
  BY <1>0 DEF Item, Looks
<1>3. ASSUME NEW x \in Components, x # "Policies", ValueFits(x, cfg[x])
      PROVE  cfg[x].refs[1] \in Deployments
  <2>1. cfg[x].refs \in Seq(Deployments) /\ Len(cfg[x].refs) \in Nat /\ Len(cfg[x].refs) >= 1
    BY <1>1, <1>3 DEF ValueFits
  <2> QED
    BY <2>1, ElementOfSeq
<1>4. SlotNeeds(cfg, k) \in SUBSET Features
  BY <1>0, <1>1 DEF SlotNeeds
<1>5. CASE k = "Policies"
  <2>1. CASE Present(cfg, "STTDefaults") /\ cfg[k].needs # {}
    <3>1. Slots(cfg, k) = << Item(cfg["STTDefaults"].refs[1], cfg[k].needs) >>
      BY <1>5, <2>1 DEF Slots
    <3>2. cfg["STTDefaults"].refs[1] \in Deployments
      BY <1>0, <1>3, <2>1
    <3>3. cfg[k].needs \in SUBSET Features
      BY <1>1
    <3> QED
      BY <1>2, <1>5, <3>1, <3>2, <3>3
  <2>2. CASE ~(Present(cfg, "STTDefaults") /\ cfg[k].needs # {})
    <3>1. Slots(cfg, k) = << >>
      BY <1>5, <2>2 DEF Slots
    <3> QED
      BY <1>5, <3>1, EmptySeq
  <2> QED
    BY <2>1, <2>2
<1>6. CASE k \notin {"Policies", "RealtimeDefaults"}
  <2>1. Slots(cfg, k) = << Item(cfg[k].refs[1], SlotNeeds(cfg, k)) >>
    BY <1>6 DEF Slots, SlotNeeds, Components
  <2>2. cfg[k].refs[1] \in Deployments
    BY <1>3, <1>6
  <2>3. InSeq(Item(cfg[k].refs[1], SlotNeeds(cfg, k)), Slots(cfg, k))
    BY <2>1, OneItem
  <2> QED
    BY <1>2, <1>4, <1>6, <2>1, <2>2, <2>3
<1>7. CASE k = "RealtimeDefaults"
  <2> DEFINE e == Item(cfg[k].refs[1], SlotNeeds(cfg, k))
             f == Item(cfg[k].refs[2], {"transcription"})
  <2>1. Slots(cfg, k) = << e, f >>
    BY <1>7 DEF Slots, SlotNeeds
  <2>2. cfg[k].refs[1] \in Deployments
    BY <1>3, <1>7
  <2>3. cfg[k].refs[2] \in Deployments
    <3>1. cfg[k].refs \in Seq(Deployments) /\ Len(cfg[k].refs) = 2
      BY <1>1, <1>7 DEF ValueFits
    <3> QED
      BY <3>1, ElementOfSeq
  <2>4. e \in Looks /\ f \in Looks
    BY <1>0, <1>2, <1>4, <2>2, <2>3
  <2>5. InSeq(e, Slots(cfg, k)) /\ InSeq(f, Slots(cfg, k))
    <3> HIDE DEF e, f
    <3> QED
      BY <2>1, TwoItems
  <2>6. Slots(cfg, k) \in Seq(Looks)
    <3> HIDE DEF e, f
    <3> QED
      BY <2>1, <2>4
  <2> QED
    BY <1>7, <2>2, <2>3, <2>5, <2>6
<1> QED
  BY <1>5, <1>6, <1>7

\* apply looks at every component.
LEMMA SlotsOfAll ==
  ASSUME GraphAssumptions, NEW cfg \in Configs, \A k \in Components : ValueFits(k, cfg[k])
  PROVE  /\ AllSlots(cfg) \in Seq(Looks)
         /\ \A e : \A k \in Components \ {"Policies"} : InSeq(e, Slots(cfg, k)) => InSeq(e, AllSlots(cfg))
<1> DEFINE a == Slots(cfg, "STTDefaults")  b == Slots(cfg, "LLMDefaults")
           c == Slots(cfg, "TTSDefaults")  d == Slots(cfg, "RealtimeDefaults")
<1>1. a \in Seq(Looks) /\ b \in Seq(Looks) /\ c \in Seq(Looks) /\ d \in Seq(Looks)
  BY SlotsOfOne DEF Components
<1>2. AllSlots(cfg) = ((a \o b) \o c) \o d
  BY DEF AllSlots
<1>3. \A k \in Components \ {"Policies"} : Slots(cfg, k) \in {a, b, c, d}
  BY DEF Components
<1> HIDE DEF a, b, c, d
<1> DEFINE ab == a \o b  abc == ab \o c
<1>4. ab \in Seq(Looks) /\ abc \in Seq(Looks) /\ abc \o d \in Seq(Looks)
  BY <1>1, ConcatProperties
<1>5. ASSUME NEW e
      PROVE  InSeq(e, abc \o d) <=> InSeq(e, a) \/ InSeq(e, b) \/ InSeq(e, c) \/ InSeq(e, d)
  <2>1. InSeq(e, ab) <=> InSeq(e, a) \/ InSeq(e, b)
    BY <1>1, InConcat
  <2> HIDE DEF ab
  <2>2. InSeq(e, abc) <=> InSeq(e, ab) \/ InSeq(e, c)
    BY <1>1, <1>4, InConcat
  <2> HIDE DEF abc
  <2>3. InSeq(e, abc \o d) <=> InSeq(e, abc) \/ InSeq(e, d)
    BY <1>1, <1>4, InConcat
  <2> QED
    BY <2>1, <2>2, <2>3
<1>6. ASSUME NEW k \in Components \ {"Policies"}, NEW e, InSeq(e, Slots(cfg, k))
      PROVE  InSeq(e, AllSlots(cfg))
  <2>1. Slots(cfg, k) = a \/ Slots(cfg, k) = b \/ Slots(cfg, k) = c \/ Slots(cfg, k) = d
    BY <1>3
  <2>2. InSeq(e, a) \/ InSeq(e, b) \/ InSeq(e, c) \/ InSeq(e, d)
    BY <1>6, <2>1
  <2>3. InSeq(e, abc \o d)
    BY <1>5, <2>2
  <2> QED
    BY <1>2, <2>3
<1> QED
  BY <1>2, <1>4, <1>6

\* References go down.
LEMMA RefsGoDown ==
  ASSUME GraphAssumptions, NEW x \in Rows, NEW to, RefFits(x, to)
  PROVE  /\ to \in Rows \union {None}
         /\ to # None => to \in Rows /\ Level(x) < Level(to) /\ x # to
<1>1. /\ x # System /\ x \in Credentials \union Users \union Deployments
      /\ x \in Credentials => x \notin Users /\ x \notin Deployments
      /\ x \in Users => x \notin Deployments
  BY Kinds
<1>2. ASSUME to # None PROVE to \in Rows /\ Level(x) < Level(to)
  <2>0. /\ Connections \subseteq Rows /\ Credentials \subseteq Rows
        /\ Connections \subseteq Users
        /\ Users = Connections \union Integrations
    BY DEF Rows, Users
  <2>1. CASE x \in Deployments
    <3>1. to \in Connections /\ to # System /\ to \notin Deployments /\ to \in Users
      BY <2>0, <2>1, Kinds DEF RefFits
    <3> QED
      BY <1>1, <2>0, <2>1, <3>1 DEF Level
  <2>2. CASE x \in Users
    <3>1. to \in Credentials /\ to # System /\ to \notin Deployments /\ to \notin Users
      BY <1>2, <2>0, <2>2, Kinds DEF RefFits
    <3> QED
      BY <1>1, <2>0, <2>2, <3>1 DEF Level
  <2>3. CASE x \in Credentials
    BY <1>2, <2>3 DEF RefFits
  <2> QED
    BY <1>1, <2>1, <2>2, <2>3
<1>3. ASSUME to # None PROVE x # to
  <2>1. Level(x) \in Nat
    BY DEF Level
  <2> QED
    BY <1>2, <1>3, <2>1
<1> QED
  BY <1>2, <1>3

LEMMA ChainLooks ==
  ASSUME GraphAssumptions, GraphTypeOK, KindsFit, NEW c \in GraphCommands
  PROVE  /\ Chain(c) \in Seq(Looks)
         /\ Narrow(c) =>
              \/ Chain(c) = << >>
              \/ \E e \in Looks : Level(c.target) < Level(e.row) /\ Chain(c) = << e >>
         /\ c.target # System /\ c.op = "enable" => Chain(c) = ItemOf(row[c.target].ref)
         /\ c.target # System /\ c.op = "update" /\ row[c.target].on => Chain(c) = ItemOf(c.to)
         /\ c.target = System =>
              /\ \A k \in DOMAIN c.desired :
                   k # "Policies" =>
                     /\ Desired(c)[k].refs[1] \in Deployments
                     /\ InSeq(Item(Desired(c)[k].refs[1], SlotNeeds(Desired(c), k)), Chain(c))
              /\ c.op = "apply" =>
                   /\ Desired(c)["RealtimeDefaults"].refs[2] \in Deployments
                   /\ InSeq(Item(Desired(c)["RealtimeDefaults"].refs[2], {"transcription"}), Chain(c))
<1>1. ASSUME NEW x \in Rows, NEW to, RefFits(x, to)
      PROVE  /\ ItemOf(to) \in Seq(Looks)
             /\ \/ ItemOf(to) = << >>
                \/ \E e \in Looks : Level(x) < Level(e.row) /\ ItemOf(to) = << e >>
  <2>1. to \in Rows \union {None} /\ (to # None => to \in Rows /\ Level(x) < Level(to))
    BY <1>1, RefsGoDown
  <2>2. Item(to, {}) \in Looks <=> to \in Rows
    BY DEF Item, Looks
  <2> QED
    BY <2>1, <2>2, ItemOfRow
<1>2. CASE c.target # System
  <2>0. /\ c.op \in RowOps /\ c.target \in Rows
        /\ RefFits(c.target, row[c.target].ref)
        /\ c.op = "update" => RefFits(c.target, c.to)
    BY <1>2, RowCommand DEF KindsFit
  <2>1. CASE c.op = "enable"
    <3>1. Chain(c) = ItemOf(row[c.target].ref)
      BY <2>1 DEF Chain, EnableChain
    <3> QED
      BY <1>1, <1>2, <2>0, <2>1, <3>1
  <2>2. CASE c.op = "update"
    <3>1. Chain(c) = IF row[c.target].on THEN ItemOf(c.to) ELSE << >>
      BY <2>2 DEF Chain, UpdateChain
    <3>2. ItemOf(c.to) \in Seq(Looks) /\ << >> \in Seq(Looks)
      BY <1>1, <2>0, <2>2, EmptySeq
    <3> QED
      BY <1>1, <1>2, <2>0, <2>2, <3>1, <3>2
  <2>3. CASE c.op \notin {"enable", "update"}
    <3>1. Chain(c) = << >>
      BY <2>0, <2>3 DEF Chain, RowOps
    <3> QED
      BY <1>2, <2>3, <3>1, EmptySeq
  <2> QED
    BY <2>1, <2>2, <2>3
<1>3. CASE c.target = System
  <2> DEFINE cfg == Desired(c)
  <2>0. config \in Configs
    BY DEF GraphTypeOK
  <2>1. /\ cfg \in Configs /\ \A k \in DOMAIN c.desired : ValueFits(k, cfg[k])
        /\ \A k \in Components : Present(cfg, k) => ValueFits(k, cfg[k])
    BY <1>3, <2>0, DesiredValues, DesiredFits
  <2>2. /\ c.op \in SystemOps /\ DOMAIN c.desired \subseteq Components
        /\ c.op = "apply" => DOMAIN c.desired = Components
        /\ c.op = "set" => \E k \in Components : DOMAIN c.desired = {k}
    BY <1>3, SystemCommand
  <2>3. /\ "STTDefaults" \in Components /\ "RealtimeDefaults" \in Components
        /\ "RealtimeDefaults" # "Policies"
    BY DEF Components
  <2>4. CASE c.op = "apply"
    <3>1. Chain(c) = AllSlots(cfg)
      BY <2>4 DEF Chain
    <3>2. \A k \in Components : ValueFits(k, cfg[k])
      BY <2>1, <2>2, <2>4
    <3>3. ~Narrow(c)
      BY <1>3, <2>2, <2>3, <2>4 DEF Narrow
    <3> HIDE DEF cfg
    <3>4. ASSUME NEW k \in Components, k # "Policies"
          PROVE  /\ cfg[k].refs[1] \in Deployments
                 /\ InSeq(Item(cfg[k].refs[1], SlotNeeds(cfg, k)), AllSlots(cfg))
      BY <2>1, <2>3, <3>2, <3>4, SlotsOfOne, SlotsOfAll
    <3>5. /\ cfg["RealtimeDefaults"].refs[2] \in Deployments
          /\ InSeq(Item(cfg["RealtimeDefaults"].refs[2], {"transcription"}), AllSlots(cfg))
      BY <2>1, <2>3, <3>2, SlotsOfOne, SlotsOfAll
    <3>6. AllSlots(cfg) \in Seq(Looks)
      BY <2>1, <3>2, SlotsOfAll
    <3> QED
      BY <1>3, <2>2, <2>4, <3>1, <3>3, <3>4, <3>5, <3>6 DEF cfg
  <2>5. CASE c.op = "set"
    <3>1. PICK k \in Components : DOMAIN c.desired = {k}
      BY <2>2, <2>5
    <3>2. Chain(c) = Slots(cfg, k)
      <4>1. (CHOOSE x \in {k} : TRUE) = k
        OBVIOUS
      <4>2. Chain(c) = SetChain(c)
        BY <2>5 DEF Chain
      <4> QED
        BY <3>1, <4>1, <4>2 DEF SetChain
    <3>3. ValueFits(k, cfg[k]) /\ (Narrow(c) => k # "RealtimeDefaults")
      BY <1>3, <2>1, <3>1 DEF Narrow
    <3>4. \A d \in Deployments : Level(c.target) < Level(d)
      <4>1. \A d \in Deployments : d # System
        BY Kinds DEF Rows
      <4> QED
        BY <1>3, <4>1 DEF Level
    <3> HIDE DEF cfg
    <3>5. /\ Slots(cfg, k) \in Seq(Looks)
          /\ k # "RealtimeDefaults" =>
               \/ Slots(cfg, k) = << >>
               \/ \E e \in Looks : e.row \in Deployments /\ Slots(cfg, k) = << e >>
          /\ k # "Policies" => /\ cfg[k].refs[1] \in Deployments
                               /\ InSeq(Item(cfg[k].refs[1], SlotNeeds(cfg, k)), Slots(cfg, k))
      BY <2>1, <2>3, <3>3, SlotsOfOne
    <3> QED
      BY <1>3, <2>5, <3>1, <3>2, <3>3, <3>4, <3>5 DEF cfg
  <2> QED
    BY <2>2, <2>4, <2>5 DEF SystemOps
<1> QED
  BY <1>2, <1>3

-----------------------------------------------------------------------------
(***************************************************************************)
(* What a step leaves to the others.                                       *)
(***************************************************************************)
\* Everything about p is as it was.
Undisturbed(p) ==
  /\ tx'[p] = tx[p]
  /\ \A x \in Rows \union {System} : graphLock'[x] = p <=> graphLock[x] = p

LEMMA AtOf ==
  ASSUME GraphTypeOK, NEW q \in Requests, NEW step \in Steps, NEW todo \in Seq(Todo),
         NEW bad \in BOOLEAN, At(q, step, todo, bad)
  PROVE  /\ tx' \in [Requests -> [at : Steps, command : GraphCommands \union {None},
                                  saw : {None} \union RowStates \union Configs,
                                  todo : Seq(Todo), bad : BOOLEAN]]
         /\ tx'[q].at = step /\ tx'[q].todo = todo /\ tx'[q].bad = bad
         /\ tx'[q].command = tx[q].command
         /\ \A p \in Requests \ {q} : tx'[p] = tx[p]
<1> USE DEF GraphTypeOK, At
<1> QED
  OBVIOUS

LEMMA LockOf ==
  ASSUME GraphTypeOK, GraphAssumptions, NEW q \in Requests, NEW x \in Rows \union {System},
         Free(q, x), graphLock' = Locked(q, x)
  PROVE  /\ graphLock' \in [Rows \union {System} -> Requests \union {None}]
         /\ graphLock'[x] = q
         /\ \A y \in Rows \union {System} : y # x => graphLock'[y] = graphLock[y]
         /\ \A p \in Requests \ {q} : \A y \in Rows \union {System} : graphLock'[y] = p <=> graphLock[y] = p
BY DEF GraphTypeOK, Free, Locked, GraphAssumptions, NoneAssumption

LEMMA EndOf ==
  ASSUME GraphTypeOK, GraphAssumptions, NEW q \in Requests, NEW how \in Ended, End(q, how)
  PROVE  /\ tx' \in [Requests -> [at : Steps, command : GraphCommands \union {None},
                                  saw : {None} \union RowStates \union Configs,
                                  todo : Seq(Todo), bad : BOOLEAN]]
         /\ graphLock' \in [Rows \union {System} -> Requests \union {None}]
         /\ tx'[q].at = how
         /\ \A x \in Rows \union {System} : graphLock'[x] # q
         /\ \A p \in Requests \ {q} : Undisturbed(p)
<1>1. At(q, how, << >>, FALSE) /\ graphLock' = Released(q)
  BY DEF End
<1>2. how \in Steps /\ << >> \in Seq(Todo)
  BY EmptySeq DEF Ended, Steps
<1>3. /\ tx' \in [Requests -> [at : Steps, command : GraphCommands \union {None},
                               saw : {None} \union RowStates \union Configs,
                               todo : Seq(Todo), bad : BOOLEAN]]
      /\ tx'[q].at = how /\ \A p \in Requests \ {q} : tx'[p] = tx[p]
  BY <1>1, <1>2, AtOf
<1>4. graphLock \in [Rows \union {System} -> Requests \union {None}]
  BY DEF GraphTypeOK
<1>5. \A x \in Rows \union {System} : graphLock'[x] = IF graphLock[x] = q THEN None ELSE graphLock[x]
  BY <1>1, <1>4 DEF Released, Held
<1>6. graphLock' \in [Rows \union {System} -> Requests \union {None}]
  BY <1>1, <1>4 DEF Released, Held
<1>7. None \notin Requests
  BY DEF GraphAssumptions, NoneAssumption
<1> QED
  BY <1>3, <1>5, <1>6, <1>7 DEF Undisturbed

\* A command sees the rows and the configuration as they were.
SameView(p, c) ==
  /\ Chain(c)' = Chain(c)
  /\ Applicable(c) => Applicable(c)'
  /\ InUse(c)' => InUse(c)
  /\ \A item \in Looks : graphLock[item.row] = p /\ IsUsable(item) => IsUsable(item)'

LEMMA SameGraph ==
  ASSUME UNCHANGED << row, config >>, NEW c
  PROVE  /\ Chain(c)' = Chain(c)
         /\ Applicable(c)' <=> Applicable(c)
         /\ InUse(c)' <=> InUse(c)
         /\ \A item : IsUsable(item)' <=> IsUsable(item)
<1>1. row' = row /\ config' = config
  OBVIOUS
<1>2. \A item : IsUsable(item)' <=> IsUsable(item)
  BY <1>1 DEF IsUsable
<1>3. Applicable(c)' <=> Applicable(c)
  BY <1>1 DEF Applicable
<1>4. InUse(c)' <=> InUse(c)
  BY <1>1 DEF InUse, RevokeRefused, DisableConnectionRefused,
              DisableDeploymentRefused,
              UpdateDeploymentRefused, References, Present, KindNeeds
<1>5. Chain(c)' = Chain(c)
  BY <1>1 DEF Chain, EnableChain, UpdateChain, ItemOf, SetChain,
              AllSlots, Slots, Desired, Present
<1> QED
  BY <1>2, <1>3, <1>4, <1>5

LEMMA CommandTarget ==
  ASSUME GraphAssumptions, NEW c \in GraphCommands
  PROVE  c.target \in Rows \union {System}
BY DEF GraphAssumptions, CommandsAssumption

LEMMA OthersKeep ==
  ASSUME GraphAssumptions, NEW p \in Requests, RequestInv(p), Undisturbed(p),
         \A c \in GraphCommands :
           tx[p].command = c /\ tx[p].at \in {"uses", "walk"} => SameView(p, c)
  PROVE  RequestInv(p)'
<1>1. tx'[p] = tx[p] /\ \A x \in Rows \union {System} : graphLock'[x] = p <=> graphLock[x] = p
  BY DEF Undisturbed
<1>2. tx'[p].at \in {"open", "uses", "walk"} => tx'[p].command \in GraphCommands
  BY <1>1 DEF RequestInv
<1>3. tx'[p].at \notin {"uses", "walk"} => HoldsNothing(p)'
  BY <1>1 DEF RequestInv, HoldsNothing
<1>4. ASSUME NEW c \in GraphCommands, tx'[p].command = c
      PROVE  HasLooked(p, c)' /\ GoesDown(p, c)'
  <2>1. HasLooked(p, c) /\ GoesDown(p, c)
    BY <1>1, <1>4 DEF RequestInv
  <2>2. CASE tx[p].at \in {"uses", "walk"}
    <3>1. SameView(p, c) /\ c.target \in Rows \union {System}
      BY <1>1, <1>4, <2>2, CommandTarget
    <3>2. /\ Chain(c)' = Chain(c) /\ (Applicable(c) => Applicable(c)')
          /\ (InUse(c)' => InUse(c))
          /\ \A item \in Looks : graphLock[item.row] = p /\ IsUsable(item) => IsUsable(item)'
      BY <3>1 DEF SameView
    <3>3. \A x : HoldsOnly(p, x) <=> HoldsOnly(p, x)'
      BY <1>1 DEF HoldsOnly
    <3>4. \A x : HoldsAbove(p, x) <=> HoldsAbove(p, x)'
      BY <1>1 DEF HoldsAbove
    <3>5. HasLooked(p, c)'
      <4>1. ASSUME NEW item \in Looks, Covered(p, item) PROVE Covered(p, item)'
        <5>1. item.row \in Rows
          BY DEF Looks
        <5> QED
          BY <1>1, <3>2, <4>1, <5>1 DEF Covered
      <4>2. \A item \in Looks : InSeq(item, Chain(c)') => InSeq(item, Chain(c))
        BY <3>2
      <4> QED
        BY <1>1, <2>1, <3>1, <3>2, <4>1, <4>2 DEF HasLooked
    <3>6. GoesDown(p, c)'
      BY <1>1, <2>1, <3>2, <3>3, <3>4 DEF GoesDown
    <3> QED
      BY <3>5, <3>6
  <2>3. CASE tx[p].at \notin {"uses", "walk"}
    BY <1>1, <2>1, <2>3 DEF HasLooked, GoesDown
  <2> QED
    BY <2>2, <2>3
<1> QED
  BY <1>2, <1>3, <1>4 DEF RequestInv

\* A step that changes no row and no component leaves the others as they are.
LEMMA QuietStep ==
  ASSUME GraphAssumptions, NEW q \in Requests, \A p \in Requests : RequestInv(p),
         UNCHANGED << row, config >>, \A p \in Requests \ {q} : Undisturbed(p), RequestInv(q)'
  PROVE  \A p \in Requests : RequestInv(p)'
<1> SUFFICES ASSUME NEW p \in Requests, p # q PROVE RequestInv(p)'
  OBVIOUS
<1>1. \A c \in GraphCommands : SameView(p, c)
  BY SameGraph DEF SameView
<1> QED
  BY <1>1, OthersKeep

-----------------------------------------------------------------------------
(***************************************************************************)
(* The steps of a transaction that change no row.                          *)
(***************************************************************************)
\* What a transaction is left with when it has ended.
LEMMA EndedInv ==
  ASSUME GraphInv, NEW q \in Requests, NEW how \in Ended, End(q, how)
  PROVE  RequestInv(q)'
<1>1. tx'[q].at = how /\ \A x \in Rows \union {System} : graphLock'[x] # q
  BY EndOf DEF GraphInv
<1>2. how \notin {"open", "uses", "walk"}
  BY DEF Ended
<1>3. HoldsNothing(q)'
  BY <1>1 DEF HoldsNothing
<1>4. \A c \in GraphCommands : HasLooked(q, c)' /\ GoesDown(q, c)'
  BY <1>1, <1>2 DEF HasLooked, GoesDown
<1> QED
  BY <1>1, <1>2, <1>3, <1>4 DEF RequestInv

LEMMA EndStep ==
  ASSUME GraphInv, NEW q \in Requests, NEW how \in Ended, End(q, how),
         UNCHANGED << row, config >>, graphFaults' \in 0 .. MaxGraphFaults
  PROVE  GraphTypeOK' /\ \A p \in Requests : RequestInv(p)'
<1>1. RequestInv(q)'
  BY EndedInv
<1>2. /\ tx' \in [Requests -> [at : Steps, command : GraphCommands \union {None},
                               saw : {None} \union RowStates \union Configs,
                               todo : Seq(Todo), bad : BOOLEAN]]
      /\ graphLock' \in [Rows \union {System} -> Requests \union {None}]
      /\ \A p \in Requests \ {q} : Undisturbed(p)
  BY EndOf DEF GraphInv
<1>3. GraphTypeOK'
  BY <1>2 DEF GraphInv, GraphTypeOK
<1> QED
  BY <1>1, <1>2, <1>3, QuietStep DEF GraphInv

LEMMA SendStep ==
  ASSUME GraphInv, NEW q \in Requests, NEW c \in GraphCommands, SendCommand(q, c)
  PROVE  GraphTypeOK' /\ \A p \in Requests : RequestInv(p)'
<1>0. /\ tx[q].at = "idle" /\ UNCHANGED << row, config, graphLock, graphFaults >>
      /\ GraphTypeOK /\ c.target \in Rows \union {System} /\ GraphAssumptions
  BY CommandTarget DEF SendCommand, GraphInv
<1> DEFINE saw == IF c.target = System THEN config ELSE row[c.target]
           new == [at |-> "open", command |-> c, bad |-> FALSE, saw |-> saw,
                   todo |-> << Item(c.target, {}) >>]
<1>1. tx' = [tx EXCEPT ![q] = new]
  BY DEF SendCommand
<1>2. saw \in {None} \union RowStates \union Configs
  BY <1>0 DEF GraphTypeOK
<1>3. Item(c.target, {}) \in Todo
  BY <1>0 DEF Item, Todo
<1>4. new \in [at : Steps, command : GraphCommands \union {None},
               saw : {None} \union RowStates \union Configs, todo : Seq(Todo), bad : BOOLEAN]
  <2> HIDE DEF saw
  <2>1. << Item(c.target, {}) >> \in Seq(Todo)
    BY <1>3
  <2> QED
    BY <1>2, <2>1 DEF Steps
<1>5. GraphTypeOK'
  <2> HIDE DEF new
  <2> QED
    BY <1>0, <1>1, <1>4 DEF GraphTypeOK
<1>6. /\ tx'[q].at = "open" /\ tx'[q].command = c /\ tx'[q].todo = << Item(c.target, {}) >>
      /\ \A p \in Requests \ {q} : Undisturbed(p)
  BY <1>0, <1>1 DEF GraphTypeOK, Undisturbed
<1>7. HoldsNothing(q)'
  BY <1>0 DEF GraphInv, RequestInv, HoldsNothing
<1>8. RequestInv(q)'
  BY <1>6, <1>7 DEF RequestInv, HasLooked, GoesDown
<1> QED
  BY <1>0, <1>5, <1>6, <1>8, QuietStep DEF GraphInv

LEMMA OpenStep ==
  ASSUME GraphInv, NEW q \in Requests, Open(q)
  PROVE  GraphTypeOK' /\ \A p \in Requests : RequestInv(p)'
<1> DEFINE c == tx[q].command
<1>0. /\ tx[q].at = "open" /\ Free(q, c.target) /\ UNCHANGED << row, config, graphFaults >>
      /\ GraphTypeOK /\ GraphAssumptions /\ graphFaults \in 0 .. MaxGraphFaults
      /\ IF TokenFits(c, tx[q].saw) /\ (c.target = System \/ Applicable(c))
         THEN At(q, "uses", << >>, FALSE) /\ graphLock' = Locked(q, c.target)
         ELSE End(q, "refused")
  BY DEF GraphInv, Open, GraphTypeOK
<1>1. CASE End(q, "refused")
  BY <1>0, <1>1, EndStep DEF Ended
<1>2. CASE /\ c.target = System \/ Applicable(c)
           /\ At(q, "uses", << >>, FALSE) /\ graphLock' = Locked(q, c.target)
  <2>1. PICK d \in GraphCommands : d = tx[q].command
    BY <1>0 DEF GraphInv, RequestInv
  <2>2. /\ d.target \in Rows \union {System} /\ Free(q, d.target)
        /\ graphLock' = Locked(q, d.target)
        /\ d.target = System \/ Applicable(d)
    BY <1>0, <1>2, <2>1, CommandTarget
  <2>3. /\ tx' \in [Requests -> [at : Steps, command : GraphCommands \union {None},
                                 saw : {None} \union RowStates \union Configs,
                                 todo : Seq(Todo), bad : BOOLEAN]]
        /\ tx'[q].at = "uses" /\ tx'[q].command = d
        /\ \A p \in Requests \ {q} : tx'[p] = tx[p]
    <3>1. "uses" \in Steps /\ << >> \in Seq(Todo)
      BY EmptySeq DEF Steps
    <3> QED
      BY <1>0, <1>2, <2>1, <3>1, AtOf
  <2>4. /\ graphLock' \in [Rows \union {System} -> Requests \union {None}]
        /\ graphLock'[d.target] = q
        /\ \A y \in Rows \union {System} : y # d.target => graphLock'[y] = graphLock[y]
        /\ \A p \in Requests \ {q} : \A y \in Rows \union {System} : graphLock'[y] = p <=> graphLock[y] = p
    BY <1>0, <2>2, LockOf
  <2>5. GraphTypeOK'
    BY <1>0, <2>3, <2>4 DEF GraphTypeOK
  <2>6. HoldsOnly(q, d.target)'
    BY <1>0, <2>4 DEF GraphInv, RequestInv, HoldsNothing, HoldsOnly
  <2>7. Applicable(d)' <=> Applicable(d)
    BY <1>0, SameGraph
  <2>8. HasLooked(q, d)' /\ GoesDown(q, d)'
    BY <2>2, <2>3, <2>4, <2>6, <2>7 DEF HasLooked, GoesDown
  <2>9. RequestInv(q)'
    BY <2>3, <2>8 DEF RequestInv
  <2>10. \A p \in Requests \ {q} : Undisturbed(p)
    BY <2>3, <2>4 DEF Undisturbed
  <2> QED
    BY <1>0, <2>5, <2>9, <2>10, QuietStep DEF GraphInv
<1> QED
  BY <1>0, <1>1, <1>2

LEMMA LookAtUsesStep ==
  ASSUME GraphInv, NEW q \in Requests, LookAtUses(q)
  PROVE  GraphTypeOK' /\ \A p \in Requests : RequestInv(p)'
<1> DEFINE c == tx[q].command
<1>0. /\ tx[q].at = "uses" /\ UNCHANGED << row, config, graphFaults >>
      /\ GraphTypeOK /\ KindsFit /\ GraphAssumptions /\ graphFaults \in 0 .. MaxGraphFaults
      /\ IF InUse(c) THEN End(q, "refused")
         ELSE At(q, "walk", Chain(c), FALSE) /\ UNCHANGED graphLock
  BY DEF GraphInv, LookAtUses, GraphTypeOK
<1>1. CASE End(q, "refused")
  BY <1>0, <1>1, EndStep DEF Ended
<1>2. CASE ~InUse(c) /\ At(q, "walk", Chain(c), FALSE) /\ UNCHANGED graphLock
  <2>1. PICK d \in GraphCommands : d = tx[q].command
    BY <1>0 DEF GraphInv, RequestInv
  <2>2. Chain(d) \in Seq(Looks)
    BY <1>0, ChainLooks
  <2>3. Chain(d) \in Seq(Todo)
    <3>1. Looks \subseteq Todo
      BY DEF Looks, Todo
    <3> QED
      BY <2>2, <3>1
  <2>4. /\ tx' \in [Requests -> [at : Steps, command : GraphCommands \union {None},
                                 saw : {None} \union RowStates \union Configs,
                                 todo : Seq(Todo), bad : BOOLEAN]]
        /\ tx'[q].at = "walk" /\ tx'[q].command = d /\ tx'[q].todo = Chain(d)
        /\ tx'[q].bad = FALSE
        /\ \A p \in Requests \ {q} : tx'[p] = tx[p]
    <3>1. "walk" \in Steps
      BY DEF Steps
    <3>2. At(q, "walk", Chain(d), FALSE)
      BY <1>2, <2>1
    <3> QED
      BY <1>0, <2>1, <2>3, <3>1, <3>2, AtOf
  <2>5. GraphTypeOK'
    BY <1>0, <1>2, <2>4 DEF GraphTypeOK
  <2>6. /\ Chain(d)' = Chain(d)
        /\ Applicable(d)' <=> Applicable(d)
        /\ InUse(d)' <=> InUse(d)
    BY <1>0, SameGraph
  <2>7. HasLooked(q, d) /\ GoesDown(q, d)
    BY <2>1 DEF GraphInv, RequestInv
  <2>8. HasLooked(q, d)'
    <3>1. ~InUse(d)
      BY <1>2, <2>1
    <3>2. \A item \in Looks : InSeq(item, Chain(d)') => Covered(q, item)'
      BY <2>4, <2>6 DEF Covered
    <3> QED
      BY <1>0, <1>2, <2>2, <2>4, <2>6, <2>7, <3>1, <3>2 DEF HasLooked
  <2>9. GoesDown(q, d)'
    <3>1. HoldsOnly(q, d.target)
      BY <1>0, <2>7 DEF GoesDown
    <3>2. HoldsOnly(q, d.target)'
      BY <1>2, <3>1 DEF HoldsOnly
    <3>3. CASE Chain(d) = << >>
      BY <2>4, <3>2, <3>3 DEF GoesDown
    <3>4. CASE \E e \in Looks : Level(d.target) < Level(e.row) /\ Chain(d) = << e >>
      <4>1. PICK e \in Looks : Level(d.target) < Level(e.row) /\ Chain(d) = << e >>
        BY <3>4
      <4>2. HoldsAbove(q, e.row)'
        BY <3>2, <4>1 DEF HoldsOnly, HoldsAbove
      <4>3. Chain(d)' # << >>
        BY <2>6, <4>1
      <4>4. tx'[q].todo = << e >>
        BY <2>4, <4>1
      <4> QED
        BY <2>4, <4>2, <4>3, <4>4 DEF GoesDown
    <3>5. CASE ~Narrow(d)
      BY <2>4, <3>5 DEF GoesDown
    <3> QED
      BY <1>0, <3>3, <3>4, <3>5, ChainLooks
  <2>10. RequestInv(q)'
    BY <2>4, <2>8, <2>9 DEF RequestInv
  <2>11. \A p \in Requests \ {q} : Undisturbed(p)
    BY <1>2, <2>4 DEF Undisturbed
  <2> QED
    BY <1>0, <2>5, <2>10, <2>11, QuietStep DEF GraphInv
<1> QED
  BY <1>0, <1>1, <1>2

LEMMA WalkStep ==
  ASSUME GraphInv, NEW q \in Requests, Walk(q)
  PROVE  GraphTypeOK' /\ \A p \in Requests : RequestInv(p)'
<1>0. /\ tx[q].at = "walk" /\ tx[q].todo # << >> /\ UNCHANGED << row, config, graphFaults >>
      /\ GraphTypeOK /\ KindsFit /\ GraphAssumptions /\ graphFaults \in 0 .. MaxGraphFaults
  BY DEF GraphInv, Walk, GraphTypeOK
<1>1. PICK d \in GraphCommands : d = tx[q].command
  BY <1>0 DEF GraphInv, RequestInv
<1>2. HasLooked(q, d) /\ GoesDown(q, d)
  BY <1>1 DEF GraphInv, RequestInv
<1>3. tx[q].todo \in Seq(Looks)
  BY <1>0, <1>2 DEF HasLooked
<1>4. Head(tx[q].todo) \in Looks /\ Tail(tx[q].todo) \in Seq(Looks)
  BY <1>0, <1>3, HeadTailProperties
<1>5. PICK item \in Looks : item = Head(tx[q].todo)
  BY <1>4
<1>6. /\ Free(q, item.row)
      /\ IF IsUsable(item) \/ d.target = System
         THEN /\ At(q, "walk", ItemOf(row[item.row].ref) \o Tail(tx[q].todo), tx[q].bad \/ ~IsUsable(item))
              /\ graphLock' = Locked(q, item.row)
         ELSE End(q, "refused")
  BY <1>1, <1>5 DEF Walk
<1>7. CASE End(q, "refused")
  BY <1>0, <1>7, EndStep DEF Ended
<1>8. CASE /\ IsUsable(item) \/ d.target = System
           /\ At(q, "walk", ItemOf(row[item.row].ref) \o Tail(tx[q].todo), tx[q].bad \/ ~IsUsable(item))
           /\ graphLock' = Locked(q, item.row)
  <2> DEFINE below == ItemOf(row[item.row].ref)
             todo == below \o Tail(tx[q].todo)
             bad == tx[q].bad \/ ~IsUsable(item)
  <2>1. item.row \in Rows /\ RefFits(item.row, row[item.row].ref)
    BY <1>0 DEF Looks, KindsFit
  <2>2. /\ row[item.row].ref \in Rows \union {None}
        /\ row[item.row].ref # None => Level(item.row) < Level(row[item.row].ref)
    BY <1>0, <2>1, RefsGoDown
  <2>3. below \in Seq(Looks)
    BY <1>0, <2>2, ItemOfRow
  <2>4. todo \in Seq(Looks)
    BY <1>4, <2>3, ConcatProperties
  <2>5. todo \in Seq(Todo) /\ bad \in BOOLEAN /\ "walk" \in Steps
    <3>1. Looks \subseteq Todo
      BY DEF Looks, Todo
    <3>2. tx[q].bad \in BOOLEAN
      BY <1>0 DEF GraphTypeOK
    <3> HIDE DEF todo
    <3> QED
      BY <2>4, <3>1, <3>2 DEF Steps, IsUsable
  <2> HIDE DEF todo, bad
  <2>6. /\ tx' \in [Requests -> [at : Steps, command : GraphCommands \union {None},
                                 saw : {None} \union RowStates \union Configs,
                                 todo : Seq(Todo), bad : BOOLEAN]]
        /\ tx'[q].at = "walk" /\ tx'[q].command = d /\ tx'[q].todo = todo /\ tx'[q].bad = bad
        /\ \A p \in Requests \ {q} : tx'[p] = tx[p]
    <3>1. At(q, "walk", todo, bad)
      BY <1>8 DEF todo, bad
    <3> QED
      BY <1>0, <1>1, <2>5, <3>1, AtOf
  <2>7. /\ graphLock' \in [Rows \union {System} -> Requests \union {None}]
        /\ graphLock'[item.row] = q
        /\ \A y \in Rows \union {System} : y # item.row => graphLock'[y] = graphLock[y]
        /\ \A p \in Requests \ {q} : \A y \in Rows \union {System} : graphLock'[y] = p <=> graphLock[y] = p
    BY <1>0, <1>6, <1>8, <2>1, LockOf
  <2>8. GraphTypeOK'
    BY <1>0, <2>6, <2>7 DEF GraphTypeOK
  <2>9. /\ Chain(d)' = Chain(d)
        /\ Applicable(d)' <=> Applicable(d)
        /\ InUse(d)' <=> InUse(d)
        /\ \A x : IsUsable(x)' <=> IsUsable(x)
    BY <1>0, SameGraph
  <2>10. HasLooked(q, d)'
    <3>1. ASSUME NEW x \in Looks, Covered(q, x) PROVE Covered(q, x)'
      <4>1. x.row \in Rows \union {System}
        BY DEF Looks
      <4>2. CASE tx[q].bad
        BY <2>6, <4>2 DEF Covered, bad
      <4>3. CASE graphLock[x.row] = q /\ IsUsable(x)
        <5>1. graphLock'[x.row] = q
          BY <2>7, <4>1, <4>3
        <5> QED
          BY <2>9, <4>3, <5>1 DEF Covered
      <4>4. CASE InSeq(x, tx[q].todo)
        <5>1. CASE x = item
          <6>1. CASE IsUsable(item)
            BY <2>7, <2>9, <5>1, <6>1 DEF Covered
          <6>2. CASE ~IsUsable(item)
            BY <2>6, <6>2 DEF Covered, bad
          <6> QED
            BY <6>1, <6>2
        <5>2. CASE InSeq(x, Tail(tx[q].todo))
          <6>1. InSeq(x, todo)
            BY <1>4, <2>3, <5>2, InConcat DEF todo
          <6> QED
            BY <2>6, <6>1 DEF Covered
        <5> QED
          BY <1>0, <1>3, <1>5, <4>4, <5>1, <5>2, InHeadOrTail
      <4> QED
        BY <3>1, <4>2, <4>3, <4>4 DEF Covered
    <3>2. bad => d.target = System
      BY <1>0, <1>2, <1>8 DEF HasLooked, bad
    <3>3. graphLock'[d.target] = q
      <4>1. d.target \in Rows \union {System} /\ graphLock[d.target] = q
        BY <1>0, <1>2, CommandTarget DEF HasLooked
      <4> QED
        BY <2>7, <4>1
    <3>4. /\ d.target = System \/ Applicable(d)
          /\ ~InUse(d)
          /\ \A x \in Looks : InSeq(x, Chain(d)') => Covered(q, x)
      BY <1>0, <1>2, <2>9 DEF HasLooked
    <3>5. \A x \in Looks : InSeq(x, Chain(d)') => Covered(q, x)'
      BY <3>1, <3>4
    <3> QED
      BY <2>4, <2>6, <2>9, <3>2, <3>3, <3>4, <3>5 DEF HasLooked
  <2>11. GoesDown(q, d)'
    <3> SUFFICES ASSUME Narrow(d)
                 PROVE  \/ tx'[q].todo = << >> /\ (Chain(d)' = << >> => HoldsOnly(q, d.target)')
                        \/ \E x \in Looks : /\ tx'[q].todo = << x >> /\ Chain(d)' # << >>
                                            /\ HoldsAbove(q, x.row)'
      BY <2>6 DEF GoesDown
    <3>1. PICK x \in Looks : tx[q].todo = << x >> /\ Chain(d) # << >> /\ HoldsAbove(q, x.row)
      BY <1>0, <1>2 DEF GoesDown
    <3>2. x = item /\ Tail(tx[q].todo) = << >>
      BY <1>5, <3>1
    <3>3. todo = below /\ Chain(d)' # << >>
      BY <2>3, <2>9, <3>1, <3>2 DEF todo
    <3>4. CASE row[item.row].ref = None
      <4>1. todo = << >>
        BY <1>0, <3>3, <3>4, ItemOfRow
      <4> QED
        BY <2>6, <3>3, <4>1
    <3>5. CASE row[item.row].ref # None
      <4>1. PICK r \in Rows : r = row[item.row].ref /\ todo = << Item(r, {}) >>
        BY <1>0, <2>2, <3>3, <3>5, ItemOfRow
      <4>2. PICK e \in Looks : e = Item(r, {}) /\ e.row = r
        BY <4>1 DEF Item, Looks
      <4>3. HoldsAbove(q, r)'
        <5>1. \A y \in Rows \union {System} : graphLock[y] = q => Level(y) < Level(item.row)
          BY <3>1, <3>2 DEF HoldsAbove
        <5>2. Level(item.row) < Level(r)
          BY <2>2, <3>5, <4>1
        <5>3. \A y : Level(y) \in Nat
          BY DEF Level
        <5> QED
          BY <2>7, <5>1, <5>2, <5>3 DEF HoldsAbove
      <4>4. tx'[q].todo = << e >> /\ HoldsAbove(q, e.row)'
        BY <2>6, <4>1, <4>2, <4>3
      <4> QED
        BY <3>3, <4>4
    <3> QED
      BY <3>4, <3>5
  <2>12. RequestInv(q)'
    BY <2>6, <2>10, <2>11 DEF RequestInv
  <2>13. \A p \in Requests \ {q} : Undisturbed(p)
    BY <2>6, <2>7 DEF Undisturbed
  <2> QED
    BY <1>0, <2>8, <2>12, <2>13, QuietStep DEF GraphInv
<1> QED
  BY <1>6, <1>7, <1>8

-----------------------------------------------------------------------------
(***************************************************************************)
(* A command on a row commits.                                             *)
(***************************************************************************)
\* What the request of a command that commits has made sure of.
LEMMA Looked ==
  ASSUME GraphInv, NEW q \in Requests, Commit(q), NEW d \in GraphCommands, tx[q].command = d
  PROVE  /\ graphLock[d.target] = q /\ (d.target = System \/ Applicable(d)) /\ ~InUse(d)
         /\ \A item \in Looks : InSeq(item, Chain(d)) => graphLock[item.row] = q /\ IsUsable(item)
<1>1. tx[q].at = "walk" /\ tx[q].todo = << >> /\ ~tx[q].bad
  BY DEF Commit
<1>2. HasLooked(q, d)
  BY DEF GraphInv, RequestInv
<1>3. \A item : ~InSeq(item, << >>)
  BY DEF InSeq
<1> QED
  BY <1>1, <1>2, <1>3 DEF HasLooked, Covered

\* The row that a command writes.
LEMMA RowWritten ==
  ASSUME GraphInv, NEW d \in GraphCommands, d.target # System, NEW r \in RowStates,
         RefFits(d.target, r.ref)
  PROVE  /\ d.op \in {"rotate", "revoke", "enable", "disable", "update"}
         /\ RowAfter(d, r) \in RowStates
         /\ RefFits(d.target, RowAfter(d, r).ref)
         /\ RowAfter(d, r).ref = IF d.op = "update" THEN d.to ELSE r.ref
         /\ RowAfter(d, r).features = IF d.op = "update" THEN d.features ELSE r.features
         /\ RowAfter(d, r).on = IF d.op = "enable" THEN TRUE
                                ELSE IF d.op \in {"revoke", "disable"} THEN FALSE ELSE r.on
<1>1. /\ d.op \in {"rotate", "revoke", "enable", "disable", "update"}
      /\ d.op = "update" => /\ RefFits(d.target, d.to) /\ d.features \subseteq Features
                            /\ d.to \in Rows \union {None}
  BY RowCommand DEF GraphInv, RowOps
<1>2. r.generation + 1 \in Nat /\ r.on \in BOOLEAN
  BY DEF RowStates
<1>3. CASE d.op = "rotate"
  <2>1. RowAfter(d, r) = Changed(r)
    BY <1>3 DEF RowAfter
  <2> QED
    BY <1>1, <1>2, <1>3, <2>1 DEF Changed, RowStates
<1>4. CASE d.op = "revoke"
  <2>1. RowAfter(d, r) = Revoked(r)
    BY <1>4 DEF RowAfter
  <2> QED
    BY <1>1, <1>2, <1>4, <2>1 DEF Changed, Revoked, RowStates
<1>5. CASE d.op = "enable"
  <2>1. RowAfter(d, r) = Switched(r, TRUE)
    BY <1>5 DEF RowAfter
  <2> QED
    BY <1>1, <1>2, <1>5, <2>1 DEF Changed, Switched, RowStates
<1>6. CASE d.op = "disable"
  <2>1. RowAfter(d, r) = Switched(r, FALSE)
    BY <1>6 DEF RowAfter
  <2> QED
    BY <1>1, <1>2, <1>6, <2>1 DEF Changed, Switched, RowStates
<1>7. CASE d.op = "update"
  <2>1. RowAfter(d, r) = Updated(r, d)
    BY <1>7 DEF RowAfter
  <2> QED
    BY <1>1, <1>2, <1>7, <2>1 DEF Changed, Updated, RowStates
<1> QED
  BY <1>1, <1>3, <1>4, <1>5, <1>6, <1>7

RowCommit(q, d) ==
  /\ GraphInv /\ Commit(q) /\ tx[q].command = d
  /\ d.target # System /\ d.target \in Rows
  /\ row' = [row EXCEPT ![d.target] = RowAfter(d, @)] /\ config' = config

LEMMA RowCommitted ==
  ASSUME NEW q \in Requests, NEW d \in GraphCommands, RowCommit(q, d)
  PROVE  /\ row' \in [Rows -> RowStates] /\ KindsFit'
         /\ \A x \in Rows \ {d.target} : row'[x] = row[x]
         /\ d.op \in {"rotate", "revoke", "enable", "disable", "update"}
         /\ row'[d.target].ref = IF d.op = "update" THEN d.to ELSE row[d.target].ref
         /\ row'[d.target].features = IF d.op = "update" THEN d.features ELSE row[d.target].features
         /\ row'[d.target].on = IF d.op = "enable" THEN TRUE
                                ELSE IF d.op \in {"revoke", "disable"} THEN FALSE ELSE row[d.target].on
<1> DEFINE t == d.target
<1>1. /\ row \in [Rows -> RowStates] /\ KindsFit /\ t \in Rows
      /\ row' = [row EXCEPT ![t] = RowAfter(d, row[t])] /\ config' = config
  BY DEF RowCommit, GraphInv, GraphTypeOK
<1>2. row[t] \in RowStates /\ RefFits(t, row[t].ref) /\ GraphInv
  BY <1>1 DEF KindsFit, RowCommit
<1>3. /\ d.op \in {"rotate", "revoke", "enable", "disable", "update"}
      /\ RowAfter(d, row[t]) \in RowStates
      /\ RefFits(t, RowAfter(d, row[t]).ref)
      /\ RowAfter(d, row[t]).ref = IF d.op = "update" THEN d.to ELSE row[t].ref
      /\ RowAfter(d, row[t]).features = IF d.op = "update" THEN d.features ELSE row[t].features
      /\ RowAfter(d, row[t]).on = IF d.op = "enable" THEN TRUE
                                  ELSE IF d.op \in {"revoke", "disable"} THEN FALSE ELSE row[t].on
  BY <1>2, RowWritten DEF RowCommit
<1>4. row'[t] = RowAfter(d, row[t]) /\ \A x \in Rows \ {t} : row'[x] = row[x]
  BY <1>1
<1>5. row' \in [Rows -> RowStates]
  BY <1>1, <1>3
<1>6. KindsFit'
  <2>1. ASSUME NEW x \in Rows PROVE RefFits(x, row[x].ref)'
    <3>1. CASE x = t
      <4>1. RefFits(t, row'[t].ref)
        BY <1>3, <1>4
      <4> QED
        BY <3>1, <4>1 DEF RefFits
    <3>2. CASE x # t
      <4>1. RefFits(x, row[x].ref) /\ row'[x] = row[x]
        BY <1>1, <1>4, <3>2 DEF KindsFit
      <4> QED
        BY <4>1 DEF RefFits
    <3> QED
      BY <3>1, <3>2
  <2>2. \A k \in Components : Present(config, k)' => ValueFits(k, config[k])'
    BY <1>1 DEF KindsFit, Present, ValueFits
  <2> QED
    BY <2>1, <2>2 DEF KindsFit
<1> QED
  BY <1>3, <1>4, <1>5, <1>6

\* What an enabled row comes to refer to is held and enabled.
LEMMA NewUse ==
  ASSUME NEW q \in Requests, NEW d \in GraphCommands, RowCommit(q, d), NEW y \in Rows,
         row'[d.target].on, row'[d.target].ref = y
  PROVE  \/ row[d.target].on /\ row[d.target].ref = y
         \/ graphLock[y] = q /\ row[y].on
<1> DEFINE t == d.target
<1>0. /\ GraphInv /\ GraphAssumptions /\ GraphTypeOK /\ KindsFit /\ t \in Rows /\ Commit(q)
      /\ tx[q].command = d
      /\ t # System
  BY DEF RowCommit, GraphInv
<1>1. \A item \in Looks : InSeq(item, Chain(d)) => graphLock[item.row] = q /\ IsUsable(item)
  BY <1>0, Looked
<1>2. /\ Item(y, {}) \in Looks /\ Item(y, {}).row = y /\ y # None
      /\ ItemOf(y) = << Item(y, {}) >>
      /\ InSeq(Item(y, {}), ItemOf(y))
  <2>1. y # None
    BY <1>0, Kinds
  <2> QED
    BY <1>0, <2>1, ItemOfRow DEF Item, Looks
<1>3. Chain(d) = ItemOf(y) => graphLock[y] = q /\ row[y].on
  BY <1>1, <1>2 DEF IsUsable
<1>4. CASE d.op = "enable"
  BY <1>0, <1>3, <1>4, RowCommitted, ChainLooks
<1>5. CASE d.op = "update"
  BY <1>0, <1>3, <1>5, RowCommitted, ChainLooks
<1>6. CASE d.op \in {"rotate", "revoke", "disable"}
  BY <1>6, RowCommitted
<1> QED
  BY <1>4, <1>5, <1>6, RowCommitted

\* When a command is refused for what uses its row.
LEMMA InUseOf ==
  ASSUME GraphAssumptions, NEW c
  PROVE  /\ c.op = "revoke" => (InUse(c) <=> RevokeRefused(c))
         /\ c.op = "disable" /\ c.target \in Connections => (InUse(c) <=> DisableConnectionRefused(c))
         /\ c.op = "disable" /\ c.target \in Deployments => (InUse(c) <=> DisableDeploymentRefused(c))
         /\ c.op = "update" /\ c.target \in Deployments => (InUse(c) <=> UpdateDeploymentRefused(c))
         /\ ~( \/ c.op = "revoke"
               \/ c.op = "disable" /\ c.target \in Connections \union Deployments
               \/ c.op = "update" /\ c.target \in Deployments) => ~InUse(c)
<1>1. Connections \intersect Deployments = {}
  BY DEF GraphAssumptions, TablesAssumption
<1>2. /\ RevokeRefused(c) \in BOOLEAN /\ DisableConnectionRefused(c) \in BOOLEAN
      /\ DisableDeploymentRefused(c) \in BOOLEAN /\ UpdateDeploymentRefused(c) \in BOOLEAN
  BY DEF RevokeRefused, DisableConnectionRefused, DisableDeploymentRefused,
         UpdateDeploymentRefused
<1>3. CASE c.op = "revoke"
  BY <1>2, <1>3 DEF InUse
<1>4. CASE c.op = "disable" /\ c.target \in Connections
  BY <1>1, <1>2, <1>4 DEF InUse
<1>5. CASE c.op = "disable" /\ c.target \in Deployments
  BY <1>1, <1>2, <1>5 DEF InUse
<1>6. CASE c.op = "update" /\ c.target \in Deployments
  BY <1>1, <1>2, <1>6 DEF InUse
<1>7. CASE ~( \/ c.op = "revoke"
              \/ c.op = "disable" /\ c.target \in Connections \union Deployments
              \/ c.op = "update" /\ c.target \in Deployments)
  BY <1>1, <1>2, <1>7 DEF InUse
<1> QED
  BY <1>1, <1>3, <1>4, <1>5, <1>6, <1>7

LEMMA RowCommitUsable ==
  ASSUME NEW q \in Requests, NEW d \in GraphCommands, RowCommit(q, d)
  PROVE  EnabledIsUsable'
<1> DEFINE t == d.target
<1>0. /\ GraphInv /\ GraphAssumptions /\ GraphTypeOK /\ KindsFit /\ EnabledIsUsable
      /\ t \in Rows /\ Commit(q)
      /\ tx[q].command = d /\ t # System
  BY DEF RowCommit, GraphInv
<1>1. /\ KindsFit' /\ \A x \in Rows \ {t} : row'[x] = row[x]
      /\ d.op \in {"rotate", "revoke", "enable", "disable", "update"}
  BY RowCommitted
<1> SUFFICES ASSUME NEW r \in Rows, row'[r].on, row'[r].ref # None
             PROVE  row'[row'[r].ref].on
  BY DEF EnabledIsUsable
<1>2. RefFits(r, row'[r].ref)
  BY <1>1 DEF KindsFit
<1>3. PICK y \in Rows : y = row'[r].ref /\ y # r
  BY <1>0, <1>2, RefsGoDown
<1>4. CASE r = t
  <2>1. row'[y] = row[y]
    BY <1>1, <1>3, <1>4
  <2>2. row[y].on
    <3>1. \/ row[t].on /\ row[t].ref = y
          \/ row[y].on
      BY <1>3, <1>4, NewUse
    <3>2. y # None
      BY <1>0, Kinds
    <3> QED
      BY <1>0, <3>1, <3>2 DEF EnabledIsUsable
  <2> QED
    BY <1>3, <2>1, <2>2
<1>5. CASE r # t
  <2>1. row'[r] = row[r] /\ row[r].on /\ row[r].ref = y /\ row[y].on
    BY <1>0, <1>1, <1>3, <1>5 DEF EnabledIsUsable
  <2>2. CASE y # t
    BY <1>1, <1>3, <2>1, <2>2
  <2>3. CASE y = t
    <3>1. ~InUse(d)
      BY <1>0, Looked
    <3>2. d.op \in {"rotate", "revoke"} <=> t \in Credentials
      BY <1>0, RowCommand
    <3>3. RefFits(r, t)
      BY <1>2, <1>3, <2>3
    <3>4. d.op # "revoke"
      <4> SUFFICES ASSUME d.op = "revoke" PROVE FALSE
        OBVIOUS
      <4>1. t \in Credentials
        BY <3>2
      <4>2. t \notin Users
        BY <1>0, <4>1, Kinds
      <4>3. r \in Users
        <5>1. Connections \subseteq Users
          BY DEF Users
        <5>2. r \notin Deployments
          BY <3>3, <4>2, <5>1 DEF RefFits
        <5>3. r \notin Credentials
          BY <1>3, <2>3, <3>3, <1>0, Kinds DEF RefFits
        <5> QED
          BY <5>2, <5>3 DEF Rows
      <4>4. RevokeRefused(d)
        BY <2>1, <2>3, <4>3 DEF RevokeRefused
      <4> QED
        BY <1>0, <3>1, <4>4, InUseOf
    <3>5. d.op # "disable"
      <4> SUFFICES ASSUME d.op = "disable" PROVE FALSE
        OBVIOUS
      <4>1. t \notin Credentials
        BY <3>2
      <4>2. t # None
        BY <1>0, Kinds
      <4>3. r \in Deployments /\ t \in Connections
        BY <3>3, <4>1, <4>2 DEF RefFits, Rows, Users
      <4>4. DisableConnectionRefused(d)
        BY <2>1, <2>3, <4>3 DEF DisableConnectionRefused
      <4> QED
        BY <1>0, <2>3, <3>1, <4>3, <4>4, InUseOf
    <3>6. row'[t].on
      BY <1>1, <2>1, <2>3, <3>4, <3>5, RowCommitted
    <3> QED
      BY <1>3, <2>3, <3>6
  <2> QED
    BY <2>2, <2>3
<1> QED
  BY <1>4, <1>5

LEMMA RowCommitFits ==
  ASSUME NEW q \in Requests, NEW d \in GraphCommands, RowCommit(q, d)
  PROVE  ComponentsFit'
<1> DEFINE t == d.target
<1>0. /\ GraphInv /\ GraphAssumptions /\ GraphTypeOK /\ KindsFit /\ ComponentsFit /\ t \in Rows
      /\ Commit(q)
      /\ tx[q].command = d /\ t # System /\ config' = config /\ config \in Configs
  BY DEF RowCommit, GraphInv, GraphTypeOK
<1>1. /\ \A x \in Rows \ {t} : row'[x] = row[x]
      /\ d.op \in {"rotate", "revoke", "enable", "disable", "update"}
  BY RowCommitted
<1> SUFFICES ASSUME NEW k \in Components \ {"Policies"}, Present(config, k)
             PROVE  /\ row'[config[k].refs[1]].on
                    /\ KindNeeds(config, k) \subseteq row'[config[k].refs[1]].features
  BY <1>0 DEF ComponentsFit, FirstFits, Present, KindNeeds
<1>2. /\ row[config[k].refs[1]].on
      /\ KindNeeds(config, k) \subseteq row[config[k].refs[1]].features
  BY <1>0 DEF ComponentsFit, FirstFits
<1>3. config[k].refs # << >> /\ config[k].refs[1] \in Deployments
  <2>1. config[k].refs \in Seq(Deployments) /\ Len(config[k].refs) >= 1 /\ Len(config[k].refs) \in Nat
    BY <1>0 DEF KindsFit, ValueFits, Configs, Values
  <2> QED
    BY <2>1, ElementOfSeq
<1>4. PICK x \in Deployments : x = config[k].refs[1]
  BY <1>3
<1>5. CASE x # t
  <2>1. row'[x] = row[x]
    BY <1>1, <1>5 DEF Rows
  <2> QED
    BY <1>2, <1>4, <2>1
<1>6. CASE x = t
  <2>1. ~InUse(d) /\ t \notin Credentials /\ t \notin Connections
    <3>1. t \in Rows /\ t \in Deployments
      BY <1>0, <1>6
    <3> QED
      BY <1>0, <3>1, Looked, Kinds DEF Users
  <2>2. d.op \notin {"rotate", "revoke"}
    BY <1>0, <2>1, RowCommand
  <2>3. k \in References(t)
    BY <1>3, <1>4, <1>6 DEF References
  <2>4. d.op # "disable"
    <3> SUFFICES ASSUME d.op = "disable" PROVE FALSE
      OBVIOUS
    <3>1. DisableDeploymentRefused(d)
      BY <2>3 DEF DisableDeploymentRefused
    <3> QED
      BY <1>0, <1>6, <2>1, <3>1, InUseOf
  <2>5. d.op = "update" => KindNeeds(config, k) \subseteq d.features
    <3> SUFFICES ASSUME d.op = "update", ~(KindNeeds(config, k) \subseteq d.features) PROVE FALSE
      OBVIOUS
    <3>1. UpdateDeploymentRefused(d)
      BY <2>3 DEF UpdateDeploymentRefused
    <3> QED
      BY <1>0, <1>6, <2>1, <3>1, InUseOf
  <2>6. /\ row'[t].on = IF d.op = "enable" THEN TRUE
                         ELSE IF d.op \in {"revoke", "disable"} THEN FALSE ELSE row[t].on
        /\ row'[t].features = IF d.op = "update" THEN d.features ELSE row[t].features
    BY RowCommitted
  <2>7. row[t].on /\ KindNeeds(config, k) \subseteq row[t].features
    BY <1>2, <1>4, <1>6
  <2>8. row'[t].on /\ KindNeeds(config, k) \subseteq row'[t].features
    BY <2>2, <2>4, <2>5, <2>6, <2>7
  <2> QED
    BY <1>4, <1>6, <2>8
<1> QED
  BY <1>5, <1>6

\* What the others have looked at is not the row that is written, and nothing
\* comes to use the rows they hold.
LEMMA RowCommitOthers ==
  ASSUME NEW q \in Requests, NEW d \in GraphCommands, RowCommit(q, d),
         NEW p \in Requests, p # q, NEW c \in GraphCommands,
         tx[p].command = c, tx[p].at \in {"uses", "walk"}
  PROVE  SameView(p, c)
<1> DEFINE t == d.target
<1>0. /\ GraphInv /\ GraphAssumptions /\ GraphTypeOK /\ t \in Rows /\ Commit(q)
      /\ tx[q].command = d
      /\ t # System /\ config' = config /\ graphLock[t] = q
  BY Looked DEF RowCommit, GraphInv
<1>1. \A x \in Rows \ {t} : row'[x] = row[x]
  BY RowCommitted
<1>2. graphLock[c.target] = p /\ c.target # t
  BY <1>0 DEF GraphInv, RequestInv, HasLooked
<1>3. \A item \in Looks : graphLock[item.row] = p /\ IsUsable(item) => IsUsable(item)'
  <2> SUFFICES ASSUME NEW item \in Looks, graphLock[item.row] = p, IsUsable(item) PROVE IsUsable(item)'
    OBVIOUS
  <2>1. row'[item.row] = row[item.row]
    BY <1>0, <1>1 DEF Looks
  <2> QED
    BY <2>1 DEF IsUsable
<1>4. CASE c.target = System
  <2>1. c.op \in SystemOps
    BY <1>0, <1>4, SystemCommand
  <2>2. Applicable(c)' <=> Applicable(c)
    BY <2>1 DEF Applicable, SystemOps
  <2>3. ~InUse(c)'
    BY <2>1 DEF InUse, SystemOps
  <2>4. Chain(c)' = Chain(c)
    <3>1. Desired(c)' = Desired(c)
      BY <1>0 DEF Desired
    <3>2. /\ AllSlots(Desired(c))' = AllSlots(Desired(c))
          /\ SetChain(c)' = SetChain(c)
      BY <3>1 DEF AllSlots, SetChain, Slots, Present
    <3> QED
      BY <2>1, <3>2 DEF SystemOps, Chain
  <2> QED
    BY <1>3, <2>2, <2>3, <2>4 DEF SameView
<1>5. CASE c.target # System
  <2>1. c.op \in RowOps /\ c.target \in Rows
    BY <1>0, <1>5, RowCommand
  <2>2. row'[c.target] = row[c.target]
    BY <1>1, <1>2, <2>1
  <2>3. Applicable(c)' <=> Applicable(c)
    BY <2>2 DEF Applicable
  <2>4. Chain(c)' = Chain(c)
    BY <2>1, <2>2 DEF RowOps, Chain, EnableChain, UpdateChain, ItemOf
  <2>5. ASSUME NEW x \in Rows, row'[x].on, row'[x].ref = c.target
        PROVE  row[x].on /\ row[x].ref = c.target
    <3>1. CASE x = t
      BY <1>2, <2>1, <2>5, <3>1, NewUse
    <3>2. CASE x # t
      BY <1>1, <2>5, <3>2
    <3> QED
      BY <3>1, <3>2
  <2>6. RevokeRefused(c)' => RevokeRefused(c)
    BY <2>5 DEF RevokeRefused, Rows
  <2>7. DisableConnectionRefused(c)' => DisableConnectionRefused(c)
    BY <2>5 DEF DisableConnectionRefused, Rows
  <2>8. /\ DisableDeploymentRefused(c)' <=> DisableDeploymentRefused(c)
        /\ UpdateDeploymentRefused(c)' <=> UpdateDeploymentRefused(c)
    BY <1>0 DEF DisableDeploymentRefused, UpdateDeploymentRefused, References,
                Present, KindNeeds
  <2>9. InUse(c)' => InUse(c)
    BY <2>6, <2>7, <2>8 DEF InUse
  <2> QED
    BY <1>3, <2>3, <2>4, <2>9 DEF SameView
<1> QED
  BY <1>4, <1>5

LEMMA RowCommitStep ==
  ASSUME NEW q \in Requests, NEW d \in GraphCommands, RowCommit(q, d)
  PROVE  GraphInv'
<1>0. /\ GraphInv /\ GraphAssumptions /\ GraphTypeOK /\ Commit(q) /\ tx[q].command = d
      /\ config' = config
  BY DEF RowCommit, GraphInv
<1>1. End(q, "done") /\ "done" \in Ended /\ graphFaults' = graphFaults
  BY <1>0 DEF Commit, Ended
<1>2. /\ tx' \in [Requests -> [at : Steps, command : GraphCommands \union {None},
                               saw : {None} \union RowStates \union Configs,
                               todo : Seq(Todo), bad : BOOLEAN]]
      /\ graphLock' \in [Rows \union {System} -> Requests \union {None}]
      /\ \A p \in Requests \ {q} : Undisturbed(p)
  BY <1>0, <1>1, EndOf
<1>3. GraphTypeOK'
  <2>1. row' \in [Rows -> RowStates]
    BY RowCommitted
  <2> QED
    BY <1>0, <1>1, <1>2, <2>1 DEF GraphTypeOK
<1>4. KindsFit' /\ EnabledIsUsable' /\ ComponentsFit'
  BY RowCommitted, RowCommitUsable, RowCommitFits
<1>5. ASSUME NEW p \in Requests PROVE RequestInv(p)'
  <2>1. CASE p = q
    BY <1>0, <1>1, <2>1, EndedInv
  <2>2. CASE p # q
    <3>1. \A c \in GraphCommands : tx[p].command = c /\ tx[p].at \in {"uses", "walk"} => SameView(p, c)
      BY <2>2, RowCommitOthers
    <3>2. RequestInv(p) /\ Undisturbed(p)
      BY <1>0, <1>2, <2>2 DEF GraphInv
    <3> QED
      BY <1>0, <3>1, <3>2, OthersKeep
  <2> QED
    BY <2>1, <2>2
<1> QED
  BY <1>0, <1>3, <1>4, <1>5 DEF GraphInv, GraphAssumptions, FeaturesAssumption,
                                ProvidersAssumption,
     NoneAssumption, TablesAssumption, CommandsAssumption,
     StartsAssumption, GraphFaultsAssumption

-----------------------------------------------------------------------------
(***************************************************************************)
(* A command on the system configuration commits.                          *)
(***************************************************************************)
SystemCommit(q, d) ==
  /\ GraphInv /\ Commit(q) /\ tx[q].command = d /\ d.target = System
  /\ config' = ConfigAfter(d) /\ row' = row

LEMMA ConfigWritten ==
  ASSUME NEW q \in Requests, NEW d \in GraphCommands, SystemCommit(q, d)
  PROVE  /\ config' \in Configs /\ KindsFit' /\ DOMAIN d.desired \subseteq Components
         /\ \A k \in DOMAIN d.desired :
              /\ config'[k].refs = Desired(d)[k].refs
              /\ config'[k].needs = Desired(d)[k].needs
              /\ config'[k].vad = Desired(d)[k].vad
              /\ config'[k].generation # 0 /\ ValueFits(k, config'[k])
         /\ \A k \in Components \ DOMAIN d.desired : config'[k] = config[k]
<1>0. /\ GraphInv /\ GraphAssumptions /\ GraphTypeOK /\ KindsFit /\ config \in Configs
      /\ d.target = System
      /\ config' = ConfigAfter(d) /\ row' = row
  BY DEF SystemCommit, GraphInv, GraphTypeOK
<1>1. /\ Desired(d) \in Configs /\ DOMAIN d.desired \subseteq Components
      /\ \A k \in DOMAIN d.desired :
           /\ Desired(d)[k].refs = d.desired[k].refs
           /\ Desired(d)[k].needs = d.desired[k].needs
           /\ Desired(d)[k].vad = d.desired[k].vad
           /\ Present(Desired(d), k) /\ ValueFits(k, Desired(d)[k])
      /\ \A k \in Components \ DOMAIN d.desired : Desired(d)[k] = config[k]
  BY <1>0, DesiredValues, SystemCommand
<1>2. ASSUME NEW k \in Components
      PROVE  \/ config'[k] = Desired(d)[k]
             \/ /\ config'[k] = config[k] /\ Present(config, k)
                /\ config[k].refs = d.desired[k].refs /\ config[k].needs = d.desired[k].needs
                /\ config[k].vad = d.desired[k].vad
  BY <1>0 DEF ConfigAfter
<1>3. config' \in Configs
  <2>1. \A k \in Components : config[k] \in Values /\ Desired(d)[k] \in Values
    BY <1>0, <1>1 DEF Configs
  <2> QED
    BY <1>0, <2>1 DEF ConfigAfter, Configs
<1>4. ASSUME NEW k \in DOMAIN d.desired
      PROVE  /\ config'[k].refs = Desired(d)[k].refs
             /\ config'[k].needs = Desired(d)[k].needs
             /\ config'[k].vad = Desired(d)[k].vad
             /\ config'[k].generation # 0 /\ ValueFits(k, config'[k])
  <2>1. k \in Components /\ (Present(config, k) => config[k].generation # 0)
    BY <1>1 DEF Present
  <2>2. /\ config'[k].refs = Desired(d)[k].refs /\ config'[k].needs = Desired(d)[k].needs
        /\ config'[k].vad = Desired(d)[k].vad
    BY <1>1, <1>2, <2>1
  <2>3. Desired(d)[k].generation # 0
    BY <1>1 DEF Present
  <2>4. config'[k].generation # 0
    BY <1>2, <2>1, <2>3
  <2>5. ValueFits(k, config'[k])
    BY <1>1, <2>2 DEF ValueFits
  <2> QED
    BY <2>2, <2>4, <2>5
<1>5. ASSUME NEW k \in Components \ DOMAIN d.desired PROVE config'[k] = config[k]
  BY <1>1, <1>2, <1>5
<1>6. KindsFit'
  <2>1. \A x \in Rows : RefFits(x, row[x].ref)'
    BY <1>0 DEF KindsFit, RefFits
  <2>2. ASSUME NEW k \in Components, config'[k].generation # 0 PROVE ValueFits(k, config'[k])
    <3>1. CASE k \in DOMAIN d.desired
      BY <1>4, <3>1
    <3>2. CASE k \notin DOMAIN d.desired
      BY <1>0, <1>5, <2>2, <3>2 DEF KindsFit, Present
    <3> QED
      BY <3>1, <3>2
  <2>3. \A k \in Components : Present(config, k)' => ValueFits(k, config[k])'
    BY <2>2 DEF Present, ValueFits
  <2> QED
    BY <2>1, <2>3 DEF KindsFit
<1> QED
  BY <1>1, <1>3, <1>4, <1>5, <1>6

\* The deployment a component comes to name is held and has what is needed.
LEMMA NewReference ==
  ASSUME NEW q \in Requests, NEW d \in GraphCommands, SystemCommit(q, d),
         NEW k \in DOMAIN d.desired, k # "Policies"
  PROVE  /\ config'[k].refs[1] \in Deployments /\ graphLock[config'[k].refs[1]] = q
         /\ row[config'[k].refs[1]].on
         /\ SlotNeeds(Desired(d), k) \subseteq row[config'[k].refs[1]].features
         /\ KindNeeds(config', k) \subseteq SlotNeeds(Desired(d), k)
<1>0. GraphInv /\ GraphAssumptions /\ GraphTypeOK /\ KindsFit /\ d.target = System /\ Commit(q)
      /\ tx[q].command = d
  BY DEF SystemCommit, GraphInv
<1>1. /\ k \in Components
      /\ config'[k].refs = Desired(d)[k].refs /\ config'[k].needs = Desired(d)[k].needs
  BY ConfigWritten
<1>2. PICK x \in Deployments : x = Desired(d)[k].refs[1]
  BY <1>0, ChainLooks
<1>3. InSeq(Item(x, SlotNeeds(Desired(d), k)), Chain(d))
  BY <1>0, <1>2, ChainLooks
<1>4. SlotNeeds(Desired(d), k) \subseteq Features
  <2>1. Desired(d) \in Configs /\ "Policies" \in Components
    BY <1>0, DesiredValues DEF GraphTypeOK, Components
  <2>2. \A j \in Components : Desired(d)[j].needs \subseteq Features
    BY <2>1 DEF Configs, Values
  <2> QED
    BY <1>0, <1>1, <2>1, <2>2 DEF SlotNeeds, GraphAssumptions, FeaturesAssumption
<1>5. PICK item \in Looks : item = Item(x, SlotNeeds(Desired(d), k))
  BY <1>2, <1>4 DEF Item, Looks, Rows
<1>6. graphLock[item.row] = q /\ IsUsable(item)
  BY <1>0, <1>3, <1>5, Looked
<1>7. item.row = x /\ item.needs = SlotNeeds(Desired(d), k)
  BY <1>5 DEF Item
<1>8. KindNeeds(config', k) \subseteq SlotNeeds(Desired(d), k)
  BY <1>1 DEF KindNeeds, SlotNeeds
<1> QED
  BY <1>1, <1>2, <1>6, <1>7, <1>8 DEF IsUsable

LEMMA SystemCommitFits ==
  ASSUME NEW q \in Requests, NEW d \in GraphCommands, SystemCommit(q, d)
  PROVE  EnabledIsUsable' /\ ComponentsFit'
<1>0. EnabledIsUsable /\ ComponentsFit /\ row' = row
  BY DEF SystemCommit, GraphInv
<1>1. EnabledIsUsable'
  BY <1>0 DEF EnabledIsUsable
<1>2. ASSUME NEW k \in Components \ {"Policies"}, config'[k].generation # 0
      PROVE  /\ row[config'[k].refs[1]].on
             /\ KindNeeds(config', k) \subseteq row[config'[k].refs[1]].features
  <2>1. CASE k \in DOMAIN d.desired
    BY <1>2, <2>1, NewReference
  <2>2. CASE k \notin DOMAIN d.desired
    <3>1. config'[k] = config[k]
      BY <2>2, ConfigWritten
    <3>2. KindNeeds(config', k) = KindNeeds(config, k)
      BY <3>1 DEF KindNeeds
    <3> QED
      BY <1>0, <1>2, <3>1, <3>2 DEF ComponentsFit, FirstFits, Present
  <2> QED
    BY <2>1, <2>2
<1>3. ComponentsFit'
  BY <1>0, <1>2 DEF ComponentsFit, FirstFits, Present, KindNeeds
<1> QED
  BY <1>1, <1>3

LEMMA SystemCommitOthers ==
  ASSUME NEW q \in Requests, NEW d \in GraphCommands, SystemCommit(q, d),
         NEW p \in Requests, p # q, NEW c \in GraphCommands,
         tx[p].command = c, tx[p].at \in {"uses", "walk"}
  PROVE  SameView(p, c)
<1>0. /\ GraphInv /\ GraphAssumptions /\ GraphTypeOK /\ Commit(q) /\ tx[q].command = d
      /\ row' = row /\ graphLock[System] = q
  BY Looked DEF SystemCommit, GraphInv
<1>1. graphLock[c.target] = p /\ c.target # System
  BY <1>0 DEF GraphInv, RequestInv, HasLooked
<1>2. c.op \in RowOps /\ c.target \in Rows
  BY <1>0, <1>1, RowCommand
<1>3. (Applicable(c)' <=> Applicable(c)) /\ \A item : IsUsable(item)' <=> IsUsable(item)
  BY <1>0 DEF Applicable, IsUsable
<1>4. Chain(c)' = Chain(c)
  BY <1>0, <1>2 DEF RowOps, Chain, EnableChain, UpdateChain, ItemOf
<1>5. /\ RevokeRefused(c)' <=> RevokeRefused(c)
      /\ DisableConnectionRefused(c)' <=> DisableConnectionRefused(c)
  BY <1>0 DEF RevokeRefused, DisableConnectionRefused
<1>6. ASSUME NEW k \in Components, config'[k].generation # 0, config'[k].refs # << >>,
             config'[k].refs[1] = c.target
      PROVE  k \in References(c.target) /\ config'[k] = config[k]
  <2>1. k \notin DOMAIN d.desired
    <3> SUFFICES ASSUME k \in DOMAIN d.desired PROVE FALSE
      OBVIOUS
    <3>1. CASE k = "Policies"
      <4>1. ValueFits(k, config'[k]) /\ config' \in Configs
        BY ConfigWritten
      <4>2. config'[k].refs \in Seq(Deployments) /\ Len(config'[k].refs) = 0
        BY <3>1, <4>1 DEF ValueFits, Configs, Values
      <4>3. config'[k].refs = << >>
        BY <4>2, EmptySeq
      <4> QED
        BY <1>6, <4>3
    <3>2. CASE k # "Policies"
      <4>1. graphLock[config'[k].refs[1]] = q
        BY <3>2, NewReference
      <4> QED
        BY <1>1, <1>6, <4>1
    <3> QED
      BY <3>1, <3>2
  <2>2. config'[k] = config[k]
    BY <2>1, ConfigWritten
  <2> QED
    BY <1>6, <2>2 DEF References, Present
<1>7. ASSUME NEW k \in References(c.target)' PROVE k \in References(c.target) /\ config'[k] = config[k]
  <2>1. k \in Components /\ config'[k].generation # 0 /\ config'[k].refs # << >>
        /\ config'[k].refs[1] = c.target
    BY <1>7 DEF References, Present
  <2> QED
    BY <1>6, <2>1
<1>8. DisableDeploymentRefused(c)' => DisableDeploymentRefused(c)
  BY <1>7 DEF DisableDeploymentRefused
<1>9. UpdateDeploymentRefused(c)' => UpdateDeploymentRefused(c)
  BY <1>7 DEF UpdateDeploymentRefused, KindNeeds
<1>10. InUse(c)' => InUse(c)
  BY <1>5, <1>8, <1>9 DEF InUse
<1> QED
  BY <1>3, <1>4, <1>10 DEF SameView

LEMMA SystemCommitStep ==
  ASSUME NEW q \in Requests, NEW d \in GraphCommands, SystemCommit(q, d)
  PROVE  GraphInv'
<1>0. /\ GraphInv /\ GraphAssumptions /\ GraphTypeOK /\ Commit(q) /\ tx[q].command = d
      /\ row' = row
  BY DEF SystemCommit, GraphInv
<1>1. End(q, "done") /\ "done" \in Ended /\ graphFaults' = graphFaults
  BY <1>0 DEF Commit, Ended
<1>2. /\ tx' \in [Requests -> [at : Steps, command : GraphCommands \union {None},
                               saw : {None} \union RowStates \union Configs,
                               todo : Seq(Todo), bad : BOOLEAN]]
      /\ graphLock' \in [Rows \union {System} -> Requests \union {None}]
      /\ \A p \in Requests \ {q} : Undisturbed(p)
  BY <1>0, <1>1, EndOf
<1>3. GraphTypeOK'
  <2>1. config' \in Configs
    BY ConfigWritten
  <2> QED
    BY <1>0, <1>1, <1>2, <2>1 DEF GraphTypeOK
<1>4. KindsFit' /\ EnabledIsUsable' /\ ComponentsFit'
  BY ConfigWritten, SystemCommitFits
<1>5. ASSUME NEW p \in Requests PROVE RequestInv(p)'
  <2>1. CASE p = q
    BY <1>0, <1>1, <2>1, EndedInv
  <2>2. CASE p # q
    <3>1. \A c \in GraphCommands : tx[p].command = c /\ tx[p].at \in {"uses", "walk"} => SameView(p, c)
      BY <2>2, SystemCommitOthers
    <3>2. RequestInv(p) /\ Undisturbed(p)
      BY <1>0, <1>2, <2>2 DEF GraphInv
    <3> QED
      BY <1>0, <3>1, <3>2, OthersKeep
  <2> QED
    BY <2>1, <2>2
<1> QED
  BY <1>0, <1>3, <1>4, <1>5 DEF GraphInv, GraphAssumptions, FeaturesAssumption,
                                ProvidersAssumption,
     NoneAssumption, TablesAssumption, CommandsAssumption,
     StartsAssumption, GraphFaultsAssumption

\* What a commit does.
LEMMA CommitKinds ==
  ASSUME GraphInv, NEW q \in Requests, Commit(q)
  PROVE  \E d \in GraphCommands : RowCommit(q, d) \/ SystemCommit(q, d)
<1>1. tx[q].at = "walk"
  BY DEF Commit
<1>2. PICK d \in GraphCommands : d = tx[q].command
  BY <1>1 DEF GraphInv, RequestInv
<1>3. CASE d.target = System
  BY <1>2, <1>3 DEF Commit, SystemCommit
<1>4. CASE d.target # System
  <2>1. d.target \in Rows
    BY <1>4, RowCommand DEF GraphInv
  <2> QED
    BY <1>2, <1>4, <2>1 DEF Commit, RowCommit
<1> QED
  BY <1>3, <1>4

-----------------------------------------------------------------------------
(***************************************************************************)
(* The invariant.                                                          *)
(***************************************************************************)
LEMMA GraphInvInit == GraphInit => GraphInv
<1> SUFFICES ASSUME GraphInit PROVE GraphInv
  OBVIOUS
<1>0. GraphAssumptions
  BY FeaturesAssumption, ProvidersAssumption, NoneAssumption, TablesAssumption, CommandsAssumption,
     StartsAssumption, GraphFaultsAssumption DEF GraphAssumptions
<1>1. PICK s \in Starts : row = s.row /\ config = s.config
  BY DEF GraphInit
<1>2. /\ s.row \in [Rows -> RowStates] /\ s.config \in Configs
      /\ \A x \in Rows : /\ RefFits(x, s.row[x].ref)
                         /\ s.row[x].on /\ s.row[x].ref # None => s.row[s.row[x].ref].on
      /\ \A k \in Components :
           Present(s.config, k) =>
             /\ ValueFits(k, s.config[k])
             /\ k # "Policies" =>
                  /\ s.row[s.config[k].refs[1]].on
                  /\ KindNeeds(s.config, k) \subseteq s.row[s.config[k].refs[1]].features
  BY <1>0, <1>1 DEF GraphAssumptions, StartsAssumption
<1>3. KindsFit /\ EnabledIsUsable /\ ComponentsFit
  BY <1>1, <1>2 DEF KindsFit, EnabledIsUsable, ComponentsFit, FirstFits
<1>4. /\ graphLock = [x \in Rows \union {System} |-> None] /\ graphFaults = 0
      /\ tx = [q \in Requests |-> Idle] /\ None \notin Requests
  BY <1>0 DEF GraphInit, GraphAssumptions, NoneAssumption
<1>5. GraphTypeOK
  <2>1. Idle \in [at : Steps, command : GraphCommands \union {None},
                  saw : {None} \union RowStates \union Configs, todo : Seq(Todo), bad : BOOLEAN]
    BY EmptySeq DEF Idle, Steps
  <2>2. 0 \in 0 .. MaxGraphFaults
    BY <1>0 DEF GraphAssumptions, GraphFaultsAssumption
  <2> HIDE DEF Idle
  <2> QED
    BY <1>1, <1>2, <1>4, <2>1, <2>2 DEF GraphTypeOK
<1>6. ASSUME NEW q \in Requests PROVE RequestInv(q)
  <2>1. tx[q].at = "idle" /\ HoldsNothing(q)
    BY <1>4 DEF Idle, HoldsNothing
  <2> QED
    BY <2>1 DEF RequestInv, HasLooked, GoesDown
<1> QED
  BY <1>0, <1>3, <1>5, <1>6 DEF GraphInv

LEMMA GraphInvNext == GraphInv /\ [GraphNext]_graphVars => GraphInv'
<1> SUFFICES ASSUME GraphInv, [GraphNext]_graphVars PROVE GraphInv'
  OBVIOUS
<1>0. /\ GraphAssumptions /\ GraphTypeOK /\ KindsFit /\ EnabledIsUsable /\ ComponentsFit
      /\ graphFaults \in 0 .. MaxGraphFaults /\ MaxGraphFaults \in Nat
      /\ \A q \in Requests : RequestInv(q)
  BY DEF GraphInv, GraphTypeOK, GraphAssumptions, GraphFaultsAssumption
<1>1. ASSUME UNCHANGED << row, config >>, GraphTypeOK', \A p \in Requests : RequestInv(p)'
      PROVE  GraphInv'
  <2>1. KindsFit' /\ EnabledIsUsable' /\ ComponentsFit'
    BY <1>0, <1>1 DEF KindsFit, RefFits, ValueFits, EnabledIsUsable,
                      ComponentsFit, FirstFits, Present,
                      KindNeeds
  <2>2. GraphAssumptions'
    BY <1>0 DEF GraphAssumptions, FeaturesAssumption, ProvidersAssumption,
       NoneAssumption, TablesAssumption, CommandsAssumption,
       StartsAssumption, GraphFaultsAssumption
  <2> QED
    BY <1>1, <2>1, <2>2 DEF GraphInv
<1>2. ASSUME NEW q \in Requests, NEW c \in GraphCommands, SendCommand(q, c) PROVE GraphInv'
  <2>1. UNCHANGED << row, config >>
    BY <1>2 DEF SendCommand
  <2> QED
    BY <1>1, <1>2, <2>1, SendStep
<1>3. ASSUME NEW q \in Requests, Open(q) PROVE GraphInv'
  <2>1. UNCHANGED << row, config >>
    BY <1>3 DEF Open
  <2> QED
    BY <1>1, <1>3, <2>1, OpenStep
<1>4. ASSUME NEW q \in Requests, LookAtUses(q) PROVE GraphInv'
  <2>1. UNCHANGED << row, config >>
    BY <1>4 DEF LookAtUses
  <2> QED
    BY <1>1, <1>4, <2>1, LookAtUsesStep
<1>5. ASSUME NEW q \in Requests, Walk(q) PROVE GraphInv'
  <2>1. UNCHANGED << row, config >>
    BY <1>5 DEF Walk
  <2> QED
    BY <1>1, <1>5, <2>1, WalkStep
<1>6. ASSUME NEW q \in Requests, Commit(q) PROVE GraphInv'
  BY <1>6, CommitKinds, RowCommitStep, SystemCommitStep
<1>7. ASSUME NEW q \in Requests, RefuseCommand(q) \/ Abort(q) \/ Lose(q) PROVE GraphInv'
  <2>1. /\ UNCHANGED << row, config >> /\ graphFaults' \in 0 .. MaxGraphFaults
        /\ End(q, "refused") \/ End(q, "aborted") \/ End(q, "lost")
    BY <1>0, <1>7 DEF RefuseCommand, Abort, Lose
  <2> QED
    BY <1>1, <2>1, EndStep DEF Ended
<1>8. ASSUME UNCHANGED graphVars PROVE GraphInv'
  <2>1. GraphTypeOK' /\ UNCHANGED << row, config >>
    BY <1>0, <1>8 DEF graphVars, GraphTypeOK
  <2>2. ASSUME NEW p \in Requests PROVE RequestInv(p)'
    <3>1. \A c \in GraphCommands : SameView(p, c)
      BY <2>1, SameGraph DEF SameView
    <3>2. Undisturbed(p)
      BY <1>8 DEF graphVars, Undisturbed
    <3> QED
      BY <1>0, <3>1, <3>2, OthersKeep
  <2> QED
    BY <1>1, <2>1, <2>2
<1> QED
  BY <1>2, <1>3, <1>4, <1>5, <1>6, <1>7, <1>8 DEF GraphNext, GraphStep

LEMMA GraphInvariant == GraphSpec => []GraphInv
BY GraphInvInit, GraphInvNext, PTL DEF GraphSpec

-----------------------------------------------------------------------------
(***************************************************************************)
(* What the runtime of a call resolves.                                    *)
(***************************************************************************)
LEMMA EnabledResolves ==
  ASSUME KindsFit, EnabledIsUsable, GraphAssumptions, NEW d \in Deployments, row[d].on
  PROVE  row[row[d].ref].on /\ row[row[row[d].ref].ref].on
<1>1. d \in Rows /\ RefFits(d, row[d].ref)
  BY DEF KindsFit, Rows
<1>2. row[d].ref \in Connections /\ row[d].ref \in Rows /\ row[d].ref # None
  BY <1>1, Kinds DEF RefFits, Rows, Users
<1>3. row[row[d].ref].on
  BY <1>1, <1>2 DEF EnabledIsUsable
<1>4. PICK p \in Connections : p = row[d].ref
  BY <1>2
<1>5. p \in Rows /\ RefFits(p, row[p].ref)
  BY <1>2, <1>4 DEF KindsFit
<1>6. row[p].ref \in Credentials /\ row[p].ref # None
  BY <1>4, <1>5, Kinds DEF RefFits, Rows
<1>7. row[row[p].ref].on
  BY <1>3, <1>4, <1>5, <1>6 DEF EnabledIsUsable
<1> QED
  BY <1>3, <1>4, <1>7

LEMMA NamesDeployment ==
  ASSUME GraphTypeOK, KindsFit, NEW k \in Components \ {"Policies"}, Present(config, k)
  PROVE  config[k].refs[1] \in Deployments
<1>1. k \in Components /\ k # "Policies" /\ ValueFits(k, config[k])
  BY DEF KindsFit
<1>2. config[k].refs \in Seq(Deployments)
  BY <1>1 DEF GraphTypeOK, Configs, Values
<1>3. Len(config[k].refs) = IF k = "RealtimeDefaults" THEN 2 ELSE 1
  BY <1>1 DEF ValueFits
<1>4. Len(config[k].refs) \in Nat /\ Len(config[k].refs) >= 1
  BY <1>3
<1> QED
  BY <1>2, <1>4, ElementOfSeq

\* Every variable of the graph keeps its type.
THEOREM GraphTypeCorrect == GraphSpec => []GraphTypeOK
<1>1. GraphInv => GraphTypeOK
  BY DEF GraphInv
<1> QED
  BY <1>1, GraphInvariant, PTL

\* What an enabled row refers to is enabled, whatever operators do at once.
THEOREM UsesAreUsable == GraphSpec => []EnabledIsUsable
<1>1. GraphInv => EnabledIsUsable
  BY DEF GraphInv
<1> QED
  BY <1>1, GraphInvariant, PTL

\* The deployments the system configuration names resolve in every committed state.
THEOREM NamedDeploymentsResolve == GraphSpec => []ReferencesResolve
<1>1. GraphInv => ReferencesResolve
  <2> SUFFICES ASSUME GraphInv, NEW k \in Components \ {"Policies"}, Present(config, k)
               PROVE  ResolvesFirst(k)
    BY DEF ReferencesResolve
  <2>0. GraphAssumptions /\ GraphTypeOK /\ KindsFit /\ EnabledIsUsable /\ ComponentsFit
    BY DEF GraphInv
  <2>1. PICK d \in Deployments : d = config[k].refs[1]
    BY <2>0, NamesDeployment
  <2>2. row[d].on /\ KindNeeds(config, k) \subseteq row[d].features
    BY <2>0, <2>1 DEF ComponentsFit, FirstFits
  <2>3. row[row[d].ref].on /\ row[row[row[d].ref].ref].on
    BY <2>0, <2>2, EnabledResolves
  <2> QED
    BY <2>1, <2>2, <2>3 DEF ResolvesFirst, DeploymentResolves
<1> QED
  BY <1>1, GraphInvariant, PTL

\* Every architecture resolves in the state in which apply commits, a cascade if
\* it does not leave the end of turns to another provider than ElevenLabs.
LEMMA ApplyResolves ==
  ASSUME NEW q \in Requests, NEW d \in GraphCommands, SystemCommit(q, d), d.op = "apply"
  PROVE  (ProviderVAD' => Cascade') /\ Realtime' /\ HalfCascade'
<1>0. /\ GraphInv /\ GraphAssumptions /\ GraphTypeOK /\ KindsFit /\ d.target = System
      /\ Commit(q)
      /\ tx[q].command = d /\ row' = row /\ KindsFit' /\ EnabledIsUsable'
      /\ DOMAIN d.desired = Components
  BY ConfigWritten, SystemCommitFits, SystemCommand DEF SystemCommit, GraphInv
<1>1. ASSUME NEW k \in Components
      PROVE  config'[k].refs = Desired(d)[k].refs /\ config'[k].needs = Desired(d)[k].needs
  BY <1>0, ConfigWritten
<1>2. ASSUME NEW x \in Deployments, row[x].on
      PROVE  row[row[x].ref].on /\ row[row[row[x].ref].ref].on
  BY <1>0, <1>2, EnabledResolves DEF GraphInv
<1>3. ASSUME NEW k \in Components \ {"Policies"}
      PROVE  ResolvesFirst(k)'
  <2>1. /\ config'[k].refs[1] \in Deployments /\ row[config'[k].refs[1]].on
        /\ KindNeeds(config', k) \subseteq row[config'[k].refs[1]].features
    BY <1>0, <1>3, NewReference
  <2>2. PICK x \in Deployments : x = config'[k].refs[1]
    BY <2>1
  <2>3. row[row[x].ref].on /\ row[row[row[x].ref].ref].on
    BY <1>2, <2>1, <2>2
  <2> QED
    BY <1>0, <2>1, <2>2, <2>3 DEF ResolvesFirst, DeploymentResolves, KindNeeds
<1>4. Endpointing'
  <2>1. /\ "STTDefaults" \in Components /\ "Policies" \in Components
        /\ "STTDefaults" # "Policies"
    BY DEF Components
  <2>2. SlotNeeds(Desired(d), "STTDefaults") \subseteq row[config'["STTDefaults"].refs[1]].features
    BY <1>0, <2>1, NewReference
  <2> QED
    BY <1>0, <1>1, <2>1, <2>2 DEF Endpointing, SlotNeeds
<1>5. RealtimeTranscription'
  <2>1. "RealtimeDefaults" \in Components
    BY DEF Components
  <2>2. PICK x \in Deployments : x = config'["RealtimeDefaults"].refs[2]
    BY <1>0, <1>1, <2>1, ChainLooks
  <2>3. PICK item \in Looks : item = Item(x, {"transcription"})
    BY <1>0 DEF Item, Looks, Rows, GraphAssumptions, FeaturesAssumption
  <2>4. InSeq(item, Chain(d))
    BY <1>0, <1>1, <2>1, <2>2, <2>3, ChainLooks
  <2>5. IsUsable(item) /\ item.row = x /\ item.needs = {"transcription"}
    BY <1>0, <2>3, <2>4, Looked DEF Item
  <2>6. row[x].on /\ {"transcription"} \subseteq row[x].features
    BY <2>5 DEF IsUsable
  <2>7. row[row[x].ref].on /\ row[row[row[x].ref].ref].on
    BY <1>2, <2>6
  <2>8. OneConnection(Desired(d))
    BY <1>0, <2>1 DEF Commit, Refuses, SystemOps
  <2>9. OneConnection(config)'
    BY <1>0, <1>1, <2>1, <2>8 DEF OneConnection
  <2>10. DeploymentResolves(config["RealtimeDefaults"].refs[2], {"transcription"})'
    BY <1>0, <2>2, <2>6, <2>7 DEF DeploymentResolves
  <2> QED
    BY <2>9, <2>10 DEF RealtimeTranscription
<1>6. /\ ResolvesFirst("STTDefaults")' /\ ResolvesFirst("LLMDefaults")'
      /\ ResolvesFirst("TTSDefaults")'
      /\ ResolvesFirst("RealtimeDefaults")'
  BY <1>3 DEF Components
<1> QED
  BY <1>4, <1>5, <1>6 DEF Cascade, Realtime, HalfCascade, StandaloneSTT,
                          RealtimeModel

\* What apply validated still holds when it commits.
THEOREM AppliedIsResolvable == GraphSpec => AppliedResolves
<1>1. GraphInv /\ [GraphNext]_graphVars =>
        [\A q \in Requests :
           tx[q].at = "walk" /\ tx'[q].at = "done" /\ tx[q].command.op = "apply"
             => (ProviderVAD' => Cascade') /\ Realtime' /\ HalfCascade']_graphVars
  <2> SUFFICES ASSUME GraphInv, [GraphNext]_graphVars, NEW q \in Requests,
                      tx[q].at = "walk", tx'[q].at = "done", tx[q].command.op = "apply"
               PROVE  (ProviderVAD' => Cascade') /\ Realtime' /\ HalfCascade'
    OBVIOUS
  <2>1. Commit(q)
    <3>0. tx' # tx /\ GraphTypeOK /\ GraphAssumptions
      BY DEF GraphInv
    <3>1. PICK p \in Requests : GraphStep(p) \/ Lose(p) \/ \E c \in GraphCommands : SendCommand(p, c)
      BY <3>0 DEF GraphNext, graphVars
    <3>2. ASSUME NEW how \in Ended, End(p, how), how # "done" PROVE FALSE
      <4>1. tx'[p].at = how /\ (p # q => tx'[q] = tx[q])
        BY <3>0, <3>2, EndOf DEF Undisturbed
      <4> QED
        BY <3>2, <4>1
    <3>3. ASSUME NEW step \in {"uses", "walk"}, NEW todo, NEW bad, At(p, step, todo, bad) PROVE FALSE
      <4>1. tx'[p].at = step /\ (p # q => tx'[q] = tx[q])
        BY <3>0, <3>3 DEF At, GraphTypeOK
      <4> QED
        BY <3>3, <4>1
    <3>4. \A c \in GraphCommands : ~SendCommand(p, c)
      <4> SUFFICES ASSUME NEW c \in GraphCommands, SendCommand(p, c) PROVE FALSE
        OBVIOUS
      <4>1. tx'[p].at = "open" /\ (p # q => tx'[q] = tx[q])
        BY <3>0 DEF SendCommand, GraphTypeOK
      <4> QED
        BY <4>1
    <3>5. "refused" \in Ended /\ "aborted" \in Ended /\ "lost" \in Ended
      BY DEF Ended
    <3>6. ~Open(p) /\ ~LookAtUses(p) /\ ~Walk(p)
      BY <3>2, <3>3, <3>5 DEF Open, LookAtUses, Walk
    <3>7. ~RefuseCommand(p) /\ ~Abort(p) /\ ~Lose(p)
      BY <3>2, <3>5 DEF RefuseCommand, Abort, Lose
    <3>8. Commit(p)
      BY <3>1, <3>4, <3>6, <3>7 DEF GraphStep
    <3>9. p = q
      <4> SUFFICES ASSUME p # q PROVE FALSE
        OBVIOUS
      <4>1. End(p, "done") /\ "done" \in Ended
        BY <3>8 DEF Commit, Ended
      <4>2. Undisturbed(q)
        BY <3>0, <4>1, EndOf
      <4> QED
        BY <4>2 DEF Undisturbed
    <3> QED
      BY <3>8, <3>9
  <2>2. PICK d \in GraphCommands : RowCommit(q, d) \/ SystemCommit(q, d)
    BY <2>1, CommitKinds
  <2>3. d.op = "apply"
    BY <2>2 DEF RowCommit, SystemCommit
  <2>4. ~RowCommit(q, d)
    <3> SUFFICES ASSUME RowCommit(q, d) PROVE FALSE
      OBVIOUS
    <3> QED
      BY <2>3, RowCommitted
  <2> QED
    BY <2>2, <2>3, <2>4, ApplyResolves
<1> QED
  BY <1>1, GraphInvariant, PTL DEF GraphSpec, AppliedResolves

-----------------------------------------------------------------------------
(***************************************************************************)
(* Circles of waits.                                                       *)
(***************************************************************************)
LEMMA WantsRows ==
  ASSUME GraphInv, NEW q \in Requests
  PROVE  Wants(q) \subseteq Rows \union {System}
<1>0. GraphAssumptions /\ tx[q].todo \in Seq(Todo)
  BY DEF GraphInv, GraphTypeOK
<1>1. ASSUME tx[q].todo # << >> PROVE Head(tx[q].todo).row \in Rows \union {System}
  <2>1. Head(tx[q].todo) \in Todo
    BY <1>0, <1>1, HeadTailProperties
  <2> QED
    BY <2>1 DEF Todo
<1>2. ASSUME tx[q].at = "walk" PROVE WrittenRef(tx[q].command) \subseteq Rows
  <2>1. PICK d \in GraphCommands : d = tx[q].command
    BY <1>2 DEF GraphInv, RequestInv
  <2>2. d.op = "update" => d.target # System
    BY <1>0, SystemCommand DEF SystemOps
  <2>3. d.op = "update" => d.to \in Rows \union {None}
    BY <1>0, <2>2, RowCommand
  <2> QED
    BY <2>1, <2>3 DEF WrittenRef
<1> QED
  BY <1>1, <1>2 DEF Wants

\* Who waits holds only rows above the one it waits for.
LEMMA WaitsBelow ==
  ASSUME GraphInv, NEW q \in Requests, ~HoldsNothing(q), Narrow(tx[q].command),
         NEW w \in Wants(q), graphLock[w] # q
  PROVE  HoldsAbove(q, w)
<1>0. GraphAssumptions /\ GraphTypeOK /\ KindsFit /\ tx[q].at \in {"uses", "walk"}
  BY DEF GraphInv, RequestInv
<1>1. tx[q].at = "walk"
  BY <1>0 DEF Wants
<1>2. PICK d \in GraphCommands : d = tx[q].command
  BY <1>1 DEF GraphInv, RequestInv
<1>3. HasLooked(q, d) /\ GoesDown(q, d)
  BY <1>2 DEF GraphInv, RequestInv
<1>4. CASE tx[q].todo # << >>
  <2>1. PICK item \in Looks : tx[q].todo = << item >> /\ HoldsAbove(q, item.row)
    BY <1>1, <1>2, <1>3, <1>4 DEF GoesDown
  <2>2. w = item.row
    BY <1>1, <1>4, <2>1 DEF Wants
  <2> QED
    BY <2>1, <2>2
<1>5. CASE tx[q].todo = << >>
  <2>1. w \in WrittenRef(d)
    BY <1>1, <1>2, <1>5 DEF Wants
  <2>2. d.op = "update" /\ w = d.to /\ w # None
    BY <2>1 DEF WrittenRef
  <2>3. d.target # System
    BY <1>0, <2>2, SystemCommand DEF SystemOps
  <2>4. d.target \in Rows /\ RefFits(d.target, w) /\ w \in Rows
    BY <1>0, <2>2, <2>3, RowCommand
  <2>5. Level(d.target) < Level(w)
    BY <1>0, <2>2, <2>4, RefsGoDown
  <2>6. ~row[d.target].on
    <3> SUFFICES ASSUME row[d.target].on PROVE FALSE
      OBVIOUS
    <3>1. Chain(d) = ItemOf(w)
      BY <1>0, <2>2, <2>3, ChainLooks
    <3>2. PICK item \in Looks : item = Item(w, {}) /\ item.row = w
      <4>1. Item(w, {}) = [row |-> w, needs |-> {}]
        BY DEF Item
      <4>2. w \in Rows /\ {} \in SUBSET Features
        BY <2>4
      <4>3. Item(w, {}) \in Looks
        BY <4>1, <4>2 DEF Looks
      <4> QED
        BY <4>1, <4>3
    <3>3. InSeq(item, Chain(d))
      BY <1>0, <2>2, <2>4, <3>1, <3>2, ItemOfRow
    <3>4. Covered(q, item) /\ ~tx[q].bad
      BY <1>1, <1>3, <2>3, <3>3 DEF HasLooked
    <3>5. ~InSeq(item, tx[q].todo)
      BY <1>5 DEF InSeq
    <3> QED
      BY <3>2, <3>4, <3>5 DEF Covered
  <2>7. Chain(d) = << >>
    BY <2>2, <2>6 DEF Chain, UpdateChain
  <2>8. HoldsOnly(q, d.target)
    BY <1>1, <1>2, <1>3, <1>5, <2>7 DEF GoesDown
  <2> QED
    BY <2>5, <2>8 DEF HoldsOnly, HoldsAbove
<1> QED
  BY <1>4, <1>5

\* Whenever PostgreSQL has to choose a victim, a validation that goes down for
\* more than one deployment is among them.
THEOREM DeadlocksNeedValidation == GraphSpec => []OnlyValidationDeadlocks
<1>1. GraphInv => OnlyValidationDeadlocks
  <2> SUFFICES ASSUME GraphInv, NEW S \in SUBSET Requests, Cycle(S),
                      \A q \in S : Narrow(tx[q].command)
               PROVE  FALSE
    BY DEF OnlyValidationDeadlocks, Narrow
  <2>1. ASSUME NEW q \in S
        PROVE  /\ \E p \in S : \E w \in Rows \union {System} : graphLock[w] = p /\ w \in Wants(q) /\ p # q
               /\ ~HoldsNothing(q)
    <3>1. WaitsFor(q) # {} /\ WaitsFor(q) \subseteq S
      BY DEF Cycle
    <3>2. \A p \in S : WaitsFor(p) = {graphLock[x] : x \in Wants(p)} \ {None, p}
      BY DEF WaitsFor
    <3>3. \A p \in S : Wants(p) \subseteq Rows \union {System}
      BY WantsRows
    <3>4. PICK p \in S : q \in WaitsFor(p)
      BY DEF Cycle
    <3>5. PICK x \in Wants(p) : graphLock[x] = q
      BY <3>2, <3>4
    <3>6. ~HoldsNothing(q)
      BY <3>3, <3>5 DEF HoldsNothing
    <3>7. PICK p2 \in S : p2 \in WaitsFor(q)
      BY <3>1
    <3>8. PICK w \in Wants(q) : graphLock[w] = p2 /\ p2 # q
      BY <3>2, <3>7
    <3> QED
      BY <3>3, <3>6, <3>8
  <2>2. ASSUME NEW q \in S, NEW x \in Rows \union {System}, graphLock[x] = q
        PROVE  \E p \in S : \E w \in Rows \union {System} : graphLock[w] = p /\ Level(x) < Level(w)
    <3>1. PICK p \in S, w \in Rows \union {System} :
            graphLock[w] = p /\ w \in Wants(q) /\ p # q
      BY <2>1
    <3>2. HoldsAbove(q, w)
      BY <2>1, <3>1, WaitsBelow
    <3> QED
      BY <2>2, <3>1, <3>2 DEF HoldsAbove
  <2>3. \A x : Level(x) \in 0 .. 3
    BY DEF Level
  <2>4. PICK q \in S : TRUE
    BY DEF Cycle
  <2>5. PICK p0 \in S, w0 \in Rows \union {System} : graphLock[w0] = p0
    BY <2>1
  <2>6. PICK p1 \in S, w1 \in Rows \union {System} : graphLock[w1] = p1 /\ Level(w0) < Level(w1)
    BY <2>2, <2>5
  <2>7. PICK p2 \in S, w2 \in Rows \union {System} : graphLock[w2] = p2 /\ Level(w1) < Level(w2)
    BY <2>2, <2>6
  <2>8. PICK p3 \in S, w3 \in Rows \union {System} : graphLock[w3] = p3 /\ Level(w2) < Level(w3)
    BY <2>2, <2>7
  <2>9. PICK p4 \in S, w4 \in Rows \union {System} : graphLock[w4] = p4 /\ Level(w3) < Level(w4)
    BY <2>2, <2>8
  <2> QED
    BY <2>3, <2>6, <2>7, <2>8, <2>9
<1> QED
  BY <1>1, GraphInvariant, PTL

=============================================================================

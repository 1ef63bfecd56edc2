---------------------- MODULE TranscriptDeliveryProofs ----------------------
(***************************************************************************)
(* The safety properties of TranscriptDelivery, for every length of the    *)
(* call, size of the queue, number of attempts and number of faults.       *)
(***************************************************************************)
EXTENDS TranscriptDelivery, SequenceTheorems, FiniteSetTheorems, TLAPS

(***************************************************************************)
(* The inductive invariant.  Until a failure is noticed the words of the   *)
(* call lie in three places, one behind the other: the store has the first *)
(* ones, then comes the one the writer is sending, then the queue.  Late   *)
(* copies of an append are of words that are already stored.               *)
(***************************************************************************)

\* Words that have left the queue, until a failure is noticed.
Taken == spoken - Len(queue)

\* The queue holds the last words spoken, in order.
QueueIsTheRest == \A i \in DOMAIN queue : queue[i] = Taken + i

\* The store holds the first ones.
StoreIsTheStart == \A i \in DOMAIN store : store[i] = i

\* What is between the two is the message the writer is sending, if it has not
\* been stored yet.
WriterIsBetween ==
  /\ writer.step = "sending" =>
       /\ writer.message = Taken
       /\ Len(store) = Taken - 1 \/ Len(store) = Taken
       /\ reply = "stored" => Len(store) = Taken
  /\ writer.step # "sending" => Len(store) = Taken

NothingMissing ==
  ~incomplete =>
    /\ Len(queue) <= spoken
    /\ QueueIsTheRest
    /\ StoreIsTheStart
    /\ WriterIsBetween
    /\ \A q \in wire : q.message <= Taken

\* Only words that were spoken are sent.
SentWasSpoken ==
  /\ \A i \in DOMAIN queue : queue[i] <= spoken
  /\ writer.step = "sending" => writer.message \in 1 .. spoken /\ writer.try \in 1 .. MaxTries
  /\ \A q \in wire : q.message <= spoken

\* A session whose items nobody handles any more is closed, or the close failed.
UnheardIsClosed == ~listening /\ session => incomplete

\* The drain follows the close.
DrainFollowsClose ==
  /\ \A r \in Reporters : report[r] \in {"closed", "draining", "done"} => ~listening
  /\ drain # "none" => ~listening
  /\ drain = "done" <=> verdict # "none"

\* A drain that found nothing missing ends the matter: nothing more is said, and
\* every copy still on its way is of a stored message.
VerdictHolds ==
  verdict = "complete" =>
    /\ ~session
    /\ writer.step = "ended" /\ queue = << >>
    /\ Len(store) = spoken /\ StoreIsTheStart

\* What the backend has was reported.
ReportedVerdict ==
  /\ conversation = "complete" => verdict = "complete"
  /\ told \subseteq {verdict}

Inv ==
  /\ TypeOK
  /\ NothingMissing
  /\ SentWasSpoken
  /\ UnheardIsClosed
  /\ DrainFollowsClose
  /\ VerdictHolds
  /\ ReportedVerdict

-----------------------------------------------------------------------------
\* Sequences: a message more at the end, one less at the front.
LEMMA AppendedMessage ==
  ASSUME NEW s \in Seq(Messages), NEW m \in Messages
  PROVE  /\ Append(s, m) \in Seq(Messages)
         /\ Len(Append(s, m)) = Len(s) + 1
         /\ DOMAIN Append(s, m) = 1 .. Len(s) + 1
         /\ DOMAIN s = 1 .. Len(s) /\ Len(s) \in Nat
         /\ \A i \in 1 .. Len(s) : Append(s, m)[i] = s[i]
         /\ Append(s, m)[Len(s) + 1] = m
BY SMT

LEMMA TakenMessage ==
  ASSUME NEW s \in Seq(Messages), s # << >>
  PROVE  /\ Tail(s) \in Seq(Messages)
         /\ Len(Tail(s)) = Len(s) - 1
         /\ Len(s) \in Nat \ {0}
         /\ DOMAIN s = 1 .. Len(s) /\ DOMAIN Tail(s) = 1 .. Len(s) - 1
         /\ \A i \in 1 .. Len(s) - 1 : Tail(s)[i] = s[i + 1]
         /\ Head(s) = s[1] /\ Head(s) \in Messages
BY HeadTailProperties, EmptySeq, LenProperties, SMT

LEMMA InitInv == Init => Inv
<1> SUFFICES ASSUME Init PROVE Inv
  OBVIOUS
<1> USE SizesAssumption, FaultsAssumption
<1>a. /\ spoken = 0 /\ queue = << >> /\ store = << >> /\ wire = {} /\ reply = "none"
      /\ drain = "none" /\ verdict = "none" /\ told = {} /\ conversation = "open"
      /\ faults = 0 /\ writer = Idle
  BY DEF Init
<1>b. /\ session \in BOOLEAN /\ listening \in BOOLEAN /\ listening
      /\ accepting \in BOOLEAN /\ incomplete \in BOOLEAN
  BY DEF Init
<1>c. report = [r \in Reporters |-> "none"]
  BY DEF Init
<1>d. /\ Len(queue) = 0 /\ Len(store) = 0 /\ DOMAIN queue = {} /\ DOMAIN store = {}
      /\ queue \in Seq(Messages) /\ store \in Seq(Messages)
  BY <1>a, EmptySeq
<1>e. /\ writer \in [step : {"idle", "sending", "ended"},
                     message : Messages \union {NoMessage}, try : 0 .. MaxTries]
      /\ writer.step = "idle"
  BY <1>a DEF Idle, NoMessage
<1>1. TypeOK
  BY <1>a, <1>b, <1>c, <1>d, <1>e DEF TypeOK
<1>2. NothingMissing
  <2> HIDE SizesAssumption, FaultsAssumption
  <2>a. spoken = 0 /\ Len(queue) = 0
    BY <1>a, <1>d
  <2>1. Taken = 0
    BY <2>a DEF Taken
  <2>2. WriterIsBetween
    BY <1>d, <1>e, <2>1 DEF WriterIsBetween
  <2>3. QueueIsTheRest /\ StoreIsTheStart
    BY <1>d DEF QueueIsTheRest, StoreIsTheStart
  <2> QED
    BY <1>a, <1>d, <2>2, <2>3 DEF NothingMissing
<1>3. SentWasSpoken
  BY <1>a, <1>d, <1>e DEF SentWasSpoken
<1>5. UnheardIsClosed
  BY <1>b DEF UnheardIsClosed
<1>4. DrainFollowsClose /\ VerdictHolds /\ ReportedVerdict
  BY <1>a, <1>b, <1>c DEF DrainFollowsClose, VerdictHolds, ReportedVerdict
<1> QED
  BY <1>1, <1>2, <1>3, <1>4, <1>5 DEF Inv

-----------------------------------------------------------------------------
\* Every step keeps the variables in their types.
LEMMA TypeNext == Inv /\ [Next]_vars => TypeOK'
<1> SUFFICES ASSUME TypeOK, SentWasSpoken, DrainFollowsClose, [Next]_vars PROVE TypeOK'
  BY DEF Inv
<1> USE SizesAssumption, FaultsAssumption
<1>1. CASE Speak
  <2>1. spoken' \in Messages /\ spoken' \in 0 .. MaxSpoken
    BY <1>1 DEF Speak, TypeOK, Messages
  <2>2. /\ Append(queue, spoken') \in Seq(Messages)
        /\ Len(Append(queue, spoken')) = Len(queue) + 1 /\ Len(queue) \in Nat
    BY <2>1, AppendedMessage DEF TypeOK
  <2>3. CASE listening /\ accepting /\ HasRoom
    <3>1. queue' = Append(queue, spoken') /\ incomplete' = incomplete
      BY <1>1, <2>3 DEF Speak, Enqueue
    <3> QED
      BY <3>1, <1>1, <2>1, <2>2, <2>3 DEF Speak, HasRoom, TypeOK, drainVars, backendVars
  <2>4. CASE ~(listening /\ accepting /\ HasRoom)
    <3>1. queue' = queue /\ (incomplete' = incomplete \/ incomplete' = TRUE)
      BY <1>1, <2>4 DEF Speak, Enqueue
    <3> QED
      BY <3>1, <1>1, <2>1 DEF Speak, TypeOK, drainVars, backendVars
  <2> QED
    BY <2>3, <2>4
<1>2. CASE TakeMessage
  <2>1. /\ Head(queue) \in Messages /\ Tail(queue) \in Seq(Messages)
        /\ Len(Tail(queue)) <= QueueSize
    BY <1>2, TakenMessage DEF TakeMessage, TypeOK
  <2>2. 1 \in 1 .. MaxTries
    OBVIOUS
  <2> QED
    BY <1>2, <2>1, <2>2
       DEF TakeMessage, Sending, TypeOK, agentVars, drainVars, backendVars
<1>3. CASE HandleReply
  BY <1>3 DEF HandleReply, Idle, TypeOK, NoMessage, drainVars, backendVars
<1>4. CASE AppendFails
  <2>1. /\ writer.message \in Messages /\ writer.try \in 1 .. MaxTries
        /\ writer.try < MaxTries => writer.try + 1 \in 1 .. MaxTries
    BY <1>4 DEF AppendFails, SentWasSpoken, TypeOK, Messages
  <2>2. faults' \in 0 .. MaxFaults
    BY <1>4 DEF AppendFails, Fault, TypeOK
  <2>3. wire' \subseteq [message : Messages, try : 1 .. MaxTries]
    BY <1>4, <2>1 DEF AppendFails, TypeOK
  <2>4. /\ writer' \in [step : {"idle", "sending", "ended"},
                        message : Messages \union {NoMessage}, try : 0 .. MaxTries]
        /\ reply' = "none"
    BY <1>4, <2>1 DEF AppendFails, Sending, Idle, NoMessage
  <2>5. incomplete' \in BOOLEAN
    BY <1>4 DEF AppendFails, GiveUp, TypeOK
  <2> QED
    BY <1>4, <2>2, <2>3, <2>4, <2>5 DEF AppendFails, TypeOK, drainVars, backendVars
<1>5. ASSUME NEW r \in Reporters, StartReport(r) \/ FinishConversation(r)
      PROVE  TypeOK'
  BY <1>5 DEF StartReport, FinishConversation, TypeOK, agentVars, writerVars, backendVars
<1>6. ASSUME NEW r \in Reporters, CloseSession(r) PROVE TypeOK'
  <2>1. faults' \in 0 .. MaxFaults
    BY <1>6 DEF CloseSession, Fault, TypeOK
  <2>2. incomplete' \in BOOLEAN /\ session' \in BOOLEAN /\ listening' \in BOOLEAN
    BY <1>6, Zenon DEF CloseSession, MarksFailedClose, TypeOK
  <2> QED
    BY <1>6, <2>1, <2>2 DEF CloseSession, TypeOK, writerVars, backendVars
<1>7. ASSUME NEW r \in Reporters, Report(r) PROVE TypeOK'
  <2>1. conversation' \in {"open"} \union Statuses /\ faults' \in 0 .. MaxFaults
    BY <1>7 DEF Report, Fault, TypeOK, DrainFollowsClose
  <2>2. told' \subseteq Statuses
    BY <1>7 DEF Report, TypeOK, DrainFollowsClose
  <2> QED
    BY <1>7, <2>1, <2>2 DEF Report, TypeOK, agentVars, writerVars
<1>8. CASE Joined \/ DrainTimesOut
  <2>1. incomplete' \in BOOLEAN
    BY <1>8 DEF Joined, DrainTimesOut, TypeOK, agentVars
  <2>2. writer' \in [step : {"idle", "sending", "ended"},
                     message : Messages \union {NoMessage}, try : 0 .. MaxTries]
    BY <1>8 DEF Joined, DrainTimesOut, Ended
  <2>3. verdict' \in Statuses
    BY <1>8 DEF Joined, DrainTimesOut, Verdict, Statuses
  <2> QED
    BY <1>8, <2>1, <2>2, <2>3 DEF Joined, DrainTimesOut, TypeOK, agentVars, backendVars
<1>9. ASSUME NEW q \in [message : Messages, try : 1 .. MaxTries], ServeAppend(q)
      PROVE  TypeOK'
  <2>1. store' \in Seq(Messages)
    BY <1>9, AppendedMessage DEF ServeAppend, TypeOK
  <2> QED
    BY <1>9, <2>1 DEF ServeAppend, TypeOK, agentVars, drainVars
<1>10. CASE BackendCloses
  BY <1>10 DEF BackendCloses, TypeOK, Statuses, agentVars, writerVars, drainVars
<1>11. CASE UNCHANGED vars
  BY <1>11 DEF vars, agentVars, writerVars, drainVars, backendVars, TypeOK
<1> QED
  BY <1>1, <1>2, <1>3, <1>4, <1>5, <1>6, <1>7, <1>8, <1>9, <1>10, <1>11 DEF Next

-----------------------------------------------------------------------------
(***************************************************************************)
(* NothingMissing.  It says something only while incomplete is FALSE, so   *)
(* only the steps that leave it FALSE matter, and there the words move one *)
(* place: into the queue, to the writer, into the store.                   *)
(***************************************************************************)

\* incomplete is never taken back.
LEMMA IncompleteStays == TypeOK /\ [Next]_vars => (incomplete => incomplete')
BY DEF Next, vars, agentVars, TypeOK, Speak, Enqueue, TakeMessage, HandleReply, AppendFails,
       GiveUp, StartReport, CloseSession, FinishConversation, Report, Joined, DrainTimesOut,
       ServeAppend, BackendCloses

LEMMA SpeakMissing ==
  ASSUME TypeOK, NothingMissing, SentWasSpoken, UnheardIsClosed, Speak
  PROVE  NothingMissing'
<1> SUFFICES ASSUME ~incomplete' PROVE NothingMissing'
  BY DEF NothingMissing
<1>1. ~incomplete
  BY DEF Speak, Enqueue
<1>2. listening
  BY <1>1 DEF Speak, UnheardIsClosed
<1>3. queue' = Append(queue, spoken') /\ spoken' = spoken + 1
  BY <1>2 DEF Speak, Enqueue
<1>4. spoken \in Nat /\ spoken' \in Messages /\ queue \in Seq(Messages) /\ Len(queue) \in Nat
  BY <1>3, SizesAssumption DEF Speak, TypeOK, Messages
<1>5. /\ Len(queue') = Len(queue) + 1 /\ DOMAIN queue' = 1 .. Len(queue) + 1
      /\ DOMAIN queue = 1 .. Len(queue)
      /\ \A i \in 1 .. Len(queue) : queue'[i] = queue[i]
      /\ queue'[Len(queue) + 1] = spoken'
  BY <1>3, <1>4, AppendedMessage
<1>6. Taken' = Taken /\ Taken \in Int
  BY <1>3, <1>4, <1>5 DEF Taken
<1>7. QueueIsTheRest'
  BY <1>1, <1>3, <1>4, <1>5, <1>6 DEF NothingMissing, QueueIsTheRest, Taken
<1>8. UNCHANGED << writer, reply, wire, store >>
  BY DEF Speak, backendVars
<1> QED
  BY <1>1, <1>3, <1>4, <1>5, <1>6, <1>7, <1>8
     DEF NothingMissing, StoreIsTheStart, WriterIsBetween

LEMMA TakeMissing ==
  ASSUME TypeOK, NothingMissing, TakeMessage
  PROVE  NothingMissing'
<1> SUFFICES ASSUME ~incomplete PROVE NothingMissing'
  BY DEF NothingMissing, TakeMessage, agentVars
<1>1. /\ queue' = Tail(queue) /\ Len(queue') = Len(queue) - 1 /\ Len(queue) \in Nat \ {0}
      /\ DOMAIN queue = 1 .. Len(queue) /\ DOMAIN queue' = 1 .. Len(queue) - 1
      /\ \A i \in 1 .. Len(queue) - 1 : queue'[i] = queue[i + 1]
      /\ Head(queue) = queue[1]
  BY TakenMessage DEF TakeMessage, TypeOK
<1>2. spoken' = spoken /\ spoken \in Nat /\ incomplete' = incomplete
  BY DEF TakeMessage, agentVars, TypeOK
<1>3. Taken' = Taken + 1 /\ Taken \in Int
  BY <1>1, <1>2 DEF Taken
<1>4. Head(queue) = Taken'
  BY <1>1, <1>3 DEF NothingMissing, QueueIsTheRest
<1>5. QueueIsTheRest'
  BY <1>1, <1>3 DEF NothingMissing, QueueIsTheRest
<1>6. store' = store /\ reply' = "none" /\ Len(store) = Taken /\ StoreIsTheStart
  BY DEF TakeMessage, Sending, backendVars, NothingMissing, WriterIsBetween
<1>7. writer'.step = "sending" /\ writer'.message = Head(queue)
  BY DEF TakeMessage, Sending
<1>8. WriterIsBetween'
  BY <1>3, <1>4, <1>6, <1>7 DEF WriterIsBetween
<1>9. \A q \in wire' : q.message <= Taken'
  <2>1. wire' = wire \union {[message |-> Head(queue), try |-> 1]}
    BY DEF TakeMessage
  <2>2. \A q \in wire : q.message <= Taken /\ q.message \in Int
    BY DEF NothingMissing, TypeOK, Messages
  <2> QED
    BY <1>3, <1>4, <2>1, <2>2
<1> QED
  BY <1>1, <1>2, <1>5, <1>6, <1>8, <1>9 DEF NothingMissing, StoreIsTheStart

LEMMA ReplyMissing ==
  ASSUME TypeOK, NothingMissing, HandleReply
  PROVE  NothingMissing'
<1> SUFFICES ASSUME ~incomplete' PROVE NothingMissing'
  BY DEF NothingMissing
<1>1. ~incomplete /\ reply = "stored"
  BY DEF HandleReply, TypeOK
<1>2. UNCHANGED << spoken, queue, wire, store >> /\ Taken' = Taken
  BY DEF HandleReply, backendVars, Taken
<1>3. Len(store) = Taken
  BY <1>1 DEF NothingMissing, WriterIsBetween, HandleReply
<1>4. writer'.step # "sending"
  BY DEF HandleReply, Idle
<1> QED
  BY <1>1, <1>2, <1>3, <1>4
     DEF NothingMissing, QueueIsTheRest, StoreIsTheStart, WriterIsBetween

LEMMA FailMissing ==
  ASSUME TypeOK, NothingMissing, AppendFails
  PROVE  NothingMissing'
<1> SUFFICES ASSUME ~incomplete' PROVE NothingMissing'
  BY DEF NothingMissing
<1>1. ~incomplete /\ writer.try < MaxTries
  BY DEF AppendFails, GiveUp
<1>2. UNCHANGED << spoken, queue, store >> /\ Taken' = Taken /\ writer.step = "sending"
  BY DEF AppendFails, backendVars, Taken
<1>3. writer'.step = "sending" /\ writer'.message = writer.message /\ reply' = "none"
  BY <1>1 DEF AppendFails, Sending
<1>4. \A q \in wire' : q \in wire \/ q.message = writer.message
  BY <1>1 DEF AppendFails
<1>5. writer.message = Taken /\ Taken \in Int
  BY <1>1, <1>2, LenProperties DEF NothingMissing, WriterIsBetween, Taken, TypeOK
<1> QED
  BY <1>1, <1>2, <1>3, <1>4, <1>5
     DEF NothingMissing, QueueIsTheRest, StoreIsTheStart, WriterIsBetween

LEMMA ServeMissing ==
  ASSUME TypeOK, NothingMissing, SentWasSpoken, VerdictHolds,
         NEW q \in [message : Messages, try : 1 .. MaxTries], ServeAppend(q)
  PROVE  NothingMissing' /\ VerdictHolds'
<1>1. /\ UNCHANGED << spoken, session, incomplete, queue, writer, verdict >>
      /\ Taken' = Taken /\ q \in wire /\ wire' \subseteq wire
  BY DEF ServeAppend, agentVars, drainVars, Taken
<1>2. /\ store \in Seq(Messages) /\ Len(store) \in Nat /\ DOMAIN store = 1 .. Len(store)
      /\ spoken \in Nat /\ Len(queue) \in Nat /\ Taken \in Int
      /\ q.message \in Nat \ {0}
  BY LenProperties DEF TypeOK, Taken, Messages
<1>n. Len(store) \in Nat /\ spoken \in Nat /\ Taken \in Int /\ q.message \in Nat \ {0}
  BY <1>2
<1>3. CASE store' = store
  <2>1. ~incomplete => (reply' = "stored" /\ writer.step = "sending" => Len(store) = Taken)
    <3> SUFFICES ASSUME ~incomplete, reply' = "stored", writer.step = "sending"
                 PROVE  Len(store) = Taken
      OBVIOUS
    <3>1. CASE reply = "stored"
      BY <3>1 DEF NothingMissing, WriterIsBetween
    <3>2. CASE reply # "stored"
      <4>1. conversation = "open" /\ q.message = writer.message
        BY <3>2 DEF ServeAppend
      <4>2. ~IsNew(q.message)
        <5>1. Len(Append(store, q.message)) = Len(store) + 1
          BY <1>2, AppendedMessage
        <5>2. IsNew(q.message) => store' = Append(store, q.message)
          BY <4>1, Zenon DEF ServeAppend
        <5>3. Len(store) # Len(store) + 1
          BY <1>n
        <5> QED
          BY <1>3, <5>1, <5>2, <5>3, Zenon
      <4>3. PICK i \in 1 .. Len(store) : store[i] = q.message
        BY <1>2, <4>2 DEF IsNew
      <4>4. q.message <= Len(store)
        BY <1>2, <4>3 DEF NothingMissing, StoreIsTheStart
      <4> QED
        BY <1>n, <4>1, <4>4 DEF NothingMissing, WriterIsBetween
    <3> QED
      BY <3>1, <3>2
  <2>2. NothingMissing'
    BY <1>1, <1>3, <2>1
       DEF NothingMissing, QueueIsTheRest, StoreIsTheStart, WriterIsBetween
  <2> QED
    BY <1>1, <1>3, <2>2 DEF VerdictHolds, StoreIsTheStart
<1>4. CASE store' # store
  <2>1. IsNew(q.message) /\ store' = Append(store, q.message)
    BY <1>4 DEF ServeAppend
  <2>2. /\ Len(store') = Len(store) + 1 /\ DOMAIN store' = 1 .. Len(store) + 1
        /\ \A i \in 1 .. Len(store) : store'[i] = store[i]
        /\ store'[Len(store) + 1] = q.message
    BY <1>2, <2>1, AppendedMessage
  <2>3. StoreIsTheStart => ~(q.message <= Len(store))
    BY <1>2, <2>1 DEF StoreIsTheStart, IsNew
  <2>4. verdict # "complete"
    <3>1. q.message <= spoken
      BY <1>1 DEF SentWasSpoken
    <3> QED
      BY <1>n, <2>3, <3>1 DEF VerdictHolds
  <2>5. NothingMissing'
    <3> SUFFICES ASSUME ~incomplete PROVE NothingMissing'
      BY <1>1 DEF NothingMissing
    <3>1. q.message <= Taken /\ StoreIsTheStart /\ WriterIsBetween
      BY <1>1 DEF NothingMissing
    <3>2. writer.step = "sending" /\ Len(store) = Taken - 1 /\ q.message = Taken
      <4>1. q.message > Len(store)
        BY <1>n, <2>3, <3>1
      <4> QED
        BY <1>n, <3>1, <4>1 DEF WriterIsBetween
    <3>3. StoreIsTheStart'
      BY <1>2, <2>2, <3>1, <3>2 DEF StoreIsTheStart
    <3>4. WriterIsBetween'
      BY <1>1, <1>2, <2>2, <3>1, <3>2 DEF WriterIsBetween
    <3> QED
      BY <1>1, <3>3, <3>4 DEF NothingMissing, QueueIsTheRest
  <2> QED
    BY <1>1, <2>4, <2>5 DEF VerdictHolds
<1> QED
  BY <1>3, <1>4

\* The steps of the session's end touch none of what NothingMissing speaks of,
\* except that they may notice a failure.
LEMMA EndMissing ==
  ASSUME TypeOK, NothingMissing,
         \/ \E r \in Reporters :
              StartReport(r) \/ CloseSession(r) \/ FinishConversation(r) \/ Report(r)
         \/ DrainTimesOut \/ BackendCloses \/ UNCHANGED vars
  PROVE  NothingMissing'
<1> SUFFICES ASSUME ~incomplete' PROVE NothingMissing'
  BY DEF NothingMissing
<1>1. /\ UNCHANGED << spoken, queue, writer, reply, wire, store >>
      /\ ~incomplete
  BY DEF StartReport, CloseSession, FinishConversation, Report, DrainTimesOut, BackendCloses,
         MarksFailedClose, vars, agentVars, writerVars, backendVars, TypeOK
<1> QED
  BY <1>1 DEF NothingMissing, QueueIsTheRest, StoreIsTheStart, WriterIsBetween, Taken

LEMMA JoinedMissing ==
  ASSUME TypeOK, NothingMissing, Joined
  PROVE  NothingMissing'
<1>1. UNCHANGED << spoken, incomplete, queue, wire, store >> /\ Taken' = Taken
  BY DEF Joined, agentVars, backendVars, Taken
<1>2. writer.step # "sending" /\ writer'.step # "sending"
  BY DEF Joined, Drained, Ended
<1> QED
  BY <1>1, <1>2 DEF NothingMissing, QueueIsTheRest, StoreIsTheStart, WriterIsBetween

LEMMA MissingNext == Inv /\ [Next]_vars => NothingMissing'
BY SpeakMissing, TakeMissing, ReplyMissing, FailMissing, ServeMissing, EndMissing, JoinedMissing
   DEF Inv, Next

-----------------------------------------------------------------------------
\* What the writer sends, and every copy of it, was in the queue.
LEMMA SpokenNext == Inv /\ [Next]_vars => SentWasSpoken'
<1> SUFFICES ASSUME TypeOK, SentWasSpoken, [Next]_vars PROVE SentWasSpoken'
  BY DEF Inv
<1>1. CASE Speak
  <2>1. spoken' = spoken + 1 /\ spoken \in Nat /\ spoken' \in Messages
    BY <1>1, SizesAssumption DEF Speak, TypeOK, Messages
  <2>2. \A i \in DOMAIN queue' : queue'[i] <= spoken'
    <3>1. queue \in Seq(Messages) /\ \A i \in DOMAIN queue : queue[i] <= spoken
      BY DEF TypeOK, SentWasSpoken
    <3>2. \A i \in DOMAIN queue : queue[i] <= spoken'
      <4>1. \A i \in DOMAIN queue : queue[i] \in Messages
        BY <3>1, ElementOfSeq, LenProperties
      <4> QED
        BY <2>1, <3>1, <4>1 DEF Messages
    <3>3. CASE queue' = queue
      BY <3>2, <3>3
    <3>4. CASE queue' = Append(queue, spoken')
      <4>1. /\ DOMAIN queue' = 1 .. Len(queue) + 1 /\ Len(queue) \in Nat
            /\ DOMAIN queue = 1 .. Len(queue)
            /\ \A i \in 1 .. Len(queue) : queue'[i] = queue[i]
            /\ queue'[Len(queue) + 1] = spoken'
        BY <2>1, <3>1, <3>4, AppendedMessage
      <4> QED
        BY <2>1, <3>2, <4>1
    <3> QED
      BY <1>1, <3>3, <3>4 DEF Speak, Enqueue
  <2>3. writer' = writer /\ wire' = wire
    BY <1>1 DEF Speak
  <2>4. \A q \in wire : q.message \in Int
    BY DEF TypeOK, Messages
  <2> QED
    BY <2>1, <2>2, <2>3, <2>4 DEF SentWasSpoken
<1>2. CASE TakeMessage
  <2>1. /\ queue' = Tail(queue) /\ Len(queue) \in Nat \ {0}
        /\ DOMAIN queue = 1 .. Len(queue) /\ DOMAIN queue' = 1 .. Len(queue) - 1
        /\ \A i \in 1 .. Len(queue) - 1 : queue'[i] = queue[i + 1]
        /\ Head(queue) = queue[1] /\ Head(queue) \in Messages
    BY <1>2, TakenMessage DEF TakeMessage, TypeOK
  <2>2. spoken' = spoken /\ spoken \in Nat
    BY <1>2 DEF TakeMessage, agentVars, TypeOK
  <2>3. \A i \in DOMAIN queue' : queue'[i] <= spoken
    BY <2>1 DEF SentWasSpoken
  <2>4. Head(queue) \in 1 .. spoken
    BY <2>1, <2>2 DEF SentWasSpoken, Messages
  <2>5. /\ writer'.message = Head(queue) /\ writer'.try = 1
        /\ wire' = wire \union {[message |-> Head(queue), try |-> 1]}
    BY <1>2 DEF TakeMessage, Sending
  <2> QED
    BY <2>2, <2>3, <2>4, <2>5, SizesAssumption DEF SentWasSpoken
<1>3. CASE HandleReply
  <2>1. writer'.step # "sending" /\ UNCHANGED << spoken, queue, wire >>
    BY <1>3 DEF HandleReply, Idle
  <2> QED
    BY <2>1 DEF SentWasSpoken
<1>4. CASE AppendFails
  <2>1. writer.message \in 1 .. spoken /\ writer.try \in 1 .. MaxTries
    BY <1>4 DEF AppendFails, SentWasSpoken
  <2>2. UNCHANGED << spoken, queue >>
    BY <1>4 DEF AppendFails
  <2>3. CASE writer.try < MaxTries
    <3>1. /\ writer'.message = writer.message /\ writer'.try = writer.try + 1
          /\ \A q \in wire' : q \in wire \/ q.message = writer.message
      BY <1>4, <2>3 DEF AppendFails, Sending
    <3>2. writer.try + 1 \in 1 .. MaxTries
      BY <2>1, <2>3, SizesAssumption
    <3>3. writer.message <= spoken
      BY <2>1
    <3> QED
      BY <2>1, <2>2, <3>1, <3>2, <3>3 DEF SentWasSpoken
  <2>4. CASE ~(writer.try < MaxTries)
    <3>1. writer'.step # "sending" /\ wire' \subseteq wire
      BY <1>4, <2>4 DEF AppendFails, Idle
    <3> QED
      BY <2>2, <3>1 DEF SentWasSpoken
  <2> QED
    BY <2>3, <2>4
<1>5. CASE Joined \/ DrainTimesOut
  <2>1. writer'.step # "sending" /\ UNCHANGED << spoken, queue, wire >>
    BY <1>5 DEF Joined, DrainTimesOut, Ended, agentVars
  <2> QED
    BY <2>1 DEF SentWasSpoken
<1>6. ASSUME NEW q \in [message : Messages, try : 1 .. MaxTries], ServeAppend(q)
      PROVE  SentWasSpoken'
  <2>1. UNCHANGED << spoken, queue, writer >> /\ wire' \subseteq wire
    BY <1>6 DEF ServeAppend, agentVars
  <2> QED
    BY <2>1 DEF SentWasSpoken
<1>7. CASE \/ \E r \in Reporters :
                StartReport(r) \/ CloseSession(r) \/ FinishConversation(r) \/ Report(r)
           \/ BackendCloses \/ UNCHANGED vars
  <2>1. UNCHANGED << spoken, queue, writer, wire >>
    BY <1>7 DEF StartReport, CloseSession, FinishConversation, Report, BackendCloses,
                vars, agentVars, writerVars
  <2> QED
    BY <2>1 DEF SentWasSpoken
<1> QED
  BY <1>1, <1>2, <1>3, <1>4, <1>5, <1>6, <1>7 DEF Next

-----------------------------------------------------------------------------
\* Closing the session comes before the drain.
LEMMA CloseNext == Inv /\ [Next]_vars => UnheardIsClosed' /\ DrainFollowsClose'
<1> SUFFICES ASSUME TypeOK, UnheardIsClosed, DrainFollowsClose, [Next]_vars
             PROVE  UnheardIsClosed' /\ DrainFollowsClose'
  BY DEF Inv
<1>1. incomplete => incomplete'
  BY IncompleteStays
<1>2. ASSUME NEW r \in Reporters, CloseSession(r)
      PROVE  UnheardIsClosed' /\ DrainFollowsClose'
  <2>1. UnheardIsClosed'
    BY <1>2, Zenon DEF CloseSession, MarksFailedClose, UnheardIsClosed, TypeOK
  <2>2. ~listening' /\ UNCHANGED << drain, verdict >>
    BY <1>2 DEF CloseSession
  <2> QED
    BY <2>1, <2>2 DEF DrainFollowsClose
<1>3. ASSUME NEW r \in Reporters, StartReport(r) \/ FinishConversation(r) \/ Report(r)
      PROVE  UnheardIsClosed' /\ DrainFollowsClose'
  <2>1. UNCHANGED << session, listening, incomplete, verdict >>
    BY <1>3 DEF StartReport, FinishConversation, Report, agentVars
  <2>2. \A x \in Reporters : report'[x] \in {"closed", "draining", "done"} => ~listening
    BY <1>3 DEF StartReport, FinishConversation, Report, DrainFollowsClose, TypeOK
  <2>3. drain' = drain \/ (drain = "none" /\ drain' = "joining" /\ ~listening)
    BY <1>3 DEF StartReport, FinishConversation, Report, StartsDrain, DrainFollowsClose
  <2> QED
    BY <2>1, <2>2, <2>3 DEF UnheardIsClosed, DrainFollowsClose
<1>4. CASE Joined \/ DrainTimesOut
  <2>1. UNCHANGED << session, listening, report >> /\ drain = "joining" /\ drain' = "done"
    BY <1>4 DEF Joined, DrainTimesOut, MayGiveUpDrain, agentVars
  <2>2. verdict' # "none"
    BY <1>4 DEF Joined, DrainTimesOut, Verdict
  <2> QED
    BY <1>1, <2>1, <2>2 DEF UnheardIsClosed, DrainFollowsClose
<1>5. CASE \/ Speak \/ TakeMessage \/ HandleReply \/ AppendFails \/ BackendCloses
           \/ \E q \in [message : Messages, try : 1 .. MaxTries] : ServeAppend(q)
           \/ UNCHANGED vars
  <2>1. UNCHANGED << session, listening, report, drain, verdict >>
    BY <1>5 DEF Speak, TakeMessage, HandleReply, AppendFails, BackendCloses, ServeAppend,
                vars, agentVars, drainVars
  <2> QED
    BY <1>1, <2>1 DEF UnheardIsClosed, DrainFollowsClose
<1> QED
  BY <1>2, <1>3, <1>4, <1>5 DEF Next

-----------------------------------------------------------------------------
\* A drain that succeeds finds every word stored, and nothing moves afterwards.
LEMMA VerdictNext == Inv /\ [Next]_vars => VerdictHolds'
<1> SUFFICES ASSUME Inv, [Next]_vars PROVE VerdictHolds'
  OBVIOUS
<1>1. CASE Joined
  <2> SUFFICES ASSUME verdict' = "complete" PROVE VerdictHolds'
    BY DEF VerdictHolds
  <2>1. ~incomplete
    BY <1>1 DEF Joined, Verdict
  <2>2. ~listening
    BY <1>1 DEF Joined, Inv, DrainFollowsClose
  <2>3. ~session'
    BY <1>1, <2>1, <2>2 DEF Joined, Inv, UnheardIsClosed, agentVars
  <2>4. queue = << >> /\ writer.step # "sending"
    BY <1>1 DEF Joined, Drained
  <2>5. Len(store) = Taken /\ StoreIsTheStart
    BY <2>1, <2>4 DEF Inv, NothingMissing, WriterIsBetween
  <2>6. spoken \in Nat /\ Len(queue) = 0
    BY <2>4 DEF Inv, TypeOK
  <2>7. Len(store) = spoken
    BY <2>5, <2>6 DEF Taken
  <2>8. writer'.step = "ended" /\ UNCHANGED << spoken, queue, store >>
    BY <1>1 DEF Joined, Ended, agentVars, backendVars
  <2> QED
    BY <2>3, <2>4, <2>5, <2>7, <2>8 DEF VerdictHolds, StoreIsTheStart
<1>2. CASE DrainTimesOut
  BY <1>2 DEF DrainTimesOut, VerdictHolds
<1>3. CASE Speak \/ TakeMessage \/ HandleReply \/ AppendFails
  <2>1. verdict # "complete" /\ verdict' = verdict
    BY <1>3 DEF Speak, TakeMessage, HandleReply, AppendFails, Inv, VerdictHolds, drainVars
  <2> QED
    BY <2>1 DEF VerdictHolds
<1>4. ASSUME NEW q \in [message : Messages, try : 1 .. MaxTries], ServeAppend(q)
      PROVE  VerdictHolds'
  BY <1>4, ServeMissing DEF Inv
<1>5. CASE \/ \E r \in Reporters :
                StartReport(r) \/ CloseSession(r) \/ FinishConversation(r) \/ Report(r)
           \/ BackendCloses \/ UNCHANGED vars
  <2>1. /\ UNCHANGED << spoken, queue, writer, verdict, store >>
        /\ session' = session \/ session' = FALSE
    BY <1>5 DEF StartReport, CloseSession, FinishConversation, Report, BackendCloses,
                vars, agentVars, writerVars, drainVars, backendVars
  <2> QED
    BY <2>1 DEF Inv, VerdictHolds, StoreIsTheStart
<1> QED
  BY <1>1, <1>2, <1>3, <1>4, <1>5 DEF Next

\* The backend closes the conversation as complete only on the drain's word.
LEMMA ReportedNext == Inv /\ [Next]_vars => ReportedVerdict'
<1> SUFFICES ASSUME TypeOK, DrainFollowsClose, ReportedVerdict, [Next]_vars
             PROVE  ReportedVerdict'
  BY DEF Inv
<1>1. ASSUME NEW r \in Reporters, Report(r) PROVE ReportedVerdict'
  BY <1>1 DEF Report, ReportedVerdict
<1>2. CASE Joined \/ DrainTimesOut
  <2>1. verdict = "none"
    BY <1>2 DEF Joined, DrainTimesOut, MayGiveUpDrain, DrainFollowsClose
  <2>2. told = {} /\ conversation # "complete"
    BY <2>1 DEF ReportedVerdict, TypeOK, Statuses
  <2> QED
    BY <1>2, <2>2 DEF Joined, DrainTimesOut, ReportedVerdict, backendVars
<1>3. CASE \/ Speak \/ TakeMessage \/ HandleReply \/ AppendFails \/ BackendCloses
           \/ \E q \in [message : Messages, try : 1 .. MaxTries] : ServeAppend(q)
           \/ \E r \in Reporters : StartReport(r) \/ CloseSession(r) \/ FinishConversation(r)
           \/ UNCHANGED vars
  <2>1. /\ UNCHANGED << verdict, told >>
        /\ conversation' = conversation \/ conversation' = "incomplete"
    BY <1>3 DEF Speak, TakeMessage, HandleReply, AppendFails, BackendCloses, ServeAppend,
                StartReport, CloseSession, FinishConversation, vars, drainVars, backendVars
  <2> QED
    BY <2>1 DEF ReportedVerdict
<1> QED
  BY <1>1, <1>2, <1>3 DEF Next

-----------------------------------------------------------------------------
\* The parts of the invariant hold in every reachable state.
THEOREM InvHolds == Spec => []Inv
<1>1. Inv /\ [Next]_vars => Inv'
  BY TypeNext, MissingNext, SpokenNext, CloseNext, VerdictNext, ReportedNext DEF Inv
<1> QED
  BY InitInv, <1>1, PTL DEF Spec

\* Every variable keeps its type: the queue never holds more than QUEUE_MAXSIZE
\* messages, no append is tried more than MaxTries times.
THEOREM TypeCorrect == Spec => []TypeOK
BY InvHolds, PTL DEF Inv

\* A conversation the backend holds as complete is whole, whatever was late, retried
\* or dropped: ConversationPersistence.finish answers for all of it.
THEOREM CompleteConversationsAreWhole == Spec => []CompleteIsWhole
<1>1. Inv => CompleteIsWhole
  <2> SUFFICES ASSUME Inv, conversation = "complete"
               PROVE  store = [i \in 1 .. spoken |-> i]
    BY DEF CompleteIsWhole
  <2>1. Len(store) = spoken /\ \A i \in DOMAIN store : store[i] = i
    BY DEF Inv, ReportedVerdict, VerdictHolds, StoreIsTheStart
  <2>2. store \in Seq(Messages)
    BY DEF Inv, TypeOK
  <2>3. store \in [1 .. spoken -> Messages] /\ DOMAIN store = 1 .. spoken
    BY <2>1, <2>2, LenProperties
  <2> QED
    BY <2>1, <2>3
<1> QED
  BY <1>1, InvHolds, PTL

\* Without a noticed failure the stored messages are the first ones spoken, each once.
THEOREM MessagesAreStoredInOrder == Spec => []StoredInOrder
<1>1. Inv => StoredInOrder
  <2> SUFFICES ASSUME Inv, ~incomplete
               PROVE  store = [i \in 1 .. Len(store) |-> i]
    BY DEF StoredInOrder
  <2>1. \A i \in DOMAIN store : store[i] = i
    BY DEF Inv, NothingMissing, StoreIsTheStart
  <2>2. store \in Seq(Messages)
    BY DEF Inv, TypeOK
  <2>3. store \in [1 .. Len(store) -> Messages] /\ DOMAIN store = 1 .. Len(store)
    BY <2>2, LenProperties
  <2> QED
    BY <2>1, <2>3
<1> QED
  BY <1>1, InvHolds, PTL

\* relinquish_ai and the terminal report never tell the backend two different things.
THEOREM BothReportsAgree == Spec => []ReportsAgree
<1>1. Inv => ReportsAgree
  <2> SUFFICES ASSUME Inv PROVE Cardinality(told) <= 1
    BY DEF ReportsAgree
  <2>1. told \subseteq {verdict}
    BY DEF Inv, ReportedVerdict
  <2>2. IsFiniteSet({verdict}) /\ Cardinality({verdict}) = 1
    BY FS_Singleton
  <2> QED
    BY <2>1, <2>2, FS_Subset
<1> QED
  BY <1>1, InvHolds, PTL

=============================================================================

---------------------------- MODULE DeliveryProofs ----------------------------
(***************************************************************************)
(* The safety properties of Delivery, for every number of messages,        *)
(* dispatchers, consumers, retries and faults, and the safety part of the  *)
(* promise it keeps: it implements AtLeastOnce.                            *)
(***************************************************************************)
EXTENDS Delivery, SequenceTheorems, FiniteSetTheorems, WellFoundedInduction, TLAPS

(***************************************************************************)
(* The inductive invariant.  NothingLost does not carry over a step: a row *)
(* is marked dispatched long after its entry was added, and an entry is    *)
(* acknowledged long after its message was handled.  In between, the       *)
(* dispatcher's and the consumer's local state must vouch for it.  The     *)
(* attempt counter can be shared by consumers that work on one entry, so a *)
(* failure that is not counted yet is kept account of by who has to.       *)
(***************************************************************************)

\* The message is handled, or the stream will bring it, or an operator finds it.
HasEntry(m) ==
  \/ m \in handled
  \/ \E i \in Ids : stream[i] = m /\ (i > cursor \/ i \in pending \union parked)

SentIsSafe ==
  /\ \A d \in Dispatchers : \A m \in dispatcher[d].done : HasEntry(m)
  /\ \A m \in Messages : outbox[m] = "dispatched" => HasEntry(m)

AcknowledgedIsSafe ==
  \A c \in Consumers :
    At(c, "ack") \/ At(c, "forget") =>
      stream[Current(c)] \in handled \/ Current(c) \in parked

\* Only messages that were published are on their way.
OnlyPublished ==
  /\ \A d \in Dispatchers :
       \A m \in dispatcher[d].todo \union dispatcher[d].done : outbox[m] # "none"
  /\ \A i \in Ids : outbox[stream[i]] # "none"

\* The consumers that have seen the handler fail on entry i and not counted it yet.
Counting(i) == {c \in Consumers : At(c, "count") /\ Current(c) = i}

FailuresAreCounted ==
  \A i \in Ids : attempts[i] + Cardinality(Counting(i)) <= failures[i]

ParksAfterRetries ==
  \A c \in Consumers : At(c, "park") => failures[Current(c)] > MaxRetries

Inv ==
  /\ TypeOK
  /\ SentIsSafe
  /\ AcknowledgedIsSafe
  /\ OnlyPublished
  /\ FailuresAreCounted
  /\ ParksAfterRetries
  /\ ParkedAfterRetries

-----------------------------------------------------------------------------
\* The order of the naturals, as the library's theorem speaks of it.
Less == {p \in Nat \X Nat : p[1] < p[2]}

LEMMA LessIsWellFounded == IsWellFoundedOn(Less, Nat)
<1>1. OpToRel(<, Nat) = Less
  BY Zenon DEF OpToRel, Less
<1> QED
  BY <1>1, NatLessThanWellFounded, Zenon

\* The Min of the community modules is an element, and the least.
LEMMA MinBelongs ==
  ASSUME NEW S \in SUBSET Nat, S # {}
  PROVE  Min(S) \in S /\ \A x \in S : Min(S) <= x
<1>1. PICK x \in S : \A y \in S : ~ (<< y, x >> \in Less)
  BY LessIsWellFounded, WFMin
<1>2. \A y \in S : x <= y
  <2> SUFFICES ASSUME NEW y \in S, y < x PROVE FALSE
    OBVIOUS
  <2>1. << y, x >> \in Nat \X Nat
    OBVIOUS
  <2> QED
    BY <1>1, <2>1 DEF Less
<1> QED
  BY <1>2 DEF Min

-----------------------------------------------------------------------------
\* The entry a consumer is at is one it was given.
LEMMA CurrentEntry ==
  ASSUME TypeOK, NEW c \in Consumers, consumer[c].inbox # {}
  PROVE  Current(c) \in consumer[c].inbox /\ Current(c) \in 1 .. cursor /\ Current(c) \in Ids
<1>1. consumer[c].inbox \subseteq 1 .. cursor
  BY DEF TypeOK
<1>2. cursor \in Nat /\ cursor <= Len(stream)
  <2>1. Len(stream) \in Nat
    BY LenProperties DEF TypeOK
  <2> QED
    BY <2>1 DEF TypeOK
<1>3. consumer[c].inbox \subseteq Nat
  BY <1>1, <1>2
<1>4. Current(c) \in consumer[c].inbox
  BY <1>3, MinBelongs DEF Current
<1>5. Ids = 1 .. Len(stream)
  BY LenProperties DEF TypeOK, Ids
<1>6. Len(stream) \in Nat
  BY LenProperties DEF TypeOK
<1> QED
  BY <1>1, <1>2, <1>4, <1>5, <1>6

\* XADD leaves the entries that are there as they are.
LEMMA AddedEntry ==
  ASSUME TypeOK, NEW m \in Messages, Add(m)
  PROVE  /\ stream' \in Seq(Messages) /\ Len(stream') = Len(stream) + 1 /\ Len(stream) \in Nat
         /\ attempts' \in Seq(Nat) /\ Len(attempts') = Len(stream')
         /\ failures' \in Seq(Nat) /\ Len(failures') = Len(stream')
         /\ Ids = 1 .. Len(stream) /\ Ids' = 1 .. Len(stream) + 1
         /\ \A i \in Ids : /\ stream'[i] = stream[i] /\ attempts'[i] = attempts[i]
                          /\ failures'[i] = failures[i]
         /\ stream'[Len(stream) + 1] = m
         /\ attempts'[Len(stream) + 1] = 0 /\ failures'[Len(stream) + 1] = 0
<1>1. /\ stream \in Seq(Messages) /\ stream' = Append(stream, m)
      /\ attempts \in Seq(Nat) /\ Len(attempts) = Len(stream) /\ attempts' = Append(attempts, 0)
      /\ failures \in Seq(Nat) /\ Len(failures) = Len(stream) /\ failures' = Append(failures, 0)
  BY DEF TypeOK, Add
<1>2. Len(stream) \in Nat /\ Ids = 1 .. Len(stream)
  BY <1>1, LenProperties DEF Ids
<1>3. /\ stream' \in Seq(Messages) /\ Len(stream') = Len(stream) + 1
      /\ \A i \in 1 .. Len(stream) : stream'[i] = stream[i]
      /\ stream'[Len(stream) + 1] = m
  BY <1>1, AppendProperties
<1>4. /\ attempts' \in Seq(Nat) /\ Len(attempts') = Len(stream) + 1
      /\ \A i \in 1 .. Len(stream) : attempts'[i] = attempts[i]
      /\ attempts'[Len(stream) + 1] = 0
  <2>1. 0 \in Nat
    OBVIOUS
  <2> QED
    BY <1>1, <2>1, AppendProperties
<1>5. /\ failures' \in Seq(Nat) /\ Len(failures') = Len(stream) + 1
      /\ \A i \in 1 .. Len(stream) : failures'[i] = failures[i]
      /\ failures'[Len(stream) + 1] = 0
  <2>1. 0 \in Nat
    OBVIOUS
  <2> QED
    BY <1>1, <2>1, AppendProperties
<1>6. Ids' = 1 .. Len(stream) + 1
  BY <1>3, LenProperties DEF Ids
<1> QED
  BY <1>2, <1>3, <1>4, <1>5, <1>6

\* The next entries a consumer reads exist.
LEMMA LastReadExists ==
  ASSUME TypeOK
  PROVE  LastRead \in Nat /\ cursor <= LastRead /\ LastRead <= Len(stream)
<1>1. Len(stream) \in Nat
  BY LenProperties DEF TypeOK
<1>2. cursor \in Nat /\ cursor <= Len(stream) /\ cursor + Count \in Nat /\ cursor <= cursor + Count
  BY <1>1, LimitAssumption DEF TypeOK
<1> DEFINE ends == {cursor + Count, Len(stream)}
<1>3. ends \in SUBSET Nat /\ ends # {}
  BY <1>1, <1>2
<1>4. LastRead \in ends /\ \A x \in ends : LastRead <= x
  <2>1. LastRead = Min(ends)
    BY DEF LastRead
  <2> HIDE DEF ends
  <2> QED
    BY <1>3, <2>1, MinBelongs
<1> QED
  BY <1>1, <1>2, <1>4

\* The first row a dispatcher sends is one it has selected.
LEMMA FirstRow ==
  ASSUME TypeOK, NEW d \in Dispatchers, dispatcher[d].todo # {}
  PROVE  Min(dispatcher[d].todo) \in dispatcher[d].todo /\ Min(dispatcher[d].todo) \in Messages
<1>1. dispatcher[d].todo \in SUBSET Nat /\ dispatcher[d].todo \subseteq Messages
  BY MessagesAssumption DEF TypeOK
<1> QED
  BY <1>1, MinBelongs

-----------------------------------------------------------------------------
LEMMA InitInv == Init => Inv
<1> SUFFICES ASSUME Init PROVE Inv
  OBVIOUS
<1>1. /\ stream = << >> /\ attempts = << >> /\ failures = << >> /\ Len(stream) = 0 /\ Ids = {}
      /\ cursor = 0 /\ pending = {} /\ handled = {} /\ parked = {} /\ faults = 0
  BY DEF Init, Ids
<1>2. \A c \in Consumers : consumer[c].inbox = {}
  BY DEF Init, ConsumerFresh
<1>3. \A d \in Dispatchers : dispatcher[d].todo = {} /\ dispatcher[d].done = {}
  BY DEF Init, DispatcherIdle
<1>4. \A m \in Messages : outbox[m] = "none"
  BY DEF Init
<1>5. TypeOK
  <2>1. outbox \in [Messages -> {"none", "waiting", "dispatched"}]
    BY DEF Init
  <2>2. dispatcher \in [Dispatchers -> [todo : SUBSET Messages, done : SUBSET Messages]]
    BY DEF Init, DispatcherIdle
  <2>3. consumer \in [Consumers -> [turn : {"recover", "read"},
                                    inbox : SUBSET (1 .. cursor), step : Steps]]
    BY DEF Init, ConsumerFresh, Steps
  <2>4. stream \in Seq(Messages) /\ attempts \in Seq(Nat) /\ failures \in Seq(Nat)
        /\ Len(attempts) = 0 /\ Len(failures) = 0
    BY <1>1, EmptySeq
  <2> QED
    BY <1>1, <2>1, <2>2, <2>3, <2>4, RetriesAssumption DEF TypeOK
<1> QED
  BY <1>1, <1>2, <1>3, <1>4, <1>5
     DEF Inv, SentIsSafe, AcknowledgedIsSafe, OnlyPublished, FailuresAreCounted,
         ParksAfterRetries, ParkedAfterRetries, At

-----------------------------------------------------------------------------
(***************************************************************************)
(* Types.                                                                  *)
(***************************************************************************)
LEMMA TypeDispatch ==
  ASSUME TypeOK, NEW d \in Dispatchers, Dispatching(d)
  PROVE  TypeOK'
<1> USE DEF outboxVars, groupVars
<1>1. CASE DispatchBegin(d)
  <2>1. Selected \subseteq Messages
    BY DEF Selected
  <2>2. dispatcher' \in [Dispatchers -> [todo : SUBSET Messages, done : SUBSET Messages]]
    BY <1>1, <2>1 DEF DispatchBegin, TypeOK
  <2> QED
    BY <1>1, <2>2 DEF DispatchBegin, TypeOK, Ids
<1>2. CASE DispatchSend(d)
  <2> DEFINE m == Min(dispatcher[d].todo)
  <2>1. m \in Messages
    BY <1>2, FirstRow DEF DispatchSend
  <2>2. /\ Add(m) /\ outbox' = outbox /\ faults' = faults
        /\ dispatcher' = [dispatcher EXCEPT ![d].todo = @ \ {m}, ![d].done = @ \union {m}]
    BY <1>2 DEF DispatchSend
  <2> HIDE DEF m
  <2>3. dispatcher' \in [Dispatchers -> [todo : SUBSET Messages, done : SUBSET Messages]]
    BY <2>1, <2>2 DEF TypeOK
  <2>4. /\ stream' \in Seq(Messages) /\ Len(stream') = Len(stream) + 1 /\ Len(stream) \in Nat
        /\ attempts' \in Seq(Nat) /\ Len(attempts') = Len(stream')
        /\ failures' \in Seq(Nat) /\ Len(failures') = Len(stream')
    BY <2>1, <2>2, AddedEntry
  <2>5. cursor' \in 0 .. Len(stream')
    BY <2>2, <2>4 DEF Add, TypeOK
  <2> QED
    BY <2>2, <2>3, <2>4, <2>5 DEF Add, TypeOK
<1>3. CASE DispatchSendRaises(d)
  <2> DEFINE m == Min(dispatcher[d].todo)
  <2>1. m \in Messages
    BY <1>3, FirstRow DEF DispatchSendRaises
  <2>2. /\ Add(m) \/ UNCHANGED << stream, groupVars >>
        /\ outbox' = outbox /\ faults' = faults + 1 /\ faults < MaxFaults
        /\ dispatcher' = [dispatcher EXCEPT ![d].todo = @ \ {m}]
    BY <1>3 DEF DispatchSendRaises, SendFailed, Fault
  <2> HIDE DEF m
  <2>3. dispatcher' \in [Dispatchers -> [todo : SUBSET Messages, done : SUBSET Messages]]
    BY <2>1, <2>2 DEF TypeOK
  <2>4. faults' \in 0 .. MaxFaults
    BY <2>2, RetriesAssumption DEF TypeOK
  <2>5. CASE Add(m)
    <3>1. /\ stream' \in Seq(Messages) /\ Len(stream') = Len(stream) + 1 /\ Len(stream) \in Nat
          /\ attempts' \in Seq(Nat) /\ Len(attempts') = Len(stream')
          /\ failures' \in Seq(Nat) /\ Len(failures') = Len(stream')
      BY <2>1, <2>5, AddedEntry
    <3>2. cursor' \in 0 .. Len(stream')
      BY <2>5, <3>1 DEF Add, TypeOK
    <3> QED
      BY <2>2, <2>3, <2>4, <2>5, <3>1, <3>2 DEF Add, TypeOK
  <2>6. CASE UNCHANGED << stream, groupVars >>
    BY <2>2, <2>3, <2>4, <2>6 DEF TypeOK
  <2> QED
    BY <2>2, <2>5, <2>6
<1>4. CASE DispatchCommit(d)
  <2>1. outbox' \in [Messages -> {"none", "waiting", "dispatched"}]
    BY <1>4 DEF DispatchCommit, TypeOK
  <2>2. dispatcher' \in [Dispatchers -> [todo : SUBSET Messages, done : SUBSET Messages]]
    BY <1>4 DEF DispatchCommit, DispatcherIdle, TypeOK
  <2> QED
    BY <1>4, <2>1, <2>2 DEF DispatchCommit, TypeOK
<1>5. CASE DispatchLost(d)
  <2>1. dispatcher' \in [Dispatchers -> [todo : SUBSET Messages, done : SUBSET Messages]]
    BY <1>5 DEF DispatchLost, DispatcherIdle, TypeOK
  <2>2. faults' \in 0 .. MaxFaults
    BY <1>5, RetriesAssumption DEF DispatchLost, Fault, TypeOK
  <2> QED
    BY <1>5, <2>1, <2>2 DEF DispatchLost, TypeOK
<1> QED
  BY <1>1, <1>2, <1>3, <1>4, <1>5 DEF Dispatching

\* A consumer that moves on within its batch keeps the type of its record.
LEMMA TypeMove ==
  ASSUME TypeOK, NEW c \in Consumers, NEW step \in Steps,
         GoTo(c, step) \/ NextEntry(c)
  PROVE  consumer' \in [Consumers -> [turn : {"recover", "read"},
                                     inbox : SUBSET (1 .. cursor), step : Steps]]
<1>1. CASE GoTo(c, step)
  BY <1>1 DEF GoTo, TypeOK
<1>2. CASE NextEntry(c)
  <2>1. "handle" \in Steps
    BY DEF Steps
  <2>2. consumer[c].inbox \ {Current(c)} \subseteq 1 .. cursor
    BY DEF TypeOK
  <2>3. consumer[c].turn \in {"recover", "read"}
    BY DEF TypeOK
  <2>4. /\ consumer' = [consumer EXCEPT ![c] = consumer'[c]]
        /\ consumer'[c].inbox = consumer[c].inbox \ {Current(c)}
        /\ consumer'[c].turn = consumer[c].turn /\ consumer'[c].step = "handle"
        /\ consumer'[c] = [turn |-> consumer'[c].turn, inbox |-> consumer'[c].inbox,
                          step |-> consumer'[c].step]
    BY <1>2 DEF NextEntry, TypeOK
  <2>5. consumer'[c] \in [turn : {"recover", "read"}, inbox : SUBSET (1 .. cursor), step : Steps]
    <3> DEFINE r == consumer'[c]
    <3>1. /\ r.turn \in {"recover", "read"} /\ r.inbox \in SUBSET (1 .. cursor) /\ r.step \in Steps
          /\ r = [turn |-> r.turn, inbox |-> r.inbox, step |-> r.step]
      BY <2>1, <2>2, <2>3, <2>4
    <3> HIDE DEF r
    <3>2. r \in [turn : {"recover", "read"}, inbox : SUBSET (1 .. cursor), step : Steps]
      BY <3>1
    <3> QED
      BY <3>2 DEF r
  <2> HIDE <1>2
  <2> DEFINE R == [turn : {"recover", "read"}, inbox : SUBSET (1 .. cursor), step : Steps]
  <2>6. consumer'[c] \in R /\ consumer \in [Consumers -> R]
    BY <2>5 DEF TypeOK
  <2> HIDE DEF R
  <2>7. consumer' \in [Consumers -> R]
    BY <2>4, <2>6
  <2> QED
    BY <2>7 DEF R
<1> QED
  BY <1>1, <1>2

LEMMA TypeConsume ==
  ASSUME TypeOK, NEW c \in Consumers, Consuming(c)
  PROVE  TypeOK'
<1> USE DEF GroupStep, outboxVars
<1>0. {"handle", "count", "park", "ack", "forget"} \subseteq Steps
  BY DEF Steps
<1>1. ASSUME NEW ids \in SUBSET pending, Recover(c, ids) PROVE TypeOK'
  <2>1. ids \subseteq 1 .. cursor
    BY DEF TypeOK
  <2>2. consumer' \in [Consumers -> [turn : {"recover", "read"},
                                    inbox : SUBSET (1 .. cursor), step : Steps]]
    BY <1>0, <1>1, <2>1 DEF Recover, Fetched, Other, TypeOK
  <2> QED
    BY <1>1, <2>2 DEF Recover, TypeOK
<1>2. CASE Read(c)
  <2>1. LastRead \in Nat /\ cursor <= LastRead /\ LastRead <= Len(stream) /\ cursor \in Nat
    BY LastReadExists, LenProperties DEF TypeOK
  <2>2. /\ cursor' = LastRead /\ pending' = pending \union (cursor + 1 .. LastRead)
        /\ UNCHANGED << outbox, dispatcher, stream, attempts, handled, parked, failures, faults >>
    BY <1>2 DEF Read
  <2>3. 1 .. cursor \subseteq 1 .. cursor' /\ cursor + 1 .. LastRead \subseteq 1 .. cursor'
    BY <2>1, <2>2
  <2>4. consumer' \in [Consumers -> [turn : {"recover", "read"},
                                    inbox : SUBSET (1 .. cursor'), step : Steps]]
    <3>1. consumer \in [Consumers -> [turn : {"recover", "read"},
                                     inbox : SUBSET (1 .. cursor'), step : Steps]]
      BY <2>3 DEF TypeOK
    <3> QED
      BY <1>0, <1>2, <2>3, <3>1 DEF Read, Fetched, Other
  <2>5. pending' \subseteq 1 .. cursor' /\ parked' \subseteq 1 .. cursor'
    BY <2>2, <2>3 DEF TypeOK
  <2>6. cursor' \in 0 .. Len(stream')
    <3>1. Len(stream) \in Nat
      BY LenProperties DEF TypeOK
    <3> QED
      BY <2>1, <2>2, <3>1
  <2> QED
    BY <2>2, <2>4, <2>5, <2>6 DEF TypeOK
<1>3. CASE HandlerCommits(c)
  <2>1. stream[Current(c)] \in Messages
    <3>1. Current(c) \in Ids /\ stream \in Seq(Messages)
      BY <1>3, CurrentEntry DEF HandlerCommits, At, TypeOK
    <3> QED
      BY <3>1, ElementOfSeq, LenProperties DEF Ids
  <2> QED
    BY <1>0, <1>3, <2>1, TypeMove DEF HandlerCommits, TypeOK
<1>4. CASE HandlerRaises(c)
  <2>1. failures' \in Seq(Nat) /\ Len(failures') = Len(failures)
    <3>1. Current(c) \in 1 .. Len(failures) /\ failures \in Seq(Nat)
      BY <1>4, CurrentEntry, LenProperties DEF HandlerRaises, At, TypeOK, Ids
    <3>2. failures[Current(c)] + 1 \in Nat
      BY <3>1, ElementOfSeq
    <3> QED
      BY <1>4, <3>1, <3>2, ExceptSeq DEF HandlerRaises
  <2> QED
    BY <1>0, <1>4, <2>1, TypeMove DEF HandlerRaises, TypeOK
<1>5. CASE CountAttempt(c)
  <2>1. attempts' \in Seq(Nat) /\ Len(attempts') = Len(attempts)
    <3>1. Current(c) \in 1 .. Len(attempts) /\ attempts \in Seq(Nat)
      BY <1>5, CurrentEntry, LenProperties DEF CountAttempt, At, TypeOK, Ids
    <3>2. attempts[Current(c)] + 1 \in Nat
      BY <3>1, ElementOfSeq
    <3> QED
      BY <1>5, <3>1, <3>2, ExceptSeq DEF CountAttempt
  <2>2. GoTo(c, "park") \/ NextEntry(c)
    BY <1>5 DEF CountAttempt
  <2> QED
    BY <1>0, <1>5, <2>1, <2>2, TypeMove DEF CountAttempt, TypeOK
<1>6. CASE ParkEntry(c)
  <2>1. Current(c) \in 1 .. cursor
    BY <1>6, CurrentEntry DEF ParkEntry, At
  <2> QED
    BY <1>0, <1>6, <2>1, TypeMove DEF ParkEntry, TypeOK
<1>7. CASE Acknowledge(c)
  BY <1>0, <1>7, TypeMove DEF Acknowledge, TypeOK
<1>8. CASE ForgetAttempts(c)
  <2>1. attempts' \in Seq(Nat) /\ Len(attempts') = Len(attempts)
    <3>1. Current(c) \in 1 .. Len(attempts) /\ attempts \in Seq(Nat)
      BY <1>8, CurrentEntry, LenProperties DEF ForgetAttempts, At, TypeOK, Ids
    <3> QED
      BY <1>8, <3>1, ExceptSeq DEF ForgetAttempts
  <2> QED
    BY <1>0, <1>8, <2>1, TypeMove DEF ForgetAttempts, TypeOK
<1>9. CASE Abandon(c)
  <2>1. consumer' \in [Consumers -> [turn : {"recover", "read"},
                                    inbox : SUBSET (1 .. cursor), step : Steps]]
    BY <1>0, <1>9 DEF Abandon, ConsumerFresh, TypeOK
  <2>2. faults' \in 0 .. MaxFaults
    BY <1>9, RetriesAssumption DEF Abandon, Fault, TypeOK
  <2> QED
    BY <1>9, <2>1, <2>2 DEF Abandon, TypeOK
<1> QED
  BY <1>1, <1>2, <1>3, <1>4, <1>5, <1>6, <1>7, <1>8, <1>9 DEF Consuming, Handling

LEMMA TypeNext == TypeOK /\ [Next]_vars => TypeOK'
<1>1. ASSUME TypeOK, NEW m \in Messages, Publish(m) PROVE TypeOK'
  BY <1>1 DEF Publish, TypeOK, groupVars
<1>2. ASSUME TypeOK, UNCHANGED vars PROVE TypeOK'
  BY <1>2 DEF vars, TypeOK
<1> QED
  BY <1>1, <1>2, TypeDispatch, TypeConsume DEF Next

-----------------------------------------------------------------------------
(***************************************************************************)
(* Nothing is lost.                                                        *)
(***************************************************************************)

\* A step that adds to the stream adds one published row.
Adding(d) == dispatcher[d].todo # {} /\ Add(Min(dispatcher[d].todo))

\* Entries are never changed, nor what is known of them forgotten.
LEMMA Growth ==
  ASSUME TypeOK, [Next]_vars
  PROVE  /\ Ids \subseteq Ids' /\ \A i \in Ids : stream'[i] = stream[i]
         /\ handled \subseteq handled' /\ parked \subseteq parked'
<1>1. ASSUME NEW d \in Dispatchers, Adding(d)
      PROVE  /\ Ids \subseteq Ids' /\ \A i \in Ids : stream'[i] = stream[i]
             /\ handled \subseteq handled' /\ parked \subseteq parked'
  <2> DEFINE m == Min(dispatcher[d].todo)
  <2>1. m \in Messages /\ Add(m)
    BY <1>1, FirstRow DEF Adding
  <2> HIDE DEF m
  <2>2. /\ Ids = 1 .. Len(stream) /\ Ids' = 1 .. Len(stream) + 1 /\ Len(stream) \in Nat
        /\ \A i \in Ids : stream'[i] = stream[i]
    BY <2>1, AddedEntry
  <2>3. handled' = handled /\ parked' = parked
    BY <2>1 DEF Add
  <2>4. Ids \subseteq Ids'
    BY <2>2
  <2> QED
    BY <2>2, <2>3, <2>4
<1>2. ASSUME NEW d \in Dispatchers, Dispatching(d)
      PROVE  Adding(d) \/ UNCHANGED << stream, groupVars >>
  BY <1>2 DEF Dispatching, DispatchBegin, DispatchSend, DispatchSendRaises, DispatchCommit,
              DispatchLost, Adding
<1>3. ASSUME UNCHANGED stream, handled \subseteq handled', parked \subseteq parked'
      PROVE  /\ Ids \subseteq Ids' /\ \A i \in Ids : stream'[i] = stream[i]
             /\ handled \subseteq handled' /\ parked \subseteq parked'
  BY <1>3 DEF Ids
<1>4. ASSUME NEW c \in Consumers, Consuming(c)
      PROVE  UNCHANGED stream /\ handled \subseteq handled' /\ parked \subseteq parked'
  BY <1>4 DEF Consuming, Handling, Recover, Read, HandlerCommits, HandlerRaises, CountAttempt,
              ParkEntry, Acknowledge, ForgetAttempts, Abandon, GroupStep
<1>5. ASSUME UNCHANGED << stream, groupVars >>
      PROVE  UNCHANGED stream /\ handled \subseteq handled' /\ parked \subseteq parked'
  BY <1>5 DEF groupVars
<1>6. ASSUME UNCHANGED vars \/ \E m \in Messages : Publish(m)
      PROVE  UNCHANGED << stream, groupVars >>
  BY <1>6 DEF vars, groupVars, Publish
<1> QED
  BY <1>1, <1>2, <1>3, <1>4, <1>5, <1>6 DEF Next

\* What has an entry keeps one until it is handled or parked: an entry leaves the
\* pending list only when its handler has committed or it was parked.
LEMMA EntryStays ==
  ASSUME TypeOK, AcknowledgedIsSafe, [Next]_vars, NEW m, HasEntry(m)
  PROVE  HasEntry(m)'
<1>1. /\ Ids \subseteq Ids' /\ \A i \in Ids : stream'[i] = stream[i]
      /\ handled \subseteq handled' /\ parked \subseteq parked'
  BY Growth
<1>2. CASE m \in handled
  BY <1>1, <1>2 DEF HasEntry
<1>3. CASE m \notin handled
  <2>1. PICK i \in Ids : stream[i] = m /\ (i > cursor \/ i \in pending \union parked)
    BY <1>3 DEF HasEntry
  <2>2. CASE \E c \in Consumers : Read(c)
    <3>1. cursor' = LastRead /\ pending' = pending \union (cursor + 1 .. LastRead)
      BY <2>2 DEF Read
    <3>2. i \in Nat /\ cursor \in Nat /\ LastRead \in Nat
      BY LastReadExists, LenProperties DEF TypeOK, Ids
    <3>3. i > cursor => i > cursor' \/ i \in pending'
      BY <3>1, <3>2
    <3> QED
      BY <1>1, <2>1, <3>1, <3>3 DEF HasEntry
  <2>3. CASE \E c \in Consumers : Acknowledge(c)
    <3>1. PICK c \in Consumers : Acknowledge(c)
      BY <2>3
    <3>2. cursor' = cursor /\ pending' = pending \ {Current(c)} /\ At(c, "ack")
      BY <3>1 DEF Acknowledge
    <3>3. i = Current(c) => m \in handled \/ i \in parked
      BY <2>1, <3>2 DEF AcknowledgedIsSafe
    <3> QED
      BY <1>1, <1>3, <2>1, <3>2, <3>3 DEF HasEntry
  <2>4. CASE ~(\E c \in Consumers : Read(c) \/ Acknowledge(c))
    <3>1. UNCHANGED << cursor, pending >>
      BY <2>4 DEF Next, vars, Publish, Dispatching, DispatchBegin, DispatchSend,
                  DispatchSendRaises, DispatchCommit, DispatchLost, Add, groupVars, Consuming,
                  Handling, Recover, HandlerCommits, HandlerRaises, CountAttempt, ParkEntry,
                  ForgetAttempts, Abandon
    <3> QED
      BY <1>1, <2>1, <3>1 DEF HasEntry
  <2> QED
    BY <2>2, <2>3, <2>4
<1> QED
  BY <1>2, <1>3

LEMMA SentNext == Inv /\ [Next]_vars => SentIsSafe'
<1> SUFFICES ASSUME Inv, [Next]_vars PROVE SentIsSafe'
  OBVIOUS
<1>0. TypeOK /\ AcknowledgedIsSafe /\ SentIsSafe
  BY DEF Inv
<1>1. ASSUME NEW m, HasEntry(m) PROVE HasEntry(m)'
  BY <1>0, <1>1, EntryStays
<1>2. ASSUME NEW d \in Dispatchers, DispatchSend(d) PROVE SentIsSafe'
  <2>1. PICK m \in Messages : m = Min(dispatcher[d].todo)
    BY <1>0, <1>2, FirstRow DEF DispatchSend
  <2>2. /\ Add(m) /\ outbox' = outbox
        /\ dispatcher' = [dispatcher EXCEPT ![d].todo = @ \ {m}, ![d].done = @ \union {m}]
    BY <1>2, <2>1 DEF DispatchSend
  <2>3. HasEntry(m)'
    <3>1. Len(stream) + 1 \in Ids' /\ stream'[Len(stream) + 1] = m /\ Len(stream) \in Nat
      BY <1>0, <2>1, <2>2, AddedEntry
    <3>2. Len(stream) + 1 > cursor'
      BY <1>0, <2>2, <3>1 DEF Add, TypeOK
    <3> QED
      BY <3>1, <3>2 DEF HasEntry
  <2>4. \A x \in Dispatchers : \A n \in dispatcher'[x].done :
          n = m \/ n \in dispatcher[x].done
    BY <1>0, <2>2 DEF TypeOK
  <2> QED
    BY <1>0, <1>1, <2>2, <2>3, <2>4 DEF SentIsSafe
<1>3. ASSUME NEW d \in Dispatchers, DispatchCommit(d) PROVE SentIsSafe'
  <2>1. \A n \in Messages : outbox'[n] = "dispatched" =>
          n \in dispatcher[d].done \/ outbox[n] = "dispatched"
    BY <1>3 DEF DispatchCommit
  <2>2. \A x \in Dispatchers : dispatcher'[x].done \subseteq dispatcher[x].done
    BY <1>0, <1>3 DEF DispatchCommit, DispatcherIdle, TypeOK
  <2> QED
    BY <1>0, <1>1, <2>1, <2>2 DEF SentIsSafe
<1>4. ASSUME NEW d \in Dispatchers,
             DispatchBegin(d) \/ DispatchSendRaises(d) \/ DispatchLost(d)
      PROVE  SentIsSafe'
  <2>1. outbox' = outbox
    BY <1>4 DEF DispatchBegin, DispatchSendRaises, DispatchLost
  <2>2. \A x \in Dispatchers : dispatcher'[x].done \subseteq dispatcher[x].done
    BY <1>0, <1>4 DEF DispatchBegin, DispatchSendRaises, SendFailed, DispatchLost,
                      DispatcherIdle, TypeOK
  <2> QED
    BY <1>0, <1>1, <2>1, <2>2 DEF SentIsSafe
<1>5. ASSUME NEW m \in Messages, Publish(m) PROVE SentIsSafe'
  <2>1. dispatcher' = dispatcher
        /\ \A n \in Messages : outbox'[n] = "dispatched" => outbox[n] = "dispatched"
    BY <1>0, <1>5 DEF Publish, TypeOK
  <2> QED
    BY <1>0, <1>1, <2>1 DEF SentIsSafe
<1>6. CASE UNCHANGED outboxVars
  BY <1>0, <1>1, <1>6 DEF SentIsSafe, outboxVars
<1>7. ASSUME NEW c \in Consumers, Consuming(c) PROVE UNCHANGED outboxVars
  BY <1>7 DEF Consuming, Handling, Recover, Read, HandlerCommits, HandlerRaises, CountAttempt,
              ParkEntry, Acknowledge, ForgetAttempts, Abandon, GroupStep
<1>8. ASSUME UNCHANGED vars PROVE UNCHANGED outboxVars
  BY <1>8 DEF vars, outboxVars
<1> QED
  BY <1>2, <1>3, <1>4, <1>5, <1>6, <1>7, <1>8 DEF Next, Dispatching

-----------------------------------------------------------------------------
(***************************************************************************)
(* The consumers.  A step is of one of them; the others keep their batch   *)
(* and their place in it.                                                  *)
(***************************************************************************)

Stays(c) == consumer'[c] = consumer[c]

LEMMA OthersStay ==
  ASSUME TypeOK, NEW c \in Consumers, Consuming(c)
  PROVE  \A x \in Consumers : x # c => Stays(x)
BY DEF Consuming, Handling, Recover, Read, Fetched, HandlerCommits, HandlerRaises, CountAttempt,
       ParkEntry, Acknowledge, ForgetAttempts, Abandon, GoTo, NextEntry, Stays, TypeOK

\* A consumer that stays is at the step, and at the entry, it was at.
LEMMA StaysAt ==
  ASSUME NEW c \in Consumers, Stays(c)
  PROVE  /\ Current(c)' = Current(c) /\ \A step : At(c, step)' <=> At(c, step)
         /\ (consumer[c].inbox # {})' <=> consumer[c].inbox # {}
BY DEF Stays, Current, At

\* A consumer that moves on to another step stays at the entry.
LEMMA WentTo ==
  ASSUME TypeOK, NEW c \in Consumers, NEW step \in Steps, GoTo(c, step), consumer[c].inbox # {}
  PROVE  /\ Current(c)' = Current(c) /\ consumer'[c].step = step /\ At(c, step)'
         /\ \A x \in Steps : At(c, x)' => x = step
<1>1. consumer'[c].inbox = consumer[c].inbox /\ consumer'[c].step = step
  BY DEF GoTo, TypeOK
<1> QED
  BY <1>1 DEF Current, At

\* With another batch or another entry it begins at the handler.
LEMMA BeganAgain ==
  ASSUME TypeOK, NEW c \in Consumers,
         \/ NextEntry(c) \/ Abandon(c) \/ Read(c) \/ \E ids \in SUBSET pending : Recover(c, ids)
  PROVE  consumer'[c].step = "handle" /\ \A x \in Steps \ {"handle"} : ~At(c, x)'
<1>1. consumer'[c].step = "handle"
  BY DEF NextEntry, Abandon, Read, Recover, Fetched, ConsumerFresh, TypeOK
<1> QED
  BY <1>1 DEF At

\* Outside the consumers' own steps all of them stay.
LEMMA AllStay ==
  ASSUME [Next]_vars, ~(\E c \in Consumers : Consuming(c))
  PROVE  \A x \in Consumers : Stays(x)
BY DEF Next, Publish, Dispatching, DispatchBegin, DispatchSend, DispatchSendRaises, DispatchCommit,
       DispatchLost, Add, groupVars, vars, Stays

LEMMA AckNext == Inv /\ [Next]_vars => AcknowledgedIsSafe'
<1> SUFFICES ASSUME TypeOK, AcknowledgedIsSafe, [Next]_vars PROVE AcknowledgedIsSafe'
  BY DEF Inv
<1>1. /\ \A i \in Ids : stream'[i] = stream[i]
      /\ handled \subseteq handled' /\ parked \subseteq parked'
  BY Growth
<1>2. ASSUME NEW x \in Consumers, Stays(x), (At(x, "ack") \/ At(x, "forget"))'
      PROVE  (stream[Current(x)] \in handled \/ Current(x) \in parked)'
  <2>1. Current(x)' = Current(x) /\ (At(x, "ack") \/ At(x, "forget"))
    BY <1>2, StaysAt
  <2>2. Current(x) \in Ids
    BY <2>1, CurrentEntry DEF At
  <2> QED
    BY <1>1, <2>1, <2>2 DEF AcknowledgedIsSafe
<1>3. ASSUME NEW c \in Consumers, Consuming(c), (At(c, "ack") \/ At(c, "forget"))'
      PROVE  (stream[Current(c)] \in handled \/ Current(c) \in parked)'
  <2>0. {"handle", "count", "park", "ack", "forget"} \subseteq Steps
    BY DEF Steps
  <2>1. CASE HandlerCommits(c)
    <3>1. Current(c)' = Current(c) /\ Current(c) \in Ids
      BY <2>0, <2>1, WentTo, CurrentEntry DEF HandlerCommits, At
    <3> QED
      BY <1>1, <2>1, <3>1 DEF HandlerCommits
  <2>2. CASE ParkEntry(c)
    <3>1. Current(c)' = Current(c)
      BY <2>0, <2>2, WentTo DEF ParkEntry, At
    <3> QED
      BY <2>2, <3>1 DEF ParkEntry
  <2>3. CASE Acknowledge(c)
    <3>1. Current(c)' = Current(c) /\ Current(c) \in Ids /\ At(c, "ack")
      BY <2>0, <2>3, WentTo, CurrentEntry DEF Acknowledge, At
    <3> QED
      BY <1>1, <3>1 DEF AcknowledgedIsSafe
  <2>4. CASE HandlerRaises(c)
    BY <1>3, <2>0, <2>4, WentTo DEF HandlerRaises, At
  <2>5. CASE CountAttempt(c)
    <3>1. NextEntry(c) \/ GoTo(c, "park")
      BY <2>5 DEF CountAttempt
    <3> QED
      BY <1>3, <2>0, <2>5, <3>1, WentTo, BeganAgain DEF CountAttempt, At
  <2>6. CASE ForgetAttempts(c) \/ Abandon(c) \/ Read(c) \/ \E ids \in SUBSET pending : Recover(c, ids)
    <3>1. \A x \in Steps \ {"handle"} : ~At(c, x)'
      BY <2>6, BeganAgain DEF ForgetAttempts
    <3> QED
      BY <1>3, <2>0, <3>1
  <2> QED
    BY <1>3, <2>1, <2>2, <2>3, <2>4, <2>5, <2>6 DEF Consuming, Handling
<1>4. ASSUME NEW x \in Consumers PROVE Stays(x) \/ Consuming(x)
  BY AllStay, OthersStay
<1> QED
  BY <1>2, <1>3, <1>4 DEF AcknowledgedIsSafe

-----------------------------------------------------------------------------
(***************************************************************************)
(* Only what was published is on its way.                                  *)
(***************************************************************************)

LEMMA PublishedStays ==
  ASSUME TypeOK, [Next]_vars, NEW m \in Messages, outbox[m] # "none"
  PROVE  outbox'[m] # "none"
<1>1. ASSUME NEW n \in Messages, Publish(n) PROVE outbox'[m] # "none"
  BY <1>1 DEF Publish, TypeOK
<1>2. ASSUME NEW d \in Dispatchers, DispatchCommit(d) PROVE outbox'[m] # "none"
  BY <1>2 DEF DispatchCommit
<1>3. CASE ~(\E n \in Messages : Publish(n)) /\ ~(\E d \in Dispatchers : DispatchCommit(d))
  <2>1. outbox' = outbox
    BY <1>3 DEF Next, Dispatching, DispatchBegin, DispatchSend, DispatchSendRaises, DispatchLost,
                Consuming, Handling, Recover, Read, HandlerCommits, HandlerRaises, CountAttempt,
                ParkEntry, Acknowledge, ForgetAttempts, Abandon, GroupStep, outboxVars, vars
  <2> QED
    BY <2>1
<1> QED
  BY <1>1, <1>2, <1>3

LEMMA PublishedNext == Inv /\ [Next]_vars => OnlyPublished'
<1> SUFFICES ASSUME TypeOK, OnlyPublished, [Next]_vars PROVE OnlyPublished'
  BY DEF Inv
<1>1. \A m \in Messages : outbox[m] # "none" => outbox'[m] # "none"
  BY PublishedStays
<1>2. ASSUME NEW x \in Dispatchers, NEW m \in dispatcher'[x].todo \union dispatcher'[x].done
      PROVE  outbox'[m] # "none"
  <2>1. m \in Messages
    BY <1>2, TypeNext DEF TypeOK
  <2>2. m \in dispatcher[x].todo \union dispatcher[x].done \/ outbox[m] = "waiting"
    <3>1. ASSUME NEW d \in Dispatchers, Dispatching(d)
          PROVE  m \in dispatcher[x].todo \union dispatcher[x].done \/ outbox[m] = "waiting"
      <4>1. CASE DispatchBegin(d)
        <5>1. \A n \in Selected : outbox[n] = "waiting"
          BY DEF Selected
        <5>2. /\ dispatcher'[x].todo = dispatcher[x].todo \/ dispatcher'[x].todo = Selected
              /\ dispatcher'[x].done = dispatcher[x].done
          BY <4>1 DEF DispatchBegin, TypeOK
        <5> QED
          BY <1>2, <5>1, <5>2
      <4>2. CASE ~DispatchBegin(d)
        <5>1. CASE DispatchSend(d)
          <6>1. PICK n \in Messages : n = Min(dispatcher[d].todo) /\ n \in dispatcher[d].todo
            BY <5>1, FirstRow DEF DispatchSend
          <6>2. dispatcher' = [dispatcher EXCEPT ![d].todo = @ \ {n}, ![d].done = @ \union {n}]
            BY <5>1, <6>1 DEF DispatchSend
          <6>3. CASE x = d
            <7>1. /\ dispatcher'[d].todo = dispatcher[d].todo \ {n}
                  /\ dispatcher'[d].done = dispatcher[d].done \union {n}
              BY <6>2 DEF TypeOK
            <7> QED
              BY <1>2, <6>1, <6>3, <7>1
          <6>4. CASE x # d
            <7>1. dispatcher'[x] = dispatcher[x]
              BY <6>2, <6>4 DEF TypeOK
            <7> QED
              BY <1>2, <7>1
          <6> QED
            BY <6>3, <6>4
        <5>2. CASE DispatchSendRaises(d)
          <6>1. /\ dispatcher'[x].todo \subseteq dispatcher[x].todo
                /\ dispatcher'[x].done = dispatcher[x].done
            BY <5>2 DEF DispatchSendRaises, SendFailed, TypeOK
          <6> QED
            BY <1>2, <6>1
        <5>3. CASE DispatchCommit(d) \/ DispatchLost(d)
          <6>1. /\ dispatcher'[x].todo \subseteq dispatcher[x].todo
                /\ dispatcher'[x].done \subseteq dispatcher[x].done
            <7>1. dispatcher' = [dispatcher EXCEPT ![d] = DispatcherIdle]
              BY <5>3 DEF DispatchCommit, DispatchLost
            <7>2. dispatcher'[x] = dispatcher[x] \/ dispatcher'[x] = DispatcherIdle
              BY <7>1 DEF TypeOK
            <7>3. DispatcherIdle.todo = {} /\ DispatcherIdle.done = {}
              BY DEF DispatcherIdle
            <7> QED
              BY <7>2, <7>3
          <6> QED
            BY <1>2, <6>1
        <5> QED
          BY <3>1, <4>2, <5>1, <5>2, <5>3 DEF Dispatching
      <4> QED
        BY <4>1, <4>2
    <3>2. CASE ~(\E d \in Dispatchers : Dispatching(d))
      <4>1. dispatcher' = dispatcher
        BY <3>2 DEF Next, Publish, Consuming, Handling, Recover, Read, HandlerCommits,
                    HandlerRaises, CountAttempt, ParkEntry, Acknowledge, ForgetAttempts, Abandon,
                    GroupStep, outboxVars, vars
      <4> QED
        BY <1>2, <4>1
    <3> QED
      BY <3>1, <3>2
  <2> QED
    BY <1>1, <2>1, <2>2 DEF OnlyPublished
<1>3. ASSUME NEW i \in Ids' PROVE outbox'[stream'[i]] # "none"
  <2>1. CASE i \in Ids
    <3>1. stream[i] \in Messages /\ stream'[i] = stream[i]
      BY <2>1, Growth, ElementOfSeq, LenProperties DEF TypeOK, Ids
    <3> QED
      BY <1>1, <2>1, <3>1 DEF OnlyPublished
  <2>2. CASE i \notin Ids
    <3>1. PICK d \in Dispatchers : Adding(d)
      BY <2>2 DEF Next, Publish, Dispatching, DispatchBegin, DispatchSend, DispatchSendRaises,
                  DispatchCommit, DispatchLost, Consuming, Handling, Recover, Read,
                  HandlerCommits, HandlerRaises, CountAttempt, ParkEntry, Acknowledge,
                  ForgetAttempts, Abandon, GroupStep, outboxVars, groupVars, vars, Ids, Adding
    <3>2. PICK m \in Messages : m = Min(dispatcher[d].todo) /\ m \in dispatcher[d].todo
      BY <3>1, FirstRow DEF Adding
    <3>3. /\ Ids = 1 .. Len(stream) /\ Ids' = 1 .. Len(stream) + 1 /\ Len(stream) \in Nat
          /\ stream'[Len(stream) + 1] = m
      BY <3>1, <3>2, AddedEntry DEF Adding
    <3>4. i = Len(stream) + 1
      BY <2>2, <3>3
    <3> QED
      BY <1>1, <3>2, <3>3, <3>4 DEF OnlyPublished
  <2> QED
    BY <2>1, <2>2
<1> QED
  BY <1>2, <1>3 DEF OnlyPublished

-----------------------------------------------------------------------------
(***************************************************************************)
(* Retries are counted for failures only.                                  *)
(***************************************************************************)

\* Only the handler's failure adds to the failures, and never takes any away.
LEMMA FailuresStay ==
  ASSUME TypeOK, [Next]_vars
  PROVE  \A i \in Ids : /\ failures[i] \in Nat /\ failures'[i] >= failures[i]
                      /\ attempts[i] \in Nat
<1>1. \A i \in Ids : failures[i] \in Nat /\ attempts[i] \in Nat
  BY ElementOfSeq, LenProperties DEF TypeOK, Ids
<1>2. ASSUME NEW d \in Dispatchers, Adding(d) PROVE \A i \in Ids : failures'[i] = failures[i]
  BY <1>2, AddedEntry, FirstRow DEF Adding
<1>3. ASSUME NEW c \in Consumers, HandlerRaises(c)
      PROVE  \A i \in Ids : failures'[i] >= failures[i]
  <2>1. failures' = [failures EXCEPT ![Current(c)] = @ + 1]
    BY <1>3 DEF HandlerRaises
  <2>2. \A i \in Ids : failures'[i] = failures[i] \/ failures'[i] = failures[i] + 1
    BY <2>1, LenProperties DEF TypeOK, Ids
  <2> QED
    BY <1>1, <2>2
<1>4. CASE ~(\E d \in Dispatchers : Adding(d)) /\ ~(\E c \in Consumers : HandlerRaises(c))
  <2>1. failures' = failures
    BY <1>4 DEF Next, Publish, Dispatching, DispatchBegin, DispatchSend, DispatchSendRaises,
                DispatchCommit, DispatchLost, Consuming, Handling, Recover, Read,
                HandlerCommits, CountAttempt, ParkEntry, Acknowledge,
                ForgetAttempts, Abandon, groupVars, vars, Adding
  <2> QED
    BY <1>1, <2>1
<1> QED
  BY <1>1, <1>2, <1>3, <1>4

\* The consumers that have a failure to count are finitely many.
LEMMA CountingIsFinite ==
  ASSUME NEW i
  PROVE  IsFiniteSet(Counting(i)) /\ Cardinality(Counting(i)) \in Nat
<1>1. Counting(i) \in SUBSET Consumers
  BY DEF Counting
<1> QED
  BY <1>1, ConsumersAssumption, FS_Subset, FS_CardinalityType

\* When no consumer has newly seen a failure the account still holds.
LEMMA FewerCounting ==
  ASSUME NEW i, Counting(i)' \subseteq Counting(i)
  PROVE  /\ Cardinality(Counting(i)') <= Cardinality(Counting(i))
         /\ Cardinality(Counting(i)) \in Nat /\ Cardinality(Counting(i)') \in Nat
<1>1. Counting(i)' \in SUBSET Counting(i)
  OBVIOUS
<1>2. IsFiniteSet(Counting(i)) /\ Cardinality(Counting(i)) \in Nat
  BY CountingIsFinite
<1> QED
  BY <1>1, <1>2, FS_Subset, FS_CardinalityType

\* A consumer that stays counts what it counted; one that leaves "count" counts nothing.
LEMMA CountingChange ==
  ASSUME TypeOK, NEW c \in Consumers, Consuming(c), ~HandlerRaises(c), NEW i
  PROVE  Counting(i)' \subseteq Counting(i) \ {c}
<1>0. {"handle", "count", "park", "ack", "forget"} \subseteq Steps
  BY DEF Steps
<1>1. ~At(c, "count")'
  <2>1. CASE HandlerCommits(c) \/ ParkEntry(c) \/ Acknowledge(c)
    BY <1>0, <2>1, WentTo DEF HandlerCommits, ParkEntry, Acknowledge, At
  <2>2. CASE CountAttempt(c)
    <3>1. NextEntry(c) \/ GoTo(c, "park")
      BY <2>2 DEF CountAttempt
    <3> QED
      BY <1>0, <2>2, <3>1, WentTo, BeganAgain DEF CountAttempt, At
  <2>3. CASE ForgetAttempts(c) \/ Abandon(c) \/ Read(c) \/ \E ids \in SUBSET pending : Recover(c, ids)
    <3>1. \A x \in Steps \ {"handle"} : ~At(c, x)'
      BY <2>3, BeganAgain DEF ForgetAttempts
    <3> QED
      BY <1>0, <3>1
  <2> QED
    BY <2>1, <2>2, <2>3 DEF Consuming, Handling
<1>2. ASSUME NEW x \in Consumers, x # c
      PROVE  (At(x, "count") /\ Current(x) = i)' => At(x, "count") /\ Current(x) = i
  BY <1>2, OthersStay, StaysAt
<1> QED
  BY <1>1, <1>2 DEF Counting

LEMMA CountedNext == Inv /\ [Next]_vars => FailuresAreCounted'
<1> SUFFICES ASSUME TypeOK, FailuresAreCounted, [Next]_vars, NEW i \in Ids'
             PROVE  attempts'[i] + Cardinality(Counting(i)') <= failures'[i]
  BY DEF Inv, FailuresAreCounted
<1>0. /\ \A n \in Ids : failures[n] \in Nat /\ attempts[n] \in Nat
      /\ \A n \in Ids : attempts[n] + Cardinality(Counting(n)) <= failures[n]
  BY FailuresStay DEF FailuresAreCounted
<1>1. CASE \E c \in Consumers : HandlerRaises(c)
  <2>1. PICK c \in Consumers : HandlerRaises(c)
    BY <1>1
  <2>2. PICK k \in Ids : k = Current(c)
    BY <2>1, CurrentEntry DEF HandlerRaises, At
  <2>3. /\ failures' = [failures EXCEPT ![k] = @ + 1] /\ attempts' = attempts /\ Ids' = Ids
        /\ At(c, "handle") /\ GoTo(c, "count")
    BY <2>1, <2>2 DEF HandlerRaises, GroupStep, Ids
  <2>4. failures'[i] = IF i = k THEN failures[k] + 1 ELSE failures[i]
    BY <2>3, LenProperties DEF TypeOK, Ids
  <2>5. Counting(i)' = IF i = k THEN Counting(i) \union {c} ELSE Counting(i)
    <3>1. "count" \in Steps
      BY DEF Steps
    <3>2. At(c, "count")' /\ Current(c)' = k
      BY <2>2, <2>3, <3>1, WentTo DEF At
    <3>3. ~At(c, "count")
      BY <2>3 DEF At
    <3>4. \A x \in Consumers : x # c => (At(x, "count")' <=> At(x, "count")) /\ Current(x)' = Current(x)
      BY <2>1, OthersStay, StaysAt DEF Consuming, Handling
    <3> QED
      BY <3>2, <3>3, <3>4 DEF Counting
  <2>6. /\ IsFiniteSet(Counting(i)) /\ Cardinality(Counting(i)) \in Nat
    BY CountingIsFinite
  <2>7. CASE i = k
    <3>1. /\ Cardinality(Counting(i)') <= Cardinality(Counting(i)) + 1
          /\ Cardinality(Counting(i)') \in Nat
      <4> DEFINE S == Counting(i)
      <4>1. Counting(i)' = S \union {c}
        BY <2>5, <2>7
      <4>2. IsFiniteSet(S) /\ Cardinality(S) \in Nat
        BY <2>6
      <4> HIDE DEF S
      <4>3. /\ IsFiniteSet(S \union {c})
            /\ Cardinality(S \union {c}) = IF c \in S THEN Cardinality(S) ELSE Cardinality(S) + 1
        BY <4>2, FS_AddElement
      <4>4. Cardinality(S \union {c}) <= Cardinality(S) + 1 /\ Cardinality(S \union {c}) \in Nat
        BY <4>2, <4>3
      <4> QED
        BY <4>1, <4>4 DEF S
    <3> QED
      BY <1>0, <2>3, <2>4, <2>6, <2>7, <3>1
  <2>8. CASE i # k
    BY <1>0, <2>3, <2>4, <2>5, <2>8
  <2> QED
    BY <2>7, <2>8
<1>2. CASE \E c \in Consumers : CountAttempt(c)
  <2>1. PICK c \in Consumers : CountAttempt(c)
    BY <1>2
  <2>2. PICK k \in Ids : k = Current(c)
    BY <2>1, CurrentEntry DEF CountAttempt, At
  <2>3. /\ attempts' = [attempts EXCEPT ![k] = @ + 1] /\ failures' = failures /\ Ids' = Ids
        /\ At(c, "count")
    BY <2>1, <2>2 DEF CountAttempt, GroupStep, Ids
  <2>4. attempts'[i] = IF i = k THEN attempts[k] + 1 ELSE attempts[i]
    BY <2>3, LenProperties DEF TypeOK, Ids
  <2>5. ~HandlerRaises(c)
    BY <2>3 DEF HandlerRaises, At
  <2>6. Counting(i)' \subseteq Counting(i) \ {c}
    BY <2>1, <2>5, CountingChange DEF Consuming, Handling
  <2>7. i = k => c \in Counting(i)
    BY <2>2, <2>3 DEF Counting
  <2>8. /\ IsFiniteSet(Counting(i)) /\ Cardinality(Counting(i)) \in Nat
    BY CountingIsFinite
  <2>9. /\ IsFiniteSet(Counting(i) \ {c})
        /\ Cardinality(Counting(i) \ {c}) =
             IF c \in Counting(i) THEN Cardinality(Counting(i)) - 1 ELSE Cardinality(Counting(i))
    BY <2>8, FS_RemoveElement
  <2>10. Cardinality(Counting(i)') <= Cardinality(Counting(i) \ {c})
         /\ Cardinality(Counting(i)') \in Nat
    <3>1. Counting(i)' \in SUBSET (Counting(i) \ {c})
      BY <2>6
    <3> QED
      BY <3>1, <2>9, FS_Subset, FS_CardinalityType
  <2> QED
    BY <1>0, <2>3, <2>4, <2>7, <2>8, <2>9, <2>10
<1>3. CASE \E c \in Consumers : Consuming(c) /\ ~HandlerRaises(c) /\ ~CountAttempt(c)
  <2>1. PICK c \in Consumers : Consuming(c) /\ ~HandlerRaises(c) /\ ~CountAttempt(c)
    BY <1>3
  <2>2. Counting(i)' \subseteq Counting(i)
    BY <2>1, CountingChange
  <2>3. failures' = failures /\ Ids' = Ids
    BY <2>1 DEF Consuming, Handling, Recover, Read, HandlerCommits, ParkEntry, Acknowledge,
                ForgetAttempts, Abandon, GroupStep, Ids
  <2>4. attempts'[i] <= attempts[i] /\ attempts'[i] \in Nat
    <3>1. CASE ForgetAttempts(c)
      <4>1. attempts' = [attempts EXCEPT ![Current(c)] = 0]
        BY <3>1 DEF ForgetAttempts
      <4>2. attempts'[i] = attempts[i] \/ attempts'[i] = 0
        BY <2>3, <4>1, LenProperties DEF TypeOK, Ids
      <4> QED
        BY <1>0, <2>3, <4>2
    <3>2. CASE ~ForgetAttempts(c)
      <4>1. attempts' = attempts
        BY <2>1, <3>2 DEF Consuming, Handling, Recover, Read, HandlerCommits, ParkEntry,
                          Acknowledge, Abandon
      <4> QED
        BY <1>0, <2>3, <4>1
    <3> QED
      BY <3>1, <3>2
  <2>5. /\ Cardinality(Counting(i)') <= Cardinality(Counting(i))
        /\ Cardinality(Counting(i)) \in Nat /\ Cardinality(Counting(i)') \in Nat
    BY <2>2, FewerCounting
  <2> QED
    BY <1>0, <2>3, <2>4, <2>5
<1>4. CASE ~(\E c \in Consumers : Consuming(c))
  <2>1. \A x \in Consumers : Stays(x)
    BY <1>4, AllStay
  <2>2. Counting(i)' = Counting(i)
    BY <2>1, StaysAt DEF Counting
  <2>3. CASE i \in Ids
    <3>1. attempts'[i] = attempts[i]
      <4>1. ASSUME NEW d \in Dispatchers, Adding(d) PROVE attempts'[i] = attempts[i]
        BY <2>3, <4>1, AddedEntry, FirstRow DEF Adding
      <4>2. CASE ~(\E d \in Dispatchers : Adding(d))
        BY <1>4, <4>2 DEF Next, Publish, Dispatching, DispatchBegin, DispatchSend,
                          DispatchSendRaises, DispatchCommit, DispatchLost, groupVars, vars, Adding
      <4> QED
        BY <4>1, <4>2
    <3>2. failures'[i] >= failures[i] /\ failures'[i] \in Nat
      <4>1. failures'[i] >= failures[i]
        BY <2>3, FailuresStay
      <4>2. failures'[i] \in Nat
        BY TypeNext, ElementOfSeq, LenProperties DEF TypeOK, Ids
      <4> QED
        BY <4>1, <4>2
    <3>3. Cardinality(Counting(i)) \in Nat
      BY CountingIsFinite
    <3> QED
      BY <1>0, <2>2, <2>3, <3>1, <3>2, <3>3
  <2>4. CASE i \notin Ids
    <3>1. PICK d \in Dispatchers : Adding(d)
      BY <1>4, <2>4 DEF Next, Publish, Dispatching, DispatchBegin, DispatchSend,
                        DispatchSendRaises, DispatchCommit, DispatchLost, groupVars, vars, Ids,
                        Adding
    <3>2. /\ Ids = 1 .. Len(stream) /\ Ids' = 1 .. Len(stream) + 1 /\ Len(stream) \in Nat
          /\ attempts'[Len(stream) + 1] = 0 /\ failures'[Len(stream) + 1] = 0
      BY <3>1, AddedEntry, FirstRow DEF Adding
    <3>3. i = Len(stream) + 1
      BY <2>4, <3>2
    <3>4. Counting(i) = {}
      BY <2>4, CurrentEntry DEF Counting, At
    <3>5. Cardinality(Counting(i)') = 0
      BY <2>2, <3>4, FS_EmptySet
    <3>6. attempts'[i] = 0 /\ failures'[i] = 0
      BY <3>2, <3>3
    <3> QED
      BY <3>5, <3>6
  <2> QED
    BY <2>3, <2>4
<1> QED
  BY <1>1, <1>2, <1>3, <1>4

\* The counter is above MaxRetries only if the handler failed that often.
LEMMA ParksNext == Inv /\ [Next]_vars => ParksAfterRetries' /\ ParkedAfterRetries'
<1> SUFFICES ASSUME TypeOK, FailuresAreCounted, ParksAfterRetries, ParkedAfterRetries, [Next]_vars
             PROVE  ParksAfterRetries' /\ ParkedAfterRetries'
  BY DEF Inv
<1>0. \A i \in Ids : failures[i] \in Nat /\ failures'[i] >= failures[i] /\ attempts[i] \in Nat
  BY FailuresStay
<1>a. MaxRetries \in Nat
  BY RetriesAssumption
<1>b. \A i \in Ids : failures'[i] \in Nat
  <2>1. \A i \in Ids' : failures'[i] \in Nat
    BY TypeNext, ElementOfSeq, LenProperties DEF TypeOK, Ids
  <2> QED
    BY <2>1, Growth
<1>1. ASSUME NEW x \in Consumers, Stays(x), At(x, "park")'
      PROVE  (failures[Current(x)] > MaxRetries)'
  <2>1. PICK k \in Ids : k = Current(x)
    BY <1>1, StaysAt, CurrentEntry DEF At
  <2>2. At(x, "park") /\ Current(x)' = k
    BY <1>1, <2>1, StaysAt
  <2>3. failures[k] > MaxRetries
    BY <2>1, <2>2 DEF ParksAfterRetries
  <2>4. failures'[k] > MaxRetries
    BY <1>0, <1>a, <1>b, <2>3
  <2> QED
    BY <2>2, <2>4
<1>2. ASSUME NEW c \in Consumers, Consuming(c), At(c, "park")'
      PROVE  (failures[Current(c)] > MaxRetries)'
  <2>0. {"handle", "count", "park", "ack", "forget"} \subseteq Steps
    BY DEF Steps
  <2>1. CountAttempt(c)
    <3>1. CASE HandlerCommits(c) \/ HandlerRaises(c) \/ ParkEntry(c) \/ Acknowledge(c)
      BY <1>2, <2>0, <3>1, WentTo DEF HandlerCommits, HandlerRaises, ParkEntry, Acknowledge, At
    <3>2. CASE ForgetAttempts(c) \/ Abandon(c) \/ Read(c) \/ \E ids \in SUBSET pending : Recover(c, ids)
      <4>1. \A x \in Steps \ {"handle"} : ~At(c, x)'
        BY <3>2, BeganAgain DEF ForgetAttempts
      <4> QED
        BY <1>2, <2>0, <4>1
    <3> QED
      BY <1>2, <3>1, <3>2 DEF Consuming, Handling
  <2>2. PICK k \in Ids : k = Current(c)
    BY <2>1, CurrentEntry DEF CountAttempt, At
  <2>3. ~Retried(attempts[k] + 1)
    <3>1. CASE NextEntry(c)
      BY <1>2, <2>0, <3>1, BeganAgain
    <3> QED
      BY <2>1, <2>2, <3>1 DEF CountAttempt
  <2>4. Current(c)' = k
    <3>1. GoTo(c, "park")
      BY <2>1, <2>2, <2>3 DEF CountAttempt
    <3> QED
      BY <2>0, <2>1, <2>2, <3>1, WentTo DEF CountAttempt, At
  <2>5. /\ IsFiniteSet(Counting(k)) /\ Cardinality(Counting(k)) \in Nat /\ c \in Counting(k)
    BY <2>1, <2>2, CountingIsFinite DEF CountAttempt, Counting
  <2>6. Cardinality(Counting(k)) >= 1
    BY <2>5, FS_EmptySet
  <2>7. attempts[k] + Cardinality(Counting(k)) <= failures[k]
    BY DEF FailuresAreCounted
  <2>8. attempts[k] + 1 > MaxRetries
    BY <1>0, <1>a, <2>3 DEF Retried
  <2>9. failures[k] > MaxRetries
    BY <1>0, <1>a, <2>5, <2>6, <2>7, <2>8
  <2>10. failures'[k] > MaxRetries
    BY <1>0, <1>a, <1>b, <2>9
  <2> QED
    BY <2>4, <2>10
<1>3. ASSUME NEW x \in Consumers PROVE Stays(x) \/ Consuming(x)
  BY AllStay, OthersStay
<1>4. ParksAfterRetries'
  BY <1>1, <1>2, <1>3 DEF ParksAfterRetries
<1>5. ASSUME NEW i \in parked' PROVE failures'[i] > MaxRetries
  <2>1. i \in Ids /\ failures[i] > MaxRetries
    <3>1. CASE i \in parked
      <4>1. cursor \in 0 .. Len(stream) /\ i \in 1 .. cursor /\ Len(stream) \in Nat
        BY <3>1, LenProperties DEF TypeOK
      <4>2. i \in 1 .. Len(stream)
        BY <4>1
      <4> QED
        BY <3>1, <4>2, LenProperties DEF ParkedAfterRetries, Ids, TypeOK
    <3>2. CASE i \notin parked
      <4>1. PICK c \in Consumers : ParkEntry(c)
        BY <1>5, <3>2 DEF Next, Publish, Dispatching, DispatchBegin, DispatchSend,
                          DispatchSendRaises, DispatchCommit, DispatchLost, Add, Consuming,
                          Handling, Recover, Read, HandlerCommits, HandlerRaises, CountAttempt,
                          Acknowledge, ForgetAttempts, Abandon, groupVars, vars
      <4>2. i = Current(c) /\ At(c, "park")
        BY <1>5, <3>2, <4>1 DEF ParkEntry
      <4> QED
        BY <4>2, CurrentEntry DEF ParksAfterRetries, At
    <3> QED
      BY <3>1, <3>2
  <2> QED
    BY <1>0, <1>a, <1>b, <2>1
<1> QED
  BY <1>4, <1>5 DEF ParkedAfterRetries

-----------------------------------------------------------------------------
\* The parts of the invariant hold in every reachable state.
THEOREM InvHolds == Spec => []Inv
<1>1. Inv /\ [Next]_vars => Inv'
  <2> SUFFICES ASSUME Inv, [Next]_vars PROVE Inv'
    OBVIOUS
  <2>1. TypeOK'
    BY TypeNext DEF Inv
  <2>2. SentIsSafe' /\ AcknowledgedIsSafe' /\ OnlyPublished'
    BY SentNext, AckNext, PublishedNext
  <2>3. FailuresAreCounted' /\ ParksAfterRetries' /\ ParkedAfterRetries'
    BY CountedNext, ParksNext
  <2> QED
    BY <2>1, <2>2, <2>3 DEF Inv
<1> QED
  BY InitInv, <1>1, PTL DEF Spec

\* Every variable keeps its type; an entry is pending or parked only once it was read.
THEOREM TypeCorrect == Spec => []TypeOK
BY InvHolds, PTL DEF Inv

\* A published message is waiting, in the stream, handled or parked, through every
\* crash of the dispatcher and the consumer.
THEOREM MessagesAreNotLost == Spec => []NothingLost
<1>1. Inv => NothingLost
  <2> SUFFICES ASSUME Inv, NEW m \in Messages, outbox[m] \notin {"none", "waiting"}
               PROVE  HasEntry(m)
    BY DEF NothingLost, HasEntry
  <2>1. outbox[m] = "dispatched"
    BY DEF Inv, TypeOK
  <2> QED
    BY <2>1 DEF Inv, SentIsSafe
<1> QED
  BY <1>1, InvHolds, PTL

\* No entry is parked before its handler failed MaxRetries + 1 times, however many
\* consumers share its counter.
THEOREM ParkedOnlyAfterRetries == Spec => []ParkedAfterRetries
BY InvHolds, PTL DEF Inv

-----------------------------------------------------------------------------
(***************************************************************************)
(* Delivery implements AtLeastOnce: what its handler sees and what is      *)
(* parked was published.  That it arrives, in the end, is for TLC.         *)
(***************************************************************************)

Sent == {m \in Messages : outbox[m] # "none"}
ParkedMessages == {stream[i] : i \in parked}

\* Every parked id is that of an entry.
LEMMA ParkedExist == TypeOK => parked \subseteq Ids
<1> SUFFICES ASSUME TypeOK, NEW i \in parked PROVE i \in Ids
  OBVIOUS
<1>1. cursor \in 0 .. Len(stream) /\ i \in 1 .. cursor /\ Len(stream) \in Nat
  BY LenProperties DEF TypeOK
<1>2. i \in 1 .. Len(stream)
  BY <1>1
<1> QED
  BY <1>2, LenProperties DEF TypeOK, Ids

LEMMA ChannelStep ==
  ASSUME Inv, [Next]_vars
  PROVE  \/ \E m \in Messages :
              \/ /\ m \notin Sent /\ Sent' = Sent \union {m}
                 /\ handled' = handled /\ ParkedMessages' = ParkedMessages
              \/ /\ m \in Sent /\ Sent' = Sent
                 /\ handled' = handled \union {m} /\ ParkedMessages' = ParkedMessages
              \/ /\ m \in Sent /\ Sent' = Sent
                 /\ handled' = handled /\ ParkedMessages' = ParkedMessages \union {m}
         \/ Sent' = Sent /\ handled' = handled /\ ParkedMessages' = ParkedMessages
<1>0. TypeOK /\ OnlyPublished /\ TypeOK' /\ parked \subseteq Ids
  BY TypeNext, ParkedExist DEF Inv
<1>1. \A i \in Ids : stream'[i] = stream[i] /\ stream[i] \in Messages
  <2>1. \A i \in Ids : stream'[i] = stream[i]
    BY <1>0, Growth
  <2>2. stream \in Seq(Messages) /\ Ids = 1 .. Len(stream)
    BY <1>0, LenProperties DEF TypeOK, Ids
  <2>3. \A i \in Ids : stream[i] \in Messages
    BY <2>2, ElementOfSeq
  <2> QED
    BY <2>1, <2>3
<1>2. parked' = parked => ParkedMessages' = ParkedMessages
  BY <1>0, <1>1 DEF ParkedMessages
<1>3. ASSUME NEW m \in Messages, Publish(m)
      PROVE  /\ m \notin Sent /\ Sent' = Sent \union {m}
             /\ handled' = handled /\ ParkedMessages' = ParkedMessages
  <2>1. handled' = handled /\ parked' = parked
    BY <1>3 DEF Publish, groupVars
  <2>2. outbox[m] = "none" /\ \A n \in Messages : outbox'[n] = IF n = m THEN "waiting" ELSE outbox[n]
    BY <1>0, <1>3 DEF Publish, TypeOK
  <2>3. Sent' = Sent \union {m} /\ m \notin Sent
    BY <2>2 DEF Sent
  <2> QED
    BY <1>2, <2>1, <2>3
<1>4. ASSUME NEW c \in Consumers, HandlerCommits(c)
      PROVE  \E m \in Messages : /\ m \in Sent /\ Sent' = Sent
                               /\ handled' = handled \union {m} /\ ParkedMessages' = ParkedMessages
  <2>1. Current(c) \in Ids
    BY <1>0, <1>4, CurrentEntry DEF HandlerCommits, At
  <2>2. stream[Current(c)] \in Sent
    BY <1>0, <1>1, <2>1 DEF OnlyPublished, Sent
  <2>3. Sent' = Sent /\ parked' = parked /\ handled' = handled \union {stream[Current(c)]}
    BY <1>4 DEF HandlerCommits, GroupStep, outboxVars, Sent
  <2> QED
    BY <1>1, <1>2, <2>1, <2>2, <2>3
<1>5. ASSUME NEW c \in Consumers, ParkEntry(c)
      PROVE  \E m \in Messages : /\ m \in Sent /\ Sent' = Sent
                               /\ handled' = handled /\ ParkedMessages' = ParkedMessages \union {m}
  <2>1. PICK k \in Ids : k = Current(c)
    BY <1>0, <1>5, CurrentEntry DEF ParkEntry, At
  <2>2. stream[k] \in Sent
    BY <1>0, <1>1, <2>1 DEF OnlyPublished, Sent
  <2>3. Sent' = Sent /\ handled' = handled /\ parked' = parked \union {k} /\ stream' = stream
    BY <1>5, <2>1 DEF ParkEntry, GroupStep, outboxVars, Sent
  <2>4. ParkedMessages' = ParkedMessages \union {stream[k]}
    BY <2>3 DEF ParkedMessages
  <2> QED
    BY <1>1, <2>1, <2>2, <2>3, <2>4
<1>6. CASE ~(\/ \E m \in Messages : Publish(m)
             \/ \E c \in Consumers : HandlerCommits(c) \/ ParkEntry(c))
  <2>1. handled' = handled /\ parked' = parked
    BY <1>6 DEF Next, Dispatching, DispatchBegin, DispatchSend, DispatchSendRaises,
                DispatchCommit, DispatchLost, Add, Consuming, Handling, Recover, Read,
                HandlerRaises, CountAttempt, Acknowledge, ForgetAttempts, Abandon, groupVars, vars
  <2>2. Sent \subseteq Sent'
    BY <1>0, PublishedStays DEF Sent
  <2>3. Sent' \subseteq Sent
    <3>1. ASSUME NEW d \in Dispatchers, DispatchCommit(d), NEW m \in Sent' PROVE m \in Sent
      <4>1. CASE m \in dispatcher[d].done
        BY <1>0, <3>1, <4>1 DEF OnlyPublished, Sent
      <4>2. CASE m \notin dispatcher[d].done
        BY <3>1, <4>2 DEF DispatchCommit, Sent
      <4> QED
        BY <4>1, <4>2
    <3>2. CASE ~(\E d \in Dispatchers : DispatchCommit(d))
      <4>1. outbox' = outbox
        BY <1>6, <3>2 DEF Next, Dispatching, DispatchBegin, DispatchSend, DispatchSendRaises,
                    DispatchLost, Consuming, Handling, Recover, Read, HandlerRaises,
                    CountAttempt, Acknowledge, ForgetAttempts, Abandon, GroupStep, outboxVars, vars
      <4> QED
        BY <4>1 DEF Sent
    <3> QED
      BY <3>1, <3>2
  <2> QED
    BY <1>2, <2>1, <2>2, <2>3
<1> QED
  BY <1>3, <1>4, <1>5, <1>6

\* Every behaviour of Delivery is one of AtLeastOnce: publish, handle and park are its
\* steps, everything between them is invisible.
THEOREM Refinement == Spec => Channel!Spec
<1>1. Init => Channel!Init
  BY DEF Init, Channel!Init
<1>2. Inv /\ [Next]_vars => [Channel!Next]_Channel!vars
  <2> SUFFICES ASSUME Inv, [Next]_vars PROVE [Channel!Next]_Channel!vars
    OBVIOUS
  <2> QED
    BY ChannelStep DEF Channel!Next, Channel!Send, Channel!Deliver, Channel!Park, Channel!vars,
                       Sent, ParkedMessages
<1> QED
  BY <1>1, <1>2, InvHolds, PTL DEF Spec, Channel!Spec

=============================================================================

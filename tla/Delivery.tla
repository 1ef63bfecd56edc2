------------------------------- MODULE Delivery -------------------------------
(***************************************************************************)
(* How a domain event or a command result travels inside the backend: the  *)
(* outbox row written with the data, the OutboxDispatcher that copies rows *)
(* to a Redis stream, the stream with its one consumer group, and the      *)
(* RedisStreamConsumer that calls the handler, retries and parks.          *)
(*                                                                         *)
(* Several backend processes may run (replicas, or the old and the new one *)
(* of a deployment); all of them use the same group and consumer name.     *)
(* Time is left out: an entry may be idle long enough to be claimed while  *)
(* its handler, or the batch it waits in, is still at work.                *)
(***************************************************************************)
EXTENDS Integers, Sequences, FiniteSets, FiniteSetsExt

CONSTANTS
  Messages,     \* message numbers; their order is that of created_at
  Dispatchers,  \* running OutboxDispatcher tasks
  Consumers,    \* running RedisStreamConsumer tasks of the group
  Limit,        \* rows a dispatcher selects (20 in the code)
  Count,        \* entries a consumer reads or claims at once (10 in the code)
  MaxRetries,   \* failures that are retried (3 in the code)
  MaxFaults     \* bound: crashes, failed commits and Redis errors

ASSUME MessagesAssumption == Messages \subseteq Nat
ASSUME ConsumersAssumption == IsFiniteSet(Consumers)
ASSUME LimitAssumption == Limit \in Nat \ {0} /\ Count \in Nat \ {0}
ASSUME RetriesAssumption == MaxRetries \in Nat /\ MaxFaults \in Nat

VARIABLES
  outbox,      \* by message: "none", "waiting" or "dispatched"
  dispatcher,  \* by dispatcher: [todo, done], the rows its transaction locks
  stream,      \* the entries ever added; an entry's id is its position
  cursor,      \* last id delivered to the group
  pending,     \* ids delivered and not acknowledged
  attempts,    \* by id: the attempt counter key, 0 when there is none
  consumer,    \* by consumer: [turn, inbox, step]
  handled,     \* messages whose handler has committed
  parked,      \* ids copied to the dead-letter stream
  failures,    \* by id: how often its handler failed
  faults

vars == << outbox, dispatcher, stream, cursor, pending, attempts, consumer,
           handled, parked, failures, faults >>

outboxVars == << outbox, dispatcher >>
groupVars == << cursor, pending, attempts, consumer, handled, parked, failures >>

Ids == DOMAIN stream

DispatcherIdle == [todo |-> {}, done |-> {}]
ConsumerFresh == [turn |-> "recover", inbox |-> {}, step |-> "handle"]

Steps == {"handle", "count", "park", "ack", "forget"}

TypeOK ==
  /\ outbox \in [Messages -> {"none", "waiting", "dispatched"}]
  /\ dispatcher \in [Dispatchers -> [todo : SUBSET Messages, done : SUBSET Messages]]
  /\ stream \in Seq(Messages)
  /\ cursor \in 0 .. Len(stream)
  /\ pending \subseteq 1 .. cursor
  /\ attempts \in Seq(Nat) /\ Len(attempts) = Len(stream)
  /\ consumer \in [Consumers -> [turn : {"recover", "read"},
                                 inbox : SUBSET (1 .. cursor),
                                 step : Steps]]
  /\ handled \subseteq Messages
  /\ parked \subseteq 1 .. cursor
  /\ failures \in Seq(Nat) /\ Len(failures) = Len(stream)
  /\ faults \in 0 .. MaxFaults

Init ==
  /\ outbox = [m \in Messages |-> "none"]
  /\ dispatcher = [d \in Dispatchers |-> DispatcherIdle]
  /\ stream = << >>
  /\ cursor = 0
  /\ pending = {}
  /\ attempts = << >>
  /\ consumer = [c \in Consumers |-> ConsumerFresh]
  /\ handled = {}
  /\ parked = {}
  /\ failures = << >>
  /\ faults = 0

Fault == faults < MaxFaults /\ faults' = faults + 1

-----------------------------------------------------------------------------
(***************************************************************************)
(* The outbox and its dispatcher.                                          *)
(***************************************************************************)

\* TransactionalOutboxBus adds the row; it exists when the caller commits.
Publish(m) ==
  /\ outbox[m] = "none"
  /\ outbox' = [outbox EXCEPT ![m] = "waiting"]
  /\ UNCHANGED << dispatcher, stream, groupVars, faults >>

Locked == UNION {dispatcher[d].todo \union dispatcher[d].done : d \in Dispatchers}

\* The first rows that wait and are not locked, SKIP LOCKED.
Selected ==
  LET free == {m \in Messages : outbox[m] = "waiting"} \ Locked
  IN  {m \in free : Cardinality({n \in free : n < m}) < Limit}

DispatchBegin(d) ==
  /\ dispatcher[d] = DispatcherIdle
  /\ Selected # {}
  /\ dispatcher' = [dispatcher EXCEPT ![d].todo = Selected]
  /\ UNCHANGED << outbox, stream, groupVars, faults >>

\* XADD: a new entry at the end of the stream.
Add(m) ==
  /\ stream' = Append(stream, m)
  /\ attempts' = Append(attempts, 0)
  /\ failures' = Append(failures, 0)
  /\ UNCHANGED << cursor, pending, consumer, handled, parked >>

DispatchSend(d) ==
  /\ dispatcher[d].todo # {}
  /\ LET m == Min(dispatcher[d].todo)
     IN  /\ Add(m)
         /\ dispatcher' = [dispatcher EXCEPT ![d].todo = @ \ {m}, ![d].done = @ \union {m}]
  /\ UNCHANGED << outbox, faults >>

\* Mutant of SendFailed: the row is taken for dispatched although XADD raised.
SendFailedDispatched(d, m) ==
  [dispatcher EXCEPT ![d].todo = @ \ {m}, ![d].done = @ \union {m}]

\* The row stays waiting and the dispatcher goes on with the next one.
SendFailed(d, m) == [dispatcher EXCEPT ![d].todo = @ \ {m}]

\* XADD raises RedisError, whether or not Redis has added the entry.
DispatchSendRaises(d) ==
  /\ Fault
  /\ dispatcher[d].todo # {}
  /\ LET m == Min(dispatcher[d].todo)
     IN  /\ Add(m) \/ UNCHANGED << stream, groupVars >>
         /\ dispatcher' = SendFailed(d, m)
  /\ UNCHANGED outbox

\* The transaction commits dispatched_at of the rows that were sent.
DispatchCommit(d) ==
  /\ dispatcher[d].todo = {}
  /\ dispatcher[d].done # {}
  /\ outbox' = [m \in Messages |-> IF m \in dispatcher[d].done THEN "dispatched" ELSE outbox[m]]
  /\ dispatcher' = [dispatcher EXCEPT ![d] = DispatcherIdle]
  /\ UNCHANGED << stream, groupVars, faults >>

\* The process stops, or the transaction fails: what was sent is sent again.
DispatchLost(d) ==
  /\ Fault
  /\ dispatcher[d] # DispatcherIdle
  /\ dispatcher' = [dispatcher EXCEPT ![d] = DispatcherIdle]
  /\ UNCHANGED << outbox, stream, groupVars >>

-----------------------------------------------------------------------------
(***************************************************************************)
(* The consumer: recover_stale, xreadgroup, and handle for every entry.    *)
(***************************************************************************)

GroupStep == UNCHANGED << outboxVars, stream >>

Other(turn) == IF turn = "recover" THEN "read" ELSE "recover"

AtTurn(c, turn) == consumer[c].turn = turn /\ consumer[c].inbox = {}

Fetched(c, ids) ==
  consumer' = [consumer EXCEPT ![c] = [turn |-> Other(@.turn), inbox |-> ids, step |-> "handle"]]

\* Mutant of Claimable: no entry ever counts as stale.
ClaimableNever(ids) == ids = {}

Claimable(ids) == ids \subseteq pending /\ Cardinality(ids) <= Count

\* XAUTOCLAIM: at most Count of the pending entries that are idle long enough;
\* which ones are is a matter of time.
Recover(c, ids) ==
  /\ AtTurn(c, "recover")
  /\ Claimable(ids)
  /\ Fetched(c, ids)
  /\ UNCHANGED << cursor, pending, attempts, handled, parked, failures, faults >>
  /\ GroupStep

LastRead == Min({cursor + Count, Len(stream)})

\* XREADGROUP: the next new entries, which become pending.
Read(c) ==
  /\ AtTurn(c, "read")
  /\ Fetched(c, cursor + 1 .. LastRead)
  /\ cursor' = LastRead
  /\ pending' = pending \union (cursor + 1 .. LastRead)
  /\ UNCHANGED << attempts, handled, parked, failures, faults >>
  /\ GroupStep

\* handle() is at this step of the first entry of its batch.
Current(c) == Min(consumer[c].inbox)
At(c, step) == consumer[c].inbox # {} /\ consumer[c].step = step

GoTo(c, step) == consumer' = [consumer EXCEPT ![c].step = step]

NextEntry(c) ==
  consumer' = [consumer EXCEPT ![c].inbox = @ \ {Current(c)}, ![c].step = "handle"]

HandlerCommits(c) ==
  /\ At(c, "handle")
  /\ handled' = handled \union {stream[Current(c)]}
  /\ GoTo(c, "ack")
  /\ UNCHANGED << cursor, pending, attempts, parked, failures, faults >>
  /\ GroupStep

HandlerRaises(c) ==
  /\ At(c, "handle")
  /\ failures' = [failures EXCEPT ![Current(c)] = @ + 1]
  /\ GoTo(c, "count")
  /\ UNCHANGED << cursor, pending, attempts, handled, parked, faults >>
  /\ GroupStep

\* Mutant of Retried: the last retry is not made.
RetriedOnceLess(n) == n < MaxRetries

Retried(n) == n <= MaxRetries

\* INCR of the attempt counter; a retried entry simply stays pending.
CountAttempt(c) ==
  /\ At(c, "count")
  /\ attempts' = [attempts EXCEPT ![Current(c)] = @ + 1]
  /\ IF Retried(attempts[Current(c)] + 1) THEN NextEntry(c) ELSE GoTo(c, "park")
  /\ UNCHANGED << cursor, pending, handled, parked, failures, faults >>
  /\ GroupStep

ParkEntry(c) ==
  /\ At(c, "park")
  /\ parked' = parked \union {Current(c)}
  /\ GoTo(c, "ack")
  /\ UNCHANGED << cursor, pending, attempts, handled, failures, faults >>
  /\ GroupStep

Acknowledge(c) ==
  /\ At(c, "ack")
  /\ pending' = pending \ {Current(c)}
  /\ GoTo(c, "forget")
  /\ UNCHANGED << cursor, attempts, handled, parked, failures, faults >>
  /\ GroupStep

ForgetAttempts(c) ==
  /\ At(c, "forget")
  /\ attempts' = [attempts EXCEPT ![Current(c)] = 0]
  /\ NextEntry(c)
  /\ UNCHANGED << cursor, pending, handled, parked, failures, faults >>
  /\ GroupStep

\* A Redis command raises, or the process stops: the batch is forgotten, its
\* unacknowledged entries stay pending, and the loop starts from the top.
Abandon(c) ==
  /\ Fault
  /\ consumer[c] # ConsumerFresh
  /\ consumer' = [consumer EXCEPT ![c] = ConsumerFresh]
  /\ UNCHANGED << cursor, pending, attempts, handled, parked, failures >>
  /\ GroupStep

-----------------------------------------------------------------------------
Dispatching(d) ==
  \/ DispatchBegin(d)
  \/ DispatchSend(d)
  \/ DispatchSendRaises(d)
  \/ DispatchCommit(d)
  \/ DispatchLost(d)

\* Everything handle() may do next, for the entry the consumer is at.
Handling(c) ==
  \/ HandlerCommits(c)
  \/ HandlerRaises(c)
  \/ CountAttempt(c)
  \/ ParkEntry(c)
  \/ Acknowledge(c)
  \/ ForgetAttempts(c)

Consuming(c) ==
  \/ \E ids \in SUBSET pending : Recover(c, ids)
  \/ Read(c)
  \/ Handling(c)
  \/ Abandon(c)

Next ==
  \/ \E m \in Messages : Publish(m)
  \/ \E d \in Dispatchers : Dispatching(d)
  \/ \E c \in Consumers : Consuming(c)

Spec == Init /\ [][Next]_vars

(***************************************************************************)
(* Fairness: both tasks are endless loops that catch every exception and   *)
(* sleep, so each of their next steps is taken; an entry that stays        *)
(* pending is at last idle for long enough to be claimed.  Nothing is      *)
(* assumed of the handler, which may fail for ever.                        *)
(***************************************************************************)
Fairness ==
  /\ \A d \in Dispatchers :
       WF_vars(DispatchBegin(d) \/ DispatchSend(d) \/ DispatchCommit(d))
  /\ \A c \in Consumers :
       /\ WF_vars(Read(c) \/ (\E ids \in SUBSET pending : Recover(c, ids)))
       /\ WF_vars(Handling(c))
  /\ \A i \in 1 .. (Cardinality(Messages) + MaxFaults) :
       SF_vars(\E c \in Consumers, ids \in SUBSET pending : i \in ids /\ Recover(c, ids))

FairSpec == Spec /\ Fairness

-----------------------------------------------------------------------------
(***************************************************************************)
(* Properties.                                                             *)
(***************************************************************************)

\* A published message is never dropped between two of its four stores: until
\* it is handled or parked its row is waiting, or an entry of it is unread or
\* pending.  This is what the order send, commit and handle, acknowledge buys.
NothingLost ==
  \A m \in Messages :
    \/ outbox[m] \in {"none", "waiting"}
    \/ m \in handled
    \/ \E i \in Ids : stream[i] = m /\ (i > cursor \/ i \in pending \union parked)

\* An entry is parked only after its handler has failed MaxRetries + 1 times:
\* crashes, lost batches and entries claimed while they are still being
\* handled do not use up its retries.
ParkedAfterRetries == \A i \in parked : failures[i] > MaxRetries

Channel == INSTANCE AtLeastOnce WITH
  sent <- {m \in Messages : outbox[m] # "none"},
  delivered <- handled,
  parked <- {stream[i] : i \in parked}

\* Outbox, dispatcher, stream and consumer together are a channel that
\* delivers at least once, in spite of finitely many faults.
DeliversAtLeastOnce == Channel!FairSpec

=============================================================================

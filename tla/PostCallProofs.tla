----------------------------- MODULE PostCallProofs -----------------------------
(***************************************************************************)
(* The safety properties of PostCall, for every configuration of actions   *)
(* and inputs and any number of workers.  What COMPLETED means and what an *)
(* action finds hold for any number of backend processes; that an outcome  *)
(* is final needs that only one handles results.                           *)
(***************************************************************************)
EXTENDS PostCall, TLAPS

(***************************************************************************)
(* The inductive invariant.  A handler decides by what it has read before  *)
(* the lock; it does no harm because nothing it has read is ever taken     *)
(* back: a summary, an executed action, a stored text, a recording that is *)
(* ready, a command that has been sent.                                    *)
(***************************************************************************)

\* A worker that is not idle has an entry, and queues it again only while it may.
WorkersInOrder ==
  \A p \in Workers :
    /\ worker[p].step # "idle" => worker[p].entry \in Entries
    /\ worker[p].step = "requeue" => MayRetry(worker[p].entry.attempt)

\* Whoever says that an action succeeded says so because it was executed.
DoneIsExecuted ==
  \A a \in Actions :
    /\ finalization.action[a] = "completed" => a \in executed
    /\ << a, "succeeded" >> \in results => a \in executed
    /\ completedKey[a] = "succeeded" => a \in executed
    /\ \A p \in Workers :
         worker[p].entry.work = a /\ worker[p].step \in {"publish", "record"}
           /\ worker[p].outcome = "succeeded" => a \in executed
    /\ \A h \in Handlers :
         handler[h].work = a /\ (handler[h].outcome = "succeeded"
                                 \/ handler[h].view.work = "completed") => a \in executed

Unsent(f, w) ==
  \/ w = "text" /\ f.text = "none"
  \/ w \in Actions /\ f.action[w] = "pending"

\* Nobody works on a command that has not been sent.
UnsentIsUnknown ==
  \A w \in Works : Unsent(finalization, w) =>
    /\ \A e \in open : e.work # w
    /\ \A p \in Workers : worker[p].entry.work # w
    /\ completedKey[w] = "none"
    /\ \A o \in Outcomes : << w, o >> \notin results
    /\ \A h \in Handlers : handler[h].work # w

\* What a handler has read was so once, and is not taken back.
Sent == {"processing", "completed", "failed"}

ViewsHold ==
  \A h \in Handlers : handler[h].work # "none" =>
    /\ handler[h].view.status = "processing"
    /\ finalization.status # "none"
    /\ handler[h].view.summary => finalization.summary
    /\ handler[h].work # "summary" => handler[h].view.work \in Sent

IdleIsIdle == \A h \in Handlers : handler[h].work = "none" => handler[h] = HandlerIdle

TextIsStored == finalization.text = "completed" => stored

ReadIsReady == \A e \in StartEvents : starting[e] = "ready" => recording = "ready"

StartsEmpty == finalization.status = "none" => finalization = NoFinalization

Inv ==
  /\ TypeOK
  /\ WorkersInOrder
  /\ DoneIsExecuted
  /\ UnsentIsUnknown
  /\ ViewsHold
  /\ IdleIsIdle
  /\ TextIsStored
  /\ ReadIsReady
  /\ StartsEmpty
  /\ CompletedMeansDone
  /\ ActionHasItsInputs

-----------------------------------------------------------------------------
(***************************************************************************)
(* _schedule and the write of a handler, field by field.                   *)
(***************************************************************************)

Finalizations ==
  [ status : {"none", "processing", "completed", "failed"},
    summary : BOOLEAN,
    action : [Actions -> WorkStatus],
    text : {"none"} \union (WorkStatus \ {"pending"}) ]

LEMMA ScheduledRows ==
  ASSUME NEW f \in Finalizations, NEW rec
  PROVE  LET g == Scheduled(f, rec) IN
         /\ g \in Finalizations
         /\ g.summary = f.summary
         /\ \A a \in Actions :
              g.action[a] = IF a \in Ready(f, rec) THEN "processing" ELSE f.action[a]
         /\ g.text = IF NeedsText(f, rec) THEN "processing" ELSE f.text
         /\ Hopeless(f, rec) # {} => g.status = "failed"
         /\ \/ g.status = "failed"
            \/ /\ g.status = "completed" /\ f.summary
               /\ \A a \in Actions : g.action[a] = "completed"
            \/ g.status = f.status /\ ~AllDone(g)
<1> DEFINE A == [a \in Actions |-> IF a \in Ready(f, rec) THEN "processing" ELSE f.action[a]]
           T == IF NeedsText(f, rec) THEN "processing" ELSE f.text
           next == [f EXCEPT !.action = A, !.text = T]
           g == Scheduled(f, rec)
<1>1. /\ f.status \in {"none", "processing", "completed", "failed"} /\ f.summary \in BOOLEAN
      /\ f.action \in [Actions -> WorkStatus]
      /\ f.text \in {"none"} \union (WorkStatus \ {"pending"})
  BY DEF Finalizations
<1>2. A \in [Actions -> WorkStatus] /\ T \in {"none"} \union (WorkStatus \ {"pending"})
  BY <1>1 DEF WorkStatus
<1>3. g = IF Hopeless(f, rec) # {} THEN [next EXCEPT !.status = "failed"]
          ELSE IF AllDone(next) THEN [next EXCEPT !.status = FinalStatus(next)]
          ELSE next
  BY DEF Scheduled
<1>4. \A a \in Actions : A[a] = IF a \in Ready(f, rec) THEN "processing" ELSE f.action[a]
  OBVIOUS
<1>5. T = IF NeedsText(f, rec) THEN "processing" ELSE f.text
  OBVIOUS
<1> HIDE DEF A, T
<1>6. next = [status |-> f.status, summary |-> f.summary, action |-> A, text |-> T]
  <2>1. next \in Finalizations
    BY <1>2 DEF Finalizations
  <2>2. next.status = f.status /\ next.summary = f.summary /\ next.action = A /\ next.text = T
    BY DEF Finalizations
  <2> HIDE DEF next
  <2> QED
    BY <2>1, <2>2 DEF Finalizations
<1> HIDE DEF next
<1>7. FinalStatus(next) \in {"completed", "failed"}
  BY DEF FinalStatus
<1>8. \E s \in {"none", "processing", "completed", "failed"} :
        /\ g = [status |-> s, summary |-> f.summary, action |-> A, text |-> T]
        /\ Hopeless(f, rec) # {} => s = "failed"
        /\ \/ s = "failed"
           \/ AllDone(next) /\ s = "completed" /\ FinalStatus(next) = "completed"
           \/ s = f.status /\ ~AllDone(next)
  <2>1. CASE Hopeless(f, rec) # {}
    <3>1. g = [status |-> "failed", summary |-> f.summary, action |-> A, text |-> T]
      BY <1>3, <1>6, <2>1
    <3> QED
      BY <3>1
  <2>2. CASE Hopeless(f, rec) = {} /\ AllDone(next)
    <3>1. g = [next EXCEPT !.status = FinalStatus(next)]
      BY <1>3, <2>2
    <3>2. g = [status |-> FinalStatus(next), summary |-> f.summary, action |-> A, text |-> T]
      BY <1>6, <3>1
    <3> QED
      BY <1>7, <2>2, <3>2
  <2>3. CASE Hopeless(f, rec) = {} /\ ~AllDone(next)
    <3>1. g = next
      BY <1>3, <2>3
    <3> QED
      BY <1>1, <1>6, <2>3, <3>1
  <2> QED
    BY <2>1, <2>2, <2>3
<1>9. AllDone(next) => f.summary /\ \A a \in Actions : A[a] \in {"completed", "failed"}
  BY <1>6 DEF AllDone, Over
<1>10. FinalStatus(next) = "completed" => \A a \in Actions : A[a] # "failed"
  BY <1>6 DEF FinalStatus
<1> HIDE DEF g
<1>11. g.summary = f.summary /\ g.action = A /\ g.text = T /\ g \in Finalizations
  BY <1>1, <1>2, <1>8 DEF Finalizations
<1>12. AllDone(g) <=> AllDone(next)
  BY <1>6, <1>11 DEF AllDone
<1>13. /\ Hopeless(f, rec) # {} => g.status = "failed"
       /\ \/ g.status = "failed"
          \/ AllDone(next) /\ g.status = "completed" /\ FinalStatus(next) = "completed"
          \/ g.status = f.status /\ ~AllDone(next)
  BY <1>8
<1>14. \/ g.status = "failed"
       \/ g.status = "completed" /\ f.summary /\ \A a \in Actions : g.action[a] = "completed"
       \/ g.status = f.status /\ ~AllDone(g)
  BY <1>9, <1>10, <1>11, <1>12, <1>13
<1>15. /\ \A a \in Actions :
            g.action[a] = IF a \in Ready(f, rec) THEN "processing" ELSE f.action[a]
       /\ g.text = IF NeedsText(f, rec) THEN "processing" ELSE f.text
  BY <1>4, <1>5, <1>11
<1> QED
  BY <1>11, <1>13, <1>14, <1>15 DEF g

\* The commands of a schedule, and the actions it sends.
LEMMA CommandRows ==
  ASSUME NEW f \in Finalizations, NEW rec
  PROVE  /\ \A c \in Commands(f, rec) :
              /\ c \in Entries
              /\ c.work \in Actions => c.work \in Ready(f, rec)
              /\ c.work = "text" => NeedsText(f, rec)
         /\ \A a \in Ready(f, rec) :
              /\ a \in Actions /\ f.action[a] = "pending"
              /\ "summary" \in Inputs[a] => f.summary
              /\ "recording" \in Inputs[a] => rec = "ready"
              /\ "text" \in Inputs[a] => f.text = "completed"
<1>1. \A a \in Ready(f, rec) :
        /\ a \in Actions /\ f.action[a] = "pending"
        /\ "summary" \in Inputs[a] => f.summary
        /\ "recording" \in Inputs[a] => rec = "ready"
        /\ "text" \in Inputs[a] => f.text = "completed"
  BY DEF Ready, Visited, Pending, InputReady
<1>2. "text" \notin Actions
  BY ActionsAssumption
<1>3. 1 \in 1 .. MaxRetries + 1
  BY BoundsAssumption
<1>4. \A w \in Works : /\ Entry(w, 1) \in Entries
                       /\ Entry(w, 1).work = w
  BY <1>3 DEF Entry, Entries
<1>5. ASSUME NEW c \in Commands(f, rec)
      PROVE  /\ c \in Entries
             /\ c.work \in Actions => c.work \in Ready(f, rec)
             /\ c.work = "text" => NeedsText(f, rec)
  <2>1. PICK w \in Ready(f, rec) \union IF NeedsText(f, rec) THEN {"text"} ELSE {} : c = Entry(w, 1)
    BY DEF Commands
  <2>2. w \in Works
    BY <1>1, <2>1 DEF Works
  <2>3. c \in Entries /\ c.work = w
    BY <1>4, <2>1, <2>2
  <2> QED
    BY <1>1, <1>2, <2>1, <2>3
<1> QED
  BY <1>1, <1>5
-----------------------------------------------------------------------------
(***************************************************************************)
(* What a transaction does to the finalization, whatever it has read.      *)
(***************************************************************************)

HasInputs(g, a) ==
  /\ "summary" \in Inputs[a] => g.summary
  /\ "recording" \in Inputs[a] => recording = "ready"
  /\ "text" \in Inputs[a] => g.text = "completed" /\ stored

\* From f to g, with the commands that are sent: nothing is taken back.
Moves(f, g, sent) ==
  /\ g \in Finalizations
  /\ f.summary => g.summary
  /\ \A a \in Actions :
       \/ g.action[a] = f.action[a]
       \/ f.action[a] = "pending" /\ g.action[a] = "processing" /\ HasInputs(g, a)
       \/ /\ f.action[a] # "pending" /\ g.action[a] \in Over
          /\ g.action[a] = "completed" => a \in executed
  /\ \/ g.text = f.text
     \/ f.text = "none" /\ g.text = "processing"
     \/ f.text # "none" /\ g.text = "completed" /\ stored
     \/ f.text # "none" /\ g.text = "failed" /\ g.status # "processing"
  /\ \/ g.status = f.status
     \/ g.status = "failed"
     \/ g.status = "completed" /\ g.summary /\ Actions \subseteq executed
  /\ \A c \in sent : /\ c \in Entries
                     /\ c.work \in Actions => g.action[c.work] # "pending"
                     /\ c.work = "text" => g.text # "none"

LEMMA ScheduleMoves ==
  ASSUME NEW f \in Finalizations, NEW rec, rec = "ready" => recording = "ready",
         f.text = "completed" => stored,
         \A a \in Actions : f.action[a] = "completed" => a \in executed
  PROVE  Moves(f, Scheduled(f, rec), Commands(f, rec))
<1> DEFINE g == Scheduled(f, rec)
<1>1. /\ g \in Finalizations
      /\ g.summary = f.summary
      /\ \A a \in Actions :
           g.action[a] = IF a \in Ready(f, rec) THEN "processing" ELSE f.action[a]
      /\ g.text = IF NeedsText(f, rec) THEN "processing" ELSE f.text
      /\ \/ g.status = "failed"
         \/ /\ g.status = "completed" /\ f.summary
            /\ \A a \in Actions : g.action[a] = "completed"
         \/ g.status = f.status
  BY ScheduledRows
<1>2. NeedsText(f, rec) => f.text = "none"
  BY DEF NeedsText
<1> HIDE DEF g
<1>3. ASSUME NEW a \in Ready(f, rec)
      PROVE  a \in Actions /\ f.action[a] = "pending" /\ HasInputs(g, a)
  <2>1. /\ a \in Actions /\ f.action[a] = "pending"
        /\ "summary" \in Inputs[a] => f.summary
        /\ "recording" \in Inputs[a] => rec = "ready"
        /\ "text" \in Inputs[a] => f.text = "completed"
    BY CommandRows
  <2> QED
    BY <1>1, <1>2, <2>1 DEF HasInputs
<1>4. g.status = "completed" /\ (\A a \in Actions : g.action[a] = "completed")
        => Actions \subseteq executed
  BY <1>1
<1>5. \A c \in Commands(f, rec) :
        /\ c \in Entries
        /\ c.work \in Actions => g.action[c.work] # "pending"
        /\ c.work = "text" => g.text # "none"
  BY <1>1, CommandRows
<1>6. \A a \in Actions :
        \/ g.action[a] = f.action[a]
        \/ f.action[a] = "pending" /\ g.action[a] = "processing" /\ HasInputs(g, a)
  BY <1>1, <1>3
<1>7. g.text = f.text \/ (f.text = "none" /\ g.text = "processing")
  BY <1>1, <1>2
<1> QED
  BY <1>1, <1>4, <1>5, <1>6, <1>7 DEF Moves, g

\* The write of a handler that decided by what it had seen: d is what it has seen
\* with the result of w entered.
LEMMA WriteMoves ==
  ASSUME NEW w \in Works, NEW seen \in Finalizations, NEW d \in Finalizations,
         finalization \in Finalizations,
         TextIsStored, \A a \in Actions : finalization.action[a] = "completed" => a \in executed,
         seen.status = "processing", d.status = "processing",
         seen.summary => d.summary, seen.summary => finalization.summary,
         \A a \in Actions \ {w} : /\ seen.action[a] = finalization.action[a]
                                  /\ d.action[a] = finalization.action[a],
         w \in Actions => /\ d.action[w] \in Over /\ finalization.action[w] # "pending"
                          /\ d.action[w] = "completed" => w \in executed,
         w # "text" => seen.text = finalization.text /\ d.text = finalization.text,
         w = "text" => /\ seen.text = "processing" /\ d.text = "completed" /\ stored
                       /\ finalization.text # "none"
  PROVE  Moves(finalization, Written(seen, Scheduled(d, recording)), Commands(d, recording))
<1> DEFINE n == Scheduled(d, recording)
           g == Written(seen, n)
           f == finalization
<1>1. /\ n \in Finalizations
      /\ n.summary = d.summary
      /\ \A a \in Actions :
           n.action[a] = IF a \in Ready(d, recording) THEN "processing" ELSE d.action[a]
      /\ n.text = IF NeedsText(d, recording) THEN "processing" ELSE d.text
      /\ \/ n.status = "failed"
         \/ /\ n.status = "completed" /\ d.summary
            /\ \A a \in Actions : n.action[a] = "completed"
         \/ n.status = d.status
  BY ScheduledRows
<1>2. NeedsText(d, recording) => d.text = "none"
  BY DEF NeedsText
<1> HIDE DEF n
<1>3. /\ g \in Finalizations
      /\ g.status = IF n.status # seen.status THEN n.status ELSE f.status
      /\ g.summary = IF n.summary # seen.summary THEN n.summary ELSE f.summary
      /\ \A a \in Actions :
           g.action[a] = IF n.action[a] # seen.action[a] THEN n.action[a] ELSE f.action[a]
      /\ g.text = IF n.text # seen.text THEN n.text ELSE f.text
  BY <1>1 DEF Written, Finalizations
<1> HIDE DEF g
<1>4. d.summary \in BOOLEAN /\ seen.summary \in BOOLEAN /\ f.summary \in BOOLEAN
  BY DEF Finalizations
<1>5. (f.summary => g.summary) /\ (d.summary => g.summary)
  BY <1>1, <1>3, <1>4
<1>6. \/ g.text = f.text
      \/ f.text = "none" /\ g.text = "processing"
      \/ f.text # "none" /\ g.text = "completed" /\ stored
  BY <1>1, <1>2, <1>3
<1>7. d.text = "completed" => g.text = "completed" /\ stored
  BY <1>1, <1>2, <1>3 DEF TextIsStored
<1>8. ASSUME NEW a \in Ready(d, recording)
      PROVE  /\ a \in Actions \ {w} /\ f.action[a] = "pending" /\ g.action[a] = "processing"
             /\ HasInputs(g, a)
  <2>1. /\ a \in Actions /\ d.action[a] = "pending"
        /\ "summary" \in Inputs[a] => d.summary
        /\ "recording" \in Inputs[a] => recording = "ready"
        /\ "text" \in Inputs[a] => d.text = "completed"
    BY CommandRows
  <2>2. a # w
    BY <2>1 DEF Over
  <2>3. f.action[a] = "pending" /\ seen.action[a] = "pending" /\ n.action[a] = "processing"
    BY <1>1, <2>1, <2>2
  <2> QED
    BY <1>3, <1>5, <1>7, <2>1, <2>2, <2>3 DEF HasInputs
<1>9. ASSUME NEW a \in Actions
      PROVE  \/ g.action[a] = f.action[a]
             \/ f.action[a] = "pending" /\ g.action[a] = "processing" /\ HasInputs(g, a)
             \/ /\ f.action[a] # "pending" /\ g.action[a] \in Over
                /\ g.action[a] = "completed" => a \in executed
  <2>1. CASE a \in Ready(d, recording)
    BY <1>8, <2>1
  <2>2. CASE a \notin Ready(d, recording)
    BY <1>1, <1>3, <2>2
  <2> QED
    BY <2>1, <2>2
<1>10. ASSUME \A a \in Actions : n.action[a] = "completed" PROVE Actions \subseteq executed
  <2>1. ASSUME NEW a \in Actions PROVE a \in executed
    <3>1. d.action[a] = "completed"
      BY <1>1, <1>10
    <3> QED
      BY <3>1
  <2> QED
    BY <2>1
<1>11. \/ g.status = f.status
       \/ g.status = "failed"
       \/ g.status = "completed" /\ g.summary /\ Actions \subseteq executed
  BY <1>1, <1>3, <1>5, <1>10
<1>12. NeedsText(d, recording) => g.text = "processing"
  BY <1>1, <1>2, <1>3
<1>13. \A c \in Commands(d, recording) :
         /\ c \in Entries
         /\ c.work \in Actions => g.action[c.work] # "pending"
         /\ c.work = "text" => g.text # "none"
  BY <1>8, <1>12, CommandRows
<1> QED
  BY <1>3, <1>5, <1>6, <1>9, <1>11, <1>13 DEF Moves, g, n

\* What a handler sees under the lock.
LEMMA SeenRows ==
  ASSUME Inv, NEW h \in Handlers, handler[h].work # "none"
  PROVE  LET w == handler[h].work
             s == Seen(h)
         IN  /\ w \in Works /\ finalization \in Finalizations
             /\ s \in Finalizations
             /\ s.status = "processing" /\ (s.summary => finalization.summary)
             /\ \A a \in Actions \ {w} : s.action[a] = finalization.action[a]
             /\ w # "text" => s.text = finalization.text
             /\ w \in Actions => /\ finalization.action[w] # "pending"
                                 /\ s.action[w] = handler[h].view.work
             /\ w = "text" => finalization.text # "none" /\ s.text = handler[h].view.work
<1> DEFINE w == handler[h].work
           v == handler[h].view
           f == [finalization EXCEPT !.status = v.status, !.summary = v.summary]
<1>1. finalization \in Finalizations
  BY DEF Inv, TypeOK, Finalizations
<1>2. handler[h] \in [work : Works \union {"none"}, outcome : Outcomes,
                      view : [status : {"none"} \union WorkStatus, summary : BOOLEAN,
                              work : {"none"} \union WorkStatus]]
  BY DEF Inv, TypeOK
<1>3. w \in Works /\ v.summary \in BOOLEAN
  BY <1>2
<1>4. /\ v.status = "processing" /\ (v.summary => finalization.summary)
      /\ w # "summary" => v.work \in Sent
  BY DEF Inv, ViewsHold
<1>5. w = "text" => finalization.text # "none"
  BY <1>3 DEF Inv, UnsentIsUnknown, Unsent
<1>6. w \in Actions => finalization.action[w] # "pending"
  BY <1>3 DEF Inv, UnsentIsUnknown, Unsent
<1>7. Seen(h) = WithWork(f, w, v.work)
  BY DEF Seen
<1> HIDE DEF w, v
<1>8. /\ f \in Finalizations /\ f.status = "processing" /\ f.summary = v.summary
      /\ f.action = finalization.action /\ f.text = finalization.text
  BY <1>1, <1>3, <1>4 DEF Finalizations
<1> HIDE DEF f
<1>9. "text" \notin Actions /\ "summary" \notin Actions
  BY ActionsAssumption
<1>10. CASE w = "summary"
  <2>1. Seen(h) = f
    BY <1>7, <1>10 DEF WithWork
  <2> QED
    BY <1>1, <1>3, <1>4, <1>8, <1>9, <1>10, <2>1 DEF w
<1>11. CASE w = "text"
  <2>1. Seen(h) = [f EXCEPT !.text = v.work]
    BY <1>7, <1>11 DEF WithWork
  <2>2. v.work \in {"none"} \union (WorkStatus \ {"pending"})
    BY <1>4, <1>11 DEF Sent, WorkStatus
  <2>3. /\ Seen(h) \in Finalizations /\ Seen(h).text = v.work /\ Seen(h).status = f.status
        /\ Seen(h).summary = f.summary /\ Seen(h).action = f.action
    BY <1>8, <2>1, <2>2 DEF Finalizations
  <2> QED
    BY <1>1, <1>3, <1>4, <1>5, <1>8, <1>9, <1>11, <2>3 DEF w, v
<1>12. CASE w \in Actions
  <2>1. Seen(h) = [f EXCEPT !.action[w] = v.work]
    BY <1>7, <1>9, <1>12 DEF WithWork
  <2>2. v.work \in WorkStatus /\ f.action \in [Actions -> WorkStatus]
    BY <1>4, <1>8, <1>9, <1>12 DEF Sent, WorkStatus, Finalizations
  <2> DEFINE A == [f.action EXCEPT ![w] = v.work]
  <2>3. /\ A \in [Actions -> WorkStatus] /\ A[w] = v.work
        /\ \A a \in Actions \ {w} : A[a] = f.action[a]
    BY <1>12, <2>2
  <2>4. /\ Seen(h).text = f.text /\ Seen(h).status = f.status
        /\ Seen(h).summary = f.summary /\ Seen(h).action = A
        /\ Seen(h) = [f EXCEPT !.action = A]
    BY <1>8, <2>1 DEF Finalizations
  <2> HIDE DEF A
  <2>5. Seen(h) \in Finalizations
    BY <1>8, <2>3, <2>4 DEF Finalizations
  <2> QED
    BY <1>1, <1>3, <1>4, <1>6, <1>8, <1>9, <1>12, <2>3, <2>4, <2>5 DEF w, v
<1> QED
  BY <1>3, <1>10, <1>11, <1>12 DEF Works
-----------------------------------------------------------------------------
(***************************************************************************)
(* The transactions.                                                       *)
(***************************************************************************)

\* The result w of handler h, entered in what it has seen.
Entered(h, s) == WithWork(Seen(h), handler[h].work, s)

LEMMA EnteredRows ==
  ASSUME Inv, NEW h \in Handlers, handler[h].work # "none", handler[h].work # "summary",
         NEW s \in {"completed", "failed"}
  PROVE  LET w == handler[h].work
             d == Entered(h, s)
         IN  /\ d \in Finalizations
             /\ d.status = "processing" /\ d.summary = Seen(h).summary
             /\ \A a \in Actions \ {w} : d.action[a] = Seen(h).action[a]
             /\ w # "text" => d.text = Seen(h).text
             /\ w \in Actions => d.action[w] = s
             /\ w = "text" => d.text = s /\ d.action = Seen(h).action
<1> DEFINE w == handler[h].work
           f == Seen(h)
<1>1. w \in Works /\ f \in Finalizations /\ f.status = "processing"
  BY SeenRows
<1>2. Entered(h, s) = WithWork(f, w, s)
  BY DEF Entered
<1>3. w # "summary"
  OBVIOUS
<1> HIDE DEF w, f
<1>4. "text" \notin Actions
  BY ActionsAssumption
<1>5. CASE w = "text"
  <2>1. Entered(h, s) = [f EXCEPT !.text = s]
    BY <1>2, <1>5 DEF WithWork
  <2>2. s \in {"none"} \union (WorkStatus \ {"pending"})
    BY DEF WorkStatus
  <2> QED
    BY <1>1, <1>4, <1>5, <2>1, <2>2 DEF Finalizations, w, f
<1>6. CASE w \in Actions
  <2>1. Entered(h, s) = [f EXCEPT !.action[w] = s]
    BY <1>2, <1>3, <1>4, <1>6 DEF WithWork
  <2>2. s \in WorkStatus /\ f.action \in [Actions -> WorkStatus]
    BY <1>1 DEF WorkStatus, Finalizations
  <2> DEFINE A == [f.action EXCEPT ![w] = s]
             d == Entered(h, s)
  <2>3. /\ A \in [Actions -> WorkStatus] /\ A[w] = s
        /\ \A a \in Actions \ {w} : A[a] = f.action[a]
    BY <1>6, <2>2
  <2>4. d = [f EXCEPT !.action = A]
    BY <1>1, <2>1 DEF Finalizations
  <2> HIDE DEF A, d
  <2>5. /\ d.text = f.text /\ d.status = f.status /\ d.summary = f.summary /\ d.action = A
        /\ d \in Finalizations
    BY <1>1, <2>3, <2>4 DEF Finalizations
  <2> QED
    BY <1>1, <1>4, <1>6, <2>3, <2>5 DEF w, f, d
<1> QED
  BY <1>1, <1>3, <1>5, <1>6 DEF Works, w

LEMMA ThenRows == \A next, sent : Then(next, sent).next = next /\ Then(next, sent).sent = sent
BY DEF Then

\* A handler that changes nothing, or only gives the finalization up.
LEMMA SameMoves ==
  ASSUME finalization \in Finalizations
  PROVE  Moves(finalization, finalization, {})
BY DEF Moves

LEMMA GivesUp ==
  ASSUME Inv, NEW h \in Handlers, handler[h].work \in {"summary", "text"}
  PROVE  LET t == Failure(Seen(h), handler[h].work)
         IN  /\ Moves(finalization, Written(Seen(h), t.next), t.sent)
             /\ Written(Seen(h), t.next).status = "failed"
<1> DEFINE w == handler[h].work
           s == Seen(h)
           t == Failure(s, w)
           f == finalization
           g == Written(s, t.next)
<1>1. /\ f \in Finalizations /\ s \in Finalizations /\ s.status = "processing"
      /\ s.action = f.action
      /\ w # "text" => s.text = f.text
      /\ w = "text" => f.text # "none"
  <2>1. w # "none" /\ "text" \notin Actions /\ "summary" \notin Actions
    BY ActionsAssumption
  <2>2. /\ f \in Finalizations /\ s \in Finalizations /\ s.status = "processing"
        /\ \A a \in Actions \ {w} : s.action[a] = f.action[a]
        /\ w # "text" => s.text = f.text
        /\ w = "text" => f.text # "none"
    BY <2>1, SeenRows
  <2> HIDE DEF s
  <2>3. s.action = f.action
    BY <2>1, <2>2 DEF Finalizations
  <2> QED
    BY <2>2, <2>3
<1>2. /\ w \in {"summary", "text"}
      /\ t.sent = {}
      /\ t.next = IF w = "summary" THEN [s EXCEPT !.status = "failed"]
                  ELSE [s EXCEPT !.status = "failed", !.text = "failed"]
  BY ThenRows DEF Failure
<1> HIDE DEF s, w, t
<1> DEFINE n == t.next
<1>3. /\ n.status = "failed" /\ n.summary = s.summary /\ n.action = s.action
      /\ n.text = IF w = "summary" THEN s.text ELSE "failed"
  <2>1. CASE w = "summary"
    BY <1>1, <1>2, <2>1 DEF Finalizations
  <2>2. CASE w = "text"
    BY <1>1, <1>2, <2>2 DEF Finalizations
  <2> QED
    BY <1>2, <2>1, <2>2
<1> HIDE DEF n
<1>4. /\ g.status = "failed" /\ g.summary = f.summary
      /\ g.action = f.action
      /\ g.text = f.text \/ (w = "text" /\ g.text = "failed")
      /\ g \in Finalizations
  <2>1. g = [ status |-> "failed", summary |-> f.summary,
              action |-> [a \in Actions |-> f.action[a]],
              text |-> IF n.text # s.text THEN n.text ELSE f.text ]
    BY <1>1, <1>3 DEF Written, n
  <2>2. [a \in Actions |-> f.action[a]] = f.action
    BY <1>1 DEF Finalizations
  <2>3. (IF n.text # s.text THEN n.text ELSE f.text) \in {f.text, "failed"}
        /\ (w # "text" => (IF n.text # s.text THEN n.text ELSE f.text) = f.text)
    BY <1>2, <1>3
  <2> DEFINE T == IF n.text # s.text THEN n.text ELSE f.text
  <2> HIDE DEF T, g
  <2>4. g = [status |-> "failed", summary |-> f.summary, action |-> f.action, text |-> T]
    BY <2>1, <2>2 DEF T
  <2>5. T \in {f.text, "failed"} /\ (w # "text" => T = f.text)
    BY <2>3 DEF T
  <2> QED
    BY <1>1, <2>4, <2>5 DEF Finalizations, WorkStatus
<1> HIDE DEF g
<1>5. Moves(f, g, {})
  BY <1>1, <1>4 DEF Moves
<1> QED
  BY <1>2, <1>4, <1>5 DEF g, n, t, s, w

LEMMA ApplyMoves ==
  ASSUME Inv, NEW h \in Handlers, ApplyResult(h)
  PROVE  \E sent : /\ Moves(finalization, finalization', sent)
                   /\ open' = open \union sent
<1> DEFINE w == handler[h].work
           f == finalization
           t == IF handler[h].outcome = "failed" THEN Failure(Seen(h), w)
                ELSE Success(Seen(h), w)
<1>1. w # "none"
  BY DEF ApplyResult, Inv, IdleIsIdle
<1>2. f' = Written(Seen(h), t.next) /\ open' = open \union t.sent
  BY DEF ApplyResult
<1>3. /\ w \in Works /\ f \in Finalizations
      /\ Seen(h) \in Finalizations
      /\ Seen(h).status = "processing" /\ (Seen(h).summary => f.summary)
      /\ \A a \in Actions \ {w} : Seen(h).action[a] = f.action[a]
      /\ w # "text" => Seen(h).text = f.text
      /\ w \in Actions => f.action[w] # "pending"
      /\ w = "text" => f.text # "none"
  BY <1>1, SeenRows
<1>4. /\ "text" \notin Actions /\ "summary" \notin Actions /\ TextIsStored
      /\ \A a \in Actions : f.action[a] = "completed" => a \in executed
  BY ActionsAssumption DEF Inv, DoneIsExecuted
<1>5. handler[h].outcome \in Outcomes
  BY DEF Inv, TypeOK
<1>6. CASE handler[h].outcome = "failed" /\ w \in {"summary", "text"}
  BY <1>2, <1>6, GivesUp
<1>7. CASE handler[h].outcome = "failed" /\ w \notin {"summary", "text"}
  <2>1. w \in Actions
    BY <1>3, <1>7 DEF Works
  <2> DEFINE d == Entered(h, "failed")
  <2>2. t = Then(Scheduled(d, recording), Commands(d, recording))
    <3>1. d = [Seen(h) EXCEPT !.action[w] = "failed"]
      BY <1>7 DEF Entered, WithWork
    <3> QED
      BY <1>7, <3>1 DEF Failure, AfterFailedAction
  <2>3. /\ d \in Finalizations
        /\ d.status = "processing" /\ d.summary = Seen(h).summary
        /\ \A a \in Actions \ {w} : d.action[a] = Seen(h).action[a]
        /\ w # "text" => d.text = Seen(h).text
        /\ w \in Actions => d.action[w] = "failed"
    BY <1>1, <1>7, EnteredRows
  <2> HIDE DEF d
  <2>4. Moves(f, Written(Seen(h), Scheduled(d, recording)), Commands(d, recording))
    BY <1>3, <1>4, <1>7, <2>1, <2>3, WriteMoves DEF Over
  <2> QED
    BY <1>2, <2>2, <2>4, ThenRows
<1>8. CASE handler[h].outcome = "succeeded" /\ ~Current(Seen(h), w)
  <2>1. t = Then(Seen(h), {})
    BY <1>8 DEF Success
  <2>2. f' = Written(Seen(h), Seen(h)) /\ open' = open \union {}
    BY <1>2, <2>1, ThenRows
  <2>3. Written(Seen(h), Seen(h)) = f
    BY <1>3 DEF Written, Finalizations
  <2> QED
    BY <1>3, <2>2, <2>3, SameMoves
<1>9. CASE handler[h].outcome = "succeeded" /\ Current(Seen(h), w) /\ w = "summary"
  <2> DEFINE d == [Seen(h) EXCEPT !.summary = TRUE]
  <2>1. t = Then(Scheduled(d, recording), Commands(d, recording))
    BY <1>9 DEF Success
  <2>2. /\ d \in Finalizations /\ d.status = Seen(h).status /\ d.summary = TRUE
        /\ d.action = Seen(h).action /\ d.text = Seen(h).text
    BY <1>3 DEF Finalizations
  <2> HIDE DEF d
  <2>3. Moves(f, Written(Seen(h), Scheduled(d, recording)), Commands(d, recording))
    BY <1>3, <1>4, <1>9, <2>2, WriteMoves
  <2> QED
    BY <1>2, <2>1, <2>3, ThenRows
<1>10. CASE handler[h].outcome = "succeeded" /\ Current(Seen(h), w) /\ w # "summary"
  <2> DEFINE d == Entered(h, "completed")
  <2>1. t = Then(Scheduled(d, recording), Commands(d, recording))
    BY <1>10 DEF Success, Entered
  <2>2. /\ d \in Finalizations
        /\ d.status = "processing" /\ d.summary = Seen(h).summary
        /\ \A a \in Actions \ {w} : d.action[a] = Seen(h).action[a]
        /\ w # "text" => d.text = Seen(h).text
        /\ w \in Actions => d.action[w] = "completed"
        /\ w = "text" => d.text = "completed"
    BY <1>1, <1>10, EnteredRows
  <2> HIDE DEF d
  <2>3. w \in Actions => w \in executed
    BY <1>10 DEF Inv, DoneIsExecuted
  <2>4. w = "text" => Seen(h).text = "processing" /\ stored
    BY <1>10 DEF Current
  <2>5. Moves(f, Written(Seen(h), Scheduled(d, recording)), Commands(d, recording))
    BY <1>3, <1>4, <2>2, <2>3, <2>4, WriteMoves DEF Over
  <2> QED
    BY <1>2, <2>1, <2>5, ThenRows
<1> QED
  BY <1>5, <1>6, <1>7, <1>8, <1>9, <1>10 DEF Outcomes
\* A transaction commits: from the row as it is, or as the insert makes it.
Changed ==
  \E f, sent :
    /\ f \in Finalizations /\ f.status # "none"
    /\ f.summary = finalization.summary /\ f.action = finalization.action
    /\ f.text = finalization.text
    /\ finalization.status # "none" => f.status = finalization.status
    /\ finalization.status = "none" => f.status = "processing"
    /\ Moves(f, finalization', sent)
    /\ open' = open \union sent

Committed ==
  /\ Changed
  /\ UNCHANGED << recording, stored, executed, completedKey, worker, faults, announced >>
  /\ results' \subseteq results /\ events' \subseteq events
  /\ \A h \in Handlers : handler'[h] \in {handler[h], HandlerIdle}
  /\ handler' \in [Handlers -> {HandlerIdle} \union {handler[h] : h \in Handlers}]
  /\ starting' \in [StartEvents -> {"no"} \union {starting[e] : e \in StartEvents}]
  /\ \A e \in StartEvents : starting'[e] \in {"no", starting[e]}

LEMMA FinalizationTyped == ASSUME TypeOK PROVE finalization \in Finalizations
BY DEF TypeOK, Finalizations

LEMMA CommitRows ==
  ASSUME Inv, NEW e \in StartEvents, StartCommit(e)
  PROVE  \/ Committed
         \/ /\ UNCHANGED << finalization, open, announced, recording, stored, worker,
                            completedKey, executed, results, handler, faults, events >>
            /\ starting' = [starting EXCEPT ![e] = "no"]
<1>1. /\ starting[e] # "no" /\ starting' = [starting EXCEPT ![e] = "no"]
      /\ UNCHANGED << announced, recording, stored, worker, completedKey, executed, results,
                      handler, faults >>
  BY DEF StartCommit, EventStep
<1>2. CASE finalization.status # "none"
  BY <1>1, <1>2 DEF StartCommit
<1>3. CASE finalization.status = "none"
  <2> DEFINE f == [NoFinalization EXCEPT !.status = "processing"]
             sent == Commands(f, starting[e]) \union {Entry("summary", 1)}
  <2>1. /\ finalization' = Scheduled(f, starting[e])
        /\ open' = open \union Commands(f, starting[e]) \union {Entry("summary", 1)}
        /\ events' \in {events, events \ {e}}
    BY <1>3 DEF StartCommit, Handled
  <2>2. finalization = NoFinalization
    BY <1>3 DEF Inv, StartsEmpty
  <2>3. /\ f.status = "processing" /\ f.summary = FALSE /\ f.text = "none"
        /\ f.action = [a \in Actions |-> "pending"] /\ f \in Finalizations
    BY DEF NoFinalization, Finalizations, WorkStatus
  <2>4. /\ finalization.summary = FALSE /\ finalization.text = "none"
        /\ finalization.action = [a \in Actions |-> "pending"]
    BY <2>2 DEF NoFinalization
  <2> HIDE DEF f
  <2>5. starting[e] = "ready" => recording = "ready"
    BY DEF Inv, ReadIsReady
  <2>6. \A a \in Actions : f.action[a] # "completed"
    BY <2>3
  <2>7. Moves(f, finalization', Commands(f, starting[e]))
    BY <2>1, <2>3, <2>5, <2>6, ScheduleMoves
  <2>8. Entry("summary", 1) \in Entries /\ Entry("summary", 1).work = "summary"
        /\ "summary" \notin Actions
    BY BoundsAssumption, ActionsAssumption DEF Entry, Entries, Works
  <2>9. Moves(f, finalization', sent)
    BY <2>7, <2>8 DEF Moves
  <2>10. open' = open \union sent
    BY <2>1
  <2> HIDE DEF sent
  <2>11. Changed
    BY <1>3, <2>3, <2>4, <2>9, <2>10 DEF Changed
  <2>12. /\ starting \in [StartEvents -> {"no", "absent", "recording", "ready", "failed"}]
         /\ handler \in [Handlers -> {handler[h] : h \in Handlers}]
    BY DEF Inv, TypeOK
  <2>13. /\ starting' \in [StartEvents -> {"no"} \union {starting[x] : x \in StartEvents}]
         /\ \A x \in StartEvents : starting'[x] \in {"no", starting[x]}
    BY <1>1, <2>12
  <2>14. handler' \in [Handlers -> {HandlerIdle} \union {handler[h] : h \in Handlers}]
    BY <1>1, <2>12
  <2> QED
    BY <1>1, <2>1, <2>11, <2>13, <2>14 DEF Committed
<1> QED
  BY <1>2, <1>3

LEMMA RecordingRows ==
  ASSUME Inv, RecordingChanged
  PROVE  \/ Committed
         \/ /\ UNCHANGED << finalization, open, announced, recording, stored, worker,
                            completedKey, executed, results, handler, faults, starting >>
            /\ events' \subseteq events
<1>1. /\ UNCHANGED << announced, recording, stored, worker, completedKey, executed, results,
                      handler, faults, starting >>
      /\ events' \subseteq events
  BY DEF RecordingChanged, EventStep, Handled
<1>2. CASE finalization.status # "processing"
  BY <1>1, <1>2 DEF RecordingChanged
<1>3. CASE finalization.status = "processing"
  <2>1. /\ finalization' = Scheduled(finalization, recording)
        /\ open' = open \union Commands(finalization, recording)
    BY <1>3 DEF RecordingChanged, Schedule
  <2>2. finalization \in Finalizations
    BY FinalizationTyped DEF Inv
  <2>3. Moves(finalization, finalization', Commands(finalization, recording))
    BY <2>1, <2>2, ScheduleMoves DEF Inv, TextIsStored, DoneIsExecuted
  <2>4. Changed
    BY <1>3, <2>1, <2>2, <2>3 DEF Changed
  <2>5. /\ starting \in [StartEvents -> {"no"} \union {starting[x] : x \in StartEvents}]
        /\ handler \in [Handlers -> {HandlerIdle} \union {handler[h] : h \in Handlers}]
    BY DEF Inv, TypeOK
  <2> QED
    BY <1>1, <2>4, <2>5 DEF Committed
<1> QED
  BY <1>2, <1>3

LEMMA ApplyRows ==
  ASSUME Inv, NEW h \in Handlers, ApplyResult(h)
  PROVE  Committed
<1>1. /\ UNCHANGED << announced, recording, starting, events, stored, worker, completedKey,
                      executed, faults >>
      /\ results' \subseteq results
      /\ handler' = [handler EXCEPT ![h] = HandlerIdle]
  BY DEF ApplyResult, HandlerStep, callVars
<1>2. PICK sent : Moves(finalization, finalization', sent) /\ open' = open \union sent
  BY ApplyMoves
<1>3. finalization \in Finalizations /\ finalization.status # "none"
  BY FinalizationTyped DEF Inv, ApplyResult, IdleIsIdle, ViewsHold
<1>4. Changed
  BY <1>2, <1>3 DEF Changed
<1>5. /\ starting \in [StartEvents -> {"no"} \union {starting[x] : x \in StartEvents}]
      /\ handler \in [Handlers -> {handler[x] : x \in Handlers}]
  BY DEF Inv, TypeOK
<1>6. /\ \A x \in Handlers : handler'[x] \in {handler[x], HandlerIdle}
      /\ handler' \in [Handlers -> {HandlerIdle} \union {handler[x] : x \in Handlers}]
  BY <1>1, <1>5
<1> QED
  BY <1>1, <1>4, <1>5, <1>6 DEF Committed

-----------------------------------------------------------------------------
(***************************************************************************)
(* A commit preserves the invariant.                                       *)
(***************************************************************************)

LEMMA HandlerIdleRows ==
  /\ HandlerIdle.work = "none" /\ "none" \notin Actions /\ "none" \notin Works
  /\ HandlerIdle \in [work : Works \union {"none"}, outcome : Outcomes,
                      view : [status : {"none"} \union WorkStatus, summary : BOOLEAN,
                              work : {"none"} \union WorkStatus]]
BY ActionsAssumption DEF HandlerIdle, NoView, Works, Outcomes, WorkStatus

LEMMA CommitKeeps ==
  ASSUME Inv, Committed
  PROVE  Inv'
<1>1. PICK f, sent :
        /\ f \in Finalizations /\ f.status # "none"
        /\ f.summary = finalization.summary /\ f.action = finalization.action
        /\ f.text = finalization.text
        /\ finalization.status # "none" => f.status = finalization.status
        /\ finalization.status = "none" => f.status = "processing"
        /\ Moves(f, finalization', sent)
        /\ open' = open \union sent
  BY DEF Committed, Changed
<1> DEFINE g == finalization'
<1>2. /\ UNCHANGED << recording, stored, executed, completedKey, worker, faults, announced >>
      /\ results' \subseteq results /\ events' \subseteq events
      /\ \A h \in Handlers : handler'[h] \in {handler[h], HandlerIdle}
      /\ handler' \in [Handlers -> {HandlerIdle} \union {handler[h] : h \in Handlers}]
      /\ starting' \in [StartEvents -> {"no"} \union {starting[e] : e \in StartEvents}]
      /\ \A e \in StartEvents : starting'[e] \in {"no", starting[e]}
  BY DEF Committed
<1>3. /\ g \in Finalizations
      /\ finalization.summary => g.summary
      /\ \A a \in Actions :
           \/ g.action[a] = finalization.action[a]
           \/ /\ finalization.action[a] = "pending" /\ g.action[a] = "processing"
              /\ HasInputs(g, a)
           \/ /\ finalization.action[a] # "pending" /\ g.action[a] \in Over
              /\ g.action[a] = "completed" => a \in executed
      /\ \/ g.text = finalization.text
         \/ finalization.text = "none" /\ g.text = "processing"
         \/ finalization.text # "none" /\ g.text = "completed" /\ stored
         \/ finalization.text # "none" /\ g.text = "failed" /\ g.status # "processing"
      /\ \/ g.status = f.status
         \/ g.status = "failed"
         \/ g.status = "completed" /\ g.summary /\ Actions \subseteq executed
      /\ \A c \in sent : /\ c \in Entries
                         /\ c.work \in Actions => g.action[c.work] # "pending"
                         /\ c.work = "text" => g.text # "none"
  BY <1>1 DEF Moves
<1>4. finalization \in Finalizations
  BY FinalizationTyped DEF Inv
<1> HIDE DEF g
<1>5. TypeOK'
  <2>1. events' \subseteq announced' /\ announced' \subseteq Events
    BY <1>2 DEF Inv, TypeOK
  <2>2. starting' \in [StartEvents -> {"no", "absent", "recording", "ready", "failed"}]
    BY <1>2 DEF Inv, TypeOK
  <2>3. open' \subseteq Entries
    BY <1>1, <1>3 DEF Inv, TypeOK
  <2>4. handler' \in [Handlers -> [work : Works \union {"none"}, outcome : Outcomes,
                               view : [status : {"none"} \union WorkStatus,
                                       summary : BOOLEAN,
                                       work : {"none"} \union WorkStatus]]]
    BY <1>2, HandlerIdleRows DEF Inv, TypeOK
  <2>5. finalization' \in [ status : {"none", "processing", "completed", "failed"},
                        summary : BOOLEAN,
                        action : [Actions -> WorkStatus],
                        text : {"none"} \union (WorkStatus \ {"pending"}) ]
    BY <1>3 DEF g, Finalizations
  <2>6. /\ recording' \in {"absent", "recording", "ready", "failed"} /\ stored' \in BOOLEAN
        /\ worker' \in [Workers -> [entry : Entries \union {NoEntry},
                                    step : Steps, outcome : Outcomes]]
        /\ completedKey' \in [Works -> Outcomes \union {"none"}]
        /\ results' \subseteq (Works \X Outcomes)
        /\ executed' \subseteq Actions /\ faults' \in 0 .. MaxFaults
    BY <1>2 DEF Inv, TypeOK
  <2> QED
    BY <2>1, <2>2, <2>3, <2>4, <2>5, <2>6 DEF TypeOK
<1>6. WorkersInOrder'
  BY <1>2 DEF Inv, WorkersInOrder
<1>7. DoneIsExecuted'
  <2>1. SUFFICES ASSUME NEW a \in Actions
                 PROVE  /\ finalization'.action[a] = "completed" => a \in executed'
                        /\ << a, "succeeded" >> \in results' => a \in executed'
                        /\ completedKey'[a] = "succeeded" => a \in executed'
                        /\ \A p \in Workers :
                             worker'[p].entry.work = a
                               /\ worker'[p].step \in {"publish", "record"}
                               /\ worker'[p].outcome = "succeeded" => a \in executed'
                        /\ \A h \in Handlers :
                             handler'[h].work = a
                               /\ (handler'[h].outcome = "succeeded"
                                   \/ handler'[h].view.work = "completed") => a \in executed'
    BY DEF DoneIsExecuted
  <2>2. /\ finalization.action[a] = "completed" => a \in executed
        /\ << a, "succeeded" >> \in results => a \in executed
        /\ completedKey[a] = "succeeded" => a \in executed
        /\ \A p \in Workers :
             worker[p].entry.work = a /\ worker[p].step \in {"publish", "record"}
               /\ worker[p].outcome = "succeeded" => a \in executed
        /\ \A h \in Handlers :
             handler[h].work = a /\ (handler[h].outcome = "succeeded"
                                     \/ handler[h].view.work = "completed") => a \in executed
    BY DEF Inv, DoneIsExecuted
  <2>3. finalization'.action[a] = "completed" => a \in executed'
    BY <1>2, <1>3, <2>2 DEF g
  <2>4. \A h \in Handlers : handler'[h].work = a => handler'[h] = handler[h]
    BY <1>2, HandlerIdleRows
  <2> QED
    BY <1>2, <2>2, <2>3, <2>4
<1>8. \A w \in Works : Unsent(g, w) =>
        Unsent(finalization, w) /\ \A c \in sent : c.work # w
  <2>1. SUFFICES ASSUME NEW w \in Works, Unsent(g, w)
                 PROVE  Unsent(finalization, w) /\ \A c \in sent : c.work # w
    OBVIOUS
  <2>2. CASE w = "text" /\ g.text = "none"
    BY <1>3, <2>2 DEF Unsent
  <2>3. CASE w \in Actions /\ g.action[w] = "pending"
    BY <1>3, <2>3 DEF Unsent, Over
  <2> QED
    BY <2>1, <2>2, <2>3 DEF Unsent
<1>9. UnsentIsUnknown'
  <2>1. SUFFICES ASSUME NEW w \in Works, Unsent(finalization', w)
                 PROVE  /\ \A e \in open' : e.work # w
                        /\ \A p \in Workers : worker'[p].entry.work # w
                        /\ completedKey'[w] = "none"
                        /\ \A o \in Outcomes : << w, o >> \notin results'
                        /\ \A h \in Handlers : handler'[h].work # w
    BY DEF UnsentIsUnknown
  <2>2. Unsent(finalization, w) /\ \A c \in sent : c.work # w
    BY <1>8, <2>1 DEF g
  <2>3. /\ \A e \in open : e.work # w
        /\ \A p \in Workers : worker[p].entry.work # w
        /\ completedKey[w] = "none"
        /\ \A o \in Outcomes : << w, o >> \notin results
        /\ \A h \in Handlers : handler[h].work # w
    BY <2>2 DEF Inv, UnsentIsUnknown
  <2>4. \A h \in Handlers : handler'[h].work # w
    BY <1>2, <2>3, HandlerIdleRows
  <2> QED
    BY <1>1, <1>2, <2>2, <2>3, <2>4
<1>10. g.status # "none"
  BY <1>1, <1>3
<1>11. ViewsHold'
  BY <1>2, <1>3, <1>10, HandlerIdleRows DEF Inv, ViewsHold, g
<1>12. IdleIsIdle'
  BY <1>2, HandlerIdleRows DEF Inv, IdleIsIdle
<1>13. TextIsStored'
  BY <1>2, <1>3 DEF Inv, TextIsStored, g
<1>14. ReadIsReady'
  BY <1>2 DEF Inv, ReadIsReady
<1>15. StartsEmpty'
  BY <1>10 DEF StartsEmpty, g
<1>16. CompletedMeansDone'
  <2>1. executed \subseteq Actions
    BY DEF Inv, TypeOK
  <2> QED
    BY <1>1, <1>2, <1>3, <2>1 DEF Inv, CompletedMeansDone, g
<1>17. ActionHasItsInputs'
  <2>1. SUFFICES ASSUME g.status = "processing", NEW a \in Actions, g.action[a] # "pending"
                 PROVE  HasInputs(g, a)
    BY <1>2 DEF ActionHasItsInputs, HasInputs, g
  <2>2. CASE finalization.action[a] = "pending"
    BY <1>3, <2>1, <2>2 DEF Over
  <2>3. CASE finalization.action[a] # "pending"
    <3>1. finalization.status # "none"
      BY <2>3 DEF Inv, StartsEmpty, NoFinalization
    <3>2. finalization.status = "processing"
      BY <1>1, <1>3, <2>1, <3>1
    <3>3. /\ "summary" \in Inputs[a] => finalization.summary
          /\ "recording" \in Inputs[a] => recording = "ready"
          /\ "text" \in Inputs[a] => finalization.text = "completed" /\ stored
      BY <2>3, <3>2 DEF Inv, ActionHasItsInputs
    <3>4. finalization.text = "completed" => g.text = "completed"
      BY <1>3, <2>1
    <3> QED
      BY <1>3, <3>3, <3>4 DEF HasInputs
  <2> QED
    BY <2>2, <2>3
<1> QED
  BY <1>5, <1>6, <1>7, <1>9, <1>11, <1>12, <1>13, <1>14, <1>15, <1>16, <1>17 DEF Inv
-----------------------------------------------------------------------------
(***************************************************************************)
(* The steps that leave the finalization alone.                            *)
(***************************************************************************)

\* Events come and go, the recording settles, a handler loses or drops a result.
Quiet ==
  /\ UNCHANGED << finalization, stored, open, worker, completedKey, executed >>
  /\ recording' = recording \/ recording = "recording"
  /\ results' \subseteq results
  /\ \A h \in Handlers : handler'[h] \in {handler[h], HandlerIdle}
  /\ TypeOK' /\ ReadIsReady'

LEMMA QuietKeeps ==
  ASSUME Inv, Quiet
  PROVE  Inv'
<1>1. /\ UNCHANGED << finalization, stored, open, worker, completedKey, executed >>
      /\ recording' = recording \/ recording = "recording"
      /\ results' \subseteq results
      /\ \A h \in Handlers : handler'[h] \in {handler[h], HandlerIdle}
      /\ TypeOK' /\ ReadIsReady'
  BY DEF Quiet
<1>2. \A h \in Handlers : handler'[h].work # "none" => handler'[h] = handler[h]
  BY <1>1, HandlerIdleRows
<1>3. WorkersInOrder' /\ TextIsStored' /\ StartsEmpty' /\ CompletedMeansDone'
  BY <1>1 DEF Inv, WorkersInOrder, TextIsStored, StartsEmpty, CompletedMeansDone
<1>4. DoneIsExecuted'
  <2>1. \A a \in Actions, h \in Handlers : handler'[h].work = a => handler'[h] = handler[h]
    BY <1>2, HandlerIdleRows
  <2> QED
    BY <1>1, <2>1 DEF Inv, DoneIsExecuted
<1>5. UnsentIsUnknown'
  <2>1. \A w \in Works, h \in Handlers : handler'[h].work = w => handler'[h] = handler[h]
    BY <1>2, HandlerIdleRows
  <2> QED
    BY <1>1, <2>1 DEF Inv, UnsentIsUnknown, Unsent
<1>6. ViewsHold' /\ IdleIsIdle'
  BY <1>1, <1>2 DEF Inv, ViewsHold, IdleIsIdle
<1>7. ActionHasItsInputs'
  BY <1>1 DEF Inv, ActionHasItsInputs
<1> QED
  BY <1>1, <1>3, <1>4, <1>5, <1>6, <1>7 DEF Inv

LEMMA QuietSteps ==
  ASSUME Inv,
         \/ \E e \in StartEvents : CallEvent(e) \/ StartAgain(e) \/ StartRead(e)
         \/ \E s \in {"ready", "failed"} : RecordingSettles(s)
         \/ \E h \in Handlers : HandlerLost(h)
         \/ UNCHANGED vars
  PROVE  Quiet
<1>1. TypeOK /\ ReadIsReady
  BY DEF Inv
<1>2. HandlerIdle \in [work : Works \union {"none"}, outcome : Outcomes,
                       view : [status : {"none"} \union WorkStatus, summary : BOOLEAN,
                               work : {"none"} \union WorkStatus]]
  BY HandlerIdleRows
<1>3. ASSUME NEW e \in Events, PublishEvent(e)
      PROVE  announced' \subseteq Events /\ events' \subseteq announced'
  BY <1>1, <1>3 DEF PublishEvent, TypeOK
<1>4. ASSUME NEW e \in StartEvents, CallEvent(e) PROVE Quiet
  <2>1. UNCHANGED << recording, starting, finalization, stored, open, worker, completedKey,
                     executed, results, handler, faults >>
        /\ PublishEvent(e) /\ e \in Events
    BY <1>4 DEF CallEvent, workerVars, Events
  <2>2. TypeOK'
    BY <1>1, <1>3, <2>1 DEF TypeOK
  <2> QED
    BY <1>1, <2>1, <2>2 DEF Quiet, ReadIsReady
<1>5. ASSUME NEW e \in StartEvents, StartAgain(e) PROVE Quiet
  <2>1. UNCHANGED << announced, recording, starting, finalization, stored, open, worker,
                     completedKey, executed, results, handler, faults >>
        /\ events' = events \ {e}
    BY <1>5 DEF StartAgain, EventStep
  <2>2. TypeOK'
    BY <1>1, <2>1 DEF TypeOK
  <2> QED
    BY <1>1, <2>1, <2>2 DEF Quiet, ReadIsReady
<1>6. ASSUME NEW e \in StartEvents, StartRead(e) PROVE Quiet
  <2>1. UNCHANGED << announced, recording, finalization, stored, open, worker, events,
                     completedKey, executed, results, handler, faults >>
        /\ starting' = [starting EXCEPT ![e] = recording]
    BY <1>6 DEF StartRead, EventStep
  <2>2. starting' \in [StartEvents -> {"no", "absent", "recording", "ready", "failed"}]
    BY <1>1, <2>1 DEF TypeOK
  <2>3. TypeOK'
    BY <1>1, <2>1, <2>2 DEF TypeOK
  <2>4. ReadIsReady'
    BY <1>1, <2>1 DEF ReadIsReady, TypeOK
  <2> QED
    BY <1>1, <2>1, <2>3, <2>4 DEF Quiet
<1>7. ASSUME NEW s \in {"ready", "failed"}, RecordingSettles(s) PROVE Quiet
  <2>1. UNCHANGED << starting, finalization, stored, open, worker, completedKey,
                     executed, results, handler, faults >>
        /\ recording = "recording" /\ recording' = s
        /\ PublishEvent("recording") /\ "recording" \in Events
    BY <1>7 DEF RecordingSettles, workerVars, Events
  <2>2. TypeOK'
    BY <1>1, <1>3, <2>1 DEF TypeOK
  <2>3. ReadIsReady'
    BY <1>1, <2>1 DEF ReadIsReady
  <2> QED
    BY <1>1, <2>1, <2>2, <2>3 DEF Quiet
<1>8. ASSUME NEW h \in Handlers, HandlerLost(h) PROVE Quiet
  <2>1. UNCHANGED << announced, recording, starting, events, finalization, stored, open,
                     worker, completedKey, executed, results >>
        /\ handler' = [handler EXCEPT ![h] = HandlerIdle] /\ Fault
    BY <1>8 DEF HandlerLost, HandlerStep, callVars
  <2>2. handler' \in [Handlers -> [work : Works \union {"none"}, outcome : Outcomes,
                               view : [status : {"none"} \union WorkStatus,
                                       summary : BOOLEAN,
                                       work : {"none"} \union WorkStatus]]]
        /\ \A x \in Handlers : handler'[x] \in {handler[x], HandlerIdle}
    BY <1>1, <1>2, <2>1 DEF TypeOK
  <2>3. faults' \in 0 .. MaxFaults
    BY <1>1, <2>1, BoundsAssumption DEF Fault, TypeOK
  <2>4. TypeOK'
    BY <1>1, <2>1, <2>2, <2>3 DEF TypeOK
  <2> QED
    BY <1>1, <2>1, <2>2, <2>4 DEF Quiet, ReadIsReady
<1>9. CASE UNCHANGED vars
  <2>1. UNCHANGED << announced, recording, starting, events, finalization, stored, open,
                     worker, completedKey, executed, results, handler, faults >>
    BY <1>9 DEF vars
  <2>2. TypeOK' /\ ReadIsReady'
    BY <1>1, <2>1 DEF TypeOK, ReadIsReady
  <2> QED
    BY <2>1, <2>2 DEF Quiet
<1> QED
  BY <1>4, <1>5, <1>6, <1>7, <1>8, <1>9

\* A handler reads a result, and the finalization without a lock.
LEMMA ReadKeeps ==
  ASSUME Inv, NEW h \in Handlers, NEW w \in Works, NEW outcome \in Outcomes,
         ReadResult(h, w, outcome)
  PROVE  Inv'
<1>1. /\ UNCHANGED << announced, recording, starting, events, finalization, stored, open,
                      worker, completedKey, executed, faults >>
      /\ << w, outcome >> \in results
  BY DEF ReadResult, HandlerStep, callVars
<1>2. CASE ~Accepts(finalization, w)
  <2>1. results' \subseteq results /\ UNCHANGED handler
    BY <1>2 DEF ReadResult
  <2>2. TypeOK' /\ ReadIsReady'
    BY <1>1, <2>1 DEF Inv, TypeOK, ReadIsReady
  <2> QED
    BY <1>1, <2>1, <2>2, QuietKeeps DEF Quiet
<1>3. CASE Accepts(finalization, w)
  <2> DEFINE f == finalization
             v == View(f, w)
             r == [work |-> w, outcome |-> outcome, view |-> v]
  <2>1. handler' = [handler EXCEPT ![h] = r] /\ UNCHANGED results
    BY <1>3 DEF ReadResult
  <2>2. f.status = "processing" /\ f \in Finalizations
    BY <1>3, FinalizationTyped DEF Accepts, AtWork, Inv
  <2>3. w # "none"
    BY HandlerIdleRows
  <2>4. ~Unsent(f, w)
    BY <1>1 DEF Inv, UnsentIsUnknown
  <2>5. /\ v.status = "processing" /\ v.summary = f.summary
        /\ v.work = WorkOf(f, w)
        /\ v = [status |-> f.status, summary |-> f.summary, work |-> WorkOf(f, w)]
    BY <2>2 DEF View
  <2>6. /\ w \in Actions => WorkOf(f, w) = f.action[w]
        /\ w # "summary" => WorkOf(f, w) \in Sent
        /\ w = "summary" => WorkOf(f, w) = "none"
    <3>1. "text" \notin Actions /\ "summary" \notin Actions
      BY ActionsAssumption
    <3>2. CASE w = "text"
      BY <2>2, <2>4, <3>1, <3>2 DEF WorkOf, Unsent, Finalizations, WorkStatus, Sent
    <3>3. CASE w = "summary"
      BY <3>1, <3>3 DEF WorkOf
    <3>4. CASE w \in Actions
      <4>1. WorkOf(f, w) = f.action[w] /\ w # "summary"
        BY <3>1, <3>4 DEF WorkOf
      <4>2. f.action[w] \in WorkStatus /\ f.action[w] # "pending"
        BY <2>2, <2>4, <3>4 DEF Unsent, Finalizations
      <4> QED
        BY <4>1, <4>2 DEF WorkStatus, Sent
    <3> QED
      BY <3>2, <3>3, <3>4 DEF Works
  <2>7. v \in [status : {"none"} \union WorkStatus, summary : BOOLEAN,
               work : {"none"} \union WorkStatus]
    BY <2>2, <2>5, <2>6 DEF Finalizations, WorkStatus, Sent
  <2> HIDE DEF v
  <2>8. /\ r.work = w /\ r.outcome = outcome /\ r.view = v
        /\ r \in [work : Works \union {"none"}, outcome : Outcomes,
                  view : [status : {"none"} \union WorkStatus, summary : BOOLEAN,
                          work : {"none"} \union WorkStatus]]
    BY <2>7
  <2> HIDE DEF r
  <2>9. handler \in [Handlers -> [work : Works \union {"none"}, outcome : Outcomes,
                               view : [status : {"none"} \union WorkStatus,
                                       summary : BOOLEAN,
                                       work : {"none"} \union WorkStatus]]]
    BY DEF Inv, TypeOK
  <2>10. /\ handler' \in [Handlers -> [work : Works \union {"none"}, outcome : Outcomes,
                               view : [status : {"none"} \union WorkStatus,
                                       summary : BOOLEAN,
                                       work : {"none"} \union WorkStatus]]]
         /\ handler'[h] = r /\ \A x \in Handlers \ {h} : handler'[x] = handler[x]
    BY <2>1, <2>8, <2>9
  <2>11. TypeOK'
    BY <1>1, <2>1, <2>10 DEF Inv, TypeOK
  <2>12. WorkersInOrder' /\ TextIsStored' /\ StartsEmpty' /\ CompletedMeansDone'
         /\ ReadIsReady' /\ ActionHasItsInputs'
    BY <1>1 DEF Inv, WorkersInOrder, TextIsStored, StartsEmpty, CompletedMeansDone, ReadIsReady,
                ActionHasItsInputs
  <2>13. DoneIsExecuted'
    <3>1. ASSUME NEW a \in Actions, r.work = a,
                 r.outcome = "succeeded" \/ r.view.work = "completed"
          PROVE  a \in executed
      BY <1>1, <2>5, <2>6, <2>8, <3>1 DEF Inv, DoneIsExecuted
    <3> QED
      BY <1>1, <2>1, <2>10, <3>1 DEF Inv, DoneIsExecuted
  <2>14. UnsentIsUnknown'
    BY <1>1, <2>1, <2>4, <2>8, <2>10 DEF Inv, UnsentIsUnknown, Unsent
  <2>15. ViewsHold'
    BY <1>1, <2>2, <2>5, <2>6, <2>8, <2>10 DEF Inv, ViewsHold
  <2>16. IdleIsIdle'
    BY <2>3, <2>8, <2>10 DEF Inv, IdleIsIdle
  <2> QED
    BY <2>11, <2>12, <2>13, <2>14, <2>15, <2>16 DEF Inv
<1> QED
  BY <1>2, <1>3
-----------------------------------------------------------------------------
(***************************************************************************)
(* The steps of a worker.                                                  *)
(***************************************************************************)

WorkerRecords == [entry : Entries \union {NoEntry}, step : Steps, outcome : Outcomes]

\* A worker's record q that says nothing that is not so, once done is executed.
Honest(q, done) ==
  /\ q \in WorkerRecords
  /\ q.step # "idle" => q.entry \in Entries
  /\ q.step = "requeue" => MayRetry(q.entry.attempt)
  /\ \A a \in Actions : q.entry.work = a /\ q.step \in {"publish", "record"}
                          /\ q.outcome = "succeeded" => a \in done
  /\ \A w \in Works : q.entry.work = w => ~Unsent(finalization, w)

Known(w, outcome) ==
  ~Unsent(finalization, w) /\ (outcome = "succeeded" /\ w \in Actions => w \in executed)

WorkerMove(p, q) ==
  /\ worker' = [worker EXCEPT ![p] = q]
  /\ Honest(q, executed')
  /\ UNCHANGED << announced, recording, starting, events, finalization, handler >>
  /\ executed \subseteq executed' /\ executed' \subseteq Actions
  /\ stored' \in BOOLEAN /\ (stored => stored') /\ faults' \in 0 .. MaxFaults
  /\ open' \subseteq Entries
  /\ \A e \in open' : e \in open \/ ~Unsent(finalization, e.work)
  /\ completedKey' \in [Works -> Outcomes \union {"none"}]
  /\ \A w \in Works : completedKey'[w] = completedKey[w] \/ Known(w, completedKey'[w])
  /\ results' \subseteq Works \X Outcomes
  /\ \A w \in Works, o \in Outcomes :
       << w, o >> \in results' => << w, o >> \in results \/ Known(w, o)

LEMMA WorkersAreHonest ==
  ASSUME Inv, NEW p \in Workers
  PROVE  Honest(worker[p], executed)
<1>1. worker[p] \in WorkerRecords
  BY DEF Inv, TypeOK, WorkerRecords
<1>2. \A w \in Works : worker[p].entry.work = w => ~Unsent(finalization, w)
  BY DEF Inv, UnsentIsUnknown
<1> QED
  BY <1>1, <1>2 DEF Inv, WorkersInOrder, DoneIsExecuted, Honest

LEMMA MoveKeeps ==
  ASSUME Inv, NEW p \in Workers, NEW q, WorkerMove(p, q)
  PROVE  Inv'
<1>1. /\ worker' = [worker EXCEPT ![p] = q] /\ Honest(q, executed')
      /\ UNCHANGED << announced, recording, starting, events, finalization, handler >>
      /\ executed \subseteq executed' /\ executed' \subseteq Actions
      /\ stored' \in BOOLEAN /\ (stored => stored') /\ faults' \in 0 .. MaxFaults
      /\ open' \subseteq Entries
      /\ \A e \in open' : e \in open \/ ~Unsent(finalization, e.work)
      /\ completedKey' \in [Works -> Outcomes \union {"none"}]
      /\ \A w \in Works : completedKey'[w] = completedKey[w] \/ Known(w, completedKey'[w])
      /\ results' \subseteq Works \X Outcomes
      /\ \A w \in Works, o \in Outcomes :
           << w, o >> \in results' => << w, o >> \in results \/ Known(w, o)
  BY DEF WorkerMove
<1>2. \A x \in Workers : Honest(worker[x], executed')
  BY <1>1, WorkersAreHonest DEF Honest
<1>3. worker \in [Workers -> WorkerRecords]
  BY DEF Inv, TypeOK, WorkerRecords
<1>4. q \in WorkerRecords
  BY <1>1 DEF Honest
<1>5. worker' \in [Workers -> WorkerRecords] /\ \A x \in Workers : worker'[x] \in {worker[x], q}
  BY <1>1, <1>3, <1>4
<1>6. \A x \in Workers : Honest(worker'[x], executed')
  BY <1>1, <1>2, <1>5
<1>7. TypeOK'
  BY <1>1, <1>5 DEF Inv, TypeOK, WorkerRecords
<1>8. WorkersInOrder'
  BY <1>6 DEF Honest, WorkersInOrder
<1>9. ASSUME NEW a \in Actions PROVE a \in Works
  BY DEF Works
<1>10. DoneIsExecuted'
  <2>1. SUFFICES ASSUME NEW a \in Actions
                 PROVE  /\ finalization'.action[a] = "completed" => a \in executed'
                        /\ << a, "succeeded" >> \in results' => a \in executed'
                        /\ completedKey'[a] = "succeeded" => a \in executed'
                        /\ \A x \in Workers :
                             worker'[x].entry.work = a
                               /\ worker'[x].step \in {"publish", "record"}
                               /\ worker'[x].outcome = "succeeded" => a \in executed'
                        /\ \A h \in Handlers :
                             handler'[h].work = a
                               /\ (handler'[h].outcome = "succeeded"
                                   \/ handler'[h].view.work = "completed") => a \in executed'
    BY DEF DoneIsExecuted
  <2>2. /\ finalization.action[a] = "completed" => a \in executed
        /\ << a, "succeeded" >> \in results => a \in executed
        /\ completedKey[a] = "succeeded" => a \in executed
        /\ \A h \in Handlers :
             handler[h].work = a /\ (handler[h].outcome = "succeeded"
                                     \/ handler[h].view.work = "completed") => a \in executed
    BY DEF Inv, DoneIsExecuted
  <2>3. << a, "succeeded" >> \in results' => a \in executed'
    BY <1>1, <1>9, <2>2 DEF Known, Outcomes
  <2>4. completedKey'[a] = "succeeded" => a \in executed'
    BY <1>1, <1>9, <2>2 DEF Known
  <2>5. \A x \in Workers : worker'[x].entry.work = a
                             /\ worker'[x].step \in {"publish", "record"}
                             /\ worker'[x].outcome = "succeeded" => a \in executed'
    BY <1>6 DEF Honest
  <2> QED
    BY <1>1, <2>2, <2>3, <2>4, <2>5
<1>11. UnsentIsUnknown'
  <2>1. SUFFICES ASSUME NEW w \in Works, Unsent(finalization, w)
                 PROVE  /\ \A e \in open' : e.work # w
                        /\ \A x \in Workers : worker'[x].entry.work # w
                        /\ completedKey'[w] = "none"
                        /\ \A o \in Outcomes : << w, o >> \notin results'
                        /\ \A h \in Handlers : handler'[h].work # w
    BY <1>1 DEF UnsentIsUnknown, Unsent
  <2>2. /\ \A e \in open : e.work # w
        /\ completedKey[w] = "none"
        /\ \A o \in Outcomes : << w, o >> \notin results
        /\ \A h \in Handlers : handler[h].work # w
    BY <2>1 DEF Inv, UnsentIsUnknown
  <2>3. \A x \in Workers : worker'[x].entry.work # w
    BY <1>6, <2>1 DEF Honest
  <2> QED
    BY <1>1, <2>1, <2>2, <2>3 DEF Known
<1>12. ViewsHold' /\ IdleIsIdle' /\ ReadIsReady' /\ StartsEmpty'
  BY <1>1 DEF Inv, ViewsHold, IdleIsIdle, ReadIsReady, StartsEmpty
<1>13. TextIsStored'
  BY <1>1 DEF Inv, TextIsStored
<1>14. CompletedMeansDone'
  BY <1>1 DEF Inv, CompletedMeansDone, TypeOK
<1>15. ActionHasItsInputs'
  BY <1>1 DEF Inv, ActionHasItsInputs
<1> QED
  BY <1>7, <1>8, <1>10, <1>11, <1>12, <1>13, <1>14, <1>15 DEF Inv

\* The parts of a worker's step that most steps share.
Elsewhere ==
  /\ UNCHANGED << announced, recording, starting, events, finalization, handler >>
  /\ executed' = executed /\ stored' = stored /\ faults' \in 0 .. MaxFaults

\* The command stream, the completed keys and the results are as they were.
LEMMA OnlyMoves ==
  ASSUME Inv, Elsewhere, UNCHANGED << open, completedKey, results >>,
         NEW p \in Workers, NEW q, Honest(q, executed), worker' = [worker EXCEPT ![p] = q]
  PROVE  WorkerMove(p, q)
BY DEF WorkerMove, Elsewhere, Inv, TypeOK

LEMMA WithStep ==
  ASSUME Inv, NEW p \in Workers, NEW s \in Steps, worker[p].step # "idle",
         s \in {"requeue"} => MayRetry(worker[p].entry.attempt),
         s \in {"publish", "record"} => worker[p].step \in {"publish", "record"}
  PROVE  Honest([worker[p] EXCEPT !.step = s], executed)
<1> DEFINE q == [worker[p] EXCEPT !.step = s]
<1>1. Honest(worker[p], executed)
  BY WorkersAreHonest
<1>2. q \in WorkerRecords /\ q.step = s /\ q.entry = worker[p].entry
      /\ q.outcome = worker[p].outcome
  BY <1>1 DEF Honest, WorkerRecords
<1> HIDE DEF q
<1>3. Honest(q, executed)
  BY <1>1, <1>2 DEF Honest
<1> QED
  BY <1>3 DEF q

LEMMA WithOutcome ==
  ASSUME Inv, NEW p \in Workers, worker[p].step # "idle", NEW o \in Outcomes, NEW done,
         executed \subseteq done,
         o = "succeeded" /\ Work(p) \in Actions => Work(p) \in done
  PROVE  Honest([worker[p] EXCEPT !.step = "publish", !.outcome = o], done)
<1> DEFINE q == [worker[p] EXCEPT !.step = "publish", !.outcome = o]
<1>1. Honest(worker[p], executed)
  BY WorkersAreHonest
<1>2. q \in WorkerRecords /\ q.step = "publish" /\ q.entry = worker[p].entry /\ q.outcome = o
  BY <1>1 DEF Honest, WorkerRecords, Steps
<1> HIDE DEF q
<1>3. Honest(q, done)
  BY <1>1, <1>2 DEF Honest, Work
<1> QED
  BY <1>3 DEF q

LEMMA IdleIsHonest == ASSUME NEW done PROVE Honest(WorkerIdle, done)
<1>1. /\ WorkerIdle.entry = NoEntry /\ WorkerIdle.step = "idle" /\ WorkerIdle.outcome = "failed"
      /\ NoEntry.work = "none" /\ WorkerIdle \in WorkerRecords
  BY DEF WorkerIdle, WorkerRecords, NoEntry, Steps, Outcomes
<1>2. "none" \notin Works /\ "none" \notin Actions
  BY HandlerIdleRows
<1> QED
  BY <1>1, <1>2 DEF Honest

LEMMA WorkOfWorker ==
  ASSUME Inv, NEW p \in Workers, worker[p].step # "idle"
  PROVE  Work(p) \in Works /\ ~Unsent(finalization, Work(p))
         /\ worker[p].entry.attempt \in 1 .. MaxRetries + 1
BY WorkersAreHonest DEF Honest, Work, Entries

LEMMA ClaimKeeps ==
  ASSUME Inv, NEW p \in Workers, NEW entry \in open, Claim(p, entry)
  PROVE  Inv'
<1> DEFINE known == completedKey[entry.work]
           s == IF known = "none" THEN "context" ELSE "ack"
           q == [worker[p] EXCEPT !.entry = entry, !.step = s]
<1>1. /\ worker' = [worker EXCEPT ![p].entry = entry, ![p].step = s]
      /\ results' = results \union (IF known = "none" THEN {} ELSE {<<entry.work, known>>})
      /\ UNCHANGED << announced, recording, starting, events, finalization, handler,
                      stored, open, completedKey, executed, faults >>
  BY DEF Claim, WorkerStep, callVars
<1>2. entry \in Entries /\ entry.work \in Works /\ known \in Outcomes \union {"none"}
  BY DEF Inv, TypeOK, Entries
<1>3. ~Unsent(finalization, entry.work)
  BY <1>2 DEF Inv, UnsentIsUnknown
<1>4. s \in {"context", "ack"}
  OBVIOUS
<1> HIDE DEF s
<1>5. Honest(worker[p], executed) /\ worker \in [Workers -> WorkerRecords]
  BY WorkersAreHonest DEF Inv, TypeOK, WorkerRecords
<1>6. q \in WorkerRecords /\ q.entry = entry /\ q.step = s
  BY <1>2, <1>4, <1>5 DEF WorkerRecords, Steps
<1>7. worker' = [worker EXCEPT ![p] = q]
  BY <1>1, <1>5
<1> HIDE DEF q
<1>8. Honest(q, executed')
  BY <1>1, <1>2, <1>3, <1>4, <1>6 DEF Honest
<1>9. known = "succeeded" /\ entry.work \in Actions => entry.work \in executed
  BY DEF Inv, DoneIsExecuted
<1>10. known # "none" => Known(entry.work, known)
  BY <1>3, <1>9 DEF Known
<1>11. /\ results' \subseteq Works \X Outcomes
       /\ \A w \in Works, o \in Outcomes :
            << w, o >> \in results' => << w, o >> \in results \/ Known(w, o)
  <2>1. results \subseteq Works \X Outcomes
    BY DEF Inv, TypeOK
  <2>2. CASE known = "none"
    BY <1>1, <2>1, <2>2
  <2>3. CASE known # "none"
    <3>1. results' = results \union {<<entry.work, known>>} /\ known \in Outcomes
      BY <1>1, <1>2, <2>3
    <3> HIDE DEF known
    <3> QED
      BY <1>2, <1>10, <2>1, <2>3, <3>1
  <2> QED
    BY <2>2, <2>3
<1>12. executed \subseteq Actions /\ stored \in BOOLEAN /\ faults \in 0 .. MaxFaults
       /\ open \subseteq Entries /\ completedKey \in [Works -> Outcomes \union {"none"}]
  BY DEF Inv, TypeOK
<1> HIDE DEF known
<1>13. WorkerMove(p, q)
  BY <1>1, <1>7, <1>8, <1>11, <1>12 DEF WorkerMove
<1> QED
  BY <1>13, MoveKeeps

LEMMA WorkerTyped ==
  ASSUME Inv
  PROVE  /\ worker \in [Workers -> WorkerRecords]
         /\ executed \subseteq Actions /\ stored \in BOOLEAN /\ faults \in 0 .. MaxFaults
         /\ open \subseteq Entries /\ completedKey \in [Works -> Outcomes \union {"none"}]
         /\ results \subseteq Works \X Outcomes
BY DEF Inv, TypeOK, WorkerRecords

\* What GoTo and Finish make of the worker's record.
LEMMA GoToRows ==
  ASSUME Inv, NEW p \in Workers, NEW s \in Steps, worker[p].step # "idle", GoTo(p, s),
         s \in {"requeue"} => MayRetry(worker[p].entry.attempt),
         s \in {"publish", "record"} => worker[p].step \in {"publish", "record"}
  PROVE  \E q : Honest(q, executed) /\ worker' = [worker EXCEPT ![p] = q]
<1>1. worker' = [worker EXCEPT ![p] = [worker[p] EXCEPT !.step = s]]
  BY WorkerTyped DEF GoTo
<1> QED
  BY <1>1, WithStep

LEMMA FinishRows ==
  ASSUME Inv, NEW p \in Workers, worker[p].step # "idle", NEW o \in Outcomes, Finish(p, o),
         NEW done, executed \subseteq done,
         o = "succeeded" /\ Work(p) \in Actions => Work(p) \in done
  PROVE  \E q : Honest(q, done) /\ worker' = [worker EXCEPT ![p] = q]
<1>1. worker' = [worker EXCEPT ![p] = [worker[p] EXCEPT !.step = "publish", !.outcome = o]]
  BY WorkerTyped DEF Finish
<1> QED
  BY <1>1, WithOutcome

LEMMA FailRows ==
  ASSUME Inv, NEW p \in Workers, worker[p].step # "idle", FailForNow(p)
  PROVE  \E q : Honest(q, executed) /\ worker' = [worker EXCEPT ![p] = q]
<1>1. CASE MayRetry(worker[p].entry.attempt)
  BY <1>1, GoToRows DEF FailForNow, Steps
<1>2. CASE ~MayRetry(worker[p].entry.attempt)
  BY <1>2, FinishRows DEF FailForNow, Outcomes
<1> QED
  BY <1>1, <1>2

LEMMA GetContextKeeps ==
  ASSUME Inv, NEW p \in Workers, GetContext(p)
  PROVE  Inv'
<1>1. worker[p].step # "idle"
  BY DEF GetContext, At
<1>2. \E q : Honest(q, executed) /\ worker' = [worker EXCEPT ![p] = q]
  <2>1. CASE GoTo(p, "execute")
    BY <1>1, <2>1, GoToRows DEF Steps
  <2>2. CASE FailForNow(p)
    BY <1>1, <2>2, FailRows
  <2> QED
    BY <2>1, <2>2 DEF GetContext
<1>3. Elsewhere /\ UNCHANGED << open, completedKey, results >>
  BY WorkerTyped DEF GetContext, WorkerStep, callVars, Elsewhere
<1> QED
  BY <1>2, <1>3, OnlyMoves, MoveKeeps

LEMMA ExecuteKeeps ==
  ASSUME Inv, NEW p \in Workers, Execute(p)
  PROVE  Inv'
<1>1. worker[p].step # "idle"
  BY DEF Execute, At
<1>2. UNCHANGED << announced, recording, starting, events, finalization, handler,
                   open, completedKey, results, faults >>
  BY DEF Execute, WorkerStep, callVars
<1>3. CASE Succeed(p)
  <2>1. /\ Finish(p, "succeeded") /\ executed' = executed \union ({Work(p)} \intersect Actions)
        /\ stored' = (stored \/ Work(p) = "text")
    BY <1>3 DEF Succeed
  <2>2. /\ executed \subseteq executed' /\ executed' \subseteq Actions
        /\ Work(p) \in Actions => Work(p) \in executed'
    BY <2>1, WorkerTyped
  <2>3. stored' \in BOOLEAN /\ (stored => stored')
    BY <2>1
  <2>4. "succeeded" \in Outcomes
    BY DEF Outcomes
  <2>5. PICK q : Honest(q, executed') /\ worker' = [worker EXCEPT ![p] = q]
    BY <1>1, <2>1, <2>2, <2>4, FinishRows
  <2>6. WorkerMove(p, q)
    BY <1>2, <2>2, <2>3, <2>5, WorkerTyped DEF WorkerMove
  <2> QED
    BY <2>6, MoveKeeps
<1>4. CASE (FailForNow(p) \/ Finish(p, "failed")) /\ UNCHANGED << executed, stored >>
  <2>1. \E q : Honest(q, executed) /\ worker' = [worker EXCEPT ![p] = q]
    BY <1>1, <1>4, FailRows, FinishRows DEF Outcomes
  <2>2. Elsewhere
    BY <1>2, <1>4, WorkerTyped DEF Elsewhere
  <2> QED
    BY <1>2, <2>1, <2>2, OnlyMoves, MoveKeeps
<1> QED
  BY <1>3, <1>4 DEF Execute

LEMMA RequeueKeeps ==
  ASSUME Inv, NEW p \in Workers, Requeue(p)
  PROVE  Inv'
<1> DEFINE e == Entry(Work(p), worker[p].entry.attempt + 1)
<1>1. /\ worker[p].step = "requeue" /\ open' = open \union {e} /\ GoTo(p, "ack")
      /\ UNCHANGED << announced, recording, starting, events, finalization, handler,
                      stored, completedKey, results, executed, faults >>
  BY DEF Requeue, WorkerStep, callVars, At
<1>2. PICK q : Honest(q, executed) /\ worker' = [worker EXCEPT ![p] = q]
  BY <1>1, GoToRows DEF Steps
<1>3. /\ Work(p) \in Works /\ ~Unsent(finalization, Work(p))
      /\ worker[p].entry.attempt \in 1 .. MaxRetries + 1
  BY <1>1, WorkOfWorker
<1>4. worker[p].entry.attempt <= MaxRetries
  BY <1>1 DEF Inv, WorkersInOrder, MayRetry
<1>5. worker[p].entry.attempt + 1 \in 1 .. MaxRetries + 1
  BY <1>3, <1>4, BoundsAssumption
<1>6. e \in Entries /\ e.work = Work(p)
  BY <1>3, <1>5 DEF Entry, Entries
<1> HIDE DEF e
<1>7. open' \subseteq Entries /\ \A x \in open' : x \in open \/ ~Unsent(finalization, x.work)
  BY <1>1, <1>3, <1>6, WorkerTyped
<1>8. WorkerMove(p, q)
  BY <1>1, <1>2, <1>7, WorkerTyped DEF WorkerMove
<1> QED
  BY <1>8, MoveKeeps

\* At publish and at record, the outcome is known.
LEMMA OutcomeKnown ==
  ASSUME Inv, NEW p \in Workers, worker[p].step \in {"publish", "record"}
  PROVE  worker[p].outcome \in Outcomes /\ Work(p) \in Works
         /\ Known(Work(p), worker[p].outcome)
<1>1. worker[p].outcome \in Outcomes
  BY WorkerTyped DEF WorkerRecords
<1>2. Work(p) \in Works /\ ~Unsent(finalization, Work(p))
  BY WorkOfWorker
<1>3. worker[p].outcome = "succeeded" /\ Work(p) \in Actions => Work(p) \in executed
  BY DEF Inv, DoneIsExecuted, Work
<1> QED
  BY <1>1, <1>2, <1>3 DEF Known

LEMMA PublishKeeps ==
  ASSUME Inv, NEW p \in Workers, Publish(p)
  PROVE  Inv'
<1>1. /\ worker[p].step = "publish" /\ GoTo(p, "record")
      /\ results' = results \union {<<Work(p), worker[p].outcome>>}
      /\ UNCHANGED << announced, recording, starting, events, finalization, handler,
                      stored, open, completedKey, executed, faults >>
  BY DEF Publish, WorkerStep, callVars, At
<1>2. PICK q : Honest(q, executed) /\ worker' = [worker EXCEPT ![p] = q]
  BY <1>1, GoToRows DEF Steps
<1>3. worker[p].outcome \in Outcomes /\ Work(p) \in Works /\ Known(Work(p), worker[p].outcome)
  BY <1>1, OutcomeKnown
<1>4. /\ results' \subseteq Works \X Outcomes
      /\ \A w \in Works, o \in Outcomes :
           << w, o >> \in results' => << w, o >> \in results \/ Known(w, o)
  BY <1>1, <1>3, WorkerTyped
<1>5. WorkerMove(p, q)
  BY <1>1, <1>2, <1>4, WorkerTyped DEF WorkerMove
<1> QED
  BY <1>5, MoveKeeps

LEMMA RecordKeeps ==
  ASSUME Inv, NEW p \in Workers, Record(p)
  PROVE  Inv'
<1>1. /\ worker[p].step = "record" /\ GoTo(p, "ack")
      /\ completedKey' = [completedKey EXCEPT ![Work(p)] = worker[p].outcome]
      /\ UNCHANGED << announced, recording, starting, events, finalization, handler,
                      stored, open, results, executed, faults >>
  BY DEF Record, WorkerStep, callVars, At
<1>2. PICK q : Honest(q, executed) /\ worker' = [worker EXCEPT ![p] = q]
  BY <1>1, GoToRows DEF Steps
<1>3. worker[p].outcome \in Outcomes /\ Work(p) \in Works /\ Known(Work(p), worker[p].outcome)
  BY <1>1, OutcomeKnown
<1>4. completedKey' \in [Works -> Outcomes \union {"none"}]
      /\ \A w \in Works : completedKey'[w] = completedKey[w] \/ Known(w, completedKey'[w])
  BY <1>1, <1>3, WorkerTyped
<1>5. WorkerMove(p, q)
  BY <1>1, <1>2, <1>4, WorkerTyped DEF WorkerMove
<1> QED
  BY <1>5, MoveKeeps

LEMMA AcknowledgeKeeps ==
  ASSUME Inv, NEW p \in Workers, Acknowledge(p)
  PROVE  Inv'
<1>1. /\ open' = open \ {worker[p].entry} /\ worker' = [worker EXCEPT ![p] = WorkerIdle]
      /\ UNCHANGED << announced, recording, starting, events, finalization, handler,
                      stored, completedKey, results, executed, faults >>
  BY DEF Acknowledge, WorkerStep, callVars
<1>2. WorkerMove(p, WorkerIdle)
  BY <1>1, IdleIsHonest, WorkerTyped DEF WorkerMove
<1> QED
  BY <1>2, MoveKeeps

LEMMA CrashKeeps ==
  ASSUME Inv, NEW p \in Workers, Crash(p)
  PROVE  Inv'
<1>1. /\ Fault /\ worker' = [worker EXCEPT ![p] = WorkerIdle]
      /\ UNCHANGED << announced, recording, starting, events, finalization, handler,
                      stored, open, completedKey, results, executed >>
  BY DEF Crash, WorkerStep, callVars
<1>2. faults' \in 0 .. MaxFaults
  BY <1>1, WorkerTyped, BoundsAssumption DEF Fault
<1>3. Elsewhere
  BY <1>1, <1>2 DEF Elsewhere
<1> QED
  BY <1>1, <1>3, IdleIsHonest, OnlyMoves, MoveKeeps
-----------------------------------------------------------------------------
(***************************************************************************)
(* Every step, and the theorems.                                           *)
(***************************************************************************)

LEMMA StartCommitKeeps ==
  ASSUME Inv, NEW e \in StartEvents, StartCommit(e)
  PROVE  Inv'
<1>1. CASE Committed
  BY <1>1, CommitKeeps
<1>2. CASE /\ UNCHANGED << finalization, open, announced, recording, stored, worker,
                           completedKey, executed, results, handler, faults, events >>
           /\ starting' = [starting EXCEPT ![e] = "no"]
  <2>1. starting \in [StartEvents -> {"no", "absent", "recording", "ready", "failed"}]
    BY DEF Inv, TypeOK
  <2>2. starting' \in [StartEvents -> {"no", "absent", "recording", "ready", "failed"}]
        /\ \A x \in StartEvents : starting'[x] \in {"no", starting[x]}
    BY <1>2, <2>1
  <2>3. TypeOK' /\ ReadIsReady'
    BY <1>2, <2>2 DEF Inv, TypeOK, ReadIsReady
  <2> QED
    BY <1>2, <2>3, QuietKeeps DEF Quiet
<1> QED
  BY <1>1, <1>2, CommitRows

LEMMA RecordingChangedKeeps ==
  ASSUME Inv, RecordingChanged
  PROVE  Inv'
<1>1. CASE Committed
  BY <1>1, CommitKeeps
<1>2. CASE /\ UNCHANGED << finalization, open, announced, recording, stored, worker,
                           completedKey, executed, results, handler, faults, starting >>
           /\ events' \subseteq events
  <2>1. TypeOK' /\ ReadIsReady'
    BY <1>2 DEF Inv, TypeOK, ReadIsReady
  <2> QED
    BY <1>2, <2>1, QuietKeeps DEF Quiet
<1> QED
  BY <1>1, <1>2, RecordingRows

LEMMA InitInv == ASSUME Init PROVE Inv
<1>1. NoFinalization \in Finalizations /\ NoFinalization.text = "none"
      /\ NoFinalization.status = "none" /\ NoFinalization.summary = FALSE
      /\ \A a \in Actions : NoFinalization.action[a] = "pending"
  BY DEF NoFinalization, Finalizations, WorkStatus
<1>2. /\ WorkerIdle \in WorkerRecords /\ WorkerIdle.step = "idle"
      /\ WorkerIdle.entry.work = "none"
  BY DEF WorkerIdle, WorkerRecords, NoEntry, Steps, Outcomes
<1>3. "none" \notin Works /\ "none" \notin Actions /\ HandlerIdle.work = "none"
  BY HandlerIdleRows
<1>4. \A a \in Actions : a \in Works
  BY DEF Works
<1>5. TypeOK
  <2>1. finalization = NoFinalization /\ worker = [p \in Workers |-> WorkerIdle]
        /\ handler = [h \in Handlers |-> HandlerIdle]
    BY DEF Init
  <2>2. announced = {} /\ events = {} /\ open = {} /\ results = {} /\ executed = {}
        /\ stored = FALSE /\ faults = 0
        /\ recording \in {"absent", "recording"}
        /\ starting = [e \in StartEvents |-> "no"]
        /\ completedKey = [w \in Works |-> "none"]
    BY DEF Init
  <2>3. worker \in [Workers -> WorkerRecords]
    BY <1>2, <2>1
  <2>4. handler \in [Handlers -> [work : Works \union {"none"}, outcome : Outcomes,
                               view : [status : {"none"} \union WorkStatus,
                                       summary : BOOLEAN,
                                       work : {"none"} \union WorkStatus]]]
    BY <2>1, HandlerIdleRows
  <2>5. finalization \in Finalizations
    BY <1>1, <2>1
  <2>6. /\ starting \in [StartEvents -> {"no", "absent", "recording", "ready", "failed"}]
        /\ completedKey \in [Works -> Outcomes \union {"none"}]
    BY <2>2
  <2>7. /\ announced \subseteq Events /\ events \subseteq announced
        /\ recording \in {"absent", "recording", "ready", "failed"}
        /\ stored \in BOOLEAN /\ open \subseteq Entries
        /\ results \subseteq (Works \X Outcomes) /\ executed \subseteq Actions
    BY <2>2
  <2>8. faults \in 0 .. MaxFaults
    BY <2>2, BoundsAssumption
  <2> QED
    BY <2>3, <2>4, <2>5, <2>6, <2>7, <2>8 DEF TypeOK, WorkerRecords, Finalizations
<1>6. /\ worker = [p \in Workers |-> WorkerIdle] /\ handler = [h \in Handlers |-> HandlerIdle]
      /\ results = {} /\ open = {} /\ completedKey = [w \in Works |-> "none"]
      /\ finalization = NoFinalization /\ starting = [e \in StartEvents |-> "no"]
  BY DEF Init
<1> HIDE DEF Init
<1>7. WorkersInOrder /\ IdleIsIdle /\ TextIsStored /\ ReadIsReady /\ StartsEmpty
      /\ CompletedMeansDone /\ ActionHasItsInputs /\ ViewsHold
  BY <1>1, <1>2, <1>3, <1>6
     DEF WorkersInOrder, IdleIsIdle, TextIsStored, ReadIsReady, StartsEmpty,
         CompletedMeansDone, ActionHasItsInputs, ViewsHold
<1>8. DoneIsExecuted
  BY <1>1, <1>2, <1>3, <1>4, <1>6 DEF DoneIsExecuted
<1>9. UnsentIsUnknown
  BY <1>1, <1>2, <1>3, <1>6 DEF UnsentIsUnknown
<1> QED
  BY <1>5, <1>7, <1>8, <1>9 DEF Inv

LEMMA InvNext == ASSUME Inv, [Next]_vars PROVE Inv'
<1>1. ASSUME NEW e \in StartEvents, CallEvent(e) PROVE Inv'
  BY <1>1, QuietSteps, QuietKeeps
<1>2. ASSUME NEW e \in StartEvents, StartAgain(e) PROVE Inv'
  BY <1>2, QuietSteps, QuietKeeps
<1>3. ASSUME NEW e \in StartEvents, StartRead(e) PROVE Inv'
  BY <1>3, QuietSteps, QuietKeeps
<1>4. ASSUME NEW e \in StartEvents, StartCommit(e) PROVE Inv'
  BY <1>4, StartCommitKeeps
<1>5. ASSUME NEW s \in {"ready", "failed"}, RecordingSettles(s) PROVE Inv'
  BY <1>5, QuietSteps, QuietKeeps
<1>6. ASSUME RecordingChanged PROVE Inv'
  BY <1>6, RecordingChangedKeeps
<1>7. ASSUME NEW h \in Handlers, NEW w \in Works, NEW outcome \in Outcomes,
             ReadResult(h, w, outcome)
      PROVE  Inv'
  BY <1>7, ReadKeeps
<1>8. ASSUME NEW h \in Handlers, ApplyResult(h) PROVE Inv'
  BY <1>8, ApplyRows, CommitKeeps
<1>9. ASSUME NEW h \in Handlers, HandlerLost(h) PROVE Inv'
  BY <1>9, QuietSteps, QuietKeeps
<1>10. ASSUME NEW p \in Workers, NEW entry \in open, Claim(p, entry) PROVE Inv'
  BY <1>10, ClaimKeeps
<1>11. ASSUME NEW p \in Workers, Working(p) PROVE Inv'
  BY <1>11, GetContextKeeps, ExecuteKeeps, RequeueKeeps, PublishKeeps, RecordKeeps,
     AcknowledgeKeeps DEF Working
<1>12. ASSUME NEW p \in Workers, Crash(p) PROVE Inv'
  BY <1>12, CrashKeeps
<1>13. CASE UNCHANGED vars
  BY <1>13, QuietSteps, QuietKeeps
<1>14. CASE \E e \in StartEvents : CallEvent(e) \/ Starting(e)
  BY <1>1, <1>2, <1>3, <1>4, <1>14 DEF Starting
<1>15. CASE \E s \in {"ready", "failed"} : RecordingSettles(s)
  BY <1>5, <1>15
<1>16. CASE \E h \in Handlers :
               \/ \E w \in Works, outcome \in Outcomes : ReadResult(h, w, outcome)
               \/ ApplyResult(h)
               \/ HandlerLost(h)
  BY <1>7, <1>8, <1>9, <1>16
<1>17. CASE \E p \in Workers : (\E entry \in open : Claim(p, entry)) \/ Working(p) \/ Crash(p)
  BY <1>10, <1>11, <1>12, <1>17
<1> QED
  BY <1>6, <1>13, <1>14, <1>15, <1>16, <1>17 DEF Next

\* The inductive invariant holds in every reachable state.
THEOREM InvHolds == Spec => []Inv
<1>1. Init => Inv
  BY InitInv
<1>2. Inv /\ [Next]_vars => Inv'
  BY InvNext
<1> QED
  BY <1>1, <1>2, PTL DEF Spec

\* Every variable keeps its type.
THEOREM TypeCorrect == Spec => []TypeOK
<1>1. Inv => TypeOK
  BY DEF Inv
<1> QED
  BY <1>1, InvHolds, PTL

\* COMPLETED means that the summary is stored and every action has succeeded at
\* its provider, for every configuration, any number of workers that crash and
\* repeat each other's commands, and any number of backend processes whose
\* handlers decide by what they read before the lock.
THEOREM CompletedFinalizationsAreDone == Spec => []CompletedMeansDone
<1>1. Inv => CompletedMeansDone
  BY DEF Inv
<1> QED
  BY <1>1, InvHolds, PTL

\* An action that has been sent finds all its inputs for as long as the
\* finalization is at work, for every assignment of inputs to actions.
THEOREM SentActionsHaveTheirInputs == Spec => []ActionHasItsInputs
<1>1. Inv => ActionHasItsInputs
  BY DEF Inv
<1> QED
  BY <1>1, InvHolds, PTL
-----------------------------------------------------------------------------
(***************************************************************************)
(* The outcome of a finalization is final when one consumer handles the    *)
(* results.  Then what the handler has read of the finalization is still   *)
(* so when it has the lock, except that the recording's event may have     *)
(* given the finalization up, for a reason that the handler finds again.   *)
(***************************************************************************)

OneHandler == \A g, h \in Handlers : g = h

\* A pending action waits for a recording that has failed.
Stuck ==
  /\ recording = "failed"
  /\ \E a \in Actions : finalization.action[a] = "pending" /\ "recording" \in Inputs[a]

ViewsAreNow ==
  \A h \in Handlers : handler[h].work # "none" =>
    /\ handler[h].view.work = WorkOf(finalization, handler[h].work)
    /\ handler[h].view.summary = finalization.summary
    /\ finalization.status = "processing" \/ (finalization.status = "failed" /\ Stuck)

AtWorkMeansNotDone ==
  finalization.status = "processing" =>
    ~AllDone(finalization) /\ finalization.text # "failed"

LastInv == ViewsAreNow /\ AtWorkMeansNotDone

\* A final status is not replaced.
Kept == finalization.status \in Over => finalization'.status = finalization.status

LEMMA SeenNow ==
  ASSUME Inv, LastInv, NEW h \in Handlers, handler[h].work # "none"
  PROVE  LET s == Seen(h)
         IN  /\ s \in Finalizations /\ s.status = "processing"
             /\ s.summary = finalization.summary /\ s.action = finalization.action
             /\ s.text = finalization.text
<1> DEFINE w == handler[h].work
           v == handler[h].view
           f == finalization
           s == Seen(h)
           g == [f EXCEPT !.status = v.status, !.summary = v.summary]
<1>1. /\ w \in Works /\ f \in Finalizations /\ s \in Finalizations /\ s.status = "processing"
      /\ \A a \in Actions \ {w} : s.action[a] = f.action[a]
      /\ w # "text" => s.text = f.text
      /\ w \in Actions => s.action[w] = v.work
      /\ w = "text" => s.text = v.work
  BY SeenRows
<1>2. v.work = WorkOf(f, w) /\ v.summary = f.summary
  BY DEF LastInv, ViewsAreNow
<1>3. "text" \notin Actions /\ "summary" \notin Actions
  BY ActionsAssumption
<1>4. w \in Actions => WorkOf(f, w) = f.action[w]
  BY <1>3 DEF WorkOf
<1>5. w = "text" => WorkOf(f, w) = f.text
  BY DEF WorkOf
<1>6. s = WithWork(g, w, v.work)
  BY DEF Seen
<1>7. g.summary = v.summary
  BY <1>1 DEF Finalizations
<1> HIDE DEF g, s, w, v
<1>8. \A r \in {s} : s = WithWork(g, w, v.work) => s.summary = g.summary
  <2>1. CASE w = "summary"
    BY <1>6, <2>1 DEF WithWork
  <2>2. CASE w = "text"
    <3>1. s = [g EXCEPT !.text = v.work]
      BY <1>6, <2>2 DEF WithWork
    <3>2. [g EXCEPT !.text = v.work].summary = g.summary
      BY <1>1 DEF Finalizations, g
    <3> QED
      BY <3>1, <3>2
  <2>3. CASE w \in Actions
    <3>1. s = [g EXCEPT !.action[w] = v.work]
      BY <1>3, <1>6, <2>3 DEF WithWork
    <3>2. [g EXCEPT !.action[w] = v.work].summary = g.summary
      BY <1>1 DEF Finalizations, g
    <3> QED
      BY <3>1, <3>2
  <2> QED
    BY <1>1, <2>1, <2>2, <2>3 DEF Works
<1>9. s.summary = f.summary
  BY <1>2, <1>6, <1>7, <1>8
<1>10. \A a \in Actions : s.action[a] = f.action[a]
  BY <1>1, <1>2, <1>4
<1>11. s.action = f.action
  BY <1>1, <1>10 DEF Finalizations
<1>12. s.text = f.text
  BY <1>1, <1>2, <1>5
<1> QED
  BY <1>1, <1>9, <1>11, <1>12 DEF s

\* What is written when _schedule has been called on what was seen, with the
\* result of w entered.
LEMMA LastSchedule ==
  ASSUME Inv, LastInv, NEW h \in Handlers, handler[h].work # "none",
         NEW d \in Finalizations, d.status = "processing",
         \A a \in Actions \ {handler[h].work} : d.action[a] = finalization.action[a],
         finalization' = Written(Seen(h), Scheduled(d, recording))
  PROVE  /\ Stuck => finalization'.status = "failed"
         /\ finalization.status = "processing" /\ finalization'.status = "processing"
              => ~AllDone(finalization')
<1> DEFINE s == Seen(h)
           n == Scheduled(d, recording)
           f == finalization
           w == handler[h].work
<1>1. /\ s \in Finalizations /\ s.status = "processing" /\ s.summary = f.summary
      /\ s.action = f.action /\ s.text = f.text
  BY SeenNow
<1>2. /\ n \in Finalizations
      /\ Hopeless(d, recording) # {} => n.status = "failed"
      /\ \/ n.status \in {"failed", "completed"}
         \/ n.status = d.status /\ ~AllDone(n)
  BY ScheduledRows
<1>3. f \in Finalizations
  BY FinalizationTyped DEF Inv
<1>4. w \in Actions => f.action[w] # "pending"
  BY SeenRows
<1>5. Stuck => Hopeless(d, recording) # {}
  <2>1. ASSUME Stuck PROVE Hopeless(d, recording) # {}
    <3>1. PICK a \in Actions : f.action[a] = "pending" /\ "recording" \in Inputs[a]
      BY <2>1 DEF Stuck
    <3>2. recording = "failed"
      BY <2>1 DEF Stuck
    <3>3. d.action[a] = "pending"
      BY <1>4, <3>1
    <3>4. a \in Hopeless(d, recording)
      BY <3>1, <3>2, <3>3 DEF Hopeless, Pending
    <3> QED
      BY <3>4
  <2> QED
    BY <2>1
<1> HIDE DEF s, n
<1>6. f' = Written(s, n)
  BY DEF s, n
<1>7. /\ f'.status = IF n.status # s.status THEN n.status ELSE f.status
      /\ f'.summary = IF n.summary # s.summary THEN n.summary ELSE f.summary
      /\ f'.action = [a \in Actions |-> IF n.action[a] # s.action[a]
                                        THEN n.action[a] ELSE f.action[a]]
      /\ f'.text = IF n.text # s.text THEN n.text ELSE f.text
  BY <1>6 DEF Written
<1>8. Stuck => f'.status = "failed"
  BY <1>1, <1>2, <1>5, <1>7
<1>9. ASSUME f.status = "processing", f'.status = "processing"
      PROVE  ~AllDone(f')
  <2>1. n.status = "processing"
    BY <1>1, <1>7, <1>9
  <2>2. ~AllDone(n)
    BY <1>2, <2>1
  <2>3. f'.summary = n.summary
    BY <1>1, <1>7
  <2>4. \A a \in Actions : f'.action[a] = n.action[a]
    BY <1>1, <1>7
  <2> QED
    BY <2>2, <2>3, <2>4 DEF AllDone
<1> QED
  BY <1>8, <1>9

LEMMA LastApply ==
  ASSUME Inv, LastInv, NEW h \in Handlers, ApplyResult(h)
  PROVE  /\ Kept
         /\ finalization'.status = "processing" => ~AllDone(finalization')
<1> DEFINE w == handler[h].work
           f == finalization
           t == IF handler[h].outcome = "failed" THEN Failure(Seen(h), w)
                ELSE Success(Seen(h), w)
<1>1. w # "none"
  BY DEF ApplyResult, Inv, IdleIsIdle
<1>2. f' = Written(Seen(h), t.next)
  BY DEF ApplyResult
<1>3. /\ f \in Finalizations /\ Seen(h) \in Finalizations /\ w \in Works
      /\ Seen(h).status = "processing"
      /\ \A a \in Actions \ {w} : Seen(h).action[a] = f.action[a]
  BY <1>1, SeenRows
<1>4. f.status = "processing" \/ (f.status = "failed" /\ Stuck)
  BY <1>1 DEF LastInv, ViewsAreNow
<1>5. handler[h].outcome \in Outcomes
  BY DEF Inv, TypeOK
<1>6. CASE f' = f
  BY <1>6 DEF LastInv, AtWorkMeansNotDone, Kept, AllDone
<1>7. CASE f'.status = "failed"
  BY <1>4, <1>7 DEF Kept, Over
<1>8. ASSUME NEW d \in Finalizations, d.status = "processing",
             \A a \in Actions \ {w} : d.action[a] = f.action[a],
             f' = Written(Seen(h), Scheduled(d, recording))
      PROVE  Kept /\ (f'.status = "processing" => ~AllDone(f'))
  <2>1. /\ Stuck => f'.status = "failed"
        /\ f.status = "processing" /\ f'.status = "processing" => ~AllDone(f')
    BY <1>1, <1>8, LastSchedule
  <2> QED
    BY <1>4, <2>1 DEF Kept, Over
<1>9. CASE handler[h].outcome = "failed" /\ w \in {"summary", "text"}
  <2>1. f'.status = "failed"
    BY <1>2, <1>9, GivesUp
  <2> QED
    BY <1>7, <2>1
<1>10. CASE handler[h].outcome = "failed" /\ w \notin {"summary", "text"}
  <2> DEFINE d == Entered(h, "failed")
  <2>1. t = Then(Scheduled(d, recording), Commands(d, recording))
    <3>1. d = [Seen(h) EXCEPT !.action[w] = "failed"]
      BY <1>10 DEF Entered, WithWork
    <3> QED
      BY <1>10, <3>1 DEF Failure, AfterFailedAction
  <2>2. /\ d \in Finalizations /\ d.status = "processing"
        /\ \A a \in Actions \ {w} : d.action[a] = Seen(h).action[a]
    BY <1>1, <1>10, EnteredRows
  <2> HIDE DEF d
  <2>3. f' = Written(Seen(h), Scheduled(d, recording))
    BY <1>2, <2>1, ThenRows
  <2> QED
    BY <1>3, <1>8, <2>2, <2>3
<1>11. CASE handler[h].outcome = "succeeded" /\ ~Current(Seen(h), w)
  <2>1. t = Then(Seen(h), {})
    BY <1>11 DEF Success
  <2>2. f' = Written(Seen(h), Seen(h))
    BY <1>2, <2>1, ThenRows
  <2>3. Written(Seen(h), Seen(h)) = f
    BY <1>3 DEF Written, Finalizations
  <2> QED
    BY <1>6, <2>2, <2>3
<1>12. CASE handler[h].outcome = "succeeded" /\ Current(Seen(h), w) /\ w = "summary"
  <2> DEFINE d == [Seen(h) EXCEPT !.summary = TRUE]
  <2>1. t = Then(Scheduled(d, recording), Commands(d, recording))
    BY <1>12 DEF Success
  <2>2. /\ d \in Finalizations /\ d.status = Seen(h).status /\ d.action = Seen(h).action
    BY <1>3 DEF Finalizations
  <2> HIDE DEF d
  <2>3. f' = Written(Seen(h), Scheduled(d, recording))
    BY <1>2, <2>1, ThenRows
  <2> QED
    BY <1>3, <1>8, <2>2, <2>3
<1>13. CASE handler[h].outcome = "succeeded" /\ Current(Seen(h), w) /\ w # "summary"
  <2> DEFINE d == Entered(h, "completed")
  <2>1. t = Then(Scheduled(d, recording), Commands(d, recording))
    BY <1>13 DEF Success, Entered
  <2>2. /\ d \in Finalizations /\ d.status = "processing"
        /\ \A a \in Actions \ {w} : d.action[a] = Seen(h).action[a]
    BY <1>1, <1>13, EnteredRows
  <2> HIDE DEF d
  <2>3. f' = Written(Seen(h), Scheduled(d, recording))
    BY <1>2, <2>1, ThenRows
  <2> QED
    BY <1>3, <1>8, <2>2, <2>3
<1> QED
  BY <1>5, <1>9, <1>10, <1>11, <1>12, <1>13 DEF Outcomes

LEMMA TextLast ==
  ASSUME Inv, LastInv, Committed
  PROVE  finalization'.status = "processing" => finalization'.text # "failed"
<1>1. PICK f, sent :
        /\ f.text = finalization.text
        /\ finalization.status # "none" => f.status = finalization.status
        /\ Moves(f, finalization', sent)
  BY DEF Committed, Changed
<1>2. finalization.status = "none" => finalization.text = "none"
  BY DEF Inv, StartsEmpty, NoFinalization
<1>3. finalization.status = "processing" => finalization.text # "failed"
  BY DEF LastInv, AtWorkMeansNotDone
<1>4. /\ \/ finalization'.text = f.text
         \/ finalization'.text \in {"processing", "completed"}
         \/ finalization'.text = "failed" /\ finalization'.status # "processing"
      /\ finalization'.status \in {f.status, "failed", "completed"}
  BY <1>1 DEF Moves
<1> QED
  BY <1>1, <1>2, <1>3, <1>4

\* A step that leaves the finalization and the views as they are.
LEMMA StillNow ==
  ASSUME Inv, LastInv, finalization' = finalization,
         recording' = recording \/ recording = "recording",
         \A h \in Handlers : handler'[h] \in {handler[h], HandlerIdle}
  PROVE  LastInv' /\ Kept
<1>1. AtWorkMeansNotDone' /\ Kept
  BY DEF LastInv, AtWorkMeansNotDone, AllDone, Kept
<1>2. Stuck => Stuck'
  BY DEF Stuck
<1>3. \A h \in Handlers : handler'[h].work # "none" => handler'[h] = handler[h]
  BY HandlerIdleRows
<1>4. ViewsAreNow'
  BY <1>2, <1>3 DEF LastInv, ViewsAreNow, WorkOf
<1> QED
  BY <1>1, <1>4 DEF LastInv

LEMMA StartLast ==
  ASSUME Inv, LastInv, NEW e \in StartEvents, StartCommit(e)
  PROVE  LastInv' /\ Kept
<1>1. recording' = recording /\ handler' = handler
  BY DEF StartCommit, EventStep
<1>2. CASE finalization.status # "none"
  <2>1. finalization' = finalization
    BY <1>2 DEF StartCommit
  <2> QED
    BY <1>1, <2>1, StillNow
<1>3. CASE finalization.status = "none"
  <2> DEFINE f == [NoFinalization EXCEPT !.status = "processing"]
  <2>1. finalization' = Scheduled(f, starting[e]) /\ f \in Finalizations
    BY <1>3 DEF StartCommit, NoFinalization, Finalizations, WorkStatus
  <2>2. finalization'.status \in {"failed", "completed"} \/ ~AllDone(finalization')
    <3> HIDE DEF f
    <3> QED
      BY <2>1, ScheduledRows
  <2>3. Committed \/ finalization' = finalization
    BY CommitRows
  <2>4. finalization'.status = "processing" => finalization'.text # "failed"
    BY <1>3, <2>3, TextLast
  <2>5. \A h \in Handlers : handler'[h].work = "none"
    BY <1>1, <1>3 DEF Inv, ViewsHold
  <2>6. ViewsAreNow'
    BY <2>5 DEF ViewsAreNow
  <2>7. AtWorkMeansNotDone'
    BY <2>2, <2>4 DEF AtWorkMeansNotDone, AllDone
  <2>8. Kept
    BY <1>3 DEF Kept, Over
  <2> QED
    BY <2>6, <2>7, <2>8 DEF LastInv
<1> QED
  BY <1>2, <1>3

LEMMA RecordingLast ==
  ASSUME Inv, LastInv, RecordingChanged
  PROVE  LastInv' /\ Kept
<1> DEFINE f == finalization
           g == Scheduled(f, recording)
<1>1. recording' = recording /\ handler' = handler
  BY DEF RecordingChanged, EventStep
<1>2. CASE f.status # "processing"
  <2>1. finalization' = finalization
    BY <1>2 DEF RecordingChanged
  <2> QED
    BY <1>1, <2>1, StillNow
<1>3. CASE f.status = "processing"
  <2>1. finalization' = g
    BY <1>3 DEF RecordingChanged, Schedule
  <2>2. f \in Finalizations
    BY FinalizationTyped DEF Inv
  <2>3. /\ g.summary = f.summary
        /\ \A a \in Actions :
             g.action[a] = IF a \in Ready(f, recording) THEN "processing" ELSE f.action[a]
        /\ g.text = IF NeedsText(f, recording) THEN "processing" ELSE f.text
        /\ Hopeless(f, recording) # {} => g.status = "failed"
        /\ \/ g.status = "failed"
           \/ /\ g.status = "completed" /\ f.summary
              /\ \A a \in Actions : g.action[a] = "completed"
           \/ g.status = f.status /\ ~AllDone(g)
    BY <2>2, ScheduledRows
  <2>4. ~AllDone(f) /\ f.text # "failed"
    BY <1>3 DEF LastInv, AtWorkMeansNotDone
  <2>5. \A a \in Ready(f, recording) :
          /\ a \in Actions /\ f.action[a] = "pending"
          /\ "recording" \in Inputs[a] => recording = "ready"
    BY <2>2, CommandRows
  <2> HIDE DEF g
  <2>6. ~(g.status = "completed" /\ f.summary /\ \A a \in Actions : g.action[a] = "completed")
    <3>1. SUFFICES ASSUME f.summary, \A a \in Actions : g.action[a] = "completed" PROVE FALSE
      OBVIOUS
    <3>2. \A a \in Actions : f.action[a] = "completed"
      BY <2>3, <3>1
    <3> QED
      BY <2>4, <3>1, <3>2 DEF AllDone, Over
  <2>7. g.status \in {"processing", "failed"}
    BY <1>3, <2>3, <2>6
  <2>8. g.status = "failed" => Stuck'
    <3>1. ASSUME g.status = "failed" PROVE Stuck'
      <4>1. Hopeless(f, recording) # {}
        <5>1. SUFFICES ASSUME Hopeless(f, recording) = {} PROVE FALSE
          OBVIOUS
        <5>2. g.status \in {"completed", "processing"}
          <6> DEFINE n == [f EXCEPT !.action = [a \in Actions |->
                                      IF a \in Ready(f, recording) THEN "processing"
                                      ELSE f.action[a]],
                                    !.text = IF NeedsText(f, recording) THEN "processing" ELSE @]
          <6>1. g = IF AllDone(n) THEN [n EXCEPT !.status = FinalStatus(n)] ELSE n
            BY <5>1 DEF Scheduled, g
          <6>2. /\ n.status = f.status /\ n.summary = f.summary
                /\ n.action = [a \in Actions |-> IF a \in Ready(f, recording) THEN "processing"
                                                 ELSE f.action[a]]
            BY <2>2 DEF Finalizations
          <6> HIDE DEF n
          <6>3. ~AllDone(n)
            <7>1. SUFFICES ASSUME AllDone(n) PROVE FALSE
              OBVIOUS
            <7>2. f.summary /\ \A a \in Actions : n.action[a] \in Over
              BY <6>2, <7>1 DEF AllDone
            <7>3. \A a \in Actions : n.action[a] = IF a \in Ready(f, recording)
                                                   THEN "processing" ELSE f.action[a]
              BY <6>2
            <7>4. "processing" \notin Over
              BY DEF Over
            <7>5. \A a \in Actions : f.action[a] \in Over
              BY <7>2, <7>3, <7>4
            <7> QED
              BY <2>4, <7>2, <7>5 DEF AllDone
          <6> QED
            BY <1>3, <6>1, <6>2, <6>3
        <5> QED
          BY <3>1, <5>2
      <4>2. PICK a \in Actions : f.action[a] = "pending" /\ "recording" \in Inputs[a]
                                  /\ recording = "failed"
        BY <2>4, <4>1 DEF Hopeless, Pending
      <4>3. a \notin Ready(f, recording)
        BY <2>5, <4>2
      <4>4. g.action[a] = "pending"
        BY <2>3, <4>2, <4>3
      <4> QED
        BY <1>1, <2>1, <4>2, <4>4 DEF Stuck
    <3> QED
      BY <3>1
  <2>9. \A h \in Handlers : handler[h].work # "none" =>
          WorkOf(g, handler[h].work) = WorkOf(f, handler[h].work)
    <3>1. SUFFICES ASSUME NEW h \in Handlers, handler[h].work # "none"
                   PROVE  WorkOf(g, handler[h].work) = WorkOf(f, handler[h].work)
      OBVIOUS
    <3> DEFINE w == handler[h].work
    <3>2. /\ w \in Works
          /\ w \in Actions => f.action[w] # "pending"
          /\ w = "text" => f.text # "none"
      BY <3>1, SeenRows
    <3>3. "text" \notin Actions /\ "summary" \notin Actions
      BY ActionsAssumption
    <3> HIDE DEF w
    <3>4. CASE w = "summary"
      BY <3>4 DEF WorkOf, w
    <3>5. CASE w = "text"
      <4>1. g.text = f.text
        BY <2>3, <3>2, <3>5 DEF NeedsText
      <4> QED
        BY <3>5, <4>1 DEF WorkOf, w
    <3>6. CASE w \in Actions
      <4>1. g.action[w] = f.action[w]
        BY <2>3, <2>5, <3>2, <3>6
      <4> QED
        BY <3>3, <3>6, <4>1 DEF WorkOf, w
    <3> QED
      BY <3>2, <3>4, <3>5, <3>6 DEF Works
  <2>10. ViewsAreNow'
    BY <1>1, <2>1, <2>3, <2>7, <2>8, <2>9 DEF LastInv, ViewsAreNow
  <2>11. g.status = "processing" => ~AllDone(g)
    BY <2>3
  <2>12. finalization'.status = "processing" => finalization'.text # "failed"
    BY <2>1, <2>3, <2>4
  <2>13. AtWorkMeansNotDone'
    BY <2>1, <2>11, <2>12 DEF AtWorkMeansNotDone, AllDone
  <2>14. Kept
    BY <1>3 DEF Kept, Over
  <2> QED
    BY <2>10, <2>13, <2>14 DEF LastInv
<1> QED
  BY <1>2, <1>3

LEMMA ReadLast ==
  ASSUME Inv, LastInv, NEW h \in Handlers, NEW w \in Works, NEW outcome \in Outcomes,
         ReadResult(h, w, outcome)
  PROVE  LastInv' /\ Kept
<1>1. recording' = recording /\ finalization' = finalization
  BY DEF ReadResult, HandlerStep, callVars
<1>2. CASE ~Accepts(finalization, w)
  <2>1. handler' = handler
    BY <1>2 DEF ReadResult
  <2> QED
    BY <1>1, <2>1, StillNow
<1>3. CASE Accepts(finalization, w)
  <2> DEFINE v == View(finalization, w)
             r == [work |-> w, outcome |-> outcome, view |-> v]
  <2>1. handler' = [handler EXCEPT ![h] = r]
    BY <1>3 DEF ReadResult
  <2>2. finalization.status = "processing"
    BY <1>3 DEF Accepts, AtWork
  <2>3. v.summary = finalization.summary /\ v.work = WorkOf(finalization, w)
    BY DEF View
  <2> HIDE DEF v
  <2>4. r.work = w /\ r.view = v
    OBVIOUS
  <2> HIDE DEF r
  <2>5. \A x \in Handlers : handler'[x] = IF x = h THEN r ELSE handler[x]
    BY <2>1 DEF Inv, TypeOK
  <2>6. ViewsAreNow'
    BY <1>1, <2>2, <2>3, <2>4, <2>5 DEF ViewsAreNow, LastInv, WorkOf
  <2>7. AtWorkMeansNotDone' /\ Kept
    BY <1>1 DEF LastInv, AtWorkMeansNotDone, AllDone, Kept
  <2> QED
    BY <2>6, <2>7 DEF LastInv
<1> QED
  BY <1>2, <1>3

LEMMA ApplyLast ==
  ASSUME OneHandler, Inv, LastInv, NEW h \in Handlers, ApplyResult(h)
  PROVE  LastInv' /\ Kept
<1>1. Kept /\ (finalization'.status = "processing" => ~AllDone(finalization'))
  BY LastApply
<1>2. finalization'.status = "processing" => finalization'.text # "failed"
  BY ApplyRows, TextLast
<1>3. AtWorkMeansNotDone'
  BY <1>1, <1>2 DEF AtWorkMeansNotDone, AllDone
<1>4. handler' = [handler EXCEPT ![h] = HandlerIdle] /\ \A x \in Handlers : x = h
  BY DEF ApplyResult, OneHandler
<1>5. \A x \in Handlers : handler'[x].work = "none"
  BY <1>4, HandlerIdleRows DEF Inv, TypeOK
<1>6. ViewsAreNow'
  BY <1>5 DEF ViewsAreNow
<1> QED
  BY <1>1, <1>3, <1>6 DEF LastInv

LEMMA WorkerLast ==
  ASSUME Inv, LastInv, NEW p \in Workers,
         (\E entry \in open : Claim(p, entry)) \/ Working(p) \/ Crash(p)
  PROVE  LastInv' /\ Kept
<1>1. finalization' = finalization /\ recording' = recording /\ handler' = handler
  BY DEF Claim, Working, GetContext, Execute, Requeue, Publish, Record, Acknowledge, Crash,
         WorkerStep, callVars
<1> QED
  BY <1>1, StillNow

LEMMA LastNext == ASSUME OneHandler, Inv, LastInv, [Next]_vars PROVE LastInv' /\ Kept
<1>1. ASSUME Quiet PROVE LastInv' /\ Kept
  BY <1>1, StillNow DEF Quiet
<1>2. ASSUME NEW e \in StartEvents, CallEvent(e) \/ Starting(e) PROVE LastInv' /\ Kept
  <2>1. CASE CallEvent(e) \/ StartAgain(e) \/ StartRead(e)
    BY <1>1, <2>1, QuietSteps
  <2>2. CASE StartCommit(e)
    BY <2>2, StartLast
  <2> QED
    BY <1>2, <2>1, <2>2 DEF Starting
<1>3. ASSUME NEW s \in {"ready", "failed"}, RecordingSettles(s) PROVE LastInv' /\ Kept
  BY <1>1, <1>3, QuietSteps
<1>4. ASSUME NEW h \in Handlers, HandlerLost(h) PROVE LastInv' /\ Kept
  BY <1>1, <1>4, QuietSteps
<1>5. CASE UNCHANGED vars
  BY <1>1, <1>5, QuietSteps
<1>6. ASSUME NEW h \in Handlers,
             (\E w \in Works, outcome \in Outcomes : ReadResult(h, w, outcome)) \/ ApplyResult(h)
      PROVE  LastInv' /\ Kept
  BY <1>6, ReadLast, ApplyLast
<1> QED
  BY <1>2, <1>3, <1>4, <1>5, <1>6, RecordingLast, WorkerLast DEF Next

\* With one consumer of results, the outcome of a finalization is final: no
\* late result, and no result read before another event ended the finalization,
\* changes a COMPLETED to a FAILED or a FAILED to a COMPLETED.
THEOREM OutcomesAreFinal == ASSUME OneHandler PROVE Spec => FinishedStays
<1>1. Init => LastInv
  <2>1. ASSUME Init PROVE LastInv
    <3>1. \A h \in Handlers : handler[h].work = "none"
      BY <2>1, HandlerIdleRows DEF Init
    <3>2. finalization.status = "none"
      BY <2>1 DEF Init, NoFinalization
    <3> QED
      BY <3>1, <3>2 DEF LastInv, ViewsAreNow, AtWorkMeansNotDone
  <2> QED
    BY <2>1
<1>2. Inv /\ LastInv /\ [Next]_vars => LastInv'
  BY LastNext
<1>3. Inv /\ LastInv /\ [Next]_vars
        => [finalization.status \in Over => finalization'.status = finalization.status]_vars
  BY LastNext DEF Kept
<1> QED
  BY <1>1, <1>2, <1>3, InvHolds, PTL DEF Spec, FinishedStays

=============================================================================

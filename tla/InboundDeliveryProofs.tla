------------------------ MODULE InboundDeliveryProofs ------------------------
(***************************************************************************)
(* What holds of a chat, for any messages, providers, handlers, connectors *)
(* and limits, and any number of crashes, restarts and reloads.            *)
(*                                                                         *)
(* Of the outbox: that delivered means posted, that no row is stuck in     *)
(* flight, and that posts are accounted for; of all messages but those a   *)
(* delivery worker's start catches in the middle of a send, also that they *)
(* are not sent twice at a time, that verdicts are final, and that they    *)
(* are posted no more often than their attempts and the crashes allow; and *)
(* that all of it is a ReplyDelivery.  Of the intake: that Telegram        *)
(* forgets only what was handed over.  Of both composed: all of this, and  *)
(* that no message is lost between the two.                                *)
(***************************************************************************)
EXTENDS InboundDelivery, DeliveryOutboxRefinement, WellFoundedInduction, FiniteSetTheorems, TLAPS

-----------------------------------------------------------------------------
(***************************************************************************)
(* The outbox.                                                             *)
(***************************************************************************)

\* An actor does one thing at a time.
OneThing ==
    /\ \A h \in Handlers : reply[h] # NoMessage => sending[h] = NoMessage
    /\ sending[Worker] = NoMessage => waiting = {}

\* What a sender was told and what the row says have happened.
PostedInv ==
    /\ \A a \in Actors : accepted[a] => /\ sending[a] \in Messages
                                        /\ posted[sending[a]] > 0
    /\ DeliveredWasPosted

\* A send of m owns m's row, and a settled row is due.
Quiet(m) ==
    /\ \A a \in Actors : sending[a] = m => rows[m].status = "in_flight"
    /\ m \in waiting => rows[m].status = "in_flight"
    /\ rows[m].status \in {"delivered", "dead_letter"} => rows[m].due = TRUE
    /\ SentByOne(m)

\* That is so of all messages but those that a worker's start caught, and nothing is
\* sent by a worker that has not started.
QuietInv ==
    /\ phase # "running" => sending[Worker] = NoMessage
    /\ \A m \in Messages \ caught : Quiet(m)

-----------------------------------------------------------------------------

\* What the verdicts do to a row.
LEMMA RowFacts ==
    ASSUME NEW row \in Row, NEW ok \in BOOLEAN
    PROVE  /\ Delivered(row) \in Row /\ Delivered(row).status = "delivered"
           /\ Delivered(row).due = TRUE
           /\ Failed(row) \in Row /\ Failed(row).status \in {"retry", "dead_letter"}
           /\ Failed(row).status = "dead_letter" => Failed(row).due = TRUE
           /\ Finished(row, ok) \in Row
           /\ Finished(row, ok).status \in {"delivered", "retry", "dead_letter"}
           /\ Finished(row, ok).status = "delivered" => ok = TRUE
           /\ Finished(row, ok).status \in {"delivered", "dead_letter"}
                => Finished(row, ok).due = TRUE
  <1>1. row.attempts \in Nat /\ row.attempts + 1 \in Nat
    BY DEF Row
  <1>2. /\ Delivered(row) \in Row /\ Delivered(row).status = "delivered"
        /\ Delivered(row).due = TRUE
    BY <1>1 DEF Row, Delivered
  <1>3. /\ Failed(row) \in Row /\ Failed(row).status \in {"retry", "dead_letter"}
        /\ Failed(row).status = "dead_letter" => Failed(row).due = TRUE
    <2>1. CASE row.attempts + 1 >= MaxAttempts
      BY <1>1, <2>1 DEF Row, Failed
    <2>2. CASE ~(row.attempts + 1 >= MaxAttempts)
      BY <1>1, <2>2 DEF Row, Failed
    <2> QED
      BY <2>1, <2>2
  <1> QED
    BY <1>2, <1>3 DEF Finished

\* What recording a delivery does to its row.
LEMMA EnqueuedFacts ==
    ASSUME TypeOK, NEW m \in Messages
    PROVE  /\ Enqueued(m) \in Row
           /\ [Enqueued(m) EXCEPT !.status = "in_flight"] \in Row
           /\ [Enqueued(m) EXCEPT !.status = "in_flight"].status = "in_flight"
           /\ Enqueued(m).status # "in_flight" => rows[m].status # "in_flight"
           /\ Enqueued(m).status = "in_flight" => rows[m].status = "in_flight"
           /\ Enqueued(m).status \in {"delivered", "dead_letter"} => Enqueued(m) = rows[m]
           /\ rows[m].status \in {"delivered", "dead_letter"} => Enqueued(m) = rows[m]
  BY DEF TypeOK, Row, Enqueued

\* The worker's verdicts, row by row.
LEMMA SkipFacts ==
    ASSUME TypeOK, NEW skipped, NEW m \in Messages, NEW ok \in BOOLEAN,
           Skip(skipped, m, ok)
    PROVE  /\ rows' \in [Messages -> Row]
           /\ rows'[m] = Finished(rows[m], ok)
           /\ \A n \in Messages \cap (skipped \ {m}) : rows'[n] = Failed(rows[n])
           /\ \A n \in Messages \ (skipped \cup {m}) : rows'[n] = rows[n]
  <1>1. /\ rows'[m] = Finished(rows[m], ok)
        /\ \A n \in Messages \cap (skipped \ {m}) : rows'[n] = Failed(rows[n])
        /\ \A n \in Messages \ (skipped \cup {m}) : rows'[n] = rows[n]
    BY DEF Skip
  <1>2. \A n \in Messages : rows'[n] \in Row
    <2> TAKE n \in Messages
    <2>1. rows[n] \in Row
      BY DEF TypeOK
    <2>2. Finished(rows[n], ok) \in Row /\ Failed(rows[n]) \in Row
      BY <2>1, RowFacts
    <2> QED
      BY <1>1, <2>1, <2>2
  <1>3. DOMAIN rows' = Messages /\ rows' = [n \in Messages |-> rows'[n]]
    BY DEF Skip
  <1> QED
    BY <1>1, <1>2, <1>3

\* What the worker's verdicts do to the status of the rows.
LEMMA SkipStatus ==
    ASSUME TypeOK, NEW skipped, NEW m \in Messages, NEW ok \in BOOLEAN,
           Skip(skipped, m, ok), NEW n \in Messages
    PROVE  /\ n \in skipped \cup {m} => rows'[n].status \in {"delivered", "retry", "dead_letter"}
           /\ n \notin skipped \cup {m} => rows'[n] = rows[n]
           /\ rows'[n].status = "delivered" => rows[n].status = "delivered" \/ (n = m /\ ok = TRUE)
           /\ n \in skipped \cup {m} /\ rows'[n].status \in {"delivered", "dead_letter"}
                => rows'[n].due = TRUE
  <1>1. rows[n] \in Row
    BY DEF TypeOK
  <1>2. CASE n = m
    <2>1. rows'[n] = Finished(rows[n], ok)
      BY <1>2, SkipFacts
    <2>2. /\ Finished(rows[n], ok).status \in {"delivered", "retry", "dead_letter"}
          /\ Finished(rows[n], ok).status = "delivered" => ok = TRUE
          /\ Finished(rows[n], ok).status \in {"delivered", "dead_letter"}
               => Finished(rows[n], ok).due = TRUE
      BY <1>1, RowFacts
    <2> QED
      BY <1>2, <2>1, <2>2
  <1>3. CASE n \in skipped \ {m}
    <2>1. rows'[n] = Failed(rows[n])
      BY <1>3, SkipFacts
    <2>2. /\ Failed(rows[n]).status \in {"retry", "dead_letter"}
          /\ Failed(rows[n]).status = "dead_letter" => Failed(rows[n]).due = TRUE
      BY <1>1, RowFacts
    <2> QED
      BY <1>3, <2>1, <2>2
  <1>4. CASE n \notin skipped \cup {m}
    BY <1>4, SkipFacts
  <1> QED
    BY <1>2, <1>3, <1>4

\* A crash counts what it cuts off.
LEMMA LostType ==
    ASSUME TypeOK
    PROVE  [m \in Messages |->
              lost[m] + Cardinality({a \in Actors : sending[a] = m /\ accepted[a]})]
             \in [Messages -> Nat]
  <1>1. IsFiniteSet(Actors)
    BY HandlersAssumption, FS_AddElement DEF Actors
  <1>2. \A m \in Messages :
          Cardinality({a \in Actors : sending[a] = m /\ accepted[a]}) \in Nat
    <2> TAKE m \in Messages
    <2>1. IsFiniteSet({a \in Actors : sending[a] = m /\ accepted[a]})
      BY <1>1, FS_Subset
    <2> QED
      BY <2>1, FS_CardinalityType
  <1> QED
    BY <1>2 DEF TypeOK

-----------------------------------------------------------------------------

\* The initial values are of their types.
LEMMA TypeInit == Init => TypeOK
  <1> SUFFICES ASSUME Init PROVE TypeOK
    OBVIOUS
  <1>1. Absent \in Row
    BY DEF Absent, Row
  <1>2. rows \in [Messages -> Row] /\ posted \in [Messages -> Nat] /\ lost \in [Messages -> Nat]
    BY <1>1 DEF Init
  <1>3. 0 \in 0 .. MaxGenerations
    BY GenerationsAssumption
  <1> QED
    BY <1>2, <1>3 DEF Init, TypeOK, NoSender

\* Building the transports keeps the types.
LEMMA BuildType ==
    ASSUME TypeOK, NEW S \in SUBSET Providers, built < MaxGenerations, Build(S)
    PROVE  /\ built' \in 0 .. MaxGenerations /\ enabled' \subseteq Providers
           /\ senders' \in [Providers -> 0 .. MaxGenerations]
  BY GenerationsAssumption DEF TypeOK, Build, NoSender

\* A transport that goes keeps the types.
LEMMA GoneType ==
    ASSUME TypeOK, Gone, rows' \in [Messages -> Row]
    PROVE  TypeOK'
  BY LostType, GenerationsAssumption DEF TypeOK, Gone, NoSender

\* Every step keeps the types.
LEMMA TypeStep ==
    ASSUME TypeOK, [Next]_vars
    PROVE  TypeOK'
  <1> USE DEF connectorVars, handlerVars, sendVars, ghostVars
  <1>1. ASSUME NEW S \in SUBSET Providers, StartServer(S) \/ Reload(S)
        PROVE  TypeOK'
    BY <1>1, BuildType DEF TypeOK, StartServer, Reload
  <1>2. CASE StartWorker
    <2>1. rows' \in [Messages -> Row]
      BY <1>2 DEF TypeOK, Row, StartWorker
    <2> QED
      BY <1>2, <2>1 DEF TypeOK, StartWorker
  <1>3. ASSUME NEW h \in Handlers, NEW m \in Messages, Inbound(h, m)
        PROVE  TypeOK'
    BY <1>3 DEF TypeOK, Inbound
  <1>4. ASSUME NEW h \in Handlers, Deliver(h)
        PROVE  TypeOK'
    <2>1. reply[h] \in Messages
      BY <1>4 DEF TypeOK, Deliver
    <2>2. rows' \in [Messages -> Row]
      BY <1>4, <2>1, EnqueuedFacts DEF TypeOK, Deliver
    <2>3. sending' \in [Actors -> Messages \cup {NoMessage}]
      BY <1>4, <2>1 DEF TypeOK, Deliver, Actors
    <2>4. senders' \in [Providers -> 0 .. MaxGenerations]
      BY <1>4 DEF TypeOK, Deliver
    <2> QED
      BY <1>4, <2>2, <2>3, <2>4 DEF TypeOK, Deliver
  <1>5. ASSUME NEW a \in Actors, Accept(a)
        PROVE  TypeOK'
    <2>1. posted' \in [Messages -> Nat]
      BY <1>5 DEF TypeOK, Accept
    <2> QED
      BY <1>5, <2>1 DEF TypeOK, Accept
  <1>6. ASSUME NEW h \in Handlers, NEW ok \in BOOLEAN, DeliverEnd(h, ok)
        PROVE  TypeOK'
    <2>1. rows' \in [Messages -> Row]
      BY <1>6, RowFacts DEF TypeOK, DeliverEnd, Actors
    <2> QED
      BY <1>6, <2>1 DEF TypeOK, DeliverEnd, Actors
  <1>7. CASE Drain
    <2>1. PICK batch \in SUBSET Due :
            /\ rows' = [m \in Messages |->
                         IF m \in batch THEN [rows[m] EXCEPT !.status = "in_flight"] ELSE rows[m]]
            /\ \E first \in batch :
                  /\ sending' = [sending EXCEPT ![Worker] = first]
                  /\ waiting' = batch \ {first}
      BY <1>7 DEF Drain
    <2>2. rows' \in [Messages -> Row]
      BY <2>1 DEF TypeOK, Row
    <2>3. sending' \in [Actors -> Messages \cup {NoMessage}] /\ waiting' \subseteq Messages
      BY <2>1 DEF TypeOK, Due
    <2> QED
      BY <1>7, <2>2, <2>3 DEF TypeOK, Drain
  <1>8. ASSUME NEW ok \in BOOLEAN, WorkerEnd(ok)
        PROVE  TypeOK'
    <2>1. sending[Worker] \in Messages
      BY <1>8 DEF TypeOK, WorkerEnd, Actors
    <2>2. PICK skipped \in SUBSET Messages : Skip(skipped, sending[Worker], ok)
      BY <1>8 DEF TypeOK, WorkerEnd
    <2>3. rows' \in [Messages -> Row]
      BY <2>1, <2>2, SkipFacts
    <2>4. sending' \in [Actors -> Messages \cup {NoMessage}] /\ waiting' \subseteq Messages
      BY <1>8 DEF TypeOK, WorkerEnd
    <2> QED
      BY <1>8, <2>3, <2>4 DEF TypeOK, WorkerEnd, Actors
  <1>9. ASSUME NEW m \in Messages, Elapse(m)
        PROVE  TypeOK'
    <2>1. rows' \in [Messages -> Row]
      BY <1>9 DEF TypeOK, Row, Elapse
    <2> QED
      BY <1>9, <2>1 DEF TypeOK, Elapse
  <1>10. CASE Crash
    BY <1>10, GoneType DEF TypeOK, Crash
  <1>11. ASSUME NEW h \in Handlers, CrashEnqueued(h)
         PROVE  TypeOK'
    <2>1. rows' \in [Messages -> Row]
      BY <1>11, EnqueuedFacts DEF TypeOK, CrashEnqueued
    <2> QED
      BY <1>11, <2>1, GoneType DEF CrashEnqueued
  <1>12. CASE UNCHANGED vars
    BY <1>12 DEF TypeOK, vars
  <1> QED
    BY <1>1, <1>2, <1>3, <1>4, <1>5, <1>6, <1>7, <1>8, <1>9, <1>10, <1>11, <1>12 DEF Next

\* Every column holds a value of its domain, for any traffic.
THEOREM OutboxTypeCorrect == Spec => []TypeOK
  BY TypeInit, TypeStep, PTL DEF Spec

-----------------------------------------------------------------------------

\* What a step does to those who send, action by action.
LEMMA OneThingStep ==
    ASSUME TypeOK, OneThing, [Next]_vars
    PROVE  OneThing'
  <1> USE DEF connectorVars, handlerVars, sendVars, ghostVars
  <1>1. ASSUME NEW S \in SUBSET Providers, StartServer(S) \/ Reload(S)
        PROVE  OneThing'
    BY <1>1 DEF OneThing, StartServer, Reload
  <1>2. CASE StartWorker
    BY <1>2 DEF OneThing, StartWorker
  <1>3. ASSUME NEW h \in Handlers, NEW m \in Messages, Inbound(h, m)
        PROVE  OneThing'
    BY <1>3 DEF TypeOK, OneThing, Inbound
  <1>4. ASSUME NEW h \in Handlers, Deliver(h)
        PROVE  OneThing'
    BY <1>4, WorkerAssumption DEF TypeOK, OneThing, Deliver, Actors
  <1>5. ASSUME NEW a \in Actors, Accept(a)
        PROVE  OneThing'
    BY <1>5 DEF OneThing, Accept
  <1>6. ASSUME NEW h \in Handlers, NEW ok \in BOOLEAN, DeliverEnd(h, ok)
        PROVE  OneThing'
    BY <1>6, WorkerAssumption DEF TypeOK, OneThing, DeliverEnd, Actors
  <1>7. CASE Drain
    BY <1>7, WorkerAssumption, NoMessageAssumption DEF TypeOK, OneThing, Drain, Due, Actors
  <1>8. ASSUME NEW ok \in BOOLEAN, WorkerEnd(ok)
        PROVE  OneThing'
    BY <1>8, WorkerAssumption, NoMessageAssumption DEF TypeOK, OneThing, WorkerEnd, Actors
  <1>9. ASSUME NEW m \in Messages, Elapse(m)
        PROVE  OneThing'
    BY <1>9 DEF OneThing, Elapse
  <1>10. ASSUME Gone
         PROVE  OneThing'
    BY <1>10 DEF OneThing, Gone, Actors
  <1>11. CASE UNCHANGED vars
    BY <1>11 DEF OneThing, vars
  <1> QED
    BY <1>1, <1>2, <1>3, <1>4, <1>5, <1>6, <1>7, <1>8, <1>9, <1>10, <1>11
       DEF Next, Crash, CrashEnqueued

\* Every step keeps what is said of the posts.
LEMMA PostedStep ==
    ASSUME TypeOK, OneThing, PostedInv, [Next]_vars
    PROVE  PostedInv'
  <1> USE DEF connectorVars, handlerVars, sendVars, ghostVars
  <1>1. ASSUME UNCHANGED <<sending, accepted, posted>>,
               \A m \in Messages : rows'[m].status = "delivered" => rows[m].status = "delivered"
        PROVE  PostedInv'
    BY <1>1 DEF PostedInv, DeliveredWasPosted
  <1>2. ASSUME NEW S \in SUBSET Providers, StartServer(S) \/ Reload(S)
        PROVE  PostedInv'
    BY <1>1, <1>2 DEF StartServer, Reload
  <1>3. CASE StartWorker
    BY <1>1, <1>3 DEF TypeOK, Row, StartWorker
  <1>4. ASSUME NEW h \in Handlers, NEW m \in Messages, Inbound(h, m)
        PROVE  PostedInv'
    BY <1>1, <1>4 DEF Inbound
  <1>5. ASSUME NEW h \in Handlers, Deliver(h)
        PROVE  PostedInv'
    <2>1. sending[h] = NoMessage /\ reply[h] \in Messages
      BY <1>5 DEF TypeOK, OneThing, Deliver
    <2>2. ~accepted[h]
      BY <2>1, NoMessageAssumption DEF PostedInv, Actors
    <2>3. \A a \in Actors : accepted[a] => sending'[a] = sending[a]
      BY <1>5, <2>2 DEF TypeOK, Deliver, Actors
    <2>4. \A m \in Messages : rows'[m].status = "delivered" => rows[m].status = "delivered"
      BY <1>5, <2>1, EnqueuedFacts DEF TypeOK, Deliver
    <2> QED
      BY <1>5, <2>3, <2>4 DEF PostedInv, DeliveredWasPosted, Deliver
  <1>6. ASSUME NEW a \in Actors, Accept(a)
        PROVE  PostedInv'
    <2>1. sending[a] \in Messages
      BY <1>6 DEF TypeOK, Accept
    <2>2. \A m \in Messages : posted'[m] >= posted[m] /\ posted'[m] \in Nat
      BY <1>6, <2>1 DEF TypeOK, Accept
    <2>3. posted'[sending[a]] > 0
      BY <1>6, <2>1 DEF TypeOK, Accept
    <2>4. \A b \in Actors : accepted'[b] => b = a \/ accepted[b]
      BY <1>6 DEF TypeOK, Accept
    <2> QED
      BY <1>6, <2>1, <2>2, <2>3, <2>4 DEF TypeOK, PostedInv, DeliveredWasPosted, Accept
  <1>7. ASSUME NEW h \in Handlers, NEW ok \in BOOLEAN, DeliverEnd(h, ok)
        PROVE  PostedInv'
    <2>1. sending[h] \in Messages /\ (ok => posted[sending[h]] > 0)
      BY <1>7 DEF TypeOK, PostedInv, DeliverEnd, Actors
    <2>2. \A m \in Messages :
            rows'[m].status = "delivered" => rows[m].status = "delivered" \/ posted[m] > 0
      BY <1>7, <2>1, RowFacts DEF TypeOK, DeliverEnd
    <2>3. \A a \in Actors : accepted'[a] => accepted[a] /\ sending'[a] = sending[a]
      BY <1>7 DEF TypeOK, DeliverEnd, Actors
    <2> QED
      BY <1>7, <2>2, <2>3 DEF PostedInv, DeliveredWasPosted, DeliverEnd
  <1>8. CASE Drain
    <2>1. \A a \in Actors : accepted[a] => sending'[a] = sending[a]
      BY <1>8, NoMessageAssumption DEF TypeOK, PostedInv, Drain, Actors
    <2>2. \A m \in Messages : rows'[m].status = "delivered" => rows[m].status = "delivered"
      BY <1>8 DEF TypeOK, Row, Drain
    <2> QED
      BY <1>8, <2>1, <2>2 DEF PostedInv, DeliveredWasPosted, Drain
  <1>9. ASSUME NEW ok \in BOOLEAN, WorkerEnd(ok)
        PROVE  PostedInv'
    <2>1. sending[Worker] \in Messages /\ (ok = TRUE => posted[sending[Worker]] > 0)
      BY <1>9 DEF TypeOK, PostedInv, WorkerEnd, Actors
    <2>2. PICK skipped \in SUBSET Messages : Skip(skipped, sending[Worker], ok)
      BY <1>9 DEF TypeOK, WorkerEnd
    <2>3. ASSUME NEW m \in Messages, rows'[m].status = "delivered"
          PROVE  rows[m].status = "delivered" \/ posted[m] > 0
      <3>1. rows[m].status = "delivered" \/ (m = sending[Worker] /\ ok = TRUE)
        BY <2>1, <2>2, <2>3, SkipStatus
      <3> QED
        BY <2>1, <3>1
    <2>4. \A a \in Actors : accepted'[a] => accepted[a] /\ sending'[a] = sending[a]
      BY <1>9 DEF TypeOK, WorkerEnd, Actors
    <2> QED
      BY <1>9, <2>3, <2>4 DEF PostedInv, DeliveredWasPosted, WorkerEnd
  <1>10. ASSUME NEW m \in Messages, Elapse(m)
         PROVE  PostedInv'
    BY <1>1, <1>10 DEF TypeOK, Row, Elapse
  <1>11. ASSUME Gone,
                \A m \in Messages :
                    rows'[m].status = "delivered" => rows[m].status = "delivered"
         PROVE  PostedInv'
    BY <1>11 DEF PostedInv, DeliveredWasPosted, Gone, Actors
  <1>12. CASE Crash
    BY <1>11, <1>12 DEF Crash
  <1>13. ASSUME NEW h \in Handlers, CrashEnqueued(h)
         PROVE  PostedInv'
    <2>1. reply[h] \in Messages
      BY <1>13 DEF TypeOK, CrashEnqueued
    <2> QED
      BY <1>11, <1>13, <2>1, EnqueuedFacts DEF TypeOK, CrashEnqueued
  <1>14. CASE UNCHANGED vars
    BY <1>1, <1>14 DEF vars
  <1> QED
    BY <1>2, <1>3, <1>4, <1>5, <1>6, <1>7, <1>8, <1>9, <1>10, <1>12, <1>13, <1>14 DEF Next

\* Every step keeps that what is in flight is owned by a worker.
LEMMA OwnedStep ==
    ASSUME TypeOK, OneThing, InFlightIsOwned, [Next]_vars
    PROVE  InFlightIsOwned'
  <1> USE DEF connectorVars, handlerVars, sendVars, ghostVars
  <1>1. ASSUME phase' = "running" => phase = "running",
               UNCHANGED <<sending, waiting>>,
               \A m \in Messages : rows'[m].status = "in_flight" => rows[m].status = "in_flight"
        PROVE  InFlightIsOwned'
    BY <1>1 DEF InFlightIsOwned
  <1>2. ASSUME NEW S \in SUBSET Providers, StartServer(S) \/ Reload(S)
        PROVE  InFlightIsOwned'
    BY <1>1, <1>2 DEF StartServer, Reload
  <1>3. CASE StartWorker
    <2>1. \A m \in Messages : rows'[m].status # "in_flight"
      BY <1>3 DEF TypeOK, Row, StartWorker
    <2> QED
      BY <2>1 DEF InFlightIsOwned
  <1>4. ASSUME NEW h \in Handlers, NEW m \in Messages, Inbound(h, m)
        PROVE  InFlightIsOwned'
    BY <1>1, <1>4 DEF Inbound
  <1>5. ASSUME NEW h \in Handlers, Deliver(h)
        PROVE  InFlightIsOwned'
    <2>1. sending[h] = NoMessage /\ reply[h] \in Messages /\ h \in Actors
      BY <1>5 DEF TypeOK, OneThing, Deliver, Actors
    <2>2. \A a \in Actors : sending[a] # NoMessage => sending'[a] = sending[a]
      BY <1>5, <2>1 DEF TypeOK, Deliver
    <2>3. \A m \in Messages :
            rows'[m].status = "in_flight" => rows[m].status = "in_flight" \/ sending'[h] = m
      BY <1>5, <2>1 DEF TypeOK, Deliver
    <2> QED
      BY <1>5, <2>1, <2>2, <2>3, NoMessageAssumption DEF InFlightIsOwned, Deliver
  <1>6. ASSUME NEW a \in Actors, Accept(a)
        PROVE  InFlightIsOwned'
    BY <1>1, <1>6 DEF Accept
  <1>7. ASSUME NEW h \in Handlers, NEW ok \in BOOLEAN, DeliverEnd(h, ok)
        PROVE  InFlightIsOwned'
    <2>1. sending[h] \in Messages
      BY <1>7 DEF TypeOK, DeliverEnd, Actors
    <2>2. \A m \in Messages :
            rows'[m].status = "in_flight" => rows[m].status = "in_flight" /\ m # sending[h]
      BY <1>7, <2>1, RowFacts DEF TypeOK, DeliverEnd
    <2>3. \A a \in Actors : a # h => sending'[a] = sending[a]
      BY <1>7 DEF TypeOK, DeliverEnd
    <2> QED
      BY <1>7, <2>2, <2>3 DEF InFlightIsOwned, DeliverEnd
  <1>8. CASE Drain
    <2>1. PICK batch \in SUBSET Due :
            /\ rows' = [m \in Messages |->
                         IF m \in batch THEN [rows[m] EXCEPT !.status = "in_flight"] ELSE rows[m]]
            /\ \E first \in batch :
                  /\ sending' = [sending EXCEPT ![Worker] = first]
                  /\ waiting' = batch \ {first}
      BY <1>8 DEF Drain
    <2>2. waiting = {} /\ sending[Worker] = NoMessage
      BY <1>8 DEF OneThing, Drain
    <2>3. \A a \in Actors : sending[a] # NoMessage => sending'[a] = sending[a]
      BY <2>1, <2>2 DEF TypeOK
    <2>4. \A m \in batch : m \in waiting' \/ sending'[Worker] = m
      BY <2>1 DEF TypeOK, Actors
    <2>5. \A m \in Messages :
            rows'[m].status = "in_flight" => rows[m].status = "in_flight" \/ m \in batch
      BY <2>1 DEF TypeOK
    <2> QED
      BY <1>8, <2>2, <2>3, <2>4, <2>5, NoMessageAssumption DEF InFlightIsOwned, Drain, Actors
  <1>9. ASSUME NEW ok \in BOOLEAN, WorkerEnd(ok)
        PROVE  InFlightIsOwned'
    <2>1. sending[Worker] \in Messages
      BY <1>9 DEF TypeOK, WorkerEnd, Actors
    <2>2. PICK skipped \in SUBSET Messages :
            /\ Skip(skipped, sending[Worker], ok)
            /\ \A m \in waiting \ skipped : m \in waiting' \/ sending'[Worker] = m
      BY <1>9 DEF TypeOK, WorkerEnd, Actors
    <2>3. \A m \in Messages :
            rows'[m].status = "in_flight" => /\ rows[m].status = "in_flight"
                                             /\ m # sending[Worker] /\ m \notin skipped
      <3>1. PICK n \in Messages : n = sending[Worker] /\ Skip(skipped, n, ok)
        BY <2>1, <2>2
      <3>2. \A m \in Messages :
              \/ rows'[m] = Finished(rows[m], ok)
              \/ rows'[m] = Failed(rows[m])
              \/ rows'[m] = rows[m] /\ m # n /\ m \notin skipped
        BY <3>1 DEF Skip
      <3>3. \A m \in Messages : /\ Finished(rows[m], ok).status # "in_flight"
                                /\ Failed(rows[m]).status # "in_flight"
        BY RowFacts DEF TypeOK
      <3> QED
        BY <3>1, <3>2, <3>3
    <2>4. \A a \in Actors : a # Worker => sending'[a] = sending[a]
      BY <1>9 DEF TypeOK, WorkerEnd
    <2> QED
      BY <1>9, <2>2, <2>3, <2>4 DEF InFlightIsOwned, WorkerEnd, Actors
  <1>10. ASSUME NEW m \in Messages, Elapse(m)
         PROVE  InFlightIsOwned'
    BY <1>1, <1>10 DEF TypeOK, Row, Elapse
  <1>11. ASSUME Gone
         PROVE  InFlightIsOwned'
    BY <1>11 DEF InFlightIsOwned, Gone
  <1>12. CASE UNCHANGED vars
    BY <1>1, <1>12 DEF vars
  <1> QED
    BY <1>2, <1>3, <1>4, <1>5, <1>6, <1>7, <1>8, <1>9, <1>10, <1>11, <1>12
       DEF Next, Crash, CrashEnqueued

\* The inductive invariant of the outbox.
OutboxInv == TypeOK /\ OneThing /\ PostedInv /\ InFlightIsOwned

\* Nothing is sent or recorded at first.
LEMMA OutboxInitInv == Init => OutboxInv
  BY TypeInit
     DEF OutboxInv, Init, OneThing, PostedInv, DeliveredWasPosted, InFlightIsOwned, Absent

\* It holds in every state.
LEMMA OutboxInvariant == Spec => []OutboxInv
  <1>1. ASSUME OutboxInv, [Next]_vars
        PROVE  OutboxInv'
    BY <1>1, TypeStep, OneThingStep, PostedStep, OwnedStep DEF OutboxInv
  <1> QED
    BY <1>1, OutboxInitInv, PTL DEF Spec

\* Delivered means posted, for any traffic, restarts and reloads.
THEOREM DeliveredMeansPosted == Spec => []DeliveredWasPosted
  BY OutboxInvariant, PTL DEF OutboxInv, PostedInv

\* No row is stuck in flight while the process lives.
THEOREM NothingIsStuck == Spec => []InFlightIsOwned
  BY OutboxInvariant, PTL DEF OutboxInv

-----------------------------------------------------------------------------
(***************************************************************************)
(* At least once, and no more often than attempts and crashes explain.     *)
(***************************************************************************)

\* Those whose send of m the platform has accepted and whose verdict is open.
Open(m) == {a \in Actors : sending[a] = m /\ accepted[a]}

\* They are finitely many, now and after a step.
LEMMA OpenFacts ==
    ASSUME NEW m
    PROVE  IsFiniteSet(Open(m)) /\ Cardinality(Open(m)) \in Nat
  <1>1. IsFiniteSet(Actors)
    BY HandlersAssumption, FS_AddElement DEF Actors
  <1>2. IsFiniteSet(Open(m))
    BY <1>1, FS_Subset DEF Open
  <1> QED
    BY <1>2, FS_CardinalityType

\* The facts of OpenFacts, for the next state.
LEMMA OpenFactsNext ==
    ASSUME NEW m
    PROVE  IsFiniteSet(Open(m)') /\ Cardinality(Open(m)') \in Nat
  <1>1. IsFiniteSet(Actors)
    BY HandlersAssumption, FS_AddElement DEF Actors
  <1>2. IsFiniteSet(Open(m)')
    BY <1>1, FS_Subset DEF Open
  <1> QED
    BY <1>2, FS_CardinalityType

\* No verdict forgets an attempt, and each counts one.
LEMMA AttemptFacts ==
    ASSUME NEW row \in Row, NEW ok \in BOOLEAN
    PROVE  /\ row.attempts \in Nat
           /\ Failed(row).attempts = row.attempts + 1
           /\ Finished(row, ok).attempts = row.attempts + 1
  <1>1. row.attempts \in Nat
    BY DEF Row
  <1>2. Failed(row).attempts = row.attempts + 1
    BY <1>1 DEF Failed
  <1>3. Delivered(row).attempts = row.attempts + 1
    BY DEF Delivered
  <1> QED
    BY <1>1, <1>2, <1>3 DEF Finished

\* A step that takes no attempt back and leaves what is open open.
LEMMA PostsKept ==
    ASSUME TypeOK, PostsAccounted, UNCHANGED <<posted, lost>>,
           \A m \in Messages : /\ rows'[m].attempts \in Nat
                               /\ rows'[m].attempts >= rows[m].attempts,
           \A m \in Messages : Open(m) \subseteq Open(m)'
    PROVE  PostsAccounted'
  <1> SUFFICES ASSUME NEW m \in Messages
               PROVE  posted[m] <= rows'[m].attempts + lost[m] + Cardinality(Open(m)')
    BY DEF PostsAccounted, Open
  <1>1. posted[m] <= rows[m].attempts + lost[m] + Cardinality(Open(m))
    BY DEF PostsAccounted, Open
  <1>2. /\ Cardinality(Open(m)) \in Nat /\ Cardinality(Open(m)') \in Nat
        /\ Cardinality(Open(m)) <= Cardinality(Open(m)')
    BY OpenFacts, OpenFactsNext, FS_Subset
  <1>3. posted[m] \in Nat /\ lost[m] \in Nat /\ rows[m].attempts \in Nat
    BY DEF TypeOK, Row
  <1> QED
    BY <1>1, <1>2, <1>3

\* A verdict: what a sent is open no more, and its row counts an attempt more.
LEMMA PostsSettled ==
    ASSUME TypeOK, PostsAccounted, UNCHANGED <<posted, lost>>,
           NEW a \in Actors, sending[a] \in Messages,
           \A m \in Messages : /\ rows'[m].attempts \in Nat
                               /\ rows'[m].attempts >= rows[m].attempts,
           rows'[sending[a]].attempts = rows[sending[a]].attempts + 1,
           \A m \in Messages : Open(m) \ {a} \subseteq Open(m)'
    PROVE  PostsAccounted'
  <1> SUFFICES ASSUME NEW m \in Messages
               PROVE  posted[m] <= rows'[m].attempts + lost[m] + Cardinality(Open(m)')
    BY DEF PostsAccounted, Open
  <1>1. posted[m] <= rows[m].attempts + lost[m] + Cardinality(Open(m))
    BY DEF PostsAccounted, Open
  <1>2. /\ IsFiniteSet(Open(m)) /\ Cardinality(Open(m)) \in Nat
        /\ Cardinality(Open(m)') \in Nat /\ IsFiniteSet(Open(m)')
    BY OpenFacts, OpenFactsNext
  <1>3. posted[m] \in Nat /\ lost[m] \in Nat /\ rows[m].attempts \in Nat
    BY DEF TypeOK, Row
  <1>4. rows'[m].attempts \in Nat /\ rows'[m].attempts >= rows[m].attempts
    OBVIOUS
  <1>5. CASE m = sending[a]
    <2>1. /\ IsFiniteSet(Open(m) \ {a})
          /\ Cardinality(Open(m) \ {a}) = IF a \in Open(m) THEN Cardinality(Open(m)) - 1
                                                          ELSE Cardinality(Open(m))
      BY <1>2, FS_RemoveElement
    <2>2. Cardinality(Open(m) \ {a}) <= Cardinality(Open(m)')
      BY <1>2, FS_Subset
    <2>3. rows'[m].attempts = rows[m].attempts + 1
      BY <1>5
    <2> QED
      BY <1>1, <1>2, <1>3, <2>1, <2>2, <2>3
  <1>6. CASE m # sending[a]
    <2>1. Open(m) \subseteq Open(m)'
      BY <1>6 DEF Open
    <2>2. Cardinality(Open(m)) <= Cardinality(Open(m)')
      BY <1>2, <2>1, FS_Subset
    <2> QED
      BY <1>1, <1>2, <1>3, <1>4, <2>2
  <1> QED
    BY <1>5, <1>6

\* A crash counts every open send as lost.
LEMMA PostsLost ==
    ASSUME TypeOK, PostsAccounted, Gone,
           \A m \in Messages : /\ rows'[m].attempts \in Nat
                               /\ rows'[m].attempts >= rows[m].attempts
    PROVE  PostsAccounted'
  <1> SUFFICES ASSUME NEW m \in Messages
               PROVE  posted'[m] <= rows'[m].attempts + lost'[m] + Cardinality(Open(m)')
    BY DEF PostsAccounted, Open
  <1>1. posted[m] <= rows[m].attempts + lost[m] + Cardinality(Open(m))
    BY DEF PostsAccounted, Open
  <1>2. posted'[m] = posted[m] /\ lost'[m] = lost[m] + Cardinality(Open(m))
    BY DEF Gone, Open
  <1>3. posted[m] \in Nat /\ lost[m] \in Nat /\ rows[m].attempts \in Nat
    BY DEF TypeOK, Row
  <1> QED
    BY <1>1, <1>2, <1>3, OpenFacts, OpenFactsNext

\* Action by action.
LEMMA PostsStep ==
    ASSUME TypeOK, OneThing, PostedInv, PostsAccounted, [Next]_vars
    PROVE  PostsAccounted'
  <1> USE DEF connectorVars, handlerVars, sendVars, ghostVars
  <1>0. \A m \in Messages : rows[m].attempts \in Nat /\ rows[m].attempts >= rows[m].attempts
    BY DEF TypeOK, Row
  <1>1. ASSUME UNCHANGED <<sending, accepted, posted, lost>>,
               \A m \in Messages : rows'[m].attempts = rows[m].attempts
        PROVE  PostsAccounted'
    BY <1>1 DEF PostsAccounted
  <1>2. ASSUME NEW S \in SUBSET Providers, StartServer(S) \/ Reload(S)
        PROVE  PostsAccounted'
    BY <1>1, <1>2 DEF StartServer, Reload
  <1>3. CASE StartWorker
    <2>1. \A m \in Messages : rows'[m].attempts = rows[m].attempts
      BY <1>3 DEF TypeOK, Row, StartWorker
    <2> QED
      BY <1>1, <1>3, <2>1 DEF StartWorker
  <1>4. ASSUME NEW h \in Handlers, NEW m \in Messages, Inbound(h, m)
        PROVE  PostsAccounted'
    BY <1>1, <1>4 DEF Inbound
  <1>5. ASSUME NEW h \in Handlers, Deliver(h)
        PROVE  PostsAccounted'
    <2>1. sending[h] = NoMessage /\ reply[h] \in Messages
      BY <1>5 DEF TypeOK, OneThing, Deliver
    <2>2. ~accepted[h]
      BY <2>1, NoMessageAssumption DEF PostedInv, Actors
    <2>3. \A a \in Actors : accepted[a] => sending'[a] = sending[a]
      BY <1>5, <2>2 DEF TypeOK, Deliver, Actors
    <2>4. \A m \in Messages : Open(m) \subseteq Open(m)'
      BY <1>5, <2>3 DEF Open, Deliver
    <2>5. Enqueued(reply[h]).attempts = rows[reply[h]].attempts
      BY <2>1 DEF TypeOK, Row, Enqueued
    <2>6. \A m \in Messages : rows'[m].attempts = rows[m].attempts
      BY <1>5, <2>1, <2>5, EnqueuedFacts DEF TypeOK, Row, Deliver
    <2> QED
      BY <1>0, <1>5, <2>4, <2>6, PostsKept DEF Deliver
  <1>6. ASSUME NEW a \in Actors, Accept(a)
        PROVE  PostsAccounted'
    <2>1. sending[a] \in Messages
      BY <1>6 DEF TypeOK, Accept
    <2> SUFFICES ASSUME NEW m \in Messages
                 PROVE  posted'[m] <= rows[m].attempts + lost[m] + Cardinality(Open(m)')
      BY <1>6 DEF PostsAccounted, Open, Accept
    <2>2. posted[m] <= rows[m].attempts + lost[m] + Cardinality(Open(m))
      BY DEF PostsAccounted, Open
    <2>3. posted[m] \in Nat /\ lost[m] \in Nat /\ rows[m].attempts \in Nat
      BY DEF TypeOK, Row
    <2>4. posted'[m] = IF m = sending[a] THEN posted[m] + 1 ELSE posted[m]
      BY <1>6, <2>1 DEF TypeOK, Accept
    <2>5. /\ IsFiniteSet(Open(m)) /\ Cardinality(Open(m)) \in Nat
          /\ IsFiniteSet(Open(m)') /\ Cardinality(Open(m)') \in Nat
      BY OpenFacts, OpenFactsNext
    <2>6. CASE m = sending[a]
      <3>1. Open(m)' = Open(m) \cup {a} /\ a \notin Open(m)
        BY <1>6, <2>6 DEF TypeOK, Open, Accept
      <3>2. Cardinality(Open(m)') = Cardinality(Open(m)) + 1
        BY <2>5, <3>1, FS_AddElement
      <3> QED
        BY <2>2, <2>3, <2>4, <2>5, <2>6, <3>2
    <2>7. CASE m # sending[a]
      <3>1. Open(m)' = Open(m)
        BY <1>6, <2>7 DEF TypeOK, Open, Accept
      <3> QED
        BY <2>2, <2>4, <2>7, <3>1
    <2> QED
      BY <2>6, <2>7
  <1>7. ASSUME NEW h \in Handlers, NEW ok \in BOOLEAN, DeliverEnd(h, ok)
        PROVE  PostsAccounted'
    <2>1. h \in Actors /\ sending[h] \in Messages
      BY <1>7 DEF TypeOK, DeliverEnd, Actors
    <2>2. Finished(rows[sending[h]], ok).attempts = rows[sending[h]].attempts + 1
      BY <2>1, AttemptFacts DEF TypeOK
    <2>3. \A m \in Messages :
            rows'[m] = IF m = sending[h] THEN Finished(rows[m], ok) ELSE rows[m]
      BY <1>7, <2>1 DEF TypeOK, DeliverEnd
    <2>4. \A m \in Messages :
            rows'[m].attempts = rows[m].attempts + IF m = sending[h] THEN 1 ELSE 0
      BY <1>0, <2>2, <2>3
    <2>5. \A m \in Messages : Open(m) \ {h} \subseteq Open(m)'
      BY <1>7 DEF TypeOK, Open, DeliverEnd
    <2> QED
      BY <1>0, <1>7, <2>1, <2>4, <2>5, PostsSettled DEF DeliverEnd
  <1>8. CASE Drain
    <2>1. \A a \in Actors : accepted[a] => sending'[a] = sending[a]
      BY <1>8, NoMessageAssumption DEF TypeOK, PostedInv, Drain, Actors
    <2>2. \A m \in Messages : rows'[m].attempts = rows[m].attempts
      BY <1>8 DEF TypeOK, Row, Drain
    <2>3. \A m \in Messages : Open(m) \subseteq Open(m)'
      BY <1>8, <2>1 DEF Open, Drain
    <2> QED
      BY <1>0, <1>8, <2>2, <2>3, PostsKept DEF Drain
  <1>9. ASSUME NEW ok \in BOOLEAN, WorkerEnd(ok)
        PROVE  PostsAccounted'
    <2>1. Worker \in Actors /\ sending[Worker] \in Messages
      BY <1>9 DEF TypeOK, WorkerEnd, Actors
    <2>2. PICK skipped \in SUBSET Messages : Skip(skipped, sending[Worker], ok)
      BY <1>9 DEF TypeOK, WorkerEnd
    <2>3. \A m \in Messages :
            \/ rows'[m] = Finished(rows[m], ok)
            \/ m # sending[Worker] /\ (rows'[m] = Failed(rows[m]) \/ rows'[m] = rows[m])
      BY <2>2 DEF Skip
    <2>4. \A m \in Messages : /\ Finished(rows[m], ok).attempts = rows[m].attempts + 1
                              /\ Failed(rows[m]).attempts = rows[m].attempts + 1
      BY AttemptFacts DEF TypeOK
    <2>5. \A m \in Messages :
            /\ rows'[m].attempts \in Nat /\ rows'[m].attempts >= rows[m].attempts
            /\ m = sending[Worker] => rows'[m].attempts = rows[m].attempts + 1
      BY <1>0, <2>3, <2>4
    <2>6. \A a \in Actors \ {Worker} : sending'[a] = sending[a] /\ accepted'[a] = accepted[a]
      BY <1>9 DEF TypeOK, WorkerEnd
    <2>7. \A m \in Messages : Open(m) \ {Worker} \subseteq Open(m)'
      BY <2>6 DEF Open
    <2> QED
      BY <1>9, <2>1, <2>5, <2>7, PostsSettled DEF WorkerEnd
  <1>10. ASSUME NEW m \in Messages, Elapse(m)
         PROVE  PostsAccounted'
    <2>1. \A n \in Messages : rows'[n].attempts = rows[n].attempts
      BY <1>10 DEF TypeOK, Row, Elapse
    <2> QED
      BY <1>1, <1>10, <2>1 DEF Elapse
  <1>11. CASE Crash
    BY <1>0, <1>11, PostsLost DEF Crash
  <1>12. ASSUME NEW h \in Handlers, CrashEnqueued(h)
         PROVE  PostsAccounted'
    <2>1. reply[h] \in Messages
      BY <1>12 DEF TypeOK, CrashEnqueued
    <2>2. Enqueued(reply[h]).attempts = rows[reply[h]].attempts
      BY <2>1 DEF TypeOK, Row, Enqueued
    <2>3. \A m \in Messages : rows'[m].attempts = rows[m].attempts
      BY <1>12, <2>1, <2>2 DEF TypeOK, CrashEnqueued
    <2> QED
      BY <1>0, <1>12, <2>3, PostsLost DEF CrashEnqueued
  <1>13. CASE UNCHANGED vars
    BY <1>13 DEF vars, PostsAccounted
  <1> QED
    BY <1>2, <1>3, <1>4, <1>5, <1>6, <1>7, <1>8, <1>9, <1>10, <1>11, <1>12, <1>13 DEF Next

\* Nothing is posted at first.
LEMMA PostsInit == Init => PostsAccounted
  <1> SUFFICES ASSUME Init, NEW m \in Messages
               PROVE  posted[m] <= rows[m].attempts + lost[m] + Cardinality(Open(m))
    BY DEF PostsAccounted, Open
  <1>1. posted[m] = 0 /\ lost[m] = 0 /\ rows[m].attempts = 0
    BY DEF Init, Absent
  <1> QED
    BY <1>1, OpenFacts

\* For any traffic, restarts and reloads: the platform has accepted a message no
\* more often than there are attempts on record, sends that crashes cut off, and
\* sends whose verdict is open.
THEOREM PostsAreAccounted == Spec => []PostsAccounted
  <1>1. OutboxInv /\ PostsAccounted /\ [Next]_vars => PostsAccounted'
    BY PostsStep DEF OutboxInv
  <1> QED
    BY <1>1, PostsInit, OutboxInvariant, PTL DEF Spec

-----------------------------------------------------------------------------

\* Only a worker's start adds to the messages that are caught.
LEMMA CaughtStep ==
    ASSUME [Next]_vars
    PROVE  caught \subseteq caught' /\ (StartWorker \/ caught' = caught)
  BY DEF Next, vars, ghostVars, StartServer, Reload, StartWorker, Inbound, Deliver, Accept,
         DeliverEnd, Drain, WorkerEnd, Elapse, Crash, CrashEnqueued, Gone

\* The worker sends nothing before it starts.
LEMMA WorkerRests ==
    ASSUME TypeOK, phase # "running" => sending[Worker] = NoMessage, [Next]_vars
    PROVE  (phase # "running" => sending[Worker] = NoMessage)'
  <1> USE DEF connectorVars, handlerVars, sendVars, ghostVars
  <1>1. \A h \in Handlers : h # Worker
    BY WorkerAssumption
  <1>2. ASSUME NEW h \in Handlers, Deliver(h) \/ \E ok \in BOOLEAN : DeliverEnd(h, ok)
        PROVE  sending'[Worker] = sending[Worker] /\ phase' = phase
    BY <1>1, <1>2 DEF TypeOK, Actors, Deliver, DeliverEnd
  <1>3. ASSUME Gone
        PROVE  sending'[Worker] = NoMessage
    BY <1>3 DEF Gone, Actors
  <1>4. ASSUME NEW ok \in BOOLEAN, WorkerEnd(ok)
        PROVE  phase = "running" /\ phase' = phase
    <2>1. sending[Worker] # NoMessage /\ phase' = phase
      BY <1>4 DEF WorkerEnd
    <2> QED
      BY <2>1
  <1> QED
    BY <1>2, <1>3, <1>4
       DEF Next, vars, StartServer, Reload, StartWorker, Inbound, Accept, Drain, Elapse,
           Crash, CrashEnqueued

\* Every step keeps a message quiet that is not caught.
LEMMA QuietKept ==
    ASSUME TypeOK, OneThing, QuietInv, Next, NEW m \in Messages, m \notin caught'
    PROVE  Quiet(m)'
  <1> USE DEF connectorVars, handlerVars, sendVars, ghostVars
  <1>0. /\ Quiet(m) /\ m # NoMessage /\ rows[m] \in Row
        /\ \A h \in Handlers : h \in Actors /\ h # Worker
        /\ Worker \in Actors
    BY CaughtStep, NoMessageAssumption, WorkerAssumption DEF QuietInv, TypeOK, Actors
  <1>1. ASSUME \A a \in Actors : sending'[a] = m => sending[a] = m,
               m \in waiting' => m \in waiting,
               rows'[m].status = rows[m].status,
               rows[m].due = TRUE => rows'[m].due = TRUE
        PROVE  Quiet(m)'
    BY <1>0, <1>1 DEF Quiet, SentByOne
  <1>2. ASSUME m \notin waiting', \A a \in Actors : sending'[a] # m,
               rows'[m].status \in {"delivered", "dead_letter"} => rows'[m].due = TRUE
        PROVE  Quiet(m)'
    BY <1>2 DEF Quiet, SentByOne
  <1>3. CASE UNCHANGED <<rows, sending, waiting>>
    BY <1>1, <1>3
  <1>4. CASE StartWorker
    <2>1. m \notin waiting /\ \A a \in Actors : sending[a] # m
      BY <1>0, <1>4 DEF OneThing, QuietInv, StartWorker, Actors
    <2>2. rows'[m].status \in {"delivered", "dead_letter"} => rows'[m].due = TRUE
      BY <1>0, <1>4 DEF Row, Quiet, StartWorker
    <2> QED
      BY <1>2, <1>4, <2>1, <2>2 DEF StartWorker
  <1>5. ASSUME NEW h \in Handlers, Deliver(h)
        PROVE  Quiet(m)'
    <2>1. reply[h] \in Messages /\ sending[h] = NoMessage /\ waiting' = waiting
      BY <1>5 DEF TypeOK, OneThing, Deliver
    <2>2. CASE rows' = rows /\ sending' = sending
      BY <1>1, <2>1, <2>2
    <2>3. CASE /\ Claimable(Enqueued(reply[h]))
               /\ rows' = [rows EXCEPT ![reply[h]] =
                             [Enqueued(reply[h]) EXCEPT !.status = "in_flight"]]
               /\ sending' = [sending EXCEPT ![h] = reply[h]]
      <3>1. /\ sending'[h] = reply[h]
            /\ \A a \in Actors : a # h => sending'[a] = sending[a]
        BY <1>0, <2>3 DEF TypeOK
      <3>2. CASE reply[h] = m
        <4>1. rows[m].status # "in_flight" /\ rows'[m].status = "in_flight"
          BY <2>1, <2>3, <3>2, EnqueuedFacts DEF TypeOK, Claimable
        <4>2. m \notin waiting /\ \A a \in Actors : sending[a] # m
          BY <1>0, <4>1 DEF Quiet
        <4> QED
          BY <2>1, <3>1, <3>2, <4>1, <4>2 DEF Quiet, SentByOne
      <3>3. CASE reply[h] # m
        <4>1. rows'[m] = rows[m]
          BY <2>1, <2>3, <3>3 DEF TypeOK
        <4> QED
          BY <1>1, <2>1, <3>1, <3>3, <4>1
      <3> QED
        BY <3>2, <3>3
    <2> QED
      BY <1>5, <2>2, <2>3 DEF Deliver
  <1>6. ASSUME NEW h \in Handlers, NEW ok \in BOOLEAN, DeliverEnd(h, ok)
        PROVE  Quiet(m)'
    <2>1. /\ sending'[h] = NoMessage /\ waiting' = waiting
          /\ \A a \in Actors : a # h => sending'[a] = sending[a]
      BY <1>0, <1>6 DEF TypeOK, DeliverEnd
    <2>2. CASE sending[h] = m
      <3>1. m \notin waiting /\ \A a \in Actors : sending[a] = m => a = h
        BY <1>0, <2>2 DEF Quiet, SentByOne
      <3>2. rows'[m] = Finished(rows[m], ok)
        BY <1>6, <2>2 DEF TypeOK, DeliverEnd
      <3>3. rows'[m].status \in {"delivered", "dead_letter"} => rows'[m].due = TRUE
        BY <1>0, <3>2, RowFacts
      <3> QED
        BY <1>0, <1>2, <2>1, <3>1, <3>3
    <2>3. CASE sending[h] # m
      <3>1. rows'[m] = rows[m]
        BY <1>6, <2>3 DEF TypeOK, DeliverEnd
      <3> QED
        BY <1>0, <1>1, <2>1, <3>1
    <2> QED
      BY <2>2, <2>3
  <1>7. CASE Drain
    <2>1. PICK batch \in SUBSET Due :
            /\ rows' = [n \in Messages |->
                         IF n \in batch THEN [rows[n] EXCEPT !.status = "in_flight"] ELSE rows[n]]
            /\ \E first \in batch :
                  /\ sending' = [sending EXCEPT ![Worker] = first]
                  /\ waiting' = batch \ {first}
      BY <1>7 DEF Drain
    <2>2. PICK first \in batch :
            /\ sending' = [sending EXCEPT ![Worker] = first]
            /\ waiting' = batch \ {first}
      BY <2>1
    <2>3. /\ sending'[Worker] = first
          /\ \A a \in Actors : a # Worker => sending'[a] = sending[a]
      BY <2>2 DEF TypeOK, Actors
    <2>4. CASE m \in batch
      <3>1. rows[m].status # "in_flight"
        BY <2>1, <2>4 DEF Due, Claimable
      <3>2. m \notin waiting /\ \A a \in Actors : sending[a] # m
        BY <1>0, <3>1 DEF Quiet
      <3>3. rows'[m].status = "in_flight"
        BY <1>0, <2>1, <2>4 DEF Row
      <3>4. /\ \A a \in Actors : sending'[a] = m => a = Worker /\ m = first
            /\ m \in waiting' => m # first
        BY <2>2, <2>3, <3>2
      <3> QED
        BY <3>3, <3>4 DEF Quiet, SentByOne
    <2>5. CASE m \notin batch
      BY <1>1, <2>1, <2>2, <2>3, <2>5
    <2> QED
      BY <2>4, <2>5
  <1>8. ASSUME NEW ok \in BOOLEAN, WorkerEnd(ok)
        PROVE  Quiet(m)'
    <2>1. PICK skipped \in SUBSET waiting :
            /\ Skip(skipped, sending[Worker], ok)
            /\ \/ /\ sending' = [sending EXCEPT ![Worker] = NoMessage]
                  /\ waiting' = {}
               \/ \E next \in waiting \ skipped :
                  /\ sending' = [sending EXCEPT ![Worker] = next]
                  /\ waiting' = waiting \ (skipped \cup {next})
      BY <1>8 DEF WorkerEnd
    <2>2. /\ \A a \in Actors : a # Worker => sending'[a] = sending[a]
          /\ sending'[Worker] = NoMessage \/ sending'[Worker] \in waiting \ skipped
          /\ waiting' \subseteq waiting \ skipped /\ sending'[Worker] \notin waiting'
      BY <2>1, NoMessageAssumption DEF TypeOK, Actors
    <2>3. CASE m = sending[Worker]
      <3>1. m \notin waiting /\ \A a \in Actors : sending[a] = m => a = Worker
        BY <1>0, <2>3 DEF Quiet, SentByOne
      <3>2. rows'[m] = Finished(rows[m], ok)
        BY <2>1, <2>3 DEF Skip
      <3>3. rows'[m].status \in {"delivered", "dead_letter"} => rows'[m].due = TRUE
        BY <1>0, <3>2, RowFacts
      <3> QED
        BY <1>0, <1>2, <2>2, <3>1, <3>3
    <2>4. CASE m # sending[Worker] /\ m \in skipped
      <3>1. \A a \in Actors : sending[a] # m
        BY <1>0, <2>4 DEF Quiet, SentByOne
      <3>2. rows'[m] = Failed(rows[m])
        BY <2>1, <2>4 DEF Skip
      <3>3. rows'[m].status \in {"delivered", "dead_letter"} => rows'[m].due = TRUE
        BY <1>0, <3>2, RowFacts
      <3> QED
        BY <1>0, <1>2, <2>2, <2>4, <3>1, <3>3
    <2>5. CASE m # sending[Worker] /\ m \notin skipped
      <3>1. rows'[m] = rows[m]
        BY <2>1, <2>5 DEF Skip
      <3>2. CASE sending'[Worker] = m
        <4>1. m \in waiting /\ m \notin waiting'
          BY <1>0, <2>2, <3>2
        <4>2. rows[m].status = "in_flight" /\ \A a \in Actors : sending[a] # m
          BY <1>0, <4>1 DEF Quiet, SentByOne
        <4>3. \A a \in Actors : sending'[a] = m => a = Worker
          BY <2>2, <4>2
        <4> QED
          BY <3>1, <4>1, <4>2, <4>3 DEF Quiet, SentByOne
      <3>3. CASE sending'[Worker] # m
        BY <1>1, <2>2, <3>1, <3>3
      <3> QED
        BY <3>2, <3>3
    <2> QED
      BY <2>3, <2>4, <2>5
  <1>9. ASSUME NEW n \in Messages, Elapse(n)
        PROVE  Quiet(m)'
    <2>1. rows'[m].status = rows[m].status /\ (rows[m].due = TRUE => rows'[m].due = TRUE)
      BY <1>0, <1>9 DEF TypeOK, Row, Elapse
    <2> QED
      BY <1>1, <1>9, <2>1 DEF Elapse
  <1>10. ASSUME Gone,
                rows'[m].status \in {"delivered", "dead_letter"} => rows'[m] = rows[m]
         PROVE  Quiet(m)'
    <2>1. m \notin waiting' /\ \A a \in Actors : sending'[a] # m
      BY <1>0, <1>10 DEF Gone
    <2>2. rows'[m].status \in {"delivered", "dead_letter"} => rows'[m].due = TRUE
      BY <1>0, <1>10 DEF Quiet
    <2> QED
      BY <1>2, <2>1, <2>2
  <1>11. CASE Crash
    BY <1>10, <1>11 DEF Crash
  <1>12. ASSUME NEW h \in Handlers, CrashEnqueued(h)
         PROVE  Quiet(m)'
    <2>1. reply[h] \in Messages
      BY <1>12 DEF TypeOK, CrashEnqueued
    <2>2. rows'[m].status \in {"delivered", "dead_letter"} => rows'[m] = rows[m]
      BY <1>12, <2>1, EnqueuedFacts DEF TypeOK, CrashEnqueued
    <2> QED
      BY <1>10, <1>12, <2>2 DEF CrashEnqueued
  <1> QED
    BY <1>3, <1>4, <1>5, <1>6, <1>7, <1>8, <1>9, <1>11, <1>12
       DEF Next, StartServer, Reload, Inbound, Accept

\* Every step keeps the invariant.
LEMMA QuietStep ==
    ASSUME TypeOK, OneThing, QuietInv, [Next]_vars
    PROVE  QuietInv'
  <1>1. CASE UNCHANGED vars
    BY <1>1 DEF vars, sendVars, connectorVars, ghostVars, QuietInv, Quiet, SentByOne
  <1>2. CASE Next
    <2>1. \A m \in Messages : m \notin caught' => Quiet(m)'
      BY <1>2, QuietKept
    <2>2. (phase # "running" => sending[Worker] = NoMessage)'
      BY WorkerRests DEF QuietInv
    <2> QED
      BY <2>1, <2>2 DEF QuietInv
  <1> QED
    BY <1>1, <1>2

\* Nobody is at work at first.
LEMMA QuietInit == Init => QuietInv
  <1> SUFFICES ASSUME Init PROVE QuietInv
    OBVIOUS
  <1>1. /\ \A a \in Actors : sending[a] = NoMessage
        /\ Worker \in Actors /\ waiting = {}
        /\ \A m \in Messages : rows[m].status = "absent" /\ m # NoMessage
    BY NoMessageAssumption DEF Init, Absent, Actors
  <1> QED
    BY <1>1 DEF QuietInv, Quiet, SentByOne

\* The invariant holds in every state.
LEMMA QuietInvariant == Spec => [](OutboxInv /\ QuietInv)
  <1>1. ASSUME OutboxInv, QuietInv, [Next]_vars
        PROVE  QuietInv'
    BY <1>1, QuietStep DEF OutboxInv
  <1> QED
    BY <1>1, QuietInit, OutboxInvariant, PTL DEF Spec

\* For any traffic, also while the server starts: nothing is sent by two parties at a
\* time, unless some handler was sending it when a delivery worker started.
THEOREM SendsDoNotOverlap == Spec => []OverlapsAreCaught
  <1>1. QuietInv => OverlapsAreCaught
    BY DEF QuietInv, Quiet, OverlapsAreCaught
  <1> QED
    BY <1>1, QuietInvariant, PTL

\* A step leaves the rows of settled deliveries alone.
LEMMA SettledStep ==
    ASSUME TypeOK, QuietInv, Next, NEW m \in Messages,
           m \notin caught, rows[m].status \in {"delivered", "dead_letter"}
    PROVE  rows'[m] = rows[m]
  <1> USE DEF connectorVars, handlerVars, sendVars, ghostVars
  <1>0. Quiet(m)
    BY DEF QuietInv
  <1>1. CASE UNCHANGED rows
    BY <1>1
  <1>2. CASE StartWorker
    BY <1>2 DEF StartWorker
  <1>3. ASSUME NEW h \in Handlers, Deliver(h)
        PROVE  rows'[m] = rows[m]
    <2>1. reply[h] \in Messages
      BY <1>3 DEF TypeOK, Deliver
    <2>2. reply[h] = m => ~Claimable(Enqueued(reply[h]))
      BY <2>1, EnqueuedFacts DEF Claimable
    <2> QED
      BY <1>3, <2>1, <2>2 DEF TypeOK, Deliver
  <1>4. ASSUME NEW h \in Handlers, NEW ok \in BOOLEAN, DeliverEnd(h, ok)
        PROVE  rows'[m] = rows[m]
    <2>1. sending[h] # m
      BY <1>0, <1>4 DEF Quiet, DeliverEnd, Actors
    <2> QED
      BY <1>4, <2>1 DEF TypeOK, DeliverEnd
  <1>5. CASE Drain
    BY <1>5 DEF Drain, Due, Claimable
  <1>6. ASSUME NEW ok \in BOOLEAN, WorkerEnd(ok)
        PROVE  rows'[m] = rows[m]
    <2>1. sending[Worker] # m /\ m \notin waiting
      BY <1>0, <1>6 DEF Quiet, WorkerEnd, Actors
    <2>2. PICK skipped \in SUBSET waiting : Skip(skipped, sending[Worker], ok)
      BY <1>6 DEF WorkerEnd
    <2> QED
      BY <2>1, <2>2 DEF Skip
  <1>7. ASSUME NEW n \in Messages, Elapse(n)
        PROVE  rows'[m] = rows[m]
    <2>1. rows[m].due = TRUE
      BY <1>0 DEF Quiet
    <2>2. n # m
      BY <1>7, <2>1 DEF Elapse
    <2> QED
      BY <1>7, <2>2 DEF TypeOK, Elapse
  <1>8. ASSUME NEW h \in Handlers, CrashEnqueued(h)
        PROVE  rows'[m] = rows[m]
    <2>1. reply[h] \in Messages
      BY <1>8 DEF TypeOK, CrashEnqueued
    <2>2. reply[h] = m => Enqueued(reply[h]) = rows[m]
      BY <2>1, EnqueuedFacts
    <2> QED
      BY <1>8, <2>1, <2>2 DEF TypeOK, CrashEnqueued
  <1> QED
    BY <1>1, <1>2, <1>3, <1>4, <1>5, <1>6, <1>7, <1>8
       DEF Next, StartServer, Reload, Inbound, Accept, Crash

\* Verdicts on deliveries are final, for any traffic, of all messages that no worker's
\* start has caught in a send.
THEOREM SettledDeliveriesAreFinal == Spec => SettledIsFinal
  <1>1. TypeOK /\ QuietInv /\ [Next]_vars
          => [\A m \in Messages \ caught :
                rows[m].status \in {"delivered", "dead_letter"} => rows'[m] = rows[m]]_vars
    BY SettledStep DEF vars
  <1> QED
    BY <1>1, QuietInvariant, PTL DEF Spec, OutboxInv, SettledIsFinal

-----------------------------------------------------------------------------
(***************************************************************************)
(* The outbox keeps the promise of ReplyDelivery.                          *)
(***************************************************************************)

\* What the promise sees of the outbox stays when the messages that are not caught keep
\* their fates, attempts and open posts.
LEMMA PromiseStutters ==
    ASSUME UNCHANGED caught,
           phase' # "running" <=> phase # "running",
           \A m \in Messages \ caught : /\ FateOf(rows'[m].status) = FateOf(rows[m].status)
                                        /\ rows'[m].attempts = rows[m].attempts
                                        /\ posted'[m] = posted[m] /\ lost'[m] = lost[m]
                                        /\ Unsure(m)' <=> Unsure(m)
    PROVE  UNCHANGED Promise!deliveryVars
  <1>1. ASSUME NEW m \in Messages
        PROVE  /\ Fate(m)' = Fate(m)
               /\ Count(m, rows[m].attempts)' = Count(m, rows[m].attempts)
               /\ Count(m, posted[m])' = Count(m, posted[m])
               /\ Count(m, lost[m])' = Count(m, lost[m])
    BY DEF Fate, Count
  <1>2. \A m \in Messages : Unsure(m)' <=> Unsure(m)
    BY DEF Unsure
  <1>3. [m \in Messages |-> Unsure(m)]' = [m \in Messages |-> Unsure(m)]
    <2>1. \A m \in Messages : Unsure(m)' = Unsure(m)
      BY <1>2 DEF Unsure
    <2> QED
      BY <2>1, Zenon
  <1>4. /\ UNCHANGED [m \in Messages |-> Fate(m)]
        /\ UNCHANGED [m \in Messages |-> Count(m, rows[m].attempts)]
        /\ UNCHANGED [m \in Messages |-> Count(m, posted[m])]
        /\ UNCHANGED [m \in Messages |-> Count(m, lost[m])]
    BY <1>1
  <1>5. UNCHANGED (phase # "running")
    OBVIOUS
  <1> QED
    BY <1>3, <1>4, <1>5, Zenon DEF Promise!deliveryVars

\* A row that is claimed, released or due keeps its fate and its attempts.
LEMMA FateFacts ==
    ASSUME NEW row \in Row, NEW s, NEW d,
           FateOf(row.status) = "open", s \in {"pending", "in_flight", "retry"}
    PROVE  /\ FateOf(s) = "open"
           /\ [row EXCEPT !.status = s].status = s
           /\ [row EXCEPT !.status = s].attempts = row.attempts
           /\ [row EXCEPT !.status = s, !.due = d].status = s
           /\ [row EXCEPT !.status = s, !.due = d].attempts = row.attempts
  BY DEF Row, FateOf

\* What a verdict does to a reply.
LEMMA VerdictFacts ==
    ASSUME NEW row \in Row, NEW ok \in BOOLEAN
    PROVE  /\ Finished(row, ok).attempts = row.attempts + 1
           /\ Failed(row).attempts = row.attempts + 1
           /\ ok => FateOf(Finished(row, ok).status) = "delivered"
           /\ ~ok => Finished(row, ok) = Failed(row)
           /\ FateOf(Failed(row).status) = IF row.attempts + 1 >= MaxAttempts
                                          THEN "given_up" ELSE "open"
  <1>1. row.attempts + 1 >= MaxAttempts => Failed(row).status = "dead_letter"
    BY DEF Failed
  <1>2. ~(row.attempts + 1 >= MaxAttempts) => Failed(row).status = "retry"
    BY DEF Failed
  <1>3. FateOf("dead_letter") = "given_up" /\ FateOf("retry") = "open"
        /\ FateOf("delivered") = "delivered"
    BY DEF FateOf
  <1>4. ok => Finished(row, ok).status = "delivered"
    BY DEF Finished, Delivered
  <1>5. ~ok => Finished(row, ok) = Failed(row)
    BY DEF Finished
  <1> QED
    BY <1>1, <1>2, <1>3, <1>4, <1>5, AttemptFacts

\* A verdict of one or several attempts, in the terms of the promise: one on those of
\* them that are not caught.
LEMMA PromiseJudges ==
    ASSUME TypeOK, UNCHANGED <<posted, lost, caught, phase>>,
           NEW m \in Messages, NEW skipped \in SUBSET Messages, NEW ok \in BOOLEAN,
           m \notin caught /\ ok => Unsure(m),
           Skip(skipped, m, ok),
           \A n \in (skipped \cup {m}) \ caught : rows[n].status = "in_flight",
           \A n \in Messages \ caught : Unsure(n)' <=> n \notin skipped \cup {m} /\ Unsure(n)
    PROVE  Promise!DeliveryNext
  <1> DEFINE S == (skipped \cup {m}) \ caught
             D == IF ok THEN {m} \ caught ELSE {}
  <1>1. S \in SUBSET Messages /\ D \in SUBSET S
    OBVIOUS
  <1>2. \A n \in Messages : rows[n] \in Row
    BY DEF TypeOK
  <1>3. \A n \in S : Fate(n) = "open"
    BY DEF Fate, FateOf
  <1>4. \A n \in D : Unsure(n)
    OBVIOUS
  <1>5. ASSUME NEW n \in Messages
        PROVE  /\ Fate(n)' = IF n \in D THEN "delivered"
                             ELSE IF n \in S /\ Count(n, rows[n].attempts) + 1 >= MaxAttempts
                             THEN "given_up"
                             ELSE Fate(n)
               /\ Count(n, rows[n].attempts)' =
                    IF n \in S THEN Count(n, rows[n].attempts) + 1
                    ELSE Count(n, rows[n].attempts)
    <2>0. rows'[n] = IF n = m THEN Finished(rows[n], ok)
                     ELSE IF n \in skipped THEN Failed(rows[n]) ELSE rows[n]
      BY DEF Skip
    <2>1. CASE n \in caught
      BY <2>1 DEF Fate, Count
    <2>2. CASE n \notin caught /\ n = m
      <3>1. n \in S /\ rows'[n] = Finished(rows[n], ok) /\ (n \in D <=> ok)
        BY <2>0, <2>2
      <3>2. FateOf(rows[n].status) = "open"
        BY <1>3, <2>2, <3>1 DEF Fate
      <3>3. CASE ok
        <4>1. FateOf(rows'[n].status) = "delivered"
              /\ rows'[n].attempts = rows[n].attempts + 1
          <5>1. /\ FateOf(Finished(rows[n], ok).status) = "delivered"
                /\ Finished(rows[n], ok).attempts = rows[n].attempts + 1
            BY <1>2, <3>3, VerdictFacts, Zenon
          <5> QED
            BY <3>1, <5>1
        <4>2. n \in D /\ caught' = caught
          BY <3>1, <3>3
        <4> QED
          BY <2>2, <3>1, <4>1, <4>2 DEF Fate, Count
      <3>4. CASE ~ok
        BY <1>2, <2>2, <3>1, <3>2, <3>4, VerdictFacts DEF Fate, Count
      <3> QED
        BY <3>3, <3>4
    <2>3. CASE n \notin caught /\ n # m /\ n \in skipped
      <3>1. n \in S /\ rows'[n] = Failed(rows[n]) /\ n \notin D
        BY <2>0, <2>3
      <3>2. FateOf(rows[n].status) = "open"
        BY <1>3, <2>3, <3>1 DEF Fate
      <3> QED
        BY <1>2, <2>3, <3>1, <3>2, VerdictFacts DEF Fate, Count
    <2>4. CASE n \notin caught /\ n # m /\ n \notin skipped
      BY <2>0, <2>4 DEF Fate, Count
    <2> QED
      BY <2>1, <2>2, <2>3, <2>4
  <1>6. \A n \in Messages : Unsure(n)' <=> n \notin S /\ Unsure(n)
    BY DEF Unsure
  <1> HIDE DEF S, D
  <1>7. [n \in Messages |-> Unsure(n)]' =
          [n \in Messages |-> n \notin S /\ [k \in Messages |-> Unsure(k)][n]]
    <2>1. \A n \in Messages : [k \in Messages |-> Unsure(k)][n] = Unsure(n)
      BY Zenon
    <2>2. \A n \in Messages : Unsure(n)' = (n \notin S /\ Unsure(n))
      BY <1>6 DEF Unsure
    <2>3. \A n \in Messages : Unsure(n)' = (n \notin S /\ [k \in Messages |-> Unsure(k)][n])
      BY <2>1, <2>2, Zenon
    <2> QED
      BY <2>3, Zenon
  <1>8. [n \in Messages |-> Fate(n)]' =
             [n \in Messages |->
                IF n \in D THEN "delivered"
                ELSE IF /\ n \in S
                        /\ [k \in Messages |-> Count(k, rows[k].attempts)][n] + 1 >= MaxAttempts
                THEN "given_up" ELSE [k \in Messages |-> Fate(k)][n]]
    BY <1>5
  <1>9. [n \in Messages |-> Count(n, rows[n].attempts)]' =
             [n \in Messages |->
                IF n \in S THEN [k \in Messages |-> Count(k, rows[k].attempts)][n] + 1
                ELSE [k \in Messages |-> Count(k, rows[k].attempts)][n]]
    BY <1>5
  <1>10. /\ \A n \in S : [k \in Messages |-> Fate(k)][n] = "open"
         /\ \A n \in D : [k \in Messages |-> Unsure(k)][n]
    <2>1. \A n \in S : [k \in Messages |-> Fate(k)][n] = "open"
      BY <1>1, <1>3
    <2>2. \A n \in D : [k \in Messages |-> Unsure(k)][n]
      BY <1>1, <1>4, Zenon
    <2> QED
      BY <2>1, <2>2
  <1>11. /\ UNCHANGED [n \in Messages |-> Count(n, posted[n])]
         /\ UNCHANGED [n \in Messages |-> Count(n, lost[n])]
         /\ UNCHANGED (phase # "running")
    BY DEF Count
  <1>12. Promise!Judge(S, D)
    BY <1>7, <1>8, <1>9, <1>10, <1>11, Zenon DEF Promise!Judge
  <1> QED
    BY <1>1, <1>12 DEF Promise!DeliveryNext

\* A crash, in the terms of the promise.
LEMMA PromiseForgets ==
    ASSUME TypeOK, QuietInv, Gone, NEW R \in SUBSET Messages,
           \A m \in R : rows[m].status = "absent" /\ rows'[m].status = "pending",
           \A m \in Messages \ R : rows'[m].status = rows[m].status,
           \A m \in Messages : rows'[m].attempts = rows[m].attempts
    PROVE  Promise!DeliveryNext
  <1> DEFINE Q == R \ caught
  <1>1. ASSUME NEW m \in Messages
        PROVE  Count(m, lost[m])' =
                 IF Unsure(m) THEN Count(m, lost[m]) + 1 ELSE Count(m, lost[m])
    <2>1. lost'[m] = lost[m] + Cardinality(Open(m)) /\ lost[m] \in Nat /\ caught' = caught
      BY DEF Gone, Open, TypeOK
    <2>2. CASE Unsure(m)
      <3>1. PICK a \in Actors : sending[a] = m /\ accepted[a]
        BY <2>2 DEF Unsure
      <3>2. m \notin caught /\ \A b \in Actors : sending[b] = m => b = a
        BY <2>2, <3>1 DEF Unsure, QuietInv, Quiet, SentByOne
      <3>3. Open(m) = {a}
        BY <3>1, <3>2 DEF Open
      <3>4. Cardinality(Open(m)) = 1
        BY <3>3, FS_Singleton
      <3> QED
        BY <2>1, <2>2, <3>2, <3>4 DEF Count
    <2>3. CASE m \in caught
      BY <2>1, <2>3 DEF Count, Unsure
    <2>4. CASE m \notin caught /\ ~Unsure(m)
      <3>1. Open(m) = {}
        BY <2>4 DEF Open, Unsure
      <3> QED
        BY <2>1, <2>4, <3>1, FS_EmptySet DEF Count
    <2> QED
      BY <2>2, <2>3, <2>4
  <1>2. \A m \in Messages : ~Unsure(m)'
    BY DEF Gone, Unsure
  <1>3. FateOf("absent") = "absent" /\ FateOf("pending") = "open"
    BY DEF FateOf
  <1>4. ASSUME NEW m \in Messages
        PROVE  /\ m \in Q => Fate(m) = "absent"
               /\ Fate(m)' = IF m \in Q THEN "open" ELSE Fate(m)
    BY <1>3 DEF Fate, Gone
  <1>5. /\ UNCHANGED [m \in Messages |-> Count(m, rows[m].attempts)]
        /\ UNCHANGED [m \in Messages |-> Count(m, posted[m])]
    BY DEF Gone, Count
  <1>6. Q \in SUBSET Messages
    OBVIOUS
  <1>7. [m \in Messages |-> Count(m, lost[m])]' =
          [m \in Messages |->
             IF [k \in Messages |-> Unsure(k)][m]
             THEN [k \in Messages |-> Count(k, lost[k])][m] + 1
             ELSE [k \in Messages |-> Count(k, lost[k])][m]]
    BY <1>1
  <1>8. [m \in Messages |-> Unsure(m)]' = [m \in Messages |-> FALSE]
    <2>1. \A m \in Messages : Unsure(m)' = FALSE
      BY <1>2 DEF Unsure
    <2> QED
      BY <2>1, Zenon
  <1>9. [m \in Messages |-> Fate(m)]' =
          [m \in Messages |-> IF m \in Q THEN "open" ELSE [k \in Messages |-> Fate(k)][m]]
    BY <1>4
  <1>10. \A m \in Q : [k \in Messages |-> Fate(k)][m] = "absent"
    BY <1>4, <1>6
  <1>11. (phase # "running")' = TRUE
    BY DEF Gone
  <1> HIDE DEF Q
  <1>12. Promise!Forget(Q)
    BY <1>5, <1>7, <1>8, <1>9, <1>10, <1>11, Zenon DEF Promise!Forget, Promise!FateAfter
  <1> QED
    BY <1>6, <1>12 DEF Promise!DeliveryNext

\* The start of the worker disclaims what it catches.
LEMMA PromiseDisclaims ==
    ASSUME TypeOK, QuietInv, StartWorker
    PROVE  Promise!DeliveryNext
  <1> DEFINE S == caught' \ caught
  <1>1. /\ S \in SUBSET Messages /\ caught \subseteq caught'
        /\ UNCHANGED <<sending, accepted, posted, lost>>
        /\ phase = "starting" /\ phase' = "running"
    BY DEF StartWorker, sendVars, TypeOK
  <1>2. ASSUME NEW m \in S
        PROVE  Fate(m) = "open"
    <2>1. m \notin caught /\ \E h \in Handlers : sending[h] = m
      BY DEF StartWorker
    <2>2. rows[m].status = "in_flight"
      BY <1>1, <2>1 DEF QuietInv, Quiet, Actors
    <2> QED
      BY <2>1, <2>2 DEF Fate, FateOf
  <1>3. ASSUME NEW m \in Messages
        PROVE  /\ Fate(m)' = IF m \in S THEN "disclaimed" ELSE Fate(m)
               /\ Count(m, rows[m].attempts)' =
                    IF m \in S THEN 0 ELSE Count(m, rows[m].attempts)
               /\ Count(m, posted[m])' = IF m \in S THEN 0 ELSE Count(m, posted[m])
               /\ Count(m, lost[m])' = IF m \in S THEN 0 ELSE Count(m, lost[m])
    <2>1. /\ FateOf(rows'[m].status) = FateOf(rows[m].status)
          /\ rows'[m].attempts = rows[m].attempts
      BY DEF StartWorker, TypeOK, Row, FateOf
    <2>2. CASE m \in caught
      BY <1>1, <2>2 DEF Fate, Count
    <2>3. CASE m \in caught' /\ m \notin caught
      BY <1>1, <2>3 DEF Fate, Count
    <2>4. CASE m \notin caught'
      BY <1>1, <2>1, <2>4 DEF Fate, Count
    <2> QED
      BY <2>2, <2>3, <2>4
  <1>4. \A m \in Messages : Unsure(m)' = (m \notin S /\ Unsure(m))
    BY <1>1 DEF Unsure
  <1> HIDE DEF S
  <1>5. [m \in Messages |-> Unsure(m)]' =
          [m \in Messages |-> m \notin S /\ [k \in Messages |-> Unsure(k)][m]]
    <2>1. \A m \in Messages : [k \in Messages |-> Unsure(k)][m] = Unsure(m)
      BY Zenon
    <2>2. \A m \in Messages : Unsure(m)' = (m \notin S /\ [k \in Messages |-> Unsure(k)][m])
      BY <1>4, <2>1, Zenon
    <2> QED
      BY <2>2, Zenon
  <1>6. /\ [m \in Messages |-> Fate(m)]' =
             [m \in Messages |->
                IF m \in S THEN "disclaimed" ELSE [k \in Messages |-> Fate(k)][m]]
        /\ [m \in Messages |-> Count(m, rows[m].attempts)]' =
             [m \in Messages |->
                IF m \in S THEN 0 ELSE [k \in Messages |-> Count(k, rows[k].attempts)][m]]
        /\ [m \in Messages |-> Count(m, posted[m])]' =
             [m \in Messages |->
                IF m \in S THEN 0 ELSE [k \in Messages |-> Count(k, posted[k])][m]]
        /\ [m \in Messages |-> Count(m, lost[m])]' =
             [m \in Messages |->
                IF m \in S THEN 0 ELSE [k \in Messages |-> Count(k, lost[k])][m]]
    BY <1>3
  <1>7. \A m \in S : [k \in Messages |-> Fate(k)][m] = "open"
    BY <1>1, <1>2
  <1>8. (phase # "running") /\ (phase # "running")' = FALSE
    BY <1>1
  <1>9. Promise!Disclaim(S)
    BY <1>5, <1>6, <1>7, <1>8, Zenon DEF Promise!Disclaim
  <1> QED
    BY <1>1, <1>9 DEF Promise!DeliveryNext

\* deliver_message up to the send, in the terms of the promise.
LEMMA PromiseDelivers ==
    ASSUME TypeOK, OneThing, PostedInv, NEW h \in Handlers, Deliver(h)
    PROVE  [Promise!DeliveryNext]_(Promise!deliveryVars)
  <1> USE DEF connectorVars, handlerVars, sendVars, ghostVars
  <1>0. \A m \in Messages : rows[m] \in Row
    BY DEF TypeOK
  <1>1. sending[h] = NoMessage /\ reply[h] \in Messages /\ h \in Actors
    BY DEF TypeOK, OneThing, Deliver, Actors
  <1>2. /\ ~accepted[h] /\ accepted' = accepted /\ phase' = phase
        /\ posted' = posted /\ lost' = lost /\ caught' = caught
    BY <1>1, NoMessageAssumption DEF PostedInv, Deliver
  <1>3. \A a \in Actors : accepted[a] => sending'[a] = sending[a]
    BY <1>2 DEF TypeOK, Deliver
  <1>4. \A m \in Messages : Unsure(m)' <=> Unsure(m)
    BY <1>2, <1>3 DEF Unsure
  <1>5. CASE rows' = rows
    BY <1>2, <1>4, <1>5, PromiseStutters
  <1>6. CASE rows' = [rows EXCEPT ![reply[h]] =
                        [Enqueued(reply[h]) EXCEPT !.status = "in_flight"]]
    <2>1. /\ rows'[reply[h]].status = "in_flight"
          /\ rows'[reply[h]].attempts = rows[reply[h]].attempts
          /\ \A m \in Messages : m # reply[h] => rows'[m] = rows[m]
      BY <1>0, <1>1, <1>6 DEF TypeOK, Row, Enqueued
    <2>2. CASE reply[h] \in caught
      BY <1>2, <1>4, <2>1, <2>2, PromiseStutters
    <2>3. CASE FateOf(rows[reply[h]].status) = "open"
      <3>1. FateOf(rows'[reply[h]].status) = "open"
        BY <2>1 DEF FateOf
      <3> QED
        BY <1>2, <1>4, <2>1, <2>3, <3>1, PromiseStutters
    <2>4. CASE reply[h] \notin caught /\ rows[reply[h]].status = "absent"
      <3>1. /\ FateOf("absent") = "absent" /\ FateOf("in_flight") = "open"
        BY DEF FateOf
      <3>2. /\ Fate(reply[h]) = "absent"
            /\ \A m \in Messages : Fate(m)' = IF m \in {reply[h]} THEN "open" ELSE Fate(m)
            /\ \A m \in Messages : Count(m, rows[m].attempts)' = Count(m, rows[m].attempts)
        BY <1>2, <2>1, <2>4, <3>1 DEF Fate, Count
      <3>3. /\ UNCHANGED [m \in Messages |-> Count(m, posted[m])]
            /\ UNCHANGED [m \in Messages |-> Count(m, lost[m])]
            /\ UNCHANGED (phase # "running")
        BY <1>2 DEF Count
      <3>4. UNCHANGED [m \in Messages |-> Unsure(m)]
        <4>1. \A m \in Messages : Unsure(m)' = Unsure(m)
          BY <1>4 DEF Unsure
        <4> QED
          BY <4>1, Zenon
      <3>5. /\ [m \in Messages |-> Fate(m)]' =
                 [m \in Messages |-> IF m \in {reply[h]} THEN "open"
                                     ELSE [k \in Messages |-> Fate(k)][m]]
            /\ [m \in Messages |-> Fate(m)][reply[h]] = "absent"
            /\ UNCHANGED [m \in Messages |-> Count(m, rows[m].attempts)]
        BY <1>1, <3>2
      <3>6. Promise!Record(reply[h])
        BY <3>3, <3>4, <3>5, Zenon DEF Promise!Record, Promise!FateAfter
      <3> QED
        BY <1>1, <3>6 DEF Promise!DeliveryNext
    <2>5. CASE rows[reply[h]].status \in {"delivered", "dead_letter"}
      BY <1>1, <1>5, <2>5, EnqueuedFacts DEF Deliver, Claimable
    <2> QED
      BY <1>0, <1>1, <2>2, <2>3, <2>4, <2>5 DEF Row, FateOf
  <1> QED
    BY <1>5, <1>6 DEF Deliver

\* The platform accepts a send, in the terms of the promise.
LEMMA PromisePosts ==
    ASSUME TypeOK, QuietInv, NEW a \in Actors, Accept(a)
    PROVE  [Promise!DeliveryNext]_(Promise!deliveryVars)
  <1> USE DEF connectorVars, handlerVars, sendVars, ghostVars
  <1>1. PICK m \in Messages : m = sending[a]
    BY DEF TypeOK, Accept
  <1>2. /\ posted' = [posted EXCEPT ![m] = @ + 1] /\ posted \in [Messages -> Nat]
        /\ rows' = rows /\ lost' = lost /\ caught' = caught /\ phase' = phase
    BY <1>1 DEF Accept, TypeOK
  <1>3. \A n \in Messages : Unsure(n)' <=> Unsure(n) \/ (n = m /\ m \notin caught)
    BY <1>1, <1>2 DEF Accept, Unsure, TypeOK
  <1>4. CASE m \in caught
    BY <1>2, <1>3, <1>4, PromiseStutters
  <1>5. CASE m \notin caught
    <2>1. \A b \in Actors : sending[b] = m => b = a
      BY <1>1, <1>5 DEF QuietInv, Quiet, SentByOne
    <2>2. ~Unsure(m) /\ Fate(m) = "open"
      BY <1>1, <1>5, <2>1 DEF Accept, Unsure, QuietInv, Quiet, Fate, FateOf
    <2>3. [n \in Messages |-> Unsure(n)]' =
             [[n \in Messages |-> Unsure(n)] EXCEPT ![m] = TRUE]
      <3>1. \A n \in Messages : Unsure(n)' = (IF n = m THEN TRUE ELSE Unsure(n))
        BY <1>3, <1>5, Zenon DEF Unsure
      <3> QED
        BY <3>1, Zenon
    <2>4. [n \in Messages |-> Count(n, posted[n])]' =
             [[n \in Messages |-> Count(n, posted[n])] EXCEPT ![m] = @ + 1]
      BY <1>2, <1>5 DEF Count
    <2>5. /\ UNCHANGED [n \in Messages |-> Fate(n)]
          /\ UNCHANGED [n \in Messages |-> Count(n, rows[n].attempts)]
          /\ UNCHANGED [n \in Messages |-> Count(n, lost[n])]
          /\ UNCHANGED (phase # "running")
          /\ [n \in Messages |-> Fate(n)][m] = "open"
      BY <1>2, <2>2 DEF Fate, Count
    <2>6. ~[n \in Messages |-> Unsure(n)][m]
      BY <2>2, Zenon
    <2>7. Promise!Post(m)
      BY <2>3, <2>4, <2>5, <2>6, Zenon DEF Promise!Post
    <2> QED
      BY <2>7 DEF Promise!DeliveryNext
  <1> QED
    BY <1>4, <1>5

\* Each step is one of the promise, or is not seen.
LEMMA PromiseStep ==
    ASSUME TypeOK, OneThing, PostedInv, QuietInv, [Next]_vars
    PROVE  [Promise!DeliveryNext]_(Promise!deliveryVars)
  <1> DEFINE Promised == [Promise!DeliveryNext]_(Promise!deliveryVars)
  <1> USE DEF connectorVars, handlerVars, sendVars, ghostVars
  <1>0. \A m \in Messages : rows[m] \in Row
    BY DEF TypeOK
  <1>1. ASSUME UNCHANGED <<rows, sending, accepted, posted, lost, caught>>,
               phase' # "running" <=> phase # "running"
        PROVE  Promised
    BY <1>1, PromiseStutters DEF Unsure
  <1>2. CASE StartWorker
    BY <1>2, PromiseDisclaims
  <1>3. ASSUME NEW h \in Handlers, Deliver(h)
        PROVE  Promised
    BY <1>3, PromiseDelivers
  <1>4. ASSUME NEW a \in Actors, Accept(a)
        PROVE  Promised
    BY <1>4, PromisePosts
  <1>5. ASSUME NEW h \in Handlers, NEW ok \in BOOLEAN, DeliverEnd(h, ok)
        PROVE  Promised
    <2>1. /\ sending[h] \in Messages /\ h \in Actors
          /\ sending[h] \notin caught /\ ok => Unsure(sending[h])
      BY <1>5 DEF TypeOK, DeliverEnd, Actors, Unsure
    <2>2. Skip({}, sending[h], ok)
      BY <1>5, <2>1 DEF DeliverEnd, TypeOK, Skip
    <2>3. sending[h] \notin caught =>
            /\ rows[sending[h]].status = "in_flight"
            /\ \A b \in Actors : sending[b] = sending[h] => b = h
      BY <2>1 DEF QuietInv, Quiet, SentByOne
    <2>4. /\ \A b \in Actors \ {h} : sending'[b] = sending[b] /\ accepted'[b] = accepted[b]
          /\ accepted'[h] = FALSE
      BY <1>5, <2>1 DEF DeliverEnd, TypeOK
    <2>5. \A n \in Messages \ caught :
            Unsure(n)' <=> n \notin {} \cup {sending[h]} /\ Unsure(n)
      BY <1>5, <2>3, <2>4 DEF Unsure, DeliverEnd
    <2>6. UNCHANGED <<posted, lost, caught, phase>> /\ {} \in SUBSET Messages
      BY <1>5 DEF DeliverEnd
    <2>7. \A n \in ({} \cup {sending[h]}) \ caught : rows[n].status = "in_flight"
      BY <2>3
    <2>8. Promise!DeliveryNext
      BY <2>1, <2>2, <2>5, <2>6, <2>7, PromiseJudges
    <2> QED
      BY <2>8
  <1>6. CASE Drain
    <2>1. \A a \in Actors : accepted[a] => sending'[a] = sending[a]
      BY <1>6, NoMessageAssumption DEF TypeOK, PostedInv, Drain, Actors
    <2>2. \A m \in Messages : Unsure(m)' <=> Unsure(m)
      BY <1>6, <2>1 DEF Drain, Unsure
    <2>3. ASSUME NEW m \in Messages
          PROVE  /\ FateOf(rows'[m].status) = FateOf(rows[m].status)
                 /\ rows'[m].attempts = rows[m].attempts
      BY <1>0, <1>6 DEF Drain, Due, Claimable, Row, FateOf
    <2> QED
      BY <1>6, <2>2, <2>3, PromiseStutters DEF Drain
  <1>7. ASSUME NEW ok \in BOOLEAN, WorkerEnd(ok)
        PROVE  Promised
    <2>1. /\ sending[Worker] \in Messages /\ Worker \in Actors
          /\ sending[Worker] \notin caught /\ ok => Unsure(sending[Worker])
      BY <1>7 DEF TypeOK, WorkerEnd, Actors, Unsure
    <2>2. PICK skipped \in SUBSET waiting :
            /\ Skip(skipped, sending[Worker], ok)
            /\ \/ /\ sending' = [sending EXCEPT ![Worker] = NoMessage]
               \/ \E next \in waiting \ skipped : sending' = [sending EXCEPT ![Worker] = next]
      BY <1>7 DEF WorkerEnd
    <2>3. skipped \in SUBSET Messages
      BY <2>2 DEF TypeOK
    <2>4. \A n \in (skipped \cup {sending[Worker]}) \ caught : rows[n].status = "in_flight"
      BY <2>1, <2>2, <2>3 DEF QuietInv, Quiet
    <2>5. \A n \in (skipped \cup {sending[Worker]}) \ caught :
            \A b \in Actors \ {Worker} : sending[b] # n
      BY <2>1, <2>2, <2>3 DEF QuietInv, Quiet, SentByOne
    <2>6. /\ \A b \in Actors \ {Worker} : sending'[b] = sending[b] /\ accepted'[b] = accepted[b]
          /\ accepted'[Worker] = FALSE
      BY <1>7, <2>1 DEF WorkerEnd, TypeOK
    <2>7. \A n \in Messages \ caught :
            n \in skipped => n # sending[Worker] /\ \A b \in Actors : sending[b] # n
      BY <2>1, <2>2, <2>3 DEF QuietInv, Quiet, SentByOne
    <2>8. \A n \in Messages \ caught :
            Unsure(n)' <=> n \notin skipped \cup {sending[Worker]} /\ Unsure(n)
      BY <1>7, <2>5, <2>6, <2>7 DEF Unsure, WorkerEnd
    <2>9. UNCHANGED <<posted, lost, caught, phase>>
      BY <1>7 DEF WorkerEnd
    <2>10. Promise!DeliveryNext
      BY <2>1, <2>2, <2>3, <2>4, <2>8, <2>9, PromiseJudges
    <2> QED
      BY <2>10
  <1>8. ASSUME NEW m \in Messages, Elapse(m)
        PROVE  Promised
    <2>1. \A n \in Messages : /\ rows'[n].status = rows[n].status
                              /\ rows'[n].attempts = rows[n].attempts
      BY <1>0, <1>8 DEF Elapse, TypeOK, Row
    <2>2. \A n \in Messages : FateOf(rows'[n].status) = FateOf(rows[n].status)
      BY <2>1
    <2>3. UNCHANGED <<sending, accepted, posted, lost, caught, phase>>
      BY <1>8 DEF Elapse
    <2>4. \A n \in Messages : Unsure(n)' <=> Unsure(n)
      BY <2>3 DEF Unsure
    <2> QED
      BY <2>1, <2>2, <2>3, <2>4, PromiseStutters
  <1>9. CASE Crash
    <2>1. /\ {} \in SUBSET Messages
          /\ Gone /\ \A m \in Messages : rows'[m] = rows[m]
      BY <1>9 DEF Crash
    <2>2. Promise!DeliveryNext
      BY <2>1, PromiseForgets
    <2> QED
      BY <2>2
  <1>10. ASSUME NEW h \in Handlers, CrashEnqueued(h)
         PROVE  Promised
    <2>1. reply[h] \in Messages /\ Gone
      BY <1>10 DEF TypeOK, CrashEnqueued
    <2>2. /\ rows'[reply[h]] = Enqueued(reply[h])
          /\ \A m \in Messages : m # reply[h] => rows'[m] = rows[m]
      BY <1>10, <2>1 DEF TypeOK, CrashEnqueued
    <2>3. CASE rows[reply[h]].status = "absent"
      <3>1. /\ rows'[reply[h]].status = "pending"
            /\ rows'[reply[h]].attempts = rows[reply[h]].attempts
        BY <1>0, <2>1, <2>2, <2>3 DEF Enqueued, Row
      <3>2. {reply[h]} \in SUBSET Messages
        BY <2>1
      <3> QED
        BY <2>1, <2>2, <2>3, <3>1, <3>2, PromiseForgets
    <2>4. CASE rows[reply[h]].status # "absent"
      <3>1. \A m \in Messages : rows'[m] = rows[m]
        BY <2>2, <2>4 DEF Enqueued
      <3>2. {} \in SUBSET Messages
        OBVIOUS
      <3> QED
        BY <2>1, <3>1, <3>2, PromiseForgets
    <2> QED
      BY <2>3, <2>4
  <1> QED
    BY <1>1, <1>2, <1>3, <1>4, <1>5, <1>6, <1>7, <1>8, <1>9, <1>10
       DEF Next, vars, StartServer, Reload, Inbound

\* Nothing is recorded at first, in the terms of the promise.
LEMMA PromiseInit == Init => Promise!DeliveryInit
  <1> SUFFICES ASSUME Init PROVE Promise!DeliveryInit
    OBVIOUS
  <1>1. \A m \in Messages : /\ Fate(m) = "absent" /\ Count(m, rows[m].attempts) = 0
                            /\ Count(m, posted[m]) = 0 /\ Count(m, lost[m]) = 0
    BY DEF Init, Absent, Fate, FateOf, Count
  <1>2. \A m \in Messages : Unsure(m) = FALSE
    BY DEF Init, Unsure
  <1>3. /\ [m \in Messages |-> Fate(m)] = [m \in Messages |-> "absent"]
        /\ [m \in Messages |-> Count(m, rows[m].attempts)] = [m \in Messages |-> 0]
        /\ [m \in Messages |-> Count(m, posted[m])] = [m \in Messages |-> 0]
        /\ [m \in Messages |-> Count(m, lost[m])] = [m \in Messages |-> 0]
    BY <1>1
  <1>4. [m \in Messages |-> Unsure(m)] = [m \in Messages |-> FALSE]
    BY <1>2, Zenon
  <1>5. (phase # "running") = TRUE
    BY DEF Init
  <1> QED
    BY <1>3, <1>4, <1>5, Zenon DEF Promise!DeliveryInit

\* The outbox implements the abstract delivery, for any traffic: attempts one after
\* another, final verdicts, and no post but those that attempts and crashes account for,
\* of all replies but those that a worker's start catches in a send.
THEOREM OutboxKeepsPromise == Spec => ImplementsDelivery
  <1>1. ASSUME OutboxInv, QuietInv, [Next]_vars
        PROVE  [Promise!DeliveryNext]_(Promise!deliveryVars)
    BY <1>1, PromiseStep DEF OutboxInv
  <1> QED
    BY <1>1, PromiseInit, QuietInvariant, PTL DEF Spec, ImplementsDelivery, Promise!DeliverySpec

\* A reply whose verdict is open has attempts left, if no worker's start has caught it.
AttemptsInv ==
    \A m \in Messages \ caught :
       /\ rows[m].attempts <= MaxAttempts
       /\ rows[m].status \notin {"delivered", "dead_letter"} => rows[m].attempts < MaxAttempts

\* The recipient gets a reply no more often than there are attempts, but for those that
\* crashes cut off, and but for the replies that a worker's start caught.
PostsBounded == \A m \in Messages \ caught : posted[m] <= MaxAttempts + lost[m]

\* A verdict keeps the attempts within their limit.
LEMMA VerdictFits ==
    ASSUME NEW row \in Row, NEW ok \in BOOLEAN, row.attempts < MaxAttempts
    PROVE  /\ Finished(row, ok).attempts <= MaxAttempts
           /\ Failed(row).attempts <= MaxAttempts
           /\ Finished(row, ok).status \notin {"delivered", "dead_letter"}
                => Finished(row, ok).attempts < MaxAttempts
           /\ Failed(row).status \notin {"delivered", "dead_letter"}
                => Failed(row).attempts < MaxAttempts
  <1>1. row.attempts \in Nat /\ MaxAttempts \in Nat
    BY LimitsAssumption DEF Row
  <1>2. /\ Failed(row).attempts <= MaxAttempts
        /\ Failed(row).status \notin {"delivered", "dead_letter"}
             => Failed(row).attempts < MaxAttempts
    <2>1. CASE row.attempts + 1 >= MaxAttempts
      BY <1>1, <2>1 DEF Failed
    <2>2. CASE ~(row.attempts + 1 >= MaxAttempts)
      BY <1>1, <2>2 DEF Failed
    <2> QED
      BY <2>1, <2>2
  <1>3. Delivered(row).attempts <= MaxAttempts /\ Delivered(row).status = "delivered"
    BY <1>1 DEF Delivered
  <1> QED
    BY <1>2, <1>3 DEF Finished

\* What a step does to the row of a message that is not caught: the attempts stay and no
\* verdict is lifted, or the verdict of one attempt is added to a row in flight.
LEMMA RowStep ==
    ASSUME TypeOK, QuietInv, Next, NEW m \in Messages, m \notin caught
    PROVE  \/ /\ rows'[m].attempts = rows[m].attempts
              /\ rows'[m].status \notin {"delivered", "dead_letter"}
                   => rows[m].status \notin {"delivered", "dead_letter"}
           \/ /\ rows[m].status = "in_flight"
              /\ \E ok \in BOOLEAN : rows'[m] \in {Finished(rows[m], ok), Failed(rows[m])}
  <1> USE DEF connectorVars, handlerVars, sendVars, ghostVars
  <1>0. Quiet(m) /\ rows[m] \in Row
    BY DEF QuietInv, TypeOK
  <1>1. rows[m].status \in {"delivered", "dead_letter"} => rows'[m] = rows[m]
    BY SettledStep
  <1>2. CASE rows'[m].attempts = rows[m].attempts
    BY <1>1, <1>2
  <1>3. CASE StartWorker
    BY <1>0, <1>2, <1>3 DEF StartWorker, Row
  <1>4. ASSUME NEW h \in Handlers, Deliver(h)
        PROVE  rows'[m].attempts = rows[m].attempts
    <2>1. reply[h] \in Messages
      BY <1>4 DEF TypeOK, Deliver
    <2> QED
      BY <1>0, <1>4, <2>1 DEF TypeOK, Row, Deliver, Enqueued
  <1>5. ASSUME NEW h \in Handlers, NEW ok \in BOOLEAN, DeliverEnd(h, ok)
        PROVE  \/ rows'[m] = rows[m]
               \/ rows[m].status = "in_flight" /\ rows'[m] = Finished(rows[m], ok)
    <2>1. CASE sending[h] = m
      BY <1>0, <1>5, <2>1 DEF TypeOK, DeliverEnd, Quiet, Actors
    <2>2. CASE sending[h] # m
      BY <1>5, <2>2 DEF TypeOK, DeliverEnd
    <2> QED
      BY <2>1, <2>2
  <1>6. CASE Drain
    BY <1>0, <1>2, <1>6 DEF Drain, Row
  <1>7. ASSUME NEW ok \in BOOLEAN, WorkerEnd(ok)
        PROVE  \/ rows'[m] = rows[m]
               \/ /\ rows[m].status = "in_flight"
                  /\ rows'[m] \in {Finished(rows[m], ok), Failed(rows[m])}
    <2>1. PICK skipped \in SUBSET waiting : Skip(skipped, sending[Worker], ok)
      BY <1>7 DEF WorkerEnd
    <2>2. rows'[m] = IF m = sending[Worker] THEN Finished(rows[m], ok)
                     ELSE IF m \in skipped THEN Failed(rows[m]) ELSE rows[m]
      BY <2>1 DEF Skip
    <2>3. m \in skipped \/ m = sending[Worker] => rows[m].status = "in_flight"
      BY <1>0, <2>1 DEF Quiet, Actors
    <2> QED
      BY <2>2, <2>3
  <1>8. ASSUME NEW n \in Messages, Elapse(n)
        PROVE  rows'[m].attempts = rows[m].attempts
    BY <1>0, <1>8 DEF Elapse, TypeOK, Row
  <1>9. ASSUME NEW h \in Handlers, CrashEnqueued(h)
        PROVE  rows'[m].attempts = rows[m].attempts
    <2>1. reply[h] \in Messages
      BY <1>9 DEF TypeOK, CrashEnqueued
    <2> QED
      BY <1>0, <1>9, <2>1 DEF TypeOK, Row, CrashEnqueued, Enqueued
  <1>10. CASE UNCHANGED rows
    BY <1>2, <1>10
  <1> QED
    BY <1>2, <1>3, <1>4, <1>5, <1>6, <1>7, <1>8, <1>9, <1>10
       DEF Next, StartServer, Reload, Inbound, Accept, Crash

\* Every step keeps the attempts within their limit.
LEMMA AttemptsStep ==
    ASSUME TypeOK, QuietInv, AttemptsInv, [Next]_vars
    PROVE  AttemptsInv'
  <1>1. CASE UNCHANGED vars
    BY <1>1 DEF vars, ghostVars, AttemptsInv
  <1>2. ASSUME Next, NEW m \in Messages, m \notin caught'
        PROVE  /\ rows'[m].attempts <= MaxAttempts
               /\ rows'[m].status \notin {"delivered", "dead_letter"}
                    => rows'[m].attempts < MaxAttempts
    <2>1. /\ m \notin caught /\ rows[m] \in Row /\ rows[m].attempts <= MaxAttempts
          /\ rows[m].status \notin {"delivered", "dead_letter"} => rows[m].attempts < MaxAttempts
      BY <1>2, CaughtStep DEF AttemptsInv, TypeOK
    <2>2. CASE /\ rows'[m].attempts = rows[m].attempts
               /\ rows'[m].status \notin {"delivered", "dead_letter"}
                    => rows[m].status \notin {"delivered", "dead_letter"}
      BY <2>1, <2>2
    <2>3. ASSUME NEW ok \in BOOLEAN, rows[m].status = "in_flight",
                 rows'[m] \in {Finished(rows[m], ok), Failed(rows[m])}
          PROVE  /\ rows'[m].attempts <= MaxAttempts
                 /\ rows'[m].status \notin {"delivered", "dead_letter"}
                      => rows'[m].attempts < MaxAttempts
      <3>1. rows[m].attempts < MaxAttempts
        BY <2>1, <2>3
      <3> QED
        BY <2>1, <2>3, <3>1, VerdictFits
    <2> QED
      BY <1>2, <2>1, <2>2, <2>3, RowStep
  <1> QED
    BY <1>1, <1>2 DEF AttemptsInv

\* At most one post is open, and its attempt is not counted yet.
LEMMA PostsFitAttempts ==
    ASSUME TypeOK, QuietInv, AttemptsInv, PostsAccounted
    PROVE  PostsBounded
  <1> SUFFICES ASSUME NEW m \in Messages, m \notin caught
               PROVE  posted[m] <= MaxAttempts + lost[m]
    BY DEF PostsBounded
  <1>1. posted[m] <= rows[m].attempts + lost[m] + Cardinality(Open(m))
    BY DEF PostsAccounted, Open
  <1>2. /\ posted[m] \in Nat /\ lost[m] \in Nat /\ rows[m].attempts \in Nat
        /\ MaxAttempts \in Nat /\ rows[m].attempts <= MaxAttempts
    BY LimitsAssumption DEF TypeOK, Row, AttemptsInv
  <1>3. CASE Open(m) = {}
    BY <1>1, <1>2, <1>3, FS_EmptySet
  <1>4. CASE Open(m) # {}
    <2>1. Quiet(m)
      BY DEF QuietInv
    <2>2. PICK a \in Actors : sending[a] = m /\ Open(m) = {a}
      BY <1>4, <2>1 DEF Open, Quiet, SentByOne
    <2>3. rows[m].attempts < MaxAttempts
      BY <2>1, <2>2 DEF Quiet, AttemptsInv
    <2>4. Cardinality(Open(m)) = 1
      BY <2>2, FS_Singleton
    <2> QED
      BY <1>1, <1>2, <2>3, <2>4
  <1> QED
    BY <1>3, <1>4

\* All attempts are left at first.
LEMMA AttemptsInit == Init => AttemptsInv
  BY LimitsAssumption DEF Init, Absent, AttemptsInv

\* A reply is posted at most as often as the code attempts it, but for the posts that
\* crashes cut off; of replies that a worker's start caught, PostsAreAccounted is left.
THEOREM PostsAreBounded == Spec => []PostsBounded
  <1>1. ASSUME TypeOK, QuietInv, AttemptsInv, [Next]_vars
        PROVE  AttemptsInv'
    BY <1>1, AttemptsStep
  <1>2. TypeOK /\ QuietInv /\ AttemptsInv /\ PostsAccounted => PostsBounded
    BY PostsFitAttempts
  <1> QED
    BY <1>1, <1>2, AttemptsInit, QuietInvariant, PostsAreAccounted, PTL DEF Spec, OutboxInv

-----------------------------------------------------------------------------
(***************************************************************************)
(* The intake of updates from Telegram.                                    *)
(***************************************************************************)

\* A set of numbers up to a bound has a largest.
LEMMA LargestOf ==
    ASSUME NEW n \in Nat, NEW us, us \subseteq 1 .. n, us # {}
    PROVE  \E u \in us : \A v \in us : v <= u
  <1> DEFINE gaps == {k \in Nat : n - k \in us}
  <1>1. gaps \subseteq Nat
    OBVIOUS
  <1>2. gaps # {}
    <2>1. PICK u \in us : TRUE
      OBVIOUS
    <2>2. u \in 1 .. n
      BY <2>1
    <2>3. n - u \in Nat /\ n - (n - u) = u
      BY <2>2
    <2> QED
      BY <2>1, <2>3
  <1>3. PICK k \in gaps : \A j \in gaps : <<j, k>> \notin OpToRel(<, Nat)
    <2> HIDE DEF gaps
    <2> QED
      BY <1>1, <1>2, WFMin, NatLessThanWellFounded, Zenon
  <1>4. \A j \in gaps : ~(j < k)
    BY <1>3, Zenon DEF OpToRel
  <1>5. ASSUME NEW v \in us
        PROVE  v <= n - k
    <2>1. v \in 1 .. n
      OBVIOUS
    <2>2. n - v \in Nat /\ n - (n - v) = v
      BY <2>1
    <2>3. n - v \in gaps
      BY <2>2
    <2>4. ~(n - v < k)
      BY <1>4, <2>3
    <2> QED
      BY <2>1, <2>4
  <1> QED
    BY <1>5

\* The offset after an answer is behind its last update.
LEMMA OffsetAfterFacts ==
    ASSUME NEW us, us \subseteq Updates
    PROVE  /\ us = {} => OffsetAfter(us) = offset
           /\ us # {} => /\ OffsetAfter(us) - 1 \in us
                         /\ OffsetAfter(us) \in Int
                         /\ \A v \in us : v < OffsetAfter(us)
  <1>1. CASE us = {}
    BY <1>1 DEF OffsetAfter
  <1>2. CASE us # {}
    <2> DEFINE last == CHOOSE u \in us : \A v \in us : v <= u
    <2>1. last \in us /\ \A v \in us : v <= last
      BY <1>2, LargestOf, UpdatesAssumption DEF Updates
    <2>2. OffsetAfter(us) = 1 + last
      BY <1>2 DEF OffsetAfter
    <2> HIDE DEF last
    <2>3. us \subseteq Int
      BY DEF Updates
    <2> QED
      BY <1>2, <2>1, <2>2, <2>3
  <1> QED
    BY <1>1, <1>2

\* Every offset that a request may carry lies behind updates that were taken only,
\* and what an answer leaves out was taken too; a connector is beyond what it took.
PollInv ==
    /\ polling => build # 0
    /\ \A u \in Updates : taken[u] \subseteq 1 .. build
    /\ \A u \in Updates : build \in taken[u] => u < offset
    /\ \A u \in Updates : u < offset => taken[u] # {}
    /\ \A u \in Updates, o \in left : u < o => taken[u] # {}
    /\ \A u \in updates :
          /\ offset <= u
          /\ \A v \in Updates : v < u /\ v \notin updates => taken[v] # {}

\* The inductive invariant of the intake.
IntakeInv == IntakeTypeOK /\ PollInv /\ HandedOver

\* Before the first build, no update is taken and no offset was sent.
LEMMA IntakeInitInv == IntakeInit => IntakeInv
  <1> SUFFICES ASSUME IntakeInit PROVE IntakeInv
    OBVIOUS
  <1>1. IntakeTypeOK
    <2>1. /\ taken \in [Updates -> {{}}]
          /\ missed \in [Updates -> {FALSE}]
      BY DEF IntakeInit
    <2>2. /\ 0 \in 0 .. MaxUpdates /\ 1 \in 1 .. MaxUpdates + 1
          /\ 0 \in 0 .. MaxBuilds /\ 0 \in 0 .. MaxCrashes /\ 0 \in 0 .. MaxUpdates + 1
      BY UpdatesAssumption, BuildsAssumption
    <2> QED
      BY <2>1, <2>2 DEF IntakeInit, IntakeTypeOK
  <1>2. PollInv
    BY DEF IntakeInit, PollInv, Updates
  <1>3. HandedOver
    BY DEF IntakeInit, HandedOver, Updates
  <1> QED
    BY <1>1, <1>2, <1>3 DEF IntakeInv

\* Every step of the connector and of Telegram keeps the types.
LEMMA IntakeStepTypes ==
    ASSUME IntakeInv, IntakeNext
    PROVE  IntakeTypeOK'
  <1> USE UpdatesAssumption, BuildsAssumption DEF IntakeInv, Updates, Builds, pollVars
  <1>1. CASE Arrive
    BY <1>1 DEF Arrive, IntakeTypeOK
  <1>2. CASE Started
    <2>1. build' \in 0 .. MaxBuilds /\ 0 \in 0 .. MaxUpdates + 1
      BY <1>2 DEF Started, IntakeTypeOK
    <2> QED
      BY <1>2, <2>1 DEF Started, IntakeTypeOK
  <1>3. CASE Ask
    BY <1>3 DEF Ask, IntakeTypeOK
  <1>4. CASE GetUpdates
    <2>1. confirmed' \in 1 .. MaxUpdates + 1
      BY <1>4 DEF GetUpdates, Greater, IntakeTypeOK
    <2>2. updates' \subseteq 1 .. MaxUpdates
      BY <1>4 DEF GetUpdates
    <2> QED
      BY <1>4, <2>1, <2>2 DEF GetUpdates, IntakeTypeOK
  <1>5. CASE RequestFails
    BY <1>5 DEF RequestFails, IntakeTypeOK
  <1>6. CASE TakeBatch
    <2>1. offset' \in 0 .. MaxUpdates + 1
      <3>1. CASE updates = {}
        BY <1>6, <3>1, OffsetAfterFacts DEF TakeBatch, IntakeTypeOK
      <3>2. CASE updates # {}
        <4>1. offset' = OffsetAfter(updates)
          BY <1>6 DEF TakeBatch
        <4>2. OffsetAfter(updates) - 1 \in 1 .. MaxUpdates /\ OffsetAfter(updates) \in Int
          BY <3>2, OffsetAfterFacts DEF IntakeTypeOK
        <4> QED
          BY <4>1, <4>2
      <3> QED
        BY <3>1, <3>2
    <2>2. build \in 1 .. MaxBuilds
      BY <1>6 DEF TakeBatch, PollInv, IntakeTypeOK
    <2>3. handing' \subseteq (1 .. MaxUpdates) \X (1 .. MaxBuilds)
      BY <1>6, <2>2 DEF TakeBatch, IntakeTypeOK
    <2>4. taken' \in [1 .. MaxUpdates -> SUBSET (1 .. MaxBuilds)]
      BY <1>6, <2>2 DEF TakeBatch, IntakeTypeOK
    <2>5. repeated' \in BOOLEAN
      BY <1>6 DEF TakeBatch, IntakeTypeOK
    <2> QED
      BY <1>6, <2>1, <2>3, <2>4, <2>5 DEF TakeBatch, IntakeTypeOK
  <1>7. ASSUME NEW u \in Updates, NEW b \in Builds, HandlerEnds(u, b)
        PROVE  IntakeTypeOK'
    <2>1. handing' \subseteq handing /\ missed' \in [1 .. MaxUpdates -> BOOLEAN]
      BY <1>7 DEF HandlerEnds, HandlerReplies, NothingToHandle, IntakeTypeOK
    <2>2. UNCHANGED <<arrived, confirmed, pollVars, taken, repeated, crashes>>
      BY <1>7 DEF HandlerEnds, HandlerReplies, NothingToHandle
    <2> QED
      BY <2>1, <2>2 DEF IntakeTypeOK
  <1>8. CASE StopPolling
    <2>1. left' \subseteq 0 .. MaxUpdates + 1
      BY <1>8 DEF StopPolling, IntakeTypeOK
    <2> QED
      BY <1>8, <2>1 DEF StopPolling, HandlersAfterStop, IntakeTypeOK
  <1>9. ASSUME NEW o \in left, AnswerNobody(o)
        PROVE  IntakeTypeOK'
    <2>1. confirmed' \in 1 .. MaxUpdates + 1
      BY <1>9 DEF AnswerNobody, Greater, IntakeTypeOK
    <2>2. left' \subseteq left
      BY <1>9 DEF AnswerNobody
    <2> QED
      BY <1>9, <2>1, <2>2 DEF AnswerNobody, IntakeTypeOK
  <1>10. CASE CrashIntake
    <2>1. left' \subseteq 0 .. MaxUpdates + 1
      BY <1>10 DEF CrashIntake, IntakeTypeOK
    <2>2. missed' \in [1 .. MaxUpdates -> BOOLEAN] /\ crashes' \in 0 .. MaxCrashes
      BY <1>10 DEF CrashIntake, IntakeTypeOK
    <2> QED
      BY <1>10, <2>1, <2>2 DEF CrashIntake, IntakeTypeOK
  <1> QED
    BY <1>1, <1>2, <1>3, <1>4, <1>5, <1>6, <1>7, <1>8, <1>9, <1>10 DEF IntakeNext

\* Every step keeps what the offset says: the poll loop moves it behind what it has
\* taken, Telegram forgets what lies before an offset it was sent, and a new
\* connector begins at zero.
LEMMA IntakeStepPoll ==
    ASSUME IntakeInv, IntakeNext
    PROVE  PollInv' /\ HandedOver'
  <1> USE DEF IntakeInv, PollInv, HandedOver, Updates, pollVars
  <1>1. CASE Arrive
    BY <1>1 DEF Arrive
  <1>2. CASE Started
    <2>1. build \in Nat /\ build' = build + 1 /\ build' \notin 1 .. build
      BY <1>2 DEF Started, IntakeTypeOK
    <2> QED
      BY <1>2, <2>1 DEF Started
  <1>3. CASE Ask
    BY <1>3 DEF Ask
  <1>4. CASE GetUpdates
    <2>1. \A v \in 1 .. MaxUpdates : v < confirmed' => taken[v] # {}
      BY <1>4 DEF GetUpdates, Greater, IntakeTypeOK
    <2>2. /\ offset <= confirmed' /\ confirmed' \in Int
          /\ updates' = {u \in 1 .. MaxUpdates : confirmed' <= u /\ u <= arrived}
      BY <1>4, UpdatesAssumption DEF GetUpdates, Greater, IntakeTypeOK
    <2>3. UNCHANGED <<arrived, build, polling, offset, left, handing, taken, repeated>>
      BY <1>4 DEF GetUpdates
    <2>4. ASSUME NEW u \in updates'
          PROVE  /\ offset' <= u
                 /\ \A v \in 1 .. MaxUpdates :
                       v < u /\ v \notin updates' => taken'[v] # {}
      BY <2>1, <2>2, <2>3, <2>4 DEF IntakeTypeOK
    <2> QED
      BY <2>1, <2>3, <2>4
  <1>5. CASE RequestFails
    BY <1>5 DEF RequestFails
  <1>6. CASE TakeBatch
    <2> USE UpdatesAssumption DEF IntakeTypeOK
    <2>1. offset' = OffsetAfter(updates) /\ build' = build /\ left' = left
          /\ updates' = {} /\ confirmed' = confirmed
      BY <1>6 DEF TakeBatch
    <2>2. build \in 1 .. build
      BY <1>6 DEF TakeBatch
    <2>3. \A u \in Updates :
             taken'[u] = IF u \in updates THEN taken[u] \cup {build} ELSE taken[u]
      BY <1>6 DEF TakeBatch
    <2>4. \A u \in updates : build \notin taken[u]
      OBVIOUS
    <2>5. ~repeated'
      BY <1>6, <2>4 DEF TakeBatch
    <2>6. /\ \A u \in updates : u < offset'
          /\ offset <= offset' /\ offset' \in Int
          /\ \A v \in 1 .. MaxUpdates : v < offset' => taken'[v] # {}
      <3>1. CASE updates = {}
        BY <2>1, <2>3, <3>1, OffsetAfterFacts
      <3>2. CASE updates # {}
        <4> DEFINE last == offset' - 1
        <4>1. /\ last \in updates /\ last \in Int /\ offset' = last + 1
              /\ \A u \in updates : u < offset'
          <5>1. updates \subseteq Updates
            OBVIOUS
          <5>2. /\ OffsetAfter(updates) - 1 \in updates /\ OffsetAfter(updates) \in Int
                /\ \A v \in updates : v < OffsetAfter(updates)
            BY <3>2, <5>1, OffsetAfterFacts
          <5> QED
            BY <2>1, <5>2
        <4> HIDE DEF last
        <4>2. \A v \in 1 .. MaxUpdates :
                 v < last /\ v \notin updates => taken[v] # {}
          BY <4>1
        <4>3. ASSUME NEW v \in 1 .. MaxUpdates, v < offset'
              PROVE  taken'[v] # {}
          <5>1. CASE v \in updates
            BY <2>3, <5>1
          <5>2. CASE v \notin updates
            <6>1. v < last
              BY <4>1, <4>3, <5>2
            <6> QED
              BY <2>3, <4>2, <5>2, <6>1
          <5> QED
            BY <5>1, <5>2
        <4>4. offset <= last /\ offset \in Int
          BY <4>1
        <4>5. offset <= offset' /\ offset' \in Int
          BY <4>1, <4>4
        <4> QED
          BY <4>1, <4>3, <4>5
      <3> QED
        BY <3>1, <3>2
    <2>7. \A u \in 1 .. MaxUpdates : taken[u] \subseteq taken'[u]
      BY <2>3
    <2>8. polling' => build' # 0
      BY <1>6, <2>1 DEF TakeBatch
    <2>9. ASSUME NEW u \in 1 .. MaxUpdates
          PROVE  taken'[u] \subseteq 1 .. build'
      <3>1. taken[u] \subseteq 1 .. build /\ taken'[u] \subseteq taken[u] \cup {build}
        BY <2>3
      <3> QED
        BY <2>1, <2>2, <3>1
    <2>10. ASSUME NEW u \in 1 .. MaxUpdates, build' \in taken'[u]
           PROVE  u < offset'
      <3>1. CASE u \in updates
        BY <2>6, <3>1
      <3>2. CASE u \notin updates
        <4>1. u < offset
          BY <2>1, <2>3, <2>10, <3>2
        <4>2. offset \in Int
          OBVIOUS
        <4> QED
          BY <2>6, <4>1, <4>2
      <3> QED
        BY <3>1, <3>2
    <2>11. \A u \in 1 .. MaxUpdates, o \in left' : u < o => taken'[u] # {}
      BY <2>1, <2>7
    <2>12. \A u \in 1 .. MaxUpdates : u < confirmed' => taken'[u] # {}
      BY <2>1, <2>7
    <2> QED
      BY <2>1, <2>5, <2>6, <2>8, <2>9, <2>10, <2>11, <2>12
  <1>7. ASSUME NEW u \in Updates, NEW b \in Builds, HandlerEnds(u, b)
        PROVE  PollInv' /\ HandedOver'
    BY <1>7 DEF HandlerEnds, HandlerReplies, NothingToHandle
  <1>8. CASE StopPolling
    BY <1>8 DEF StopPolling
  <1>9. ASSUME NEW o \in left, AnswerNobody(o)
        PROVE  PollInv' /\ HandedOver'
    BY <1>9 DEF AnswerNobody, Greater
  <1>10. CASE CrashIntake
    BY <1>10 DEF CrashIntake
  <1> QED
    BY <1>1, <1>2, <1>3, <1>4, <1>5, <1>6, <1>7, <1>8, <1>9, <1>10 DEF IntakeNext

\* Every step keeps the invariant.
LEMMA IntakeStepInv ==
    ASSUME IntakeInv, [IntakeNext]_intakeVars
    PROVE  IntakeInv'
  <1>1. CASE UNCHANGED intakeVars
    BY <1>1 DEF IntakeInv, IntakeTypeOK, PollInv, HandedOver, intakeVars, pollVars
  <1>2. CASE IntakeNext
    BY <1>2, IntakeStepTypes, IntakeStepPoll DEF IntakeInv
  <1> QED
    BY <1>1, <1>2

\* What the offset says of the updates that were taken holds of every connector.
THEOREM IntakeInvariant == IntakeSpec => []IntakeInv
  BY IntakeInitInv, IntakeStepInv, PTL DEF IntakeSpec

\* Telegram forgets no update that nobody has handled, and a connector hands an
\* update over once.
THEOREM IntakeSound == IntakeSpec => []HandedOver
  BY IntakeInvariant, PTL DEF IntakeInv

-----------------------------------------------------------------------------
(***************************************************************************)
(* A chat, from the update to the settled reply.  What holds of the outbox *)
(* and of the intake alone holds of both together, and together they lose  *)
(* no message.                                                             *)
(***************************************************************************)

\* A handler works on its own reply, and only if its connector took the update.
TasksInv ==
    \A u \in Updates, b \in Builds :
       /\ reply[<<u, b>>] \in {NoMessage, <<u, b>>}
       /\ reply[<<u, b>>] # NoMessage \/ sending[<<u, b>>] # NoMessage => b \in taken[u]

\* What became of an update: a crash or a failed download ended its handler, or a
\* handler is at work, or a reply is on record.
Kept(u) ==
    \/ missed[u]
    \/ \E b \in Builds : <<u, b>> \in handing \/ rows[<<u, b>>].status # "absent"

\* An update that was taken is kept; a reply that was not recorded yet can be claimed.
KeptInv ==
    /\ \A m \in Messages : rows[m].status = "absent" => rows[m].due = TRUE
    /\ \A u \in Updates : taken[u] # {} => Kept(u)

\* What Telegram has forgotten is kept here.
UpdatesAreKept == \A u \in Updates : u < confirmed => Kept(u)

\* The inductive invariant of a chat.
ChatInv == OutboxInv /\ PostsAccounted /\ IntakeInv /\ TasksInv /\ KeptInv

\* Both parts in their initial states.
LEMMA ChatInitInv == ASSUME TelegramFits PROVE ChatInit => ChatInv
  <1> SUFFICES ASSUME ChatInit PROVE ChatInv
    OBVIOUS
  <1>1. OutboxInv /\ PostsAccounted /\ IntakeInv
    BY OutboxInitInv, PostsInit, IntakeInitInv DEF ChatInit
  <1>2. TasksInv
    BY DEF ChatInit, Init, TasksInv, TelegramFits, Actors
  <1>3. KeptInv
    BY DEF ChatInit, Init, IntakeInit, KeptInv, Absent
  <1> QED
    BY <1>1, <1>2, <1>3 DEF ChatInv

\* A step of the chat is one of the intake, or none.
LEMMA ChatIntakeStep ==
    ASSUME [ChatNext]_chatVars
    PROVE  [IntakeNext]_intakeVars
  <1> USE DEF IntakeNext
  <1>1. ASSUME NEW S, StartChat(S) \/ Rebuild(S)
        PROVE  [IntakeNext]_intakeVars
    BY <1>1 DEF StartChat, Rebuild
  <1>2. ASSUME NEW u \in Updates, NEW b \in Builds, ReplyIsDelivered(u, b) \/ NoReply(u, b)
        PROVE  [IntakeNext]_intakeVars
    BY <1>2 DEF ReplyIsDelivered, NoReply, HandlerEnds
  <1>3. CASE WorkGoesOn
    BY <1>1, <1>2, <1>3 DEF WorkGoesOn, OutboxOnly
  <1>4. CASE IntakeOnly(Arrive \/ Ask \/ GetUpdates \/ RequestFails)
    BY <1>4 DEF IntakeOnly
  <1>5. CASE TakeUpdates
    BY <1>5 DEF TakeUpdates
  <1>6. CASE \E o \in left : IntakeOnly(AnswerNobody(o))
    BY <1>6 DEF IntakeOnly
  <1>7. CASE StopConnector \/ CrashChat
    BY <1>7 DEF StopConnector, CrashChat
  <1>8. CASE \E a \in Actors : OutboxOnly(Accept(a))
    BY <1>8 DEF OutboxOnly
  <1>9. CASE UNCHANGED chatVars
    BY <1>9 DEF chatVars
  <1> QED
    BY <1>1, <1>3, <1>4, <1>5, <1>6, <1>7, <1>8, <1>9 DEF ChatNext

\* Every connector that a chat builds keeps to the intake's specification.
THEOREM ChatUsesIntake == ChatSpec => IntakeSpec
  <1>1. ChatInit => IntakeInit
    BY DEF ChatInit
  <1> QED
    BY <1>1, ChatIntakeStep, PTL DEF ChatSpec, IntakeSpec

\* In a chat, too, Telegram forgets no update that nobody has handled, and a
\* connector hands an update over once.
THEOREM ChatHandsOver == ChatSpec => []HandedOver
  BY ChatUsesIntake, IntakeSound, PTL

\* What a step of the chat is to the outbox: one of its own, in which handlers go on
\* with what they have; or handlers begin, or one ends with nothing to reply.
LEMMA ChatOutboxStep ==
    ASSUME TelegramFits, TypeOK, [ChatNext]_chatVars
    PROVE  \/ /\ [Next]_vars
              /\ \A h \in Handlers :
                    /\ reply'[h] \in {reply[h], NoMessage}
                    /\ sending'[h] # NoMessage => \/ sending[h] # NoMessage
                                                  \/ reply[h] # NoMessage
           \/ TakeUpdates
           \/ \E u \in Updates, b \in Builds : NoReply(u, b)
  <1> DEFINE Goes(h) == /\ reply'[h] \in {reply[h], NoMessage}
                        /\ sending'[h] # NoMessage => \/ sending[h] # NoMessage
                                                      \/ reply[h] # NoMessage
             GoesOn == [Next]_vars /\ \A h \in Handlers : Goes(h)
  <1> USE DEF connectorVars, handlerVars, sendVars, ghostVars, outboxVars
  <1>0. ASSUME UNCHANGED vars
        PROVE  GoesOn
    BY <1>0 DEF vars
  <1>1. ASSUME NEW S \in SUBSET Providers, StartServer(S) \/ Reload(S)
        PROVE  GoesOn
    BY <1>1 DEF StartServer, Reload, Next
  <1>2. ASSUME NEW S \in SUBSET Providers, StartChat(S) \/ Rebuild(S)
        PROVE  GoesOn
    BY <1>1, <1>2 DEF StartChat, Rebuild
  <1>3. ASSUME NEW u \in Updates, NEW b \in Builds, ReplyIsDelivered(u, b)
        PROVE  GoesOn
    <2>1. Deliver(<<u, b>>) /\ <<u, b>> \in Handlers
      BY <1>3 DEF ReplyIsDelivered, TelegramFits
    <2>2. ASSUME NEW h \in Handlers
          PROVE  Goes(h)
      BY <2>1 DEF TypeOK, Deliver, Actors
    <2> QED
      BY <2>1, <2>2 DEF Next
  <1>4. ASSUME NEW h \in Handlers, NEW ok \in BOOLEAN, DeliverEnd(h, ok)
        PROVE  GoesOn
    BY <1>4 DEF TypeOK, DeliverEnd, Next, Actors
  <1>5. CASE StartWorker
    BY <1>5 DEF StartWorker, Next
  <1>6. CASE Drain
    <2>1. \A h \in Handlers : sending'[h] = sending[h]
      BY <1>6, WorkerAssumption DEF TypeOK, Drain, Actors
    <2> QED
      BY <1>6, <2>1 DEF Drain, Next
  <1>7. ASSUME NEW ok \in BOOLEAN, WorkerEnd(ok)
        PROVE  GoesOn
    <2>1. \A h \in Handlers : sending'[h] = sending[h]
      BY <1>7, WorkerAssumption DEF TypeOK, WorkerEnd, Actors
    <2> QED
      BY <1>7, <2>1 DEF WorkerEnd, Next
  <1>8. ASSUME NEW m \in Messages, Elapse(m)
        PROVE  GoesOn
    BY <1>8 DEF Elapse, Next
  <1>9. ASSUME NEW a \in Actors, Accept(a)
        PROVE  GoesOn
    BY <1>9 DEF Accept, Next
  <1>10. ASSUME Crash \/ \E h \in Handlers : CrashEnqueued(h)
         PROVE  GoesOn
    BY <1>10 DEF Crash, CrashEnqueued, Gone, Next, Actors
  <1>11. CASE WorkGoesOn
    BY <1>2, <1>3, <1>4, <1>5, <1>6, <1>7, <1>8, <1>11 DEF WorkGoesOn, OutboxOnly
  <1> QED
    BY <1>0, <1>2, <1>9, <1>10, <1>11
       DEF ChatNext, chatVars, IntakeOnly, OutboxOnly, StopConnector, CrashChat

\* What keeps the outbox's invariants when only replies are begun or dropped.
LEMMA RepliesChange ==
    ASSUME OutboxInv, PostsAccounted,
           UNCHANGED <<rows, connectorVars, sendVars, ghostVars>>,
           reply' \in [Handlers -> Messages \cup {NoMessage}],
           origin' \in [Handlers -> 0 .. MaxGenerations],
           \A h \in Handlers : reply'[h] # NoMessage => sending[h] = NoMessage
    PROVE  OutboxInv' /\ PostsAccounted'
  <1> USE DEF OutboxInv, connectorVars, sendVars, ghostVars
  <1>1. TypeOK'
    BY DEF TypeOK
  <1>2. OneThing'
    BY DEF OneThing
  <1>3. PostedInv' /\ InFlightIsOwned' /\ PostsAccounted'
    BY DEF PostedInv, DeliveredWasPosted, InFlightIsOwned, PostsAccounted
  <1> QED
    BY <1>1, <1>2, <1>3

\* The handlers that begin are new: their connector has not taken the update before,
\* so none of them is at work or sending.
LEMMA BegunAreNew ==
    ASSUME TelegramFits, ChatInv, TakeUpdates
    PROVE  /\ reply' \in [Handlers -> Messages \cup {NoMessage}]
           /\ origin' \in [Handlers -> 0 .. MaxGenerations]
           /\ \A h \in Handlers :
                 \/ reply'[h] = reply[h]
                 \/ /\ reply'[h] = h /\ sending[h] = NoMessage
                    /\ \E u \in updates : h = <<u, build>>
  <1> USE DEF ChatInv, OutboxInv, IntakeInv
  <1> DEFINE begun == {<<u, build>> : u \in updates}
  <1>1. /\ reply' = [h \in Handlers |-> IF h \in begun THEN h ELSE reply[h]]
        /\ origin' = [h \in Handlers |-> IF h \in begun THEN built ELSE origin[h]]
    BY DEF TakeUpdates
  <1>2. ASSUME NEW u \in updates, <<u, build>> \in Handlers
        PROVE  sending[<<u, build>>] = NoMessage
    <2>1. u \in Updates /\ build \in Builds
      BY <1>2 DEF TelegramFits, IntakeTypeOK
    <2>2. offset <= u /\ (build \in taken[u] => u < offset)
      BY <2>1 DEF PollInv
    <2>3. build \notin taken[u]
      BY <2>1, <2>2 DEF IntakeTypeOK, Updates
    <2> QED
      BY <2>1, <2>3 DEF TasksInv
  <1> HIDE DEF begun
  <1>3. /\ reply' \in [Handlers -> Messages \cup {NoMessage}]
        /\ origin' \in [Handlers -> 0 .. MaxGenerations]
    BY <1>1 DEF TypeOK, TelegramFits
  <1>4. ASSUME NEW h \in Handlers
        PROVE  \/ reply'[h] = reply[h]
               \/ /\ reply'[h] = h /\ sending[h] = NoMessage
                  /\ \E u \in updates : h = <<u, build>>
    <2>1. CASE h \in begun
      BY <1>1, <1>2, <2>1 DEF begun
    <2>2. CASE h \notin begun
      BY <1>1, <2>2
    <2> QED
      BY <2>1, <2>2
  <1> QED
    BY <1>3, <1>4

\* Every step of a chat keeps the outbox's invariants.
LEMMA ChatKeepsOutbox ==
    ASSUME TelegramFits, ChatInv, [ChatNext]_chatVars
    PROVE  OutboxInv' /\ PostsAccounted'
  <1> USE DEF ChatInv, OutboxInv
  <1>1. CASE [Next]_vars
    BY <1>1, TypeStep, OneThingStep, PostedStep, OwnedStep, PostsStep
  <1>2. CASE TakeUpdates
    <2>1. /\ UNCHANGED <<rows, connectorVars, sendVars, ghostVars>>
          /\ reply' \in [Handlers -> Messages \cup {NoMessage}]
          /\ origin' \in [Handlers -> 0 .. MaxGenerations]
      BY <1>2, BegunAreNew DEF TakeUpdates
    <2>2. \A h \in Handlers : reply'[h] # NoMessage => sending[h] = NoMessage
      BY <1>2, BegunAreNew DEF OneThing
    <2> QED
      BY <2>1, <2>2, RepliesChange
  <1>3. ASSUME NEW u \in Updates, NEW b \in Builds, NoReply(u, b)
        PROVE  OutboxInv' /\ PostsAccounted'
    <2>1. /\ UNCHANGED <<rows, connectorVars, sendVars, ghostVars>>
          /\ reply' \in [Handlers -> Messages \cup {NoMessage}]
          /\ origin' \in [Handlers -> 0 .. MaxGenerations]
      BY <1>3 DEF NoReply, TypeOK
    <2>2. \A h \in Handlers : reply'[h] # NoMessage => sending[h] = NoMessage
      BY <1>3 DEF NoReply, TypeOK, OneThing
    <2> QED
      BY <2>1, <2>2, RepliesChange
  <1> QED
    BY <1>1, <1>2, <1>3, ChatOutboxStep

\* Every step of a chat keeps the intake's invariant, and connectors do not forget
\* what they took.
LEMMA ChatKeepsIntake ==
    ASSUME IntakeInv, [ChatNext]_chatVars
    PROVE  IntakeInv' /\ \A u \in Updates : taken[u] \subseteq taken'[u]
  <1>1. [IntakeNext]_intakeVars
    BY ChatIntakeStep
  <1>2. IntakeInv'
    BY <1>1, IntakeStepInv
  <1>3. TakeBatch => \A u \in Updates : taken[u] \subseteq taken'[u]
    BY DEF TakeBatch
  <1>4. taken' = taken \/ TakeBatch
    BY <1>1 DEF IntakeNext, intakeVars, Arrive, Started, Ask, GetUpdates, RequestFails,
                HandlerEnds, HandlerReplies, NothingToHandle, StopPolling, AnswerNobody,
                CrashIntake
  <1> QED
    BY <1>2, <1>3, <1>4

\* Every step of a chat keeps what is said of its handlers.
LEMMA ChatKeepsTasks ==
    ASSUME TelegramFits, ChatInv, [ChatNext]_chatVars
    PROVE  TasksInv'
  <1> SUFFICES ASSUME NEW u \in Updates, NEW b \in Builds
               PROVE  /\ reply'[<<u, b>>] \in {NoMessage, <<u, b>>}
                      /\ reply'[<<u, b>>] # NoMessage \/ sending'[<<u, b>>] # NoMessage
                            => b \in taken'[u]
    BY Zenon DEF TasksInv
  <1> DEFINE h == <<u, b>>
  <1>1. h \in Handlers
    BY DEF TelegramFits
  <1>2. /\ reply[h] \in {NoMessage, h}
        /\ reply[h] # NoMessage \/ sending[h] # NoMessage => b \in taken[u]
    BY DEF ChatInv, TasksInv
  <1>3. taken[u] \subseteq taken'[u]
    BY ChatKeepsIntake DEF ChatInv
  <1> HIDE DEF h
  <1>4. CASE /\ reply'[h] \in {reply[h], NoMessage}
             /\ sending'[h] # NoMessage => sending[h] # NoMessage \/ reply[h] # NoMessage
    BY <1>2, <1>3, <1>4 DEF h
  <1>5. CASE TakeUpdates
    <2>1. sending' = sending
      BY <1>5 DEF TakeUpdates, sendVars
    <2>2. CASE reply'[h] = reply[h]
      BY <1>2, <1>3, <2>1, <2>2 DEF h
    <2>3. CASE reply'[h] = h /\ \E v \in updates : h = <<v, build>>
      <3>1. u \in updates /\ b = build
        BY <2>3 DEF h
      <3>2. b \in taken'[u]
        BY <1>5, <3>1 DEF TakeUpdates, TakeBatch
      <3> QED
        BY <2>3, <3>2 DEF h
    <2> QED
      BY <1>1, <1>5, <2>2, <2>3, BegunAreNew
  <1>6. ASSUME NEW v \in Updates, NEW c \in Builds, NoReply(v, c)
        PROVE  reply'[h] \in {reply[h], NoMessage} /\ sending'[h] = sending[h]
    BY <1>1, <1>6 DEF NoReply, sendVars, ChatInv, OutboxInv, TypeOK
  <1> QED
    BY <1>1, <1>4, <1>5, <1>6, ChatOutboxStep DEF ChatInv, OutboxInv

\* A row that is on record stays on record.
LEMMA RowsStay ==
    ASSUME TypeOK, [Next]_vars, NEW m \in Messages
    PROVE  rows'[m].status = "absent" => rows'[m] = rows[m]
  <1> USE DEF ghostVars
  <1>1. CASE UNCHANGED rows
    BY <1>1
  <1>2. CASE StartWorker
    BY <1>2 DEF TypeOK, Row, StartWorker
  <1>3. ASSUME NEW h \in Handlers, Deliver(h)
        PROVE  rows'[m].status = "absent" => rows'[m] = rows[m]
    <2>1. reply[h] \in Messages
      BY <1>3 DEF TypeOK, Deliver
    <2>2. [Enqueued(reply[h]) EXCEPT !.status = "in_flight"].status = "in_flight"
      BY <2>1, EnqueuedFacts
    <2> QED
      BY <1>3, <2>1, <2>2 DEF TypeOK, Deliver
  <1>4. ASSUME NEW h \in Handlers, NEW ok \in BOOLEAN, DeliverEnd(h, ok)
        PROVE  rows'[m].status = "absent" => rows'[m] = rows[m]
    <2>1. sending[h] \in Messages
      BY <1>4 DEF TypeOK, DeliverEnd, Actors
    <2>2. Finished(rows[sending[h]], ok).status # "absent"
      BY <2>1, RowFacts DEF TypeOK
    <2> QED
      BY <1>4, <2>1, <2>2 DEF TypeOK, DeliverEnd
  <1>5. CASE Drain
    BY <1>5 DEF TypeOK, Row, Drain
  <1>6. ASSUME NEW ok \in BOOLEAN, WorkerEnd(ok)
        PROVE  rows'[m].status = "absent" => rows'[m] = rows[m]
    <2>1. sending[Worker] \in Messages
      BY <1>6 DEF TypeOK, WorkerEnd, Actors
    <2>2. PICK skipped \in SUBSET Messages : Skip(skipped, sending[Worker], ok)
      BY <1>6 DEF TypeOK, WorkerEnd
    <2> QED
      BY <2>1, <2>2, SkipStatus
  <1>7. ASSUME NEW n \in Messages, Elapse(n)
        PROVE  rows'[m].status = "absent" => rows'[m] = rows[m]
    BY <1>7 DEF TypeOK, Row, Elapse
  <1>8. ASSUME NEW h \in Handlers, CrashEnqueued(h)
        PROVE  rows'[m].status = "absent" => rows'[m] = rows[m]
    <2>1. reply[h] \in Messages
      BY <1>8 DEF TypeOK, CrashEnqueued
    <2>2. Enqueued(reply[h]).status # "absent"
      BY <2>1 DEF TypeOK, Row, Enqueued
    <2> QED
      BY <1>8, <2>1, <2>2 DEF TypeOK, CrashEnqueued
  <1> QED
    BY <1>1, <1>2, <1>3, <1>4, <1>5, <1>6, <1>7, <1>8
       DEF Next, vars, StartServer, Reload, Inbound, Accept, Crash

\* A handler that hands in its reply leaves it on record.
LEMMA RepliesAreRecorded ==
    ASSUME TelegramFits, ChatInv, NEW u \in Updates, NEW b \in Builds,
           ReplyIsDelivered(u, b)
    PROVE  rows'[<<u, b>>].status # "absent"
  <1> DEFINE h == <<u, b>>
  <1>1. h \in Handlers /\ h \in Messages
    BY DEF TelegramFits
  <1>2. Deliver(h) /\ reply[h] = h
    BY DEF ReplyIsDelivered, Deliver, ChatInv, TasksInv
  <1> HIDE DEF h
  <1>3. rows[h] \in Row
    BY <1>1 DEF ChatInv, OutboxInv, TypeOK
  <1>4. CASE Claimable(Enqueued(h))
    <2>1. [Enqueued(h) EXCEPT !.status = "in_flight"].status = "in_flight"
      BY <1>1, EnqueuedFacts DEF ChatInv, OutboxInv
    <2> QED
      BY <1>1, <1>2, <1>4, <2>1 DEF Deliver, ChatInv, OutboxInv, TypeOK, h
  <1>5. CASE ~Claimable(Enqueued(h))
    <2>1. rows[h].status # "absent"
      BY <1>1, <1>3, <1>5 DEF ChatInv, KeptInv, Enqueued, Claimable, Row
    <2> QED
      BY <1>2, <1>5, <2>1 DEF Deliver, h
  <1> QED
    BY <1>4, <1>5

\* Each way in which a handler of an update ends.
LEMMA HandlersEnd ==
    ASSUME TelegramFits, ChatInv, [ChatNext]_chatVars,
           NEW u \in Updates, NEW b \in Builds, <<u, b>> \in handing
    PROVE  <<u, b>> \in handing' \/ missed'[u] \/ rows'[<<u, b>>].status # "absent"
  <1> USE DEF pollVars
  <1>1. CASE <<u, b>> \in handing'
    BY <1>1
  <1>2. ASSUME NEW v \in Updates, NEW c \in Builds, ReplyIsDelivered(v, c)
        PROVE  <<u, b>> \in handing' \/ rows'[<<u, b>>].status # "absent"
    BY <1>2, RepliesAreRecorded DEF ReplyIsDelivered, HandlerReplies
  <1>3. ASSUME NEW v \in Updates, NEW c \in Builds, NoReply(v, c)
        PROVE  <<u, b>> \in handing' \/ missed'[u]
    BY <1>3 DEF NoReply, NothingToHandle, ChatInv, IntakeInv, IntakeTypeOK
  <1>4. CASE CrashChat
    BY <1>4 DEF CrashChat, CrashIntake
  <1>5. ASSUME NEW S, StartChat(S) \/ Rebuild(S)
        PROVE  handing' = handing
    BY <1>5 DEF StartChat, Rebuild, Started, intakeVars
  <1>6. CASE WorkGoesOn
    BY <1>2, <1>3, <1>5, <1>6 DEF WorkGoesOn, OutboxOnly, intakeVars
  <1>7. CASE TakeUpdates \/ StopConnector
    BY <1>7 DEF TakeUpdates, TakeBatch, StopConnector, StopPolling, HandlersAfterStop
  <1>8. CASE IntakeOnly(Arrive \/ Ask \/ GetUpdates \/ RequestFails)
    BY <1>8 DEF IntakeOnly, Arrive, Ask, GetUpdates, RequestFails
  <1>9. CASE \E o \in left : IntakeOnly(AnswerNobody(o))
    BY <1>9 DEF IntakeOnly, AnswerNobody
  <1> QED
    BY <1>4, <1>5, <1>6, <1>7, <1>8, <1>9 DEF ChatNext, chatVars, intakeVars, OutboxOnly

\* Every step of a chat keeps what was taken.
LEMMA ChatKeepsUpdates ==
    ASSUME TelegramFits, ChatInv, [ChatNext]_chatVars
    PROVE  KeptInv'
  <1>1. \A m \in Messages : rows'[m].status = "absent" => rows'[m] = rows[m]
    <2>1. [Next]_vars \/ rows' = rows
      BY ChatOutboxStep DEF ChatInv, OutboxInv, TakeUpdates, NoReply
    <2> QED
      BY <2>1, RowsStay DEF ChatInv, OutboxInv
  <1>2. [IntakeNext]_intakeVars
    BY ChatIntakeStep
  <1>3. \A u \in Updates : missed[u] => missed'[u]
    BY <1>2 DEF IntakeNext, intakeVars, Arrive, Started, Ask, GetUpdates, RequestFails,
                TakeBatch, HandlerEnds, HandlerReplies, NothingToHandle, StopPolling,
                AnswerNobody, CrashIntake, ChatInv, IntakeInv, IntakeTypeOK
  <1>4. ASSUME NEW u \in Updates, taken'[u] # {}
        PROVE  Kept(u)'
    <2>1. CASE taken[u] # {}
      <3>1. CASE missed[u]
        BY <1>3, <3>1 DEF Kept
      <3>2. ASSUME NEW b \in Builds, rows[<<u, b>>].status # "absent"
            PROVE  Kept(u)'
        BY <1>1, <3>2 DEF Kept, TelegramFits
      <3>3. ASSUME NEW b \in Builds, <<u, b>> \in handing
            PROVE  Kept(u)'
        BY <3>3, HandlersEnd DEF Kept
      <3> QED
        BY <2>1, <3>1, <3>2, <3>3 DEF ChatInv, KeptInv, Kept
    <2>2. CASE taken[u] = {}
      <3>1. TakeBatch
        BY <1>2, <1>4, <2>2
           DEF IntakeNext, intakeVars, Arrive, Started, Ask, GetUpdates, RequestFails,
               HandlerEnds, HandlerReplies, NothingToHandle, StopPolling, AnswerNobody,
               CrashIntake
      <3>2. u \in updates /\ taken'[u] = {build}
        BY <1>4, <2>2, <3>1 DEF TakeBatch
      <3>3. <<u, build>> \in handing'
        BY <3>1, <3>2 DEF TakeBatch
      <3>4. build \in Builds
        BY <3>2, ChatKeepsIntake DEF ChatInv, IntakeInv, IntakeTypeOK
      <3> QED
        BY <3>3, <3>4 DEF Kept
    <2> QED
      BY <2>1, <2>2
  <1>5. \A m \in Messages : rows'[m].status = "absent" => rows'[m].due = TRUE
    BY <1>1 DEF ChatInv, KeptInv
  <1> QED
    BY <1>4, <1>5 DEF KeptInv

\* The invariant holds in every state of a chat.
LEMMA ChatInvariant == ASSUME TelegramFits PROVE ChatSpec => []ChatInv
  <1>1. ASSUME ChatInv, [ChatNext]_chatVars
        PROVE  ChatInv'
    BY <1>1, ChatKeepsOutbox, ChatKeepsIntake, ChatKeepsTasks, ChatKeepsUpdates DEF ChatInv
  <1> QED
    BY <1>1, ChatInitInv, PTL DEF ChatSpec

\* Replies to a chat are delivered as all others are: delivered means posted, no row
\* is stuck in flight, and nothing is posted without an attempt or a crash.
THEOREM ChatDelivers ==
    ASSUME TelegramFits
    PROVE  ChatSpec => [](DeliveredWasPosted /\ InFlightIsOwned /\ PostsAccounted)
  BY ChatInvariant, PTL DEF ChatInv, OutboxInv, PostedInv

\* No message is lost on its way through the process: of an update that Telegram has
\* forgotten, a handler is at work, or a reply is on record, which no step removes,
\* unless a crash ended its handler or its only content could not be fetched.
THEOREM NoUpdateIsLost == ASSUME TelegramFits PROVE ChatSpec => []UpdatesAreKept
  <1>1. ChatInv => UpdatesAreKept
    BY DEF ChatInv, IntakeInv, HandedOver, KeptInv, UpdatesAreKept
  <1> QED
    BY <1>1, ChatInvariant, PTL

\* Every step of a chat keeps sends apart.
LEMMA ChatKeepsQuiet ==
    ASSUME TelegramFits, ChatInv, QuietInv, [ChatNext]_chatVars
    PROVE  QuietInv'
  <1>1. CASE [Next]_vars
    BY <1>1, QuietStep DEF ChatInv, OutboxInv
  <1>2. CASE UNCHANGED <<rows, connectorVars, sendVars, ghostVars>>
    BY <1>2 DEF connectorVars, sendVars, ghostVars, QuietInv, Quiet, SentByOne
  <1> QED
    BY <1>1, <1>2, ChatOutboxStep DEF ChatInv, OutboxInv, TakeUpdates, NoReply

\* In a chat, too: no reply is sent by two parties at a time, and verdicts are final,
\* but for the replies being sent when a delivery worker started.
THEOREM ChatSendsDoNotOverlap ==
    ASSUME TelegramFits
    PROVE  ChatSpec => []OverlapsAreCaught /\ SettledIsFinal
  <1>1. ChatInit => QuietInv
    BY QuietInit DEF ChatInit
  <1>2. ASSUME ChatInv, QuietInv, [ChatNext]_chatVars
        PROVE  QuietInv'
    BY <1>2, ChatKeepsQuiet
  <1>3. ASSUME ChatInv, QuietInv, [ChatNext]_chatVars
        PROVE  [\A m \in Messages \ caught :
                  rows[m].status \in {"delivered", "dead_letter"} => rows'[m] = rows[m]]_vars
    <2>1. CASE [Next]_vars
      BY <1>3, <2>1, SettledStep DEF ChatInv, OutboxInv, vars
    <2>2. CASE rows' = rows
      BY <2>2
    <2> QED
      BY <1>3, <2>1, <2>2, ChatOutboxStep DEF ChatInv, OutboxInv, TakeUpdates, NoReply
  <1>4. QuietInv => OverlapsAreCaught
    BY DEF QuietInv, Quiet, OverlapsAreCaught
  <1> QED
    BY <1>1, <1>2, <1>3, <1>4, ChatInvariant, PTL DEF ChatSpec, SettledIsFinal

\* In a chat, too, the outbox keeps the promise of ReplyDelivery to the handlers.
THEOREM ChatKeepsPromise == ASSUME TelegramFits PROVE ChatSpec => ImplementsDelivery
  <1>1. ChatInit => Promise!DeliveryInit /\ QuietInv
    BY PromiseInit, QuietInit DEF ChatInit
  <1>2. ASSUME ChatInv, QuietInv, [ChatNext]_chatVars
        PROVE  QuietInv'
    BY <1>2, ChatKeepsQuiet
  <1>3. ASSUME ChatInv, QuietInv, [ChatNext]_chatVars
        PROVE  [Promise!DeliveryNext]_(Promise!deliveryVars)
    <2>1. CASE [Next]_vars
      BY <1>3, <2>1, PromiseStep DEF ChatInv, OutboxInv
    <2>2. CASE UNCHANGED <<rows, connectorVars, sendVars, ghostVars>>
      <3>1. UNCHANGED <<rows, phase, sending, accepted, posted, lost, caught>>
        BY <2>2 DEF connectorVars, sendVars, ghostVars
      <3>2. \A m \in Messages : Unsure(m)' <=> Unsure(m)
        BY <3>1 DEF Unsure
      <3> QED
        BY <3>1, <3>2, PromiseStutters
    <2> QED
      BY <1>3, <2>1, <2>2, ChatOutboxStep DEF ChatInv, OutboxInv, TakeUpdates, NoReply
  <1> QED
    BY <1>1, <1>2, <1>3, ChatInvariant, PTL
       DEF ChatSpec, ImplementsDelivery, Promise!DeliverySpec

=============================================================================

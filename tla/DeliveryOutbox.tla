--------------------------- MODULE DeliveryOutbox ---------------------------
(***************************************************************************)
(* Replies to external conversations: the outbox table                     *)
(* (src/hushclaw/memory/outbox.py), the two parties that send from it (in  *)
(* src/hushclaw/os_api.py: deliver_message, called by the handler of an    *)
(* inbound message, and the delivery worker), and the connectors whose     *)
(* senders they use, rebuilt when the configuration changes                *)
(* (src/hushclaw/connectors/manager.py).                                   *)
(*                                                                         *)
(* All of it runs on the event loop, so an action reaches from one await   *)
(* to the next.  A send is an await: the platform may accept the message   *)
(* at any moment of it, and the sender may report failure all the same     *)
(* (a timeout).  The process may die at any moment.                        *)
(*                                                                         *)
(* A message stands for its idempotency key.  Connectors leave the key     *)
(* empty, so each reply of theirs has one of its own; other callers of     *)
(* deliver_message may give the same key again.  Time is abstracted to     *)
(* whether next_attempt_at has passed.  Which of the due deliveries is     *)
(* claimed and sent first is left open.                                    *)
(***************************************************************************)
EXTENDS Integers, FiniteSets

CONSTANTS
    Messages,        \* idempotency keys
    Providers,       \* platforms: telegram, slack, ...
    Provider,        \* Provider[m]: the platform of m's conversation
    Handlers,        \* tasks that handle inbound messages
    Worker,          \* the delivery worker
    NoMessage,       \* not a message
    MaxAttempts,     \* max_attempts of mark_failed
    BatchLimit,      \* limit of claim_due
    EarlyTraffic,    \* messages arrive before the delivery worker starts
    MaxGenerations   \* bound on the times connectors are built

ASSUME ProviderAssumption == Provider \in [Messages -> Providers]
ASSUME HandlersAssumption == IsFiniteSet(Handlers)
ASSUME WorkerAssumption == Worker \notin Handlers
ASSUME NoMessageAssumption == NoMessage \notin Messages
ASSUME LimitsAssumption == MaxAttempts \in Nat \ {0} /\ BatchLimit \in Nat \ {0}
ASSUME TrafficAssumption == EarlyTraffic \in BOOLEAN
ASSUME GenerationsAssumption == MaxGenerations \in Nat \ {0}

VARIABLES
    rows,         \* rows[m]: the row of m in delivery_outbox
    enabled,      \* the providers that have a connector
    senders,      \* senders[p]: _delivery_senders, by the connector's number
    built,        \* the number of the connectors built last
    phase,        \* of the process: down, starting, running
    reply,        \* reply[h]: the message h is working on an answer for
    origin,       \* origin[h]: the number of the connector that called h
    sending,      \* sending[a]: the message a is sending
    accepted,     \* accepted[a]: the platform has accepted it
    waiting,      \* the rest of the worker's batch
    posted,       \* posted[m]: how often the platform accepted m
    lost,         \* lost[m]: the accepted sends a crash cut off
    caught        \* the messages some handler was sending when a worker started

connectorVars == <<enabled, senders, built, phase>>
handlerVars == <<reply, origin>>
sendVars == <<sending, accepted, waiting>>
ghostVars == <<posted, lost, caught>>
vars == <<rows, connectorVars, handlerVars, sendVars, ghostVars>>

-----------------------------------------------------------------------------

Actors == Handlers \cup {Worker}
Row == [status : {"absent", "pending", "in_flight", "retry", "delivered", "dead_letter"},
        attempts : Nat,
        due : BOOLEAN]

NoSender == 0
Absent == [status |-> "absent", attempts |-> 0, due |-> TRUE]

\* Variant: INSERT OR REPLACE.
EnqueuedAfresh(m) == [Absent EXCEPT !.status = "pending"]

\* The row of m after enqueue: ON CONFLICT DO NOTHING.
Enqueued(m) ==
    IF rows[m].status = "absent" THEN [rows[m] EXCEPT !.status = "pending"] ELSE rows[m]

\* The WHERE clause of claim and claim_due.
Claimable(row) == row.status \in {"pending", "retry"} /\ row.due

Delivered(row) ==
    [status |-> "delivered", attempts |-> row.attempts + 1, due |-> TRUE]

\* Variant: only the last failure is counted.
FailedUncounted(row) ==
    IF row.attempts + 1 >= MaxAttempts
    THEN [row EXCEPT !.status = "dead_letter", !.attempts = @ + 1, !.due = TRUE]
    ELSE [row EXCEPT !.status = "retry", !.due = FALSE]

\* mark_failed: retry after a backoff, or give up.
Failed(row) ==
    LET attempt == row.attempts + 1 IN
    IF attempt >= MaxAttempts
    THEN [status |-> "dead_letter", attempts |-> attempt, due |-> TRUE]
    ELSE [status |-> "retry", attempts |-> attempt, due |-> FALSE]

Finished(row, ok) == IF ok THEN Delivered(row) ELSE Failed(row)

\* The connectors of the providers in S are built: clear_delivery_senders, and
\* each constructor registers its sender.
Build(S) ==
    /\ built' = built + 1
    /\ enabled' = S
    /\ senders' = [p \in Providers |-> IF p \in S THEN built' ELSE NoSender]

-----------------------------------------------------------------------------

Init ==
    /\ rows = [m \in Messages |-> Absent]
    /\ enabled = {}
    /\ senders = [p \in Providers |-> NoSender]
    /\ built = 0
    /\ phase = "down"
    /\ reply = [h \in Handlers |-> NoMessage]
    /\ origin = [h \in Handlers |-> 0]
    /\ sending = [a \in Actors |-> NoMessage]
    /\ accepted = [a \in Actors |-> FALSE]
    /\ waiting = {}
    /\ posted = [m \in Messages |-> 0]
    /\ lost = [m \in Messages |-> 0]
    /\ caught = {}

\* The server starts with some connectors enabled.
StartServer(S) ==
    /\ phase = "down"
    /\ built < MaxGenerations
    /\ phase' = "starting"
    /\ Build(S)
    /\ UNCHANGED <<rows, handlerVars, sendVars, ghostVars>>

\* The configuration changes while the server runs.  The handlers of the old
\* connectors go on.
Reload(S) ==
    /\ phase # "down"
    /\ built < MaxGenerations
    /\ Build(S)
    /\ UNCHANGED <<rows, phase, handlerVars, sendVars, ghostVars>>

\* Variant: nothing is recovered.
StartWorkerOnly ==
    /\ phase = "starting"
    /\ phase' = "running"
    /\ UNCHANGED <<rows, enabled, senders, built, handlerVars, sendVars, ghostVars>>

\* start_delivery_worker, last in the startup: recover_in_flight, also of rows that
\* a handler of this process is sending from.
StartWorker ==
    /\ phase = "starting"
    /\ phase' = "running"
    /\ rows' = [m \in Messages |->
                 IF rows[m].status = "in_flight"
                 THEN [rows[m] EXCEPT !.status = "retry", !.due = TRUE]
                 ELSE rows[m]]
    /\ caught' = caught \cup {m \in Messages : \E h \in Handlers : sending[h] = m}
    /\ UNCHANGED <<enabled, senders, built, handlerVars, sendVars, posted, lost>>

\* A connector hands an inbound message to a new task, which works on the reply, as
\* soon as it is built; or somebody is about to deliver a message again.
Inbound(h, m) ==
    /\ phase = "running" \/ (phase = "starting" /\ EarlyTraffic)
    /\ reply[h] = NoMessage /\ sending[h] = NoMessage
    /\ Provider[m] \in enabled
    /\ reply' = [reply EXCEPT ![h] = m]
    /\ origin' = [origin EXCEPT ![h] = built]
    /\ UNCHANGED <<rows, connectorVars, sendVars, ghostVars>>

\* deliver_message up to the send: register the sender, record the delivery and
\* claim it; or return what is known of it.
Deliver(h) ==
    LET m == reply[h] IN
    /\ m # NoMessage
    /\ senders' = [senders EXCEPT ![Provider[m]] = origin[h]]
    /\ \/ /\ Claimable(Enqueued(m))
          /\ rows' = [rows EXCEPT ![m] = [Enqueued(m) EXCEPT !.status = "in_flight"]]
          /\ sending' = [sending EXCEPT ![h] = m]
       \/ /\ ~Claimable(Enqueued(m))
          /\ UNCHANGED <<rows, sending>>
    /\ reply' = [reply EXCEPT ![h] = NoMessage]
    /\ UNCHANGED <<enabled, built, phase, origin, accepted, waiting, ghostVars>>

\* The platform accepts the message that a is sending.
Accept(a) ==
    /\ sending[a] # NoMessage /\ ~accepted[a]
    /\ accepted' = [accepted EXCEPT ![a] = TRUE]
    /\ posted' = [posted EXCEPT ![sending[a]] = @ + 1]
    /\ UNCHANGED <<rows, connectorVars, handlerVars, sending, waiting, lost, caught>>

\* The rest of deliver_message: mark_delivered, or mark_failed and raise.
DeliverEnd(h, ok) ==
    /\ sending[h] # NoMessage
    /\ ok => accepted[h]
    /\ rows' = [rows EXCEPT ![sending[h]] = Finished(@, ok)]
    /\ sending' = [sending EXCEPT ![h] = NoMessage]
    /\ accepted' = [accepted EXCEPT ![h] = FALSE]
    /\ UNCHANGED <<connectorVars, handlerVars, waiting, ghostVars>>

\* What claim_due may claim.
Due == {m \in Messages : senders[Provider[m]] # NoSender /\ Claimable(rows[m])}

\* _drain_delivery_outbox up to the first send.
Drain ==
    /\ phase = "running"
    /\ sending[Worker] = NoMessage
    /\ \E batch \in SUBSET Due :
          /\ Cardinality(batch) <= BatchLimit
          /\ Cardinality(batch) = BatchLimit \/ batch = Due
          /\ rows' = [m \in Messages |->
                       IF m \in batch THEN [rows[m] EXCEPT !.status = "in_flight"] ELSE rows[m]]
          /\ \E first \in batch :
                /\ sending' = [sending EXCEPT ![Worker] = first]
                /\ waiting' = batch \ {first}
    /\ UNCHANGED <<connectorVars, handlerVars, accepted, ghostVars>>

\* Variant: deliveries without a sender are passed over.
SkipSilently(skipped, m, ok) ==
    rows' = [rows EXCEPT ![m] = Finished(@, ok)]

\* The outcome of the worker's send is recorded, and the deliveries of the batch
\* that come next and have lost their sender fail.
Skip(skipped, m, ok) ==
    rows' = [n \in Messages |->
              IF n = m THEN Finished(rows[n], ok)
              ELSE IF n \in skipped THEN Failed(rows[n]) ELSE rows[n]]

\* _drain_delivery_outbox from the end of a send to the next send or the end.
WorkerEnd(ok) ==
    LET orphans == {m \in waiting : senders[Provider[m]] = NoSender} IN
    /\ sending[Worker] # NoMessage
    /\ ok => accepted[Worker]
    /\ \/ /\ waiting = orphans
          /\ Skip(orphans, sending[Worker], ok)
          /\ sending' = [sending EXCEPT ![Worker] = NoMessage]
          /\ waiting' = {}
       \/ \E skipped \in SUBSET orphans : \E next \in waiting \ orphans :
          /\ Skip(skipped, sending[Worker], ok)
          /\ sending' = [sending EXCEPT ![Worker] = next]
          /\ waiting' = waiting \ (skipped \cup {next})
    /\ accepted' = [accepted EXCEPT ![Worker] = FALSE]
    /\ UNCHANGED <<connectorVars, handlerVars, ghostVars>>

\* The backoff of m is over.
Elapse(m) ==
    /\ rows[m].status # "absent" /\ ~rows[m].due
    /\ rows' = [rows EXCEPT ![m].due = TRUE]
    /\ UNCHANGED <<connectorVars, handlerVars, sendVars, ghostVars>>

\* What the event loop held is gone.
Gone ==
    /\ built < MaxGenerations
    /\ phase' = "down"
    /\ enabled' = {}
    /\ senders' = [p \in Providers |-> NoSender]
    /\ reply' = [h \in Handlers |-> NoMessage]
    /\ origin' = [h \in Handlers |-> 0]
    /\ sending' = [a \in Actors |-> NoMessage]
    /\ accepted' = [a \in Actors |-> FALSE]
    /\ waiting' = {}
    /\ lost' = [m \in Messages |->
                 lost[m] + Cardinality({a \in Actors : sending[a] = m /\ accepted[a]})]
    /\ UNCHANGED <<built, posted, caught>>

\* The process dies or is stopped: stop_delivery_worker cancels a send the way a
\* crash does, without a trace in the row.
Crash ==
    /\ phase # "down"
    /\ Gone
    /\ UNCHANGED rows

\* It dies in deliver_message, after enqueue's commit and before claim's.
CrashEnqueued(h) ==
    /\ reply[h] # NoMessage
    /\ rows' = [rows EXCEPT ![reply[h]] = Enqueued(reply[h])]
    /\ Gone

Next ==
    \/ StartWorker \/ Drain \/ Crash
    \/ \E S \in SUBSET Providers : StartServer(S) \/ Reload(S)
    \/ \E h \in Handlers : Deliver(h) \/ CrashEnqueued(h)
    \/ \E h \in Handlers, m \in Messages : Inbound(h, m)
    \/ \E h \in Handlers, ok \in BOOLEAN : DeliverEnd(h, ok)
    \/ \E ok \in BOOLEAN : WorkerEnd(ok)
    \/ \E a \in Actors : Accept(a)
    \/ \E m \in Messages : Elapse(m)

\* The server comes back, its loop turns, sends end one way or the other (they
\* have timeouts), and time passes.
Fairness ==
    /\ WF_vars(\E S \in SUBSET Providers : StartServer(S))
    /\ WF_vars(StartWorker)
    /\ WF_vars(Drain)
    /\ WF_vars(\E ok \in BOOLEAN : WorkerEnd(ok))
    /\ \A h \in Handlers : WF_vars(\E ok \in BOOLEAN : DeliverEnd(h, ok))
    /\ \A m \in Messages : WF_vars(Elapse(m))

Spec == Init /\ [][Next]_vars /\ Fairness

-----------------------------------------------------------------------------
(***************************************************************************)
(* Properties.                                                             *)
(***************************************************************************)

\* Who sends a message is up, and only the worker has more of them waiting.
TypeOK ==
    /\ rows \in [Messages -> Row]
    /\ built \in 0 .. MaxGenerations
    /\ enabled \subseteq Providers
    /\ senders \in [Providers -> 0 .. MaxGenerations]
    /\ phase \in {"down", "starting", "running"}
    /\ reply \in [Handlers -> Messages \cup {NoMessage}]
    /\ origin \in [Handlers -> 0 .. MaxGenerations]
    /\ sending \in [Actors -> Messages \cup {NoMessage}]
    /\ accepted \in [Actors -> BOOLEAN]
    /\ waiting \subseteq Messages
    /\ posted \in [Messages -> Nat] /\ lost \in [Messages -> Nat]
    /\ caught \subseteq Messages

\* A delivery is called delivered only if the platform has accepted it.
DeliveredWasPosted ==
    \A m \in Messages : rows[m].status = "delivered" => posted[m] > 0

\* No row is stuck in flight: while the worker runs, a row in flight is being
\* sent by somebody, or waits in the worker's batch.  claim and claim_due pass
\* over rows in flight, so any other would wait for the next restart.
InFlightIsOwned ==
    phase = "running" =>
        \A m \in Messages : rows[m].status = "in_flight" =>
            m \in waiting \/ \E a \in Actors : sending[a] = m

\* The recipient sees a message no more often than the attempts on record and
\* the crashes explain: at-least-once delivery repeats itself for no other
\* reason.
PostsAccounted ==
    \A m \in Messages :
        posted[m] <= rows[m].attempts + lost[m]
                       + Cardinality({a \in Actors : sending[a] = m /\ accepted[a]})

\* m has one sender at most, and is not in the worker's batch meanwhile.
SentByOne(m) ==
    /\ \A a, b \in Actors : sending[a] = m /\ sending[b] = m => a = b
    /\ m \in waiting => \A a \in Actors : sending[a] # m

\* Nobody sends a message that somebody else is sending.  A handler that is
\* sending when start_delivery_worker recovers the rows in flight breaks this: its
\* live send is taken for an interrupted one and sent again.
NoOverlap == \A m \in Messages : SentByOne(m)

\* Nothing else makes two parties send one message: not reloads, retries, handlers
\* of replaced connectors, batches, crashes nor restarts.
OverlapsAreCaught == \A m \in Messages \ caught : SentByOne(m)

\* Verdicts are final: a delivered message is not sent again, and one that was
\* given up is not revived, unless the worker's start caught a send of it.
SettledIsFinal ==
    [][\A m \in Messages \ caught :
         rows[m].status \in {"delivered", "dead_letter"} => rows'[m] = rows[m]]_vars

\* The senders in use are those of the connectors in use.  A reply that was
\* under way when the configuration changed breaks this: deliver_message
\* registers the sender of the connector that was replaced, or switched off.
SendersAreCurrent ==
    \A p \in Providers : senders[p] = IF p \in enabled THEN built ELSE NoSender

\* A recorded reply is settled in the end, or its platform has no connector.
RepliesAreSettled ==
    \A m \in Messages :
        rows[m].status # "absent"
          ~> \/ rows[m].status \in {"delivered", "dead_letter"}
             \/ senders[Provider[m]] = NoSender

=============================================================================

--------------------------- MODULE InboundDelivery ---------------------------
(***************************************************************************)
(* From a message in a chat to the reply the platform accepts: the         *)
(* Telegram connector (TelegramIntake) with the outbox and the connectors' *)
(* senders (DeliveryOutbox).                                               *)
(*                                                                         *)
(* A handler of DeliveryOutbox is the task of an update that a connector   *)
(* has handed over, and the message it delivers is its own: the connectors *)
(* give their replies no idempotency key.  The connector is stopped and    *)
(* built again with all the others when the configuration changes, and the *)
(* process takes both parts down.                                          *)
(***************************************************************************)
EXTENDS DeliveryOutbox, TelegramIntake

CONSTANT Telegram   \* the platform of the connector

\* The constants of the two modules fit together.
TelegramFits ==
    /\ Handlers = Updates \X Builds
    /\ Messages = Handlers
    /\ Telegram \in Providers
    /\ \A m \in Messages : Provider[m] = Telegram

outboxVars == vars
chatVars == <<outboxVars, intakeVars>>

-----------------------------------------------------------------------------

ChatInit == Init /\ IntakeInit

\* The connectors are built, with or without one for Telegram, when the process
\* starts or after all of them have been stopped for a reload.
StartChat(S) ==
    /\ StartServer(S)
    /\ IF Telegram \in S THEN Started ELSE UNCHANGED intakeVars

Rebuild(S) ==
    /\ ~polling
    /\ Reload(S)
    /\ IF Telegram \in S THEN Started ELSE UNCHANGED intakeVars

StopConnector ==
    /\ built < MaxGenerations
    /\ StopPolling
    /\ UNCHANGED outboxVars

\* Each update of the answer gets a handler, as in Inbound.
TakeUpdates ==
    /\ phase = "running" \/ EarlyTraffic
    /\ TakeBatch
    /\ LET begun == {<<u, build>> : u \in updates} IN
       /\ reply' = [h \in Handlers |-> IF h \in begun THEN h ELSE reply[h]]
       /\ origin' = [h \in Handlers |-> IF h \in begun THEN built ELSE origin[h]]
    /\ UNCHANGED <<rows, connectorVars, sendVars, ghostVars>>

\* The handler's reply enters the outbox, and is sent at once if it can be.
ReplyIsDelivered(u, b) ==
    /\ HandlerReplies(u, b)
    /\ Deliver(<<u, b>>)

\* There is nothing to reply to.
NoReply(u, b) ==
    /\ NothingToHandle(u, b)
    /\ reply' = [reply EXCEPT ![<<u, b>>] = NoMessage]
    /\ UNCHANGED <<rows, connectorVars, origin, sendVars, ghostVars>>

\* The process dies.
CrashChat ==
    /\ CrashIntake
    /\ Crash \/ \E h \in Handlers : CrashEnqueued(h)

OutboxOnly(A) == A /\ UNCHANGED intakeVars
IntakeOnly(A) == A /\ UNCHANGED outboxVars

\* The start of the process, the end of a reload, handlers, sends and backoffs.
WorkGoesOn ==
    \/ \E S \in SUBSET Providers : StartChat(S) \/ (Telegram \in enabled /\ Rebuild(S))
    \/ \E u \in Updates, b \in Builds : ReplyIsDelivered(u, b) \/ NoReply(u, b)
    \/ \E h \in Handlers, ok \in BOOLEAN : OutboxOnly(DeliverEnd(h, ok))
    \/ OutboxOnly(StartWorker) \/ OutboxOnly(Drain)
    \/ \E ok \in BOOLEAN : OutboxOnly(WorkerEnd(ok))
    \/ \E m \in Messages : OutboxOnly(Elapse(m))

ChatNext ==
    \/ IntakeOnly(Arrive \/ Ask \/ GetUpdates \/ RequestFails)
    \/ TakeUpdates \/ WorkGoesOn
    \/ \E o \in left : IntakeOnly(AnswerNobody(o))
    \/ \E a \in Actors : OutboxOnly(Accept(a))
    \/ StopConnector \/ CrashChat
    \/ \E S \in SUBSET Providers : Rebuild(S)

\* The poll loop goes round, and its requests do not fail for ever.  The rest of
\* the work goes on: each start, reload, handler, send and backoff happens only
\* so often, so it is enough that some of it is done.  A connector that was
\* stopped for a reload is built again, or switched off, by the same reload.
ChatFairness ==
    /\ WF_chatVars(IntakeOnly(Ask))
    /\ SF_chatVars(IntakeOnly(GetUpdates))
    /\ SF_chatVars(TakeUpdates)
    /\ WF_chatVars(WorkGoesOn)

ChatSpec == ChatInit /\ [][ChatNext]_chatVars /\ ChatFairness

-----------------------------------------------------------------------------
(***************************************************************************)
(* Properties.                                                             *)
(***************************************************************************)

\* Every message in a chat gets a reply that is settled in the outbox, through
\* failing requests and sends, reloads and crashes, unless a crash ended its
\* handler, its only content could not be fetched, or Telegram is switched off.
EveryMessageIsAnswered ==
    \A u \in Updates :
       u <= arrived
         ~> \/ \E b \in Builds : rows[<<u, b>>].status \in {"delivered", "dead_letter"}
            \/ missed[u]
            \/ Telegram \notin enabled

=============================================================================

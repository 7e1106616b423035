--------------------------- MODULE MCConversation ---------------------------
(***************************************************************************)
(* The parts of a conversation for TLC: the entry of a web session, the    *)
(* loop of one agent, and the outbox of the chats on other platforms.  The *)
(* modules share no variable: a behaviour is one of a single part, chosen  *)
(* at the start, while the others rest in an initial state.                *)
(***************************************************************************)
EXTENDS SessionEntry, AgentLoop, MCDeliveryOutbox

VARIABLE part   \* the part that moves

outboxVars == vars
conversationVars == <<part, entryVars, loopVars, outboxVars>>

ConversationInit ==
    /\ part \in {"entry", "loop", "outbox"}
    /\ EntryInit /\ LoopInit /\ Init

\* A step of a part, while the others rest.
EntryStep(A) == part = "entry" /\ A /\ UNCHANGED <<part, loopVars, outboxVars>>
LoopStep(A) == part = "loop" /\ A /\ UNCHANGED <<part, entryVars, outboxVars>>
OutboxStep(A) == part = "outbox" /\ A /\ UNCHANGED <<part, entryVars, loopVars>>

ConversationNext ==
    EntryStep(EntryNext) \/ LoopStep(LoopNext) \/ OutboxStep(Next)

\* EntryFairness, and for the outbox that the work its Fairness names goes on;
\* each start, send and backoff happens only so often, so it is enough that some
\* of it is done.  The properties of the loop are about safety.
OutboxGoesOn ==
    \/ \E S \in SUBSET Providers : StartServer(S)
    \/ StartWorker \/ Drain \/ \E ok \in BOOLEAN : WorkerEnd(ok)
    \/ \E h \in Handlers, ok \in BOOLEAN : DeliverEnd(h, ok)
    \/ \E m \in Messages : Elapse(m)

ConversationFairness ==
    /\ \A t \in Tasks :
          /\ WF_conversationVars(EntryStep(Step(t)))
          /\ WF_conversationVars(EntryStep(ChildEnds(t)))
    /\ WF_conversationVars(OutboxStep(OutboxGoesOn))

ConversationSpec ==
    ConversationInit /\ [][ConversationNext]_conversationVars /\ ConversationFairness

=============================================================================

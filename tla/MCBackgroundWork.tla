-------------------------- MODULE MCBackgroundWork --------------------------
(***************************************************************************)
(* The work that goes on without a request, for TLC: the scheduler with    *)
(* its work tasks, and a chat from message to reply.  The two share no     *)
(* variable: a behaviour is one of a single part, chosen at the start,     *)
(* while the other rests in its initial state.                             *)
(***************************************************************************)
EXTENDS MCWorkScheduler

CONSTANTS
    telegram, Worker, NoMessage, BatchLimit, EarlyTraffic, MaxGenerations,
    Files, MaxUpdates, MaxBuilds, MaxCrashes

VARIABLES
    part,   \* the part that moves
    rows, enabled, senders, built, phase, reply, origin, sending, accepted, waiting,
    posted, lost, caught,
    arrived, confirmed, build, polling, offset, request, updates, left, handing,
    taken, repeated, missed, crashes

Replies == (1..MaxUpdates) \X (1..MaxBuilds)
Chat == INSTANCE InboundDelivery
        WITH Telegram <- telegram, Providers <- {telegram},
             Messages <- Replies, Handlers <- Replies,
             Provider <- [m \in Replies |-> telegram]

ASSUME ChatAssumption == Chat!TelegramFits

chatVars ==
    <<rows, enabled, senders, built, phase, reply, origin, sending, accepted, waiting,
      posted, lost, caught, arrived, confirmed, build, polling, offset, request, updates,
      left, handing, taken, repeated, missed, crashes>>
workVars == <<part, allVars, chatVars>>

WorkInit ==
    /\ part \in {"scheduler", "chat"}
    /\ SchedulerInit /\ Chat!ChatInit

\* A step of a part, while the other rests.
SchedulerStep(A) == part = "scheduler" /\ A /\ UNCHANGED <<part, chatVars>>
ChatStep(A) == part = "chat" /\ A /\ UNCHANGED <<part, allVars>>

\* A chat may come to rest; the scheduler may not.
Rest == ChatStep(UNCHANGED chatVars)

WorkNext == SchedulerStep(SchedulerNext) \/ ChatStep(Chat!ChatNext) \/ Rest

\* Fairness and ChatFairness, each for the behaviours of its part.
WorkFairness ==
    /\ WF_workVars(SchedulerStep(Tick))
    /\ WF_workVars(SchedulerStep(WebRetryWrite))
    /\ \A t \in Tasks :
          /\ WF_workVars(SchedulerStep(WorkerStart(t)))
          /\ \A n \in 1 .. MaxAttempts :
                /\ WF_workVars(SchedulerStep(n \in DOMAIN runs[t] /\ WorkerEnd(t, n)))
                /\ WF_workVars(SchedulerStep(n \in DOMAIN runs[t] /\ WebEnd(t, n)))
                /\ WF_workVars(SchedulerStep(Abandoned(t, n) /\ Lapse(t, n)))
    /\ WF_workVars(ChatStep(Chat!IntakeOnly(Chat!Ask)))
    /\ SF_workVars(ChatStep(Chat!IntakeOnly(Chat!GetUpdates)))
    /\ SF_workVars(ChatStep(Chat!TakeUpdates))
    /\ WF_workVars(ChatStep(Chat!WorkGoesOn))

WorkSpec == WorkInit /\ [][WorkNext]_workVars /\ WorkFairness

EveryMessageIsAnswered == Chat!EveryMessageIsAnswered

=============================================================================

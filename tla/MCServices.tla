----------------------------- MODULE MCServices -----------------------------
(***************************************************************************)
(* The services beside the conversation for TLC: the shared connection,    *)
(* the pools of the agents, the learning queue, inbound automation,        *)
(* calendar synchronisation, scheduled jobs, the upgrade, the intake of    *)
(* chat messages and the configuration.  The modules share no variable: a  *)
(* behaviour is one of a single part, chosen at the start, while the       *)
(* others rest in an initial state.                                        *)
(***************************************************************************)
EXTENDS SharedConnection, AgentPool, LearningQueue, InboundAutomation,
        CalendarSync, MCScheduledJobs, Upgrade, TelegramIntake, ConfigReload

CONSTANTS
    lead, help,     \* two agents
    hi, again, ad   \* three messages from outside

MCAgents == {lead, help}

\* Agents delegate downwards.
MCDelegates == [a \in MCAgents |-> IF a = lead THEN {help} ELSE {}]
MCPlaces == [a \in MCAgents |-> 1]

\* Two messages of one sender, and one that the rules leave alone.
MCMessages == {hi, again, ad}
MCVerdict == [m \in MCMessages |-> IF m = ad THEN "ignore" ELSE "reply"]
MCKey == [m \in MCMessages |-> "key"]

\* Two connectors, of which the second may fail to start.
MCPlatforms == <<"telegram", "slack">>

VARIABLE part   \* the part that moves

servicesVars ==
    <<part, connectionVars, poolVars, learningVars, inboundVars, calendarVars, jobVars,
      upgradeVars, intakeVars, configVars>>

ServicesInit ==
    /\ part \in {"connection", "pool", "learning", "inbound", "calendar", "jobs",
                 "upgrade", "intake", "config"}
    /\ ConnectionInit /\ PoolInit /\ LearningInit /\ InboundInit
    /\ CalendarInit /\ JobsInit /\ UpgradeInit /\ IntakeInit
    /\ ConfigInit

\* A step of a part, while the others rest.
ConnectionStep(A) ==
    /\ part = "connection" /\ A
    /\ UNCHANGED <<part, poolVars, learningVars, inboundVars, calendarVars,
                   jobVars, upgradeVars, intakeVars, configVars>>
PoolStep(A) ==
    /\ part = "pool" /\ A
    /\ UNCHANGED <<part, connectionVars, learningVars, inboundVars, calendarVars,
                   jobVars, upgradeVars, intakeVars, configVars>>
LearningStep(A) ==
    /\ part = "learning" /\ A
    /\ UNCHANGED <<part, connectionVars, poolVars, inboundVars, calendarVars,
                   jobVars, upgradeVars, intakeVars, configVars>>
InboundStep(A) ==
    /\ part = "inbound" /\ A
    /\ UNCHANGED <<part, connectionVars, poolVars, learningVars, calendarVars,
                   jobVars, upgradeVars, intakeVars, configVars>>
CalendarStep(A) ==
    /\ part = "calendar" /\ A
    /\ UNCHANGED <<part, connectionVars, poolVars, learningVars, inboundVars,
                   jobVars, upgradeVars, intakeVars, configVars>>
JobStep(A) ==
    /\ part = "jobs" /\ A
    /\ UNCHANGED <<part, connectionVars, poolVars, learningVars, inboundVars,
                   calendarVars, upgradeVars, intakeVars, configVars>>
UpgradeStep(A) ==
    /\ part = "upgrade" /\ A
    /\ UNCHANGED <<part, connectionVars, poolVars, learningVars, inboundVars,
                   calendarVars, jobVars, intakeVars, configVars>>
IntakeStep(A) ==
    /\ part = "intake" /\ A
    /\ UNCHANGED <<part, connectionVars, poolVars, learningVars, inboundVars,
                   calendarVars, jobVars, upgradeVars, configVars>>
ConfigStep(A) ==
    /\ part = "config" /\ A
    /\ UNCHANGED <<part, connectionVars, poolVars, learningVars, inboundVars,
                   calendarVars, jobVars, upgradeVars, intakeVars>>

ServicesNext ==
    \/ ConnectionStep(ConnectionNext) \/ PoolStep(PoolNext)
    \/ LearningStep(LearningNext) \/ InboundStep(InboundNext)
    \/ CalendarStep(CalendarNext) \/ JobStep(JobsNext) \/ UpgradeStep(UpgradeNext)
    \/ IntakeStep(IntakeNext) \/ ConfigStep(ConfigNext)

\* PoolFairness, LearningFairness and ConfigFairness, each for the behaviours
\* of its part; the properties of the others are about safety.
ServicesFairness ==
    /\ \A r \in Runs :
          /\ WF_servicesVars(PoolStep(r \in Known /\ RunGoesOn(r)))
          /\ WF_servicesVars(PoolStep(WatcherGoesOn(r)))
    /\ WF_servicesVars(LearningStep(Tick))
    /\ WF_servicesVars(LearningStep(\/ Reviewed \/ Extract(TRUE)
                                    \/ \E due \in BOOLEAN : Fail(due)))
    /\ WF_servicesVars(LearningStep(\E q \in Queues, t \in Turns : FallDue(q, t)))
    /\ \A c \in Clients : WF_servicesVars(ConfigStep(SettingsSaved(c) \/ SaverLeaves(c)))
    /\ WF_servicesVars(ConfigStep(ServerGoesOn))

ServicesSpec ==
    ServicesInit /\ [][ServicesNext]_servicesVars /\ ServicesFairness

=============================================================================

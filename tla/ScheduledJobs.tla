---------------------------- MODULE ScheduledJobs ----------------------------
(***************************************************************************)
(* The cron jobs (Scheduler._loop and _run_job in                          *)
(* src/hushclaw/scheduler.py, the scheduled tasks of                       *)
(* src/hushclaw/memory/store.py).                                          *)
(*                                                                         *)
(* The loop sleeps to the next full minute, reads the enabled jobs whose   *)
(* expression matches, starts each as a task of its own, and records that  *)
(* it did.  Clients change jobs on the event loop, between two passes;     *)
(* agents' tools change them from threads, at any point.  An expression is *)
(* not looked at before it is first due, and then the part of it that      *)
(* cannot be read raises.                                                  *)
(***************************************************************************)
EXTENDS Integers, FiniteSets, Sequences

CONSTANTS
    Jobs,        \* the jobs
    Due,         \* Due[j]: the minutes that j's expression matches, or, when a
                 \* part of it cannot be read, that its other parts match
    Malformed,   \* the jobs with such a part
    OnceJobs,    \* the jobs that are to run once
    MaxMinute,   \* bound: the last minute
    MaxErrors,   \* bound: failed writes, and ends of the process
    MaxToggles   \* bound: how often a job is enabled again

ASSUME DueAssumption == Due \in [Jobs -> SUBSET (1 .. MaxMinute)]
ASSUME JobKindsAssumption == Malformed \subseteq Jobs /\ OnceJobs \subseteq Jobs
ASSUME JobBoundsAssumption == {MaxMinute, MaxErrors, MaxToggles} \subseteq Nat

VARIABLES
    minute,      \* the minute of the clock
    asleep,      \* the loop sleeps; otherwise it is in a pass
    wake,        \* the minute to which it sleeps
    now,         \* the minute of its last pass
    listed,      \* the due jobs that the pass has read and not come to
    jobRow,      \* jobRow[j]: "none", "enabled", "disabled" or "deleted"
    starts,      \* starts[j]: the minutes of the passes that started it
    agents,      \* agents[j]: its runs at this moment
    unrecorded,  \* unrecorded[j]: starts of which nothing was recorded
    toggled,     \* toggled[j]: how often it was enabled again
    errors       \* failed writes and ends of the process so far

loopState == <<asleep, wake, now, listed>>
jobRows == <<jobRow, toggled>>
startLog == <<starts, unrecorded>>
jobVars == <<minute, loopState, jobRows, startLog, agents, errors>>

-----------------------------------------------------------------------------

\* Variant: a loop that has just begun looks at the jobs at once.
WakeNow(m) == m

\* _loop: wait = 60 - now.second.
WakeNext(m) == m + 1

JobsInit ==
    /\ minute = 0
    /\ asleep = TRUE
    /\ wake = WakeNext(0)
    /\ now = 0
    /\ listed = {}
    /\ jobRow = [j \in Jobs |-> "none"]
    /\ starts = [j \in Jobs |-> <<>>]
    /\ agents = [j \in Jobs |-> 0]
    /\ unrecorded = [j \in Jobs |-> 0]
    /\ toggled = [j \in Jobs |-> 0]
    /\ errors = 0

\* A minute passes, also when the event loop is busy with something else.
PassMinute ==
    /\ minute < MaxMinute
    /\ minute' = minute + 1
    /\ UNCHANGED <<loopState, jobRows, startLog, agents, errors>>

-----------------------------------------------------------------------------
(***************************************************************************)
(* Clients (while the loop sleeps) and tools (at any point).               *)
(***************************************************************************)

SetRow(j, r) ==
    /\ jobRow' = [jobRow EXCEPT ![j] = r]
    /\ UNCHANGED <<minute, loopState, startLog, agents, errors>>

\* add_scheduled_task: schedule_task asks only that the expression is not empty.
CreateJob(j) ==
    /\ jobRow[j] = "none"
    /\ SetRow(j, "enabled")
    /\ UNCHANGED toggled

\* cancel_scheduled_task, and toggle_scheduled_task with enabled = False.
DisableJob(j) ==
    /\ jobRow[j] = "enabled"
    /\ SetRow(j, "disabled")
    /\ UNCHANGED toggled

\* toggle_scheduled_task with enabled = True, a client's message.
EnableJob(j) ==
    /\ asleep
    /\ jobRow[j] = "disabled"
    /\ toggled[j] < MaxToggles
    /\ toggled' = [toggled EXCEPT ![j] = @ + 1]
    /\ SetRow(j, "enabled")

\* delete_scheduled_task, a client's message.
DeleteJob(j) ==
    /\ asleep
    /\ jobRow[j] \in {"enabled", "disabled"}
    /\ SetRow(j, "deleted")
    /\ UNCHANGED toggled

\* run_scheduled_task_now: whatever the job's state, and nothing is recorded.
\* (Bound: not while the job runs.)
RunJobNow(j) ==
    /\ asleep
    /\ jobRow[j] \in {"enabled", "disabled"}
    /\ agents[j] = 0
    /\ agents' = [agents EXCEPT ![j] = 1]
    /\ UNCHANGED <<minute, loopState, jobRows, startLog, errors>>

-----------------------------------------------------------------------------
(***************************************************************************)
(* The loop.                                                               *)
(***************************************************************************)

DueNow(j) == jobRow[j] = "enabled" /\ minute \in Due[j]

\* get_due_scheduled_tasks: one expression that cannot be read, among those
\* that are due, and none of the jobs is found.
FoundDue ==
    IF \E j \in Malformed : DueNow(j) THEN {} ELSE {j \in Jobs : DueNow(j)}

Wake ==
    /\ asleep
    /\ minute >= wake
    /\ asleep' = FALSE
    /\ now' = minute
    /\ listed' = FoundDue
    /\ UNCHANGED <<minute, wake, jobRows, startLog, agents, errors>>

\* The pass starts j.
Starts(j) ==
    /\ j \in listed
    /\ listed' = listed \ {j}
    /\ starts' = [starts EXCEPT ![j] = Append(@, now)]
    /\ agents' = [agents EXCEPT ![j] = @ + 1]
    /\ UNCHANGED <<minute, asleep, wake, now, toggled>>

\* disable_run_once_task: an UPDATE of the row, when there still is one.
AfterStart(j) ==
    IF j \in OnceJobs /\ jobRow[j] = "enabled" THEN "disabled" ELSE jobRow[j]

\* ... and records it.  (last_run is written as well; no code reads it.)
StartJob(j) ==
    /\ Starts(j)
    /\ jobRow' = [jobRow EXCEPT ![j] = AfterStart(j)]
    /\ UNCHANGED <<unrecorded, errors>>

\* A write fails; the pass goes on with the next job.
StartUnrecorded(j) ==
    /\ errors < MaxErrors
    /\ errors' = errors + 1
    /\ Starts(j)
    /\ unrecorded' = [unrecorded EXCEPT ![j] = @ + 1]
    /\ UNCHANGED jobRow

\* The pass is over; the loop sleeps to the next minute.
Sleep ==
    /\ ~asleep /\ listed = {}
    /\ asleep' = TRUE
    /\ wake' = WakeNext(minute)
    /\ UNCHANGED <<minute, now, listed, jobRows, startLog, agents, errors>>

\* _run_job is over, well or not.
EndJob(j) ==
    /\ agents[j] > 0
    /\ agents' = [agents EXCEPT ![j] = @ - 1]
    /\ UNCHANGED <<minute, loopState, jobRows, startLog, errors>>

\* The process ends and starts again; the runs are lost.
RestartJobs ==
    /\ errors < MaxErrors
    /\ errors' = errors + 1
    /\ asleep' = TRUE
    /\ wake' = WakeNext(minute)
    /\ listed' = {}
    /\ agents' = [j \in Jobs |-> 0]
    /\ UNCHANGED <<minute, now, jobRows, startLog>>

-----------------------------------------------------------------------------

JobsNext ==
    \/ PassMinute \/ Wake \/ Sleep \/ RestartJobs
    \/ \E j \in Jobs :
          \/ CreateJob(j) \/ DisableJob(j) \/ EnableJob(j) \/ DeleteJob(j)
          \/ RunJobNow(j) \/ StartJob(j) \/ StartUnrecorded(j) \/ EndJob(j)

JobsSpec == JobsInit /\ [][JobsNext]_jobVars

-----------------------------------------------------------------------------
(***************************************************************************)
(* Properties.                                                             *)
(***************************************************************************)

\* The type invariant.
JobsTypeOK ==
    /\ minute \in 0 .. MaxMinute
    /\ asleep \in BOOLEAN
    /\ wake \in Nat
    /\ now \in 0 .. MaxMinute
    /\ listed \subseteq Jobs
    /\ jobRow \in [Jobs -> {"none", "enabled", "disabled", "deleted"}]
    /\ starts \in [Jobs -> Seq(1 .. MaxMinute)]
    /\ agents \in [Jobs -> Nat]
    /\ unrecorded \in [Jobs -> 0 .. MaxErrors]
    /\ toggled \in [Jobs -> 0 .. MaxToggles]
    /\ errors \in 0 .. MaxErrors

\* A job is started at most once for a minute, also when the process is
\* restarted within that minute: the loop does not look at last_run, it relies
\* on sleeping first.
OncePerMinute ==
    \A j \in Jobs : \A i, k \in DOMAIN starts[j] : i < k => starts[j][i] < starts[j][k]

\* A run-once job is started by the clock once, and once more for every time
\* it was enabled again or its start could not be recorded.
OnceUnlessUnrecorded ==
    \A j \in OnceJobs : Len(starts[j]) <= 1 + toggled[j] + unrecorded[j]

\* Both: the clock starts a job once, for a minute and for a run-once job at all.
ClockStartsOnce == OncePerMinute /\ OnceUnlessUnrecorded

=============================================================================

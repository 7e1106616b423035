------------------------- MODULE BackgroundProofs ---------------------------
(***************************************************************************)
(* What holds of the work that no request waits for, for every number of   *)
(* jobs, minutes, runs and agents: the jobs that the clock starts          *)
(* (ScheduledJobs) and the runs that agents delegate to one another        *)
(* (AgentPool).                                                            *)
(***************************************************************************)
EXTENDS ScheduledJobs, AgentPool, SequenceTheorems, FiniteSetTheorems, TLAPS

-----------------------------------------------------------------------------
(***************************************************************************)
(* The jobs that the clock starts.                                         *)
(***************************************************************************)

\* The loop wakes in a minute after that of its last pass, and starts each job of
\* its list in a minute after all of the job's starts.
ClockInv ==
    /\ now <= minute
    /\ asleep => now < wake /\ listed = {}
    /\ ~asleep => 1 <= now
    /\ \A j \in Jobs : \A i \in DOMAIN starts[j] :
          starts[j][i] <= now /\ (j \in listed => starts[j][i] < now)

\* A run-once job still has the start of its creation, or of being enabled again,
\* as long as its row says so, or a pass has it on its list.
ToStart(j) == IF jobRow[j] \in {"none", "enabled"} \/ j \in listed THEN 1 ELSE 0

\* A run-once job has started no more often than it was created, enabled again, or its
\* start was not recorded; what is left of that is in ToStart.
OnceInv ==
    /\ \A j \in Jobs : unrecorded[j] <= errors
    /\ \A j \in listed : jobRow[j] # "none"
    /\ \A j \in OnceJobs : Len(starts[j]) + ToStart(j) <= 1 + toggled[j] + unrecorded[j]

\* The inductive invariant of the jobs.
JobsInv == JobsTypeOK /\ ClockInv /\ OnceInv /\ OncePerMinute

\* The bounds are numbers.
LEMMA JobsBounds == MaxMinute \in Nat /\ MaxErrors \in Nat /\ MaxToggles \in Nat
BY JobBoundsAssumption

\* A sum that keeps below its bound when a part of it is exchanged.
LEMMA CreditSums ==
    \A len, new \in Nat, c, d \in {0, 1}, a, b \in Nat :
       d + a <= c + b /\ len + c <= 1 + a + new => len + d <= 1 + b + new
OBVIOUS

\* The starts are minutes.
LEMMA StartsAreMinutes ==
    ASSUME JobsTypeOK, NEW k \in Jobs, NEW i \in DOMAIN starts[k]
    PROVE  starts[k][i] \in 1 .. MaxMinute /\ starts[k][i] \in Int
<1>1. starts[k] \in Seq(1 .. MaxMinute)
  BY DEF JobsTypeOK
<1>2. i \in 1 .. Len(starts[k])
  BY <1>1
<1>3. starts[k][i] \in 1 .. MaxMinute
  BY <1>1, <1>2, ElementOfSeq
<1> QED
  BY <1>3

\* Before the first job, the loop sleeps and nothing was started.
LEMMA JobsInitInv == JobsInit => JobsInv
<1> SUFFICES ASSUME JobsInit PROVE JobsInv
  OBVIOUS
<1>1. JobsTypeOK
  <2>1. 0 \in 0 .. MaxMinute /\ 0 \in 0 .. MaxErrors /\ 0 \in 0 .. MaxToggles
    BY JobsBounds
  <2>2. /\ jobRow \in [Jobs -> {"none"}]
        /\ agents \in [Jobs -> {0}]
        /\ unrecorded \in [Jobs -> {0}]
        /\ toggled \in [Jobs -> {0}]
    BY DEF JobsInit
  <2>3. starts \in [Jobs -> Seq(1 .. MaxMinute)]
    BY DEF JobsInit
  <2>4. wake \in Nat
    BY DEF JobsInit, WakeNext
  <2> QED
    BY <2>1, <2>2, <2>3, <2>4 DEF JobsInit, JobsTypeOK
<1>2. ClockInv
  BY DEF JobsInit, ClockInv, WakeNext
<1>3. OnceInv
  <2>1. \A j \in Jobs : /\ Len(starts[j]) = 0 /\ ToStart(j) = 1
                        /\ toggled[j] = 0 /\ unrecorded[j] = 0 /\ errors = 0
    BY DEF JobsInit, ToStart
  <2> QED
    BY <2>1, JobKindsAssumption DEF JobsInit, OnceInv
<1>4. OncePerMinute
  BY DEF JobsInit, OncePerMinute
<1> QED
  BY <1>1, <1>2, <1>3, <1>4 DEF JobsInv

\* What a pass does when it starts a job.
LEMMA StartsFacts ==
    ASSUME JobsInv, NEW j \in Jobs, Starts(j)
    PROVE  /\ starts' \in [Jobs -> Seq(1 .. MaxMinute)]
           /\ listed' = listed \ {j} /\ j \in listed
           /\ agents' \in [Jobs -> Nat]
           /\ Len(starts'[j]) = Len(starts[j]) + 1
           /\ \A k \in Jobs \ {j} : starts'[k] = starts[k]
           /\ \A i \in DOMAIN starts'[j] :
                 \/ i \in DOMAIN starts[j] /\ starts'[j][i] = starts[j][i]
                 \/ i = Len(starts[j]) + 1 /\ starts'[j][i] = now
<1> USE DEF JobsInv
<1>1. starts[j] \in Seq(1 .. MaxMinute) /\ now \in 1 .. MaxMinute
  BY DEF JobsTypeOK, ClockInv, Starts
<1>2. /\ Append(starts[j], now) \in Seq(1 .. MaxMinute)
      /\ Len(Append(starts[j], now)) = Len(starts[j]) + 1
      /\ \A i \in DOMAIN Append(starts[j], now) :
            \/ i \in DOMAIN starts[j] /\ Append(starts[j], now)[i] = starts[j][i]
            \/ i = Len(starts[j]) + 1 /\ Append(starts[j], now)[i] = now
  BY <1>1
<1>3. starts' = [starts EXCEPT ![j] = Append(starts[j], now)]
  BY DEF Starts
<1>4. starts'[j] = Append(starts[j], now) /\ \A k \in Jobs \ {j} : starts'[k] = starts[k]
  BY <1>3 DEF JobsTypeOK
<1>5. agents' \in [Jobs -> Nat]
  BY DEF Starts, JobsTypeOK
<1>6. starts' \in [Jobs -> Seq(1 .. MaxMinute)]
  BY <1>2, <1>3 DEF JobsTypeOK
<1> QED
  BY <1>2, <1>4, <1>5, <1>6 DEF Starts

\* A start, recorded or not.
LEMMA StartsStep ==
    ASSUME JobsInv, NEW j \in Jobs, StartJob(j) \/ StartUnrecorded(j)
    PROVE  JobsInv'
<1> USE DEF JobsInv
<1>1. Starts(j)
  BY DEF StartJob, StartUnrecorded
<1>2. UNCHANGED <<minute, asleep, wake, now, toggled>> /\ ~asleep
  BY <1>1 DEF Starts, ClockInv
<1>3. JobsTypeOK'
  <2>1. CASE StartJob(j)
    <3>1. jobRow' \in [Jobs -> {"none", "enabled", "disabled", "deleted"}]
      BY <2>1 DEF StartJob, AfterStart, JobsTypeOK
    <3>2. UNCHANGED <<unrecorded, errors>>
      BY <2>1 DEF StartJob
    <3> QED
      BY <1>1, <1>2, <3>1, <3>2, StartsFacts DEF JobsTypeOK
  <2>2. CASE StartUnrecorded(j)
    <3>1. errors' \in 0 .. MaxErrors /\ unrecorded[j] + 1 \in 0 .. MaxErrors
      BY <2>2, JobsBounds DEF StartUnrecorded, JobsTypeOK, OnceInv
    <3>2. unrecorded' \in [Jobs -> 0 .. MaxErrors] /\ jobRow' = jobRow
      BY <2>2, <3>1 DEF StartUnrecorded, JobsTypeOK
    <3> QED
      BY <1>1, <1>2, <3>1, <3>2, StartsFacts DEF JobsTypeOK
  <2> QED
    BY <2>1, <2>2
<1>4. ClockInv'
  <2>1. now \in Int /\ \A k \in Jobs : \A i \in DOMAIN starts[k] : starts[k][i] \in Int
    BY StartsAreMinutes DEF JobsTypeOK
  <2>2. ASSUME NEW k \in Jobs, NEW i \in DOMAIN starts'[k]
        PROVE  starts'[k][i] <= now /\ (k \in listed' => starts'[k][i] < now)
    <3>1. CASE k = j
      BY <1>1, <2>1, <3>1, StartsFacts DEF ClockInv
    <3>2. CASE k # j
      BY <1>1, <3>2, StartsFacts DEF ClockInv
    <3> QED
      BY <3>1, <3>2
  <2> QED
    BY <1>2, <2>2 DEF ClockInv
<1>5. OncePerMinute'
  <2>1. ASSUME NEW k \in Jobs, NEW a \in DOMAIN starts'[k], NEW b \in DOMAIN starts'[k], a < b
        PROVE  starts'[k][a] < starts'[k][b]
    <3>1. CASE k = j
      <4>1. starts[j] \in Seq(1 .. MaxMinute)
        BY DEF JobsTypeOK
      <4>2. a \in DOMAIN starts[j] /\ starts'[j][a] = starts[j][a]
        <5>1. Len(starts[j]) \in Nat /\ DOMAIN starts[j] = 1 .. Len(starts[j])
          BY <4>1
        <5>2. b \in DOMAIN starts[j] \/ b = Len(starts[j]) + 1
          BY <1>1, <3>1, StartsFacts
        <5>3. a # Len(starts[j]) + 1
          BY <2>1, <5>1, <5>2
        <5> QED
          BY <1>1, <3>1, <5>3, StartsFacts
      <4>3. starts[j][a] < now
        BY <1>1, <4>2, StartsFacts DEF ClockInv
      <4> QED
        BY <1>1, <2>1, <3>1, <4>2, <4>3, StartsFacts DEF OncePerMinute
    <3>2. CASE k # j
      BY <1>1, <2>1, <3>2, StartsFacts DEF OncePerMinute
    <3> QED
      BY <3>1, <3>2
  <2> QED
    BY <2>1 DEF OncePerMinute
<1>6. OnceInv'
  <2>1. \A k \in Jobs : unrecorded[k] \in Nat /\ toggled[k] \in Nat /\ Len(starts[k]) \in Nat
    BY JobsBounds DEF JobsTypeOK
  <2>2. errors \in Nat
    BY JobsBounds DEF JobsTypeOK
  <2>3. ASSUME NEW k \in Jobs
        PROVE  /\ unrecorded'[k] <= errors'
               /\ k \in listed' => jobRow'[k] # "none"
               /\ k \in OnceJobs =>
                    Len(starts'[k]) + ToStart(k)' <= 1 + toggled'[k] + unrecorded'[k]
    <3>1. CASE k # j
      <4>1. unrecorded'[k] = unrecorded[k] /\ errors <= errors' /\ errors' \in Int
        BY <2>2, <3>1 DEF StartJob, StartUnrecorded, JobsTypeOK
      <4>2. ToStart(k)' = ToStart(k)
        <5>1. jobRow'[k] = jobRow[k]
          BY <3>1 DEF StartJob, StartUnrecorded, JobsTypeOK
        <5> QED
          BY <1>1, <3>1, <5>1, StartsFacts DEF ToStart
      <4> QED
        <5>1. starts'[k] = starts[k] /\ toggled' = toggled /\ (k \in listed' => k \in listed)
          BY <1>1, <1>2, <3>1, StartsFacts
        <5>2. jobRow'[k] = jobRow[k]
          BY <3>1 DEF StartJob, StartUnrecorded, JobsTypeOK
        <5>3. unrecorded[k] <= errors
          BY DEF OnceInv
        <5>4. unrecorded'[k] <= errors'
          BY <2>1, <2>2, <4>1, <5>3
        <5> QED
          BY <4>1, <4>2, <5>1, <5>2, <5>4 DEF OnceInv
    <3>2. CASE k = j /\ StartJob(j)
      <4>1. unrecorded'[j] = unrecorded[j] /\ errors' = errors
        BY <3>2 DEF StartJob
      <4>2. ToStart(j) = 1 /\ j \notin listed' /\ jobRow[j] # "none"
        BY <1>1, StartsFacts DEF ToStart, OnceInv
      <4>3. j \in OnceJobs => ToStart(j)' = 0
        BY <3>2, <4>2 DEF ToStart, StartJob, AfterStart, JobsTypeOK
      <4>4. Len(starts'[j]) = Len(starts[j]) + 1 /\ toggled' = toggled
        BY <1>1, <1>2, StartsFacts
      <4> QED
        BY <2>1, <2>2, <3>2, <4>1, <4>2, <4>3, <4>4 DEF OnceInv
    <3>3. CASE k = j /\ StartUnrecorded(j)
      <4>1. unrecorded'[j] = unrecorded[j] + 1 /\ errors' = errors + 1
        BY <3>3 DEF StartUnrecorded, JobsTypeOK
      <4>2. ToStart(j) = 1 /\ ToStart(j)' \in {0, 1} /\ j \notin listed'
        BY <1>1, StartsFacts DEF ToStart
      <4>3. Len(starts'[j]) = Len(starts[j]) + 1 /\ toggled' = toggled
        BY <1>1, <1>2, StartsFacts
      <4> QED
        <5>1. unrecorded[j] <= errors
          BY DEF OnceInv
        <5>2. unrecorded'[j] <= errors'
          BY <2>1, <2>2, <4>1, <5>1
        <5>3. j \in OnceJobs => Len(starts[j]) + 1 <= 1 + toggled[j] + unrecorded[j]
          BY <4>2 DEF OnceInv
        <5>4. j \in OnceJobs =>
                Len(starts'[j]) + ToStart(j)' <= 1 + toggled'[j] + unrecorded'[j]
          BY <2>1, <4>1, <4>2, <4>3, <5>3
        <5> QED
          BY <3>3, <4>2, <5>2, <5>4
    <3> QED
      BY <3>1, <3>2, <3>3
  <2>4. listed' \subseteq Jobs /\ OnceJobs \subseteq Jobs
    BY <1>3, JobKindsAssumption DEF JobsTypeOK
  <2> QED
    BY <2>3, <2>4 DEF OnceInv
<1> QED
  BY <1>3, <1>4, <1>5, <1>6

\* The clients, the tools and the clock leave the starts and the list alone.
LEMMA RowsStep ==
    ASSUME JobsInv, NEW j \in Jobs,
           CreateJob(j) \/ DisableJob(j) \/ EnableJob(j) \/ DeleteJob(j)
           \/ RunJobNow(j) \/ EndJob(j)
    PROVE  JobsInv'
<1> USE DEF JobsInv
<1>1. UNCHANGED <<minute, loopState, startLog, errors>>
  BY DEF CreateJob, DisableJob, EnableJob, DeleteJob, RunJobNow, EndJob, SetRow
<1>2. JobsTypeOK'
  <2>1. jobRow' \in [Jobs -> {"none", "enabled", "disabled", "deleted"}]
    BY DEF CreateJob, DisableJob, EnableJob, DeleteJob, RunJobNow, EndJob, SetRow, jobRows,
           JobsTypeOK
  <2>2. toggled' \in [Jobs -> 0 .. MaxToggles]
    <3>1. CASE EnableJob(j)
      <4>1. toggled[j] + 1 \in 0 .. MaxToggles
        BY <3>1, JobsBounds DEF EnableJob, JobsTypeOK
      <4> QED
        BY <3>1, <4>1 DEF EnableJob, JobsTypeOK
    <3>2. CASE ~EnableJob(j)
      BY <3>2 DEF CreateJob, DisableJob, DeleteJob, RunJobNow, EndJob, jobRows, JobsTypeOK
    <3> QED
      BY <3>1, <3>2
  <2>3. agents' \in [Jobs -> Nat]
    <3>1. CASE EndJob(j)
      <4>1. agents[j] - 1 \in Nat
        BY <3>1 DEF EndJob, JobsTypeOK
      <4> QED
        BY <3>1, <4>1 DEF EndJob, JobsTypeOK
    <3>2. CASE ~EndJob(j)
      <4>1. agents' = agents \/ agents' = [agents EXCEPT ![j] = 1]
        BY <3>2 DEF CreateJob, DisableJob, EnableJob, DeleteJob, RunJobNow, SetRow
      <4>2. agents \in [Jobs -> Nat]
        BY DEF JobsTypeOK
      <4> HIDE DEF JobsInv
      <4>3. [agents EXCEPT ![j] = 1] \in [Jobs -> Nat]
        BY <4>2
      <4> QED
        BY <4>1, <4>2, <4>3
    <3> QED
      BY <3>1, <3>2
  <2> QED
    BY <1>1, <2>1, <2>2, <2>3 DEF loopState, startLog, JobsTypeOK
<1>3. ClockInv' /\ OncePerMinute'
  BY <1>1 DEF loopState, startLog, ClockInv, OncePerMinute
<1>4. ASSUME NEW k \in Jobs
      PROVE  /\ k \in listed => jobRow'[k] # "none"
             /\ ToStart(k)' + toggled[k] <= ToStart(k) + toggled'[k]
  <2>1. CASE EnableJob(j)
    <3>1. listed = {} /\ jobRow' = [jobRow EXCEPT ![j] = "enabled"]
          /\ toggled' = [toggled EXCEPT ![j] = @ + 1]
      BY <2>1 DEF EnableJob, SetRow, ClockInv
    <3>2. toggled[k] \in Nat
      BY JobsBounds DEF JobsTypeOK
    <3>3. ToStart(k) \in Nat /\ ToStart(k)' \in {0, 1} /\ toggled'[k] \in Int
      BY <3>1, <3>2 DEF ToStart, JobsTypeOK
    <3>4. CASE k = j
      <4>1. toggled'[k] = toggled[k] + 1
        BY <3>1, <3>4 DEF JobsTypeOK
      <4>2. listed' = listed
        BY <1>1 DEF loopState
      <4> QED
        BY <3>1, <3>2, <3>3, <4>1
    <3>5. CASE k # j
      <4>1. toggled'[k] = toggled[k] /\ jobRow'[k] = jobRow[k] /\ listed' = listed
        BY <1>1, <3>1, <3>5 DEF JobsTypeOK, loopState
      <4>2. ToStart(k)' = ToStart(k)
        BY <4>1 DEF ToStart
      <4> QED
        BY <3>1, <3>2, <3>3, <4>1, <4>2
    <3> QED
      BY <3>4, <3>5
  <2>2. CASE ~EnableJob(j)
    <3>1. toggled' = toggled /\ listed' = listed
      BY <2>2 DEF CreateJob, DisableJob, DeleteJob, RunJobNow, EndJob, SetRow, jobRows, loopState
    <3>2. /\ jobRow'[k] = "none" => jobRow[k] = "none"
          /\ jobRow'[k] = "enabled" => jobRow[k] \in {"none", "enabled"}
      BY <2>2 DEF CreateJob, DisableJob, DeleteJob, RunJobNow, EndJob, SetRow, jobRows, JobsTypeOK
    <3>3. toggled[k] \in Nat
      BY JobsBounds DEF JobsTypeOK
    <3> QED
      BY <3>1, <3>2, <3>3 DEF ToStart, OnceInv
  <2> QED
    BY <2>1, <2>2
<1>5. OnceInv'
  <2>1. \A k \in Jobs : /\ unrecorded[k] \in Nat /\ toggled[k] \in Nat
                        /\ toggled'[k] \in Nat /\ Len(starts[k]) \in Nat
    BY <1>2, JobsBounds DEF JobsTypeOK
  <2>2. \A k \in Jobs : ToStart(k) \in Nat /\ ToStart(k)' \in Nat
    BY DEF ToStart
  <2>3. /\ \A k \in OnceJobs : Len(starts'[k]) + ToStart(k)' <= 1 + toggled'[k] + unrecorded'[k]
    <3> SUFFICES ASSUME NEW k \in OnceJobs
                 PROVE  Len(starts'[k]) + ToStart(k)' <= 1 + toggled'[k] + unrecorded'[k]
      OBVIOUS
    <3>1. k \in Jobs
      BY JobKindsAssumption
    <3>2. Len(starts[k]) + ToStart(k) <= 1 + toggled[k] + unrecorded[k]
      BY DEF OnceInv
    <3>3. starts' = starts /\ unrecorded' = unrecorded
      BY <1>1 DEF startLog
    <3> QED
      <4>1. /\ ToStart(k) \in {0, 1} /\ ToStart(k)' \in {0, 1}
            /\ ToStart(k)' + toggled[k] <= ToStart(k) + toggled'[k]
        BY <1>4, <3>1 DEF ToStart
      <4>2. /\ unrecorded[k] \in Nat /\ toggled[k] \in Nat
            /\ toggled'[k] \in Nat /\ Len(starts[k]) \in Nat
        BY <2>1, <3>1
      <4> QED
        BY <3>2, <3>3, <4>1, <4>2, CreditSums
  <2>4. \A k \in listed' : jobRow'[k] # "none"
    BY <1>1, <1>4 DEF loopState, JobsTypeOK
  <2> QED
    BY <1>1, <2>3, <2>4 DEF OnceInv, startLog
<1> QED
  BY <1>2, <1>3, <1>5

\* The loop wakes and sleeps, and the process starts again.
LEMMA LoopStep ==
    ASSUME JobsInv, PassMinute \/ Wake \/ Sleep \/ RestartJobs
    PROVE  JobsInv'
<1> USE DEF JobsInv
<1>1. UNCHANGED <<jobRows, startLog>>
  BY DEF PassMinute, Wake, Sleep, RestartJobs
<1>2. JobsTypeOK'
  <2>1. /\ minute' \in 0 .. MaxMinute /\ asleep' \in BOOLEAN /\ wake' \in Nat
        /\ now' \in 0 .. MaxMinute /\ errors' \in 0 .. MaxErrors
    <3>1. CASE PassMinute
      BY <3>1, JobsBounds DEF PassMinute, loopState, JobsTypeOK
    <3>2. CASE Wake
      BY <3>2 DEF Wake, JobsTypeOK
    <3>3. CASE Sleep
      BY <3>3, JobsBounds DEF Sleep, WakeNext, JobsTypeOK
    <3>4. CASE RestartJobs
      BY <3>4, JobsBounds DEF RestartJobs, WakeNext, JobsTypeOK
    <3> QED
      BY <3>1, <3>2, <3>3, <3>4
  <2>2. listed' \subseteq Jobs /\ agents' \in [Jobs -> Nat]
    BY DEF PassMinute, Wake, Sleep, RestartJobs, loopState, FoundDue, JobsTypeOK
  <2> QED
    BY <1>1, <2>1, <2>2 DEF jobRows, startLog, JobsTypeOK
<1>3. ClockInv'
  <2>2. \A k \in Jobs : \A i \in DOMAIN starts[k] : starts[k][i] \in Int
    BY StartsAreMinutes
  <2>3. minute \in Int /\ now \in Int /\ wake \in Int
    BY DEF JobsTypeOK
  <2>4. CASE Wake
    <3>1. now < minute /\ now' = minute /\ ~asleep' /\ 1 <= now' /\ minute' = minute
      BY <2>3, <2>4 DEF Wake, ClockInv, JobsTypeOK
    <3>2. \A k \in Jobs : \A i \in DOMAIN starts'[k] : starts'[k][i] < now'
      BY <1>1, <2>2, <2>3, <3>1 DEF ClockInv, startLog
    <3>3. \A k \in Jobs : \A i \in DOMAIN starts'[k] : starts'[k][i] <= now'
      BY <1>1, <2>2, <2>3, <3>1, <3>2 DEF startLog
    <3> QED
      BY <2>3, <3>1, <3>2, <3>3 DEF ClockInv
  <2>5. CASE ~Wake
    <3>1. /\ now' = now /\ now' <= minute' /\ listed' \subseteq listed
          /\ (asleep' => now' < wake' /\ listed' = {})
          /\ (~asleep' => 1 <= now')
      BY <2>3, <2>5 DEF PassMinute, Sleep, RestartJobs, WakeNext, loopState, ClockInv
    <3> QED
      BY <1>1, <3>1 DEF ClockInv, startLog
  <2> QED
    BY <2>4, <2>5
<1>4. OncePerMinute'
  BY <1>1 DEF startLog, OncePerMinute
<1>5. OnceInv'
  <2>1. errors <= errors' /\ errors' \in Int /\ errors \in Int
    BY DEF PassMinute, Wake, Sleep, RestartJobs, JobsTypeOK
  <2>2. \A k \in listed' : jobRow[k] # "none" /\ (k \in listed \/ jobRow[k] = "enabled")
    BY DEF PassMinute, Wake, Sleep, RestartJobs, loopState, FoundDue, DueNow, OnceInv
  <2>3. \A k \in Jobs : ToStart(k)' <= ToStart(k) /\ ToStart(k)' \in Nat /\ ToStart(k) \in Nat
    BY <1>1, <2>2 DEF ToStart, jobRows
  <2>4. \A k \in Jobs : unrecorded[k] \in Nat /\ toggled[k] \in Nat /\ Len(starts[k]) \in Nat
    BY JobsBounds DEF JobsTypeOK
  <2>5. \A k \in OnceJobs : Len(starts[k]) + ToStart(k)' <= 1 + toggled[k] + unrecorded[k]
    BY <2>3, <2>4, JobKindsAssumption DEF OnceInv
  <2>6. \A k \in Jobs : unrecorded[k] <= errors'
    BY <2>1, <2>4 DEF OnceInv
  <2> QED
    BY <1>1, <2>2, <2>5, <2>6 DEF OnceInv, jobRows, startLog
<1> QED
  BY <1>2, <1>3, <1>4, <1>5

\* The list of a pass, the clock and the starts of every job fit together through
\* creations, deletions, toggles, failed writes and restarts.
THEOREM JobsInvariant == JobsSpec => []JobsInv
<1>1. JobsInv /\ UNCHANGED jobVars => JobsInv'
  <2> SUFFICES ASSUME JobsInv, UNCHANGED jobVars PROVE JobsInv'
    OBVIOUS
  <2> USE DEF jobVars, loopState, jobRows, startLog
  <2>1. JobsTypeOK'
    BY DEF JobsInv, JobsTypeOK
  <2>2. ClockInv'
    BY DEF JobsInv, ClockInv
  <2>3. OnceInv'
    BY DEF JobsInv, OnceInv, ToStart
  <2>4. OncePerMinute'
    BY DEF JobsInv, OncePerMinute
  <2> QED
    BY <2>1, <2>2, <2>3, <2>4 DEF JobsInv
<1>2. JobsInv /\ [JobsNext]_jobVars => JobsInv'
  BY <1>1, StartsStep, RowsStep, LoopStep DEF JobsNext
<1> QED
  BY <1>2, JobsInitInv, PTL DEF JobsSpec

\* The scheduler's clock starts a job once in a minute at most, and a run-once job once,
\* but for those of its starts that an UPDATE failed to record or a client enabled.
THEOREM JobsSound == JobsSpec => []ClockStartsOnce
<1>1. JobsInv => ClockStartsOnce
  <2> SUFFICES ASSUME JobsInv PROVE OnceUnlessUnrecorded
    BY DEF JobsInv, ClockStartsOnce
  <2>1. ASSUME NEW j \in OnceJobs
        PROVE  Len(starts[j]) <= 1 + toggled[j] + unrecorded[j]
    <3>1. Len(starts[j]) + ToStart(j) <= 1 + toggled[j] + unrecorded[j]
      BY DEF JobsInv, OnceInv
    <3>2. ToStart(j) \in {0, 1} /\ j \in Jobs
      BY JobKindsAssumption DEF ToStart
    <3>3. Len(starts[j]) \in Nat /\ toggled[j] \in Nat /\ unrecorded[j] \in Nat
      BY <3>2, JobsBounds DEF JobsInv, JobsTypeOK
    <3> QED
      BY <3>1, <3>2, <3>3
  <2> QED
    BY <2>1 DEF OnceUnlessUnrecorded
<1> QED
  BY <1>1, JobsInvariant, PTL

-----------------------------------------------------------------------------
(***************************************************************************)
(* Delegated runs and their watchers.                                      *)
(***************************************************************************)

\* The types of what the proof reads: not the agents' lines and seats.
PoolTypes ==
    /\ parent \in [Runs -> {NoRun} \cup Runs]
    /\ at \in [Runs -> Alive \cup {"none", "over"}]
    /\ row \in [Runs -> {"none", "running", "completed", "failed"}]
    /\ shown \in [Runs -> {"none", "running", "stale", "completed", "failed"}]
    /\ watch \in [Runs -> {"none", "gone", "over"} \cup Waiting \cup Hearing]

\* Runs are numbered as they are called, a run after the one that calls it.
NumberedInv ==
    /\ \E n \in Nat : Known = 1 .. n
    /\ \A r \in Known : parent[r] \in {NoRun} \cup Known

\* A run's row and its watcher follow it: the row is written at its beginning and
\* its end, and the watcher comes to an end after the run.
VerdictsInv ==
    \A r \in Runs :
       /\ at[r] = "none" => watch[r] = "none"
       /\ at[r] \in {"none", "queued"} => row[r] = "none" /\ shown[r] = "none"
       /\ at[r] \in Holding => row[r] = "running"
       /\ watch[r] \in Waiting => shown[r] \in {"none", "running", "stale"}
       /\ watch[r] \in Hearing => shown[r] \in {"completed", "stale"}
       /\ watch[r] = "over" => at[r] = "over"

\* The inductive invariant of the runs.
PoolInv == PoolTypes /\ NumberedInv /\ VerdictsInv /\ VerdictsAgree /\ CallersWait

\* Before the first request, no run is known.
LEMMA PoolInitInv == PoolInit => PoolInv
<1> SUFFICES ASSUME PoolInit PROVE PoolInv
  OBVIOUS
<1>1. PoolTypes
  BY DEF PoolInit, PoolTypes
<1>2. Known = 1 .. 0
  BY DEF PoolInit, Known
<1>3. VerdictsInv /\ VerdictsAgree /\ CallersWait
  BY DEF PoolInit, VerdictsInv, VerdictsAgree, CallersWait, Known, Holding, Waiting, Hearing
<1> QED
  BY <1>1, <1>2, <1>3 DEF PoolInv, NumberedInv, Known

\* The runs of a call are new ones.
LEMMA JoinFacts ==
    ASSUME PoolInv, NEW p \in {NoRun} \cup Known, NEW k \in Nat, NEW called,
           DOMAIN called = 1 .. k, Join(p, called)
    PROVE  \E new \in SUBSET (Runs \ Known) :
              /\ NumberedInv'
              /\ parent' = [r \in Runs |-> IF r \in new THEN p ELSE parent[r]]
              /\ at' = [r \in Runs |-> IF r \in new THEN "queued"
                                       ELSE IF r = p THEN "delegating" ELSE at[r]]
              /\ watch' = [r \in Runs |-> IF r \in new /\ p # NoRun THEN "on" ELSE watch[r]]
              /\ UNCHANGED <<row, shown>>
<1>1. PICK n \in Nat : Known = 1 .. n
  BY DEF PoolInv, NumberedInv
<1>2. Cardinality(Known) = n
  BY <1>1, FS_Interval
<1> DEFINE new == {n + i : i \in DOMAIN called}
<1>3. new = (n + 1) .. (n + k)
  <2>1. ASSUME NEW x \in (n + 1) .. (n + k)
        PROVE  x \in new
    <3>1. x - n \in 1 .. k /\ x = n + (x - n)
      OBVIOUS
    <3> QED
      BY <3>1
  <2>2. \A i \in 1 .. k : n + i \in (n + 1) .. (n + k)
    OBVIOUS
  <2>3. new \subseteq (n + 1) .. (n + k)
    BY <2>2
  <2> HIDE DEF new
  <2> QED
    BY <2>1, <2>3
<1>4. /\ new \subseteq Runs
      /\ parent' = [r \in Runs |-> IF r \in new THEN p ELSE parent[r]]
      /\ at' = [r \in Runs |-> IF r \in new THEN "queued"
                               ELSE IF r = p THEN "delegating" ELSE at[r]]
      /\ watch' = [r \in Runs |-> IF r \in new /\ p # NoRun THEN "on" ELSE watch[r]]
      /\ UNCHANGED <<row, shown>>
  BY <1>2 DEF Join
<1> HIDE DEF new
<1>5. new \cap Known = {}
  BY <1>1, <1>3
<1>6. NumberedInv'
  <2>1. Known' = Known \cup new
    <3>1. \A r \in Runs : at'[r] # "none" <=> at[r] # "none" \/ r \in new
      <4>1. p \in Runs => at[p] # "none"
        BY DEF Known, NoRun, Runs
      <4> QED
        BY <1>4, <4>1
    <3> QED
      BY <1>4, <3>1 DEF Known
  <2>2. Known' = 1 .. (n + k) /\ n + k \in Nat
    BY <1>1, <1>3, <2>1
  <2>3. ASSUME NEW r \in Known'
        PROVE  parent'[r] \in {NoRun} \cup Known'
    <3>1. r \in Runs /\ (r \in new \/ r \in Known)
      BY <1>4, <2>1 DEF Known
    <3> QED
      BY <1>4, <2>1, <3>1 DEF PoolInv, NumberedInv
  <2> QED
    BY <2>2, <2>3 DEF NumberedInv
<1> QED
  BY <1>4, <1>5, <1>6

\* A request, or a tool's call.
LEMMA JoinStep ==
    ASSUME PoolInv, NEW p \in {NoRun} \cup Known, p # NoRun => at[p] = "working",
           NEW k \in Nat, NEW called, DOMAIN called = 1 .. k, Join(p, called)
    PROVE  PoolInv'
<1>1. PICK new \in SUBSET (Runs \ Known) :
              /\ NumberedInv'
              /\ parent' = [r \in Runs |-> IF r \in new THEN p ELSE parent[r]]
              /\ at' = [r \in Runs |-> IF r \in new THEN "queued"
                                       ELSE IF r = p THEN "delegating" ELSE at[r]]
              /\ watch' = [r \in Runs |-> IF r \in new /\ p # NoRun THEN "on" ELSE watch[r]]
              /\ UNCHANGED <<row, shown>>
  BY JoinFacts
<1>2. \A r \in new : at[r] = "none" /\ r # p
  BY DEF Known, NoRun, Runs
<1> USE DEF PoolInv
<1>3. PoolTypes'
  <2>1. p \in {NoRun} \cup Runs
    BY DEF Known
  <2> QED
    BY <1>1, <2>1 DEF PoolTypes, Alive, Holding, Waiting
<1>4. VerdictsInv'
  <2> SUFFICES ASSUME NEW r \in Runs
               PROVE  /\ at'[r] = "none" => watch'[r] = "none"
                      /\ at'[r] \in {"none", "queued"} => row[r] = "none" /\ shown[r] = "none"
                      /\ at'[r] \in Holding => row[r] = "running"
                      /\ watch'[r] \in Waiting => shown[r] \in {"none", "running", "stale"}
                      /\ watch'[r] \in Hearing => shown[r] \in {"completed", "stale"}
                      /\ watch'[r] = "over" => at'[r] = "over"
    BY <1>1 DEF VerdictsInv
  <2>1. CASE r \in new
    <3>1. at[r] = "none" /\ at'[r] = "queued" /\ watch'[r] \in {"on", watch[r]}
      BY <1>1, <1>2, <2>1
    <3> QED
      BY <3>1 DEF VerdictsInv, Holding, Waiting, Hearing
  <2>2. CASE r \notin new
    <3>1. /\ watch'[r] = watch[r]
          /\ at'[r] = at[r] \/ (at'[r] = "delegating" /\ at[r] = "working")
      <4>1. r # NoRun
        BY DEF NoRun, Runs
      <4>2. at'[r] = IF r = p THEN "delegating" ELSE at[r]
        BY <1>1, <2>2
      <4>3. watch'[r] = watch[r]
        BY <1>1, <2>2
      <4> QED
        BY <4>1, <4>2, <4>3
    <3> QED
      BY <3>1 DEF VerdictsInv, Holding, Waiting, Hearing
  <2> QED
    BY <2>1, <2>2
<1>5. VerdictsAgree'
  BY <1>1, <1>2 DEF VerdictsAgree, VerdictsInv, PoolTypes
<1>6. CallersWait'
  <2> SUFFICES ASSUME NEW r \in Known', parent'[r] # NoRun, at'[r] \in Alive
               PROVE  IF at'[parent'[r]] \in Alive
                      THEN at'[parent'[r]] = "delegating" /\ Watched(r)'
                      ELSE watch'[r] = "gone"
    BY DEF CallersWait
  <2>1. r \in Runs
    BY DEF Known
  <2>2. CASE r \in new
    <3>1. parent'[r] = p /\ p # NoRun /\ p \in Runs /\ p \notin new
      BY <1>1, <1>2, <2>1, <2>2 DEF Known
    <3>2. at'[p] = "delegating" /\ watch'[r] = "on"
      BY <1>1, <2>1, <2>2, <3>1
    <3> QED
      BY <3>1, <3>2 DEF Alive, Holding, Watched, Waiting
  <2>3. CASE r \notin new
    <3>1. parent'[r] = parent[r] /\ watch'[r] = watch[r]
      BY <1>1, <2>1, <2>3
    <3>2. at[r] \in Alive /\ r \in Known
      BY <1>1, <2>1, <2>3 DEF Known, Alive, Holding, Runs, NoRun
    <3>3. parent[r] \in Runs
      BY <2>1, <3>1 DEF PoolTypes
    <3>4. IF at[parent[r]] \in Alive
          THEN at[parent[r]] = "delegating" /\ Watched(r)
          ELSE watch[r] = "gone"
      BY <3>1, <3>2 DEF CallersWait
    <3>5. Watched(r) => Watched(r)'
      BY <3>1 DEF Watched
    <3>6. parent[r] \notin new
      BY <3>1, <3>2 DEF NumberedInv
    <3>7. at'[parent[r]] = IF parent[r] = p THEN "delegating" ELSE at[parent[r]]
      BY <1>1, <3>3, <3>6
    <3> QED
      BY <3>1, <3>3, <3>4, <3>5, <3>7 DEF Alive, Holding, NoRun, Runs
  <2> QED
    BY <2>2, <2>3
<1> QED
  BY <1>1, <1>3, <1>4, <1>5, <1>6

\* Runs that are there stay, and those that are not.
SameRuns ==
    /\ \A r \in Runs : at'[r] = "none" <=> at[r] = "none"
    /\ parent' = parent

\* A step that adds no run leaves the numbering as it is.
LEMMA SameRunsNumbered ==
    ASSUME NumberedInv, SameRuns
    PROVE  NumberedInv' /\ Known' = Known
<1>1. Known' = Known
  BY DEF SameRuns, Known
<1> QED
  BY <1>1 DEF SameRuns, NumberedInv

\* A step of a run itself, other than its calls.
LEMMA RunStep ==
    ASSUME PoolInv, NEW r \in Known, RunGoesOn(r)
    PROVE  PoolInv'
<1> USE DEF PoolInv
<1>1. r \in Runs /\ PoolTypes
  BY DEF Known
<1>2. UNCHANGED <<parent, watch>>
  BY DEF RunGoesOn, Acquire, CallerResumes, Answered, Complete, Raise
<1>3. /\ \A c \in Runs \ {r} : at'[c] = at[c] /\ row'[c] = row[c] /\ shown'[c] = shown[c]
      /\ \/ /\ at[r] = "queued" /\ at'[r] = "working" /\ row'[r] = "running"
            /\ shown'[r] \in {"none", "running"}
         \/ /\ at[r] = "delegating" /\ at'[r] = "working"
            /\ row'[r] = row[r] /\ shown'[r] = shown[r]
         \/ /\ at[r] = "working" /\ at'[r] = "closing"
            /\ row'[r] = row[r] /\ shown'[r] = shown[r]
         \/ /\ at[r] \in {"working", "closing"} /\ at'[r] = "over"
            /\ row'[r] \in {"completed", "failed"} /\ shown'[r] = shown[r]
  BY <1>1 DEF RunGoesOn, Acquire, CallerResumes, Answered, Complete, Raise, PoolTypes,
              VerdictsInv
<1>4. PoolTypes'
  BY <1>1, <1>2
  DEF RunGoesOn, Acquire, CallerResumes, Answered, Complete, Raise, PoolTypes, Alive, Holding
<1>5. SameRuns
  BY <1>2, <1>3 DEF SameRuns
<1>6. VerdictsInv'
  BY <1>1, <1>2, <1>3 DEF VerdictsInv, Holding, Waiting, Hearing
<1>7. VerdictsAgree'
  BY <1>1, <1>2, <1>3 DEF VerdictsAgree, VerdictsInv
<1>8. \A c \in Known : parent[c] = r => at[c] \notin Alive
  <2> SUFFICES ASSUME NEW c \in Known, parent[c] = r, at[c] \in Alive PROVE FALSE
    OBVIOUS
  <2>1. r # NoRun /\ c \in Runs
    BY <1>1 DEF NoRun, Runs, Known
  <2>2. at[r] \in Alive
    BY <1>3 DEF Alive, Holding
  <2>3. at[r] = "delegating" /\ Watched(c)
    BY <2>1, <2>2 DEF CallersWait
  <2>4. CallerResumes(r)
    BY <2>3 DEF RunGoesOn, Acquire, Answered, Complete, Raise
  <2>5. watch[c] = "over"
    BY <2>4 DEF CallerResumes, Children
  <2> QED
    BY <2>1, <2>5 DEF VerdictsInv, Alive, Holding
<1>9. CallersWait'
  <2> SUFFICES ASSUME NEW c \in Known, parent[c] # NoRun, at'[c] \in Alive
               PROVE  IF at'[parent[c]] \in Alive
                      THEN at'[parent[c]] = "delegating" /\ Watched(c)'
                      ELSE watch[c] = "gone"
    BY <1>2, <1>5, SameRunsNumbered DEF CallersWait
  <2>1. at[c] \in Alive /\ c \in Runs
    BY <1>1, <1>3 DEF Known, Alive, Holding
  <2>2. parent[c] \in Runs /\ parent[c] # r
    BY <1>1, <1>8, <2>1 DEF PoolTypes
  <2>3. at'[parent[c]] = at[parent[c]]
    BY <1>3, <2>2
  <2>4. Watched(c) => Watched(c)'
    BY <1>2 DEF Watched
  <2> QED
    BY <2>1, <2>3, <2>4 DEF CallersWait
<1> QED
  BY <1>4, <1>5, <1>6, <1>7, <1>9, SameRunsNumbered

\* A step of a watcher that leaves its run alone.
LEMMA WatcherStep ==
    ASSUME PoolInv, NEW r \in Known,
           WatcherGoesOn(r) \/ MarkRunStale(r) \/ SeesProgress(r)
    PROVE  PoolInv'
<1> USE DEF PoolInv
<1>1. r \in Runs /\ PoolTypes
  BY DEF Known
<1>2. UNCHANGED <<parent, at, row>>
  BY DEF WatcherGoesOn, SeesDone, SeesEnd, SeesError, MarkRunStale, SeesProgress
<1>3. /\ \A c \in Runs \ {r} : watch'[c] = watch[c] /\ shown'[c] = shown[c]
      /\ watch[r] \in Waiting \cup Hearing
      /\ \/ watch'[r] = "heard" /\ shown'[r] = "completed" /\ at[r] \notin {"none", "queued"}
         \/ watch'[r] = "over" /\ shown'[r] = shown[r] /\ row[r] = "completed"
            /\ watch[r] \in Hearing
         \/ watch'[r] = "over" /\ shown'[r] = "failed" /\ row[r] = "failed"
         \/ watch'[r] \in {"stale", "heard stale"} /\ shown'[r] = "stale" /\ at[r] \in Holding
         \/ watch'[r] = "on" /\ shown'[r] = "running" /\ at[r] \in Holding
  BY <1>1
  DEF WatcherGoesOn, SeesDone, SeesEnd, SeesError, ShownFailed, MarkRunStale, SeesProgress,
      PoolTypes, Watched, Waiting, Hearing, Holding, VerdictsInv
<1>4. PoolTypes'
  BY <1>1, <1>2
  DEF WatcherGoesOn, SeesDone, SeesEnd, SeesError, ShownFailed, MarkRunStale, SeesProgress,
      PoolTypes, Waiting, Hearing
<1>5. SameRuns
  BY <1>2 DEF SameRuns
<1>6. VerdictsInv'
  <2>1. row[r] \in {"completed", "failed"} => at[r] = "over"
    BY <1>1 DEF VerdictsInv, PoolTypes, Alive
  <2>2. watch[r] \in Waiting \cup Hearing => at[r] # "none"
    BY <1>1 DEF VerdictsInv, Waiting, Hearing
  <2> SUFFICES ASSUME NEW c \in Runs
               PROVE  /\ at[c] = "none" => watch'[c] = "none"
                      /\ at[c] \in {"none", "queued"} => row[c] = "none" /\ shown'[c] = "none"
                      /\ at[c] \in Holding => row[c] = "running"
                      /\ watch'[c] \in Waiting => shown'[c] \in {"none", "running", "stale"}
                      /\ watch'[c] \in Hearing => shown'[c] \in {"completed", "stale"}
                      /\ watch'[c] = "over" => at[c] = "over"
    BY <1>2 DEF VerdictsInv
  <2>3. CASE c = r
    BY <1>1, <1>3, <2>1, <2>2, <2>3 DEF VerdictsInv, Waiting, Hearing, Holding
  <2>4. CASE c # r
    BY <1>3, <2>4 DEF VerdictsInv
  <2> QED
    BY <2>3, <2>4
<1>7. VerdictsAgree'
  BY <1>1, <1>2, <1>3 DEF VerdictsAgree, VerdictsInv, Waiting, Hearing
<1>8. CallersWait'
  <2>1. Known' = Known
    BY <1>5, SameRunsNumbered
  <2>2. at[r] \in Alive => watch'[r] # "over"
    BY <1>1, <1>3 DEF VerdictsInv, Alive, Holding, PoolTypes
  <2>3. \A c \in Known : at[c] \in Alive /\ Watched(c) => Watched(c)'
    BY <1>1, <1>3, <2>2 DEF Watched, Waiting, Hearing, Known
  <2>4. watch[r] # "gone"
    BY <1>3 DEF Waiting, Hearing
  <2>5. \A c \in Known : watch[c] = "gone" => watch'[c] = "gone"
    BY <1>3, <2>4 DEF Known
  <2> QED
    BY <1>2, <2>1, <2>3, <2>5 DEF CallersWait
<1> QED
  BY <1>4, <1>5, <1>6, <1>7, <1>8, SameRunsNumbered

\* A run is cancelled, and so are the watchers of those it has called.
LEMMA CancelStep ==
    ASSUME PoolInv, NEW r \in Known, Stopped(r) \/ Stall(r)
    PROVE  PoolInv'
<1> USE DEF PoolInv
<1>1. r \in Runs /\ PoolTypes /\ at[r] \in Alive
  BY DEF Known, Stopped, Stall, Alive
<1>2. UNCHANGED <<parent, row>> /\ at' = [at EXCEPT ![r] = "over"]
  BY DEF Stopped, Stall, CancelRun
<1>3. \/ /\ parent[r] = NoRun /\ shown' = shown
         /\ watch' = [c \in Runs |-> IF Left(r, c) THEN "gone" ELSE watch[c]]
      \/ /\ shown' = [shown EXCEPT ![r] = "failed"] /\ at[r] \in Holding
         /\ watch' = [c \in Runs |-> IF c = r THEN "over"
                                     ELSE IF Left(r, c) THEN "gone" ELSE watch[c]]
  BY DEF Stopped, Stall, ShownFailed
<1>4. PoolTypes'
  BY <1>1, <1>2, <1>3 DEF PoolTypes
<1>5. SameRuns
  BY <1>1, <1>2 DEF SameRuns, PoolTypes, Alive, Holding
<1>6. \A c \in Runs \ {r} : /\ at'[c] = at[c] /\ shown'[c] = shown[c]
                            /\ watch'[c] = IF Left(r, c) THEN "gone" ELSE watch[c]
  BY <1>1, <1>2, <1>3 DEF PoolTypes
<1>7. /\ at'[r] = "over"
      /\ \/ shown'[r] = shown[r] /\ watch'[r] \in {"gone", watch[r]}
         \/ shown'[r] = "failed" /\ watch'[r] = "over" /\ row[r] = "running"
  BY <1>1, <1>2, <1>3 DEF PoolTypes, VerdictsInv
<1>8. VerdictsInv'
  <2> SUFFICES ASSUME NEW c \in Runs
               PROVE  /\ at'[c] = "none" => watch'[c] = "none"
                      /\ at'[c] \in {"none", "queued"} => row[c] = "none" /\ shown'[c] = "none"
                      /\ at'[c] \in Holding => row[c] = "running"
                      /\ watch'[c] \in Waiting => shown'[c] \in {"none", "running", "stale"}
                      /\ watch'[c] \in Hearing => shown'[c] \in {"completed", "stale"}
                      /\ watch'[c] = "over" => at'[c] = "over"
    BY <1>2 DEF VerdictsInv
  <2>1. CASE c = r
    BY <1>7, <2>1 DEF VerdictsInv, Holding, Waiting, Hearing
  <2>2. CASE c # r
    <3>1. Left(r, c) => watch[c] \in Waiting \cup Hearing
      BY DEF Left, Watched
    <3> QED
      BY <1>6, <2>2, <3>1 DEF VerdictsInv, Waiting, Hearing
  <2> QED
    BY <2>1, <2>2
<1>9. VerdictsAgree'
  BY <1>1, <1>2, <1>6, <1>7 DEF VerdictsAgree, VerdictsInv, Alive, Holding
<1>10. CallersWait'
  <2> SUFFICES ASSUME NEW c \in Known, parent[c] # NoRun, at'[c] \in Alive
               PROVE  IF at'[parent[c]] \in Alive
                      THEN at'[parent[c]] = "delegating" /\ Watched(c)'
                      ELSE watch'[c] = "gone"
    BY <1>2, <1>5, SameRunsNumbered DEF CallersWait
  <2>1. c # r /\ c \in Runs
    BY <1>7 DEF Alive, Holding, Known
  <2>2. at[c] \in Alive /\ parent[c] \in Runs
    BY <1>1, <1>6, <2>1 DEF PoolTypes
  <2>3. IF at[parent[c]] \in Alive
        THEN at[parent[c]] = "delegating" /\ Watched(c)
        ELSE watch[c] = "gone"
    BY <2>2 DEF CallersWait
  <2>4. CASE parent[c] = r
    BY <1>1, <1>6, <1>7, <2>1, <2>3, <2>4 DEF Left, Alive, Holding
  <2>5. CASE parent[c] # r
    BY <1>6, <2>1, <2>2, <2>3, <2>5 DEF Left, Watched
  <2> QED
    BY <2>4, <2>5
<1> QED
  BY <1>4, <1>5, <1>8, <1>9, <1>10, SameRunsNumbered

\* Every step of a request, a run and a watcher keeps the invariant.
LEMMA PoolStep ==
    ASSUME PoolInv, PoolNext
    PROVE  PoolInv'
<1>1. ASSUME NEW a \in Agents, Call(a)
      PROVE  PoolInv'
  <2>1. DOMAIN <<a>> = 1 .. 1 /\ 1 \in Nat
    OBVIOUS
  <2>2. Join(NoRun, <<a>>)
    BY <1>1 DEF Call
  <2> QED
    BY <2>1, <2>2, JoinStep
<1>2. ASSUME NEW r \in Known, NEW called \in Callees(agent[r]), Delegate(r, called)
      PROVE  PoolInv'
  <2>1. \E k \in Nat : DOMAIN called = 1 .. k
    <3>1. CASE \E b \in Delegates[agent[r]] : called = <<b>>
      <4>1. DOMAIN called = 1 .. 1
        BY <3>1
      <4> QED
        BY <4>1
    <3>2. CASE \E b, c \in Delegates[agent[r]] : called = <<b, c>>
      <4>1. DOMAIN called = 1 .. 2
        BY <3>2
      <4> QED
        BY <4>1
    <3> QED
      BY <3>1, <3>2 DEF Callees
  <2>2. at[r] = "working" /\ Join(r, called)
    BY <1>2 DEF Delegate
  <2> QED
    BY <2>1, <2>2, JoinStep
<1> QED
  BY <1>1, <1>2, RunStep, WatcherStep, CancelStep DEF PoolNext

\* A run, its row and the watcher of its delegation agree, for every tree of
\* delegations and every order of ends, stalls and cancellations.
THEOREM PoolInvariant == PoolSpec => []PoolInv
<1>1. PoolInv /\ UNCHANGED poolVars => PoolInv'
  BY DEF PoolInv, PoolTypes, NumberedInv, Known, VerdictsInv, VerdictsAgree, CallersWait,
         Watched, poolVars
<1>2. PoolInv /\ [PoolNext]_poolVars => PoolInv'
  BY <1>1, PoolStep
<1> QED
  BY <1>2, PoolInitInv, PTL DEF PoolSpec

\* What the session shows of a delegated run that is over does not contradict the
\* table of runs, and a run goes on unwatched only below one that was cancelled.
THEOREM PoolSound == PoolSpec => []DelegatesAreWatched
BY PoolInvariant, PTL DEF PoolInv, DelegatesAreWatched

=============================================================================

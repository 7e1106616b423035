--------------------------- MODULE WorkScheduler ---------------------------
(***************************************************************************)
(* The background worker of HushClaw's scheduler                           *)
(* (src/hushclaw/scheduler.py: _work_loop, _run_work_task_worker,          *)
(* run_work_task_now, _heartbeat_run), the web UI that claims, runs,       *)
(* completes and retries tasks beside it, and crashes of the process, all  *)
(* on the store of TaskRuns.                                               *)
(*                                                                         *)
(* Everything here runs on the event loop, the only calling thread of the  *)
(* store.  A handler is one action from one await to the next: a tick of   *)
(* the loop marks stale runs, lists candidates and creates their workers;  *)
(* a worker claims when it is first scheduled, streams the agent's answer  *)
(* while heartbeats renew its lease, and reports the outcome.              *)
(*                                                                         *)
(* list_tasks orders by the time of the last update, in seconds; two       *)
(* updates within one second count as ordered the way they happened.       *)
(***************************************************************************)
EXTENDS TaskRuns, SequencesExt, FiniteSets

CONSTANTS
    Loop,            \* the thread of the event loop
    MaxConcurrent,   \* work_task_worker_max_concurrent
    MaxIncidents     \* bound on the retries asked for and the crashes, together

ASSUME LoopAssumption == Threads = {Loop}
ASSUME CapacityAssumption == MaxConcurrent \in Nat \ {0}
ASSUME NoEvidenceAssumption == {} \in Evidence

VARIABLES
    recent,      \* the tasks that exist, last updated first
    working,     \* _work_running
    starting,    \* starting[t]: workers of t created and not yet scheduled
    executing,   \* executing[t]: the runs that workers of the loop execute
    web,         \* web[t]: the runs that run_work_task_now executes for the UI
    incidents    \* the retries asked for and the crashes so far

loopVars == <<working, starting, executing, web, incidents>>
allVars == <<vars, recent, loopVars>>

-----------------------------------------------------------------------------

\* The worker of run n of task t is alive: it sends heartbeats and will report.
Alive(t, n) == n \in executing[t] \cup web[t]

\* A run that waits for nobody: its process crashed, or it was claimed by hand.
Abandoned(t, n) == IsRunning(t, n) /\ ~Alive(t, n)

\* The order after an update of the tasks in S, all in the same moment.
Touched(S) ==
    {s \o SelectSeq(recent, LAMBDA t : t \notin S) : s \in SetToSeqs(S)}

Touch(t) == recent' = <<t>> \o SelectSeq(recent, LAMBDA u : u # t)

\* Bound on the runs of a task: claims by hand, retries, crashes and lapses
\* under a live worker leave one attempt for the scheduler.
AttemptsLeft(t) == Len(runs[t]) < MaxAttempts

\* The first tasks of a list, as many as there is room for.
First(list, capacity) == {list[i] : i \in (1 .. capacity) \cap DOMAIN list}

\* Variant: the stale tasks are not looked up.
QueuedCandidates(order, stat, capacity) ==
    First(SelectSeq(order, LAMBDA t : stat[t] = "queued"), capacity)

\* list_tasks of the queued tasks and, when there is room, of the stale ones,
\* cut off at the free capacity before any of them is looked at.
Candidates(order, stat, capacity) ==
    LET queued == SelectSeq(order, LAMBDA t : stat[t] = "queued")
        stale == SelectSeq(order, LAMBDA t : stat[t] = "stale")
    IN  First(queued \o stale, capacity)

\* Variant: the tasks in work do not count.
PickedUnlimited(order, stat) ==
    {t \in Tasks \ working :
        /\ t \in Candidates(order, stat, MaxConcurrent)
        /\ \A d \in Deps[t] : stat[d] = "done"}

\* The candidates that get a worker: not already working, dependencies done.
Picked(order, stat) ==
    {t \in Tasks \ working :
        /\ t \in Candidates(order, stat, MaxConcurrent - Cardinality(working))
        /\ \A d \in Deps[t] : stat[d] = "done"}

-----------------------------------------------------------------------------

SchedulerInit ==
    /\ Init
    /\ recent = << >>
    /\ working = {}
    /\ starting = [t \in Tasks |-> 0]
    /\ executing = [t \in Tasks |-> {}]
    /\ web = [t \in Tasks |-> {}]
    /\ incidents = 0

\* Variant: nothing goes stale.
NoSweep == UNCHANGED <<vars, recent>>

\* mark_stale_task_runs, which may find nothing.
Sweep ==
    \/ /\ MarkStale(Loop)
       /\ recent' \in Touched({t \in Tasks : status'[t] # status[t]})
    \/ /\ \A t \in Tasks : \A n \in DOMAIN runs[t] : ~Expired(t, n)
       /\ UNCHANGED <<vars, recent>>

\* One pass of _work_loop, between two sleeps.
Tick ==
    /\ Free(Loop)
    /\ Sweep
    /\ LET picked == Picked(recent', status') IN
       /\ working' = working \cup picked
       /\ starting' = [t \in Tasks |-> starting[t] + IF t \in picked THEN 1 ELSE 0]
    /\ UNCHANGED <<executing, web, incidents>>

\* _run_work_task_worker up to the stream: claim, or give up and make room.
WorkerStart(t) ==
    /\ starting[t] > 0
    /\ starting' = [starting EXCEPT ![t] = @ - 1]
    /\ \/ /\ Claim(Loop, t)
          /\ Touch(t)
          /\ executing' = [executing EXCEPT ![t] = @ \cup {Len(runs[t]) + 1}]
          /\ UNCHANGED working
       \/ /\ status[t] \notin Claimable \/ UnfinishedDependencies(t) # {}
          /\ working' = working \ {t}
          /\ UNCHANGED <<vars, recent, executing>>
    /\ UNCHANGED <<web, incidents>>

\* The outcome of a stream reaches the store: complete_task_run with what the
\* agent produced, or fail_task_run when the stream raised.  The store refuses
\* when the run has ended meanwhile.
Report(t, n) ==
    \/ /\ \E evidence \in Evidence :
             \/ \E result \in BOOLEAN : Complete(Loop, t, n, n, result, evidence)
             \/ Fail(Loop, t, n, n, evidence)
       /\ Touch(t)
    \/ /\ ~IsRunning(t, n)
       /\ UNCHANGED <<vars, recent>>

WorkerEnd(t, n) ==
    /\ n \in executing[t]
    /\ Report(t, n)
    /\ executing' = [executing EXCEPT ![t] = @ \ {n}]
    /\ working' = working \ {t}
    /\ UNCHANGED <<starting, web, incidents>>

\* _heartbeat_run, for either kind of worker.
WorkerHeartbeat(t, n) ==
    /\ Alive(t, n)
    /\ Heartbeat(Loop, t, n, n)
    /\ UNCHANGED <<recent, loopVars>>

\* run_work_task_now for the UI, which ignores the capacity.
WebRun(t) ==
    /\ Len(runs[t]) + 1 < MaxAttempts
    /\ Claim(Loop, t)
    /\ Touch(t)
    /\ web' = [web EXCEPT ![t] = @ \cup {Len(runs[t]) + 1}]
    /\ UNCHANGED <<working, starting, executing, incidents>>

WebEnd(t, n) ==
    /\ n \in web[t]
    /\ Report(t, n)
    /\ web' = [web EXCEPT ![t] = @ \ {n}]
    /\ UNCHANGED <<working, starting, executing, incidents>>

\* create_work_task, from the UI or an agent's tool.
WebCreate(t) ==
    /\ CreateTask(Loop, t)
    /\ Touch(t)
    /\ UNCHANGED loopVars

\* claim_work_task: a run without worker and heartbeats.
WebClaim(t) ==
    /\ Len(runs[t]) + 1 < MaxAttempts
    /\ Claim(Loop, t)
    /\ Touch(t)
    /\ UNCHANGED loopVars

\* complete_work_task names any run and need not give a token or evidence.
WebComplete(t, n, token, result) ==
    /\ Complete(Loop, t, n, token, result, {})
    /\ Touch(t)
    /\ UNCHANGED loopVars

\* retry_work_task, in the two statements of TaskRuns.
WebRetryRead(t) ==
    /\ AttemptsLeft(t) /\ incidents < MaxIncidents
    /\ RetryRead(Loop, t)
    /\ incidents' = incidents + 1
    /\ UNCHANGED <<recent, working, starting, executing, web>>

WebRetryWrite ==
    /\ RetryWrite(Loop)
    /\ Touch(retrying[Loop])
    /\ UNCHANGED loopVars

\* A lease runs out: of an abandoned run, or of a live one whose machine slept.
Lapse(t, n) ==
    /\ Abandoned(t, n) \/ AttemptsLeft(t)
    /\ LeaseLapses(t, n)
    /\ UNCHANGED <<recent, loopVars>>

\* The process stops and starts again: what the event loop held is gone, also
\* after stop, which cancels the loop and leaves its workers to die with the
\* process.  A crash between the statements of retry_task is one before them.
Crash ==
    /\ Free(Loop)
    /\ \A t \in Tasks : status[t] = "running" => AttemptsLeft(t)
    /\ <<working, web>> # <<{}, [t \in Tasks |-> {}]>>
    /\ incidents < MaxIncidents
    /\ incidents' = incidents + 1
    /\ working' = {}
    /\ starting' = [t \in Tasks |-> 0]
    /\ executing' = [t \in Tasks |-> {}]
    /\ web' = [t \in Tasks |-> {}]
    /\ UNCHANGED <<vars, recent>>

SchedulerNext ==
    \/ Tick \/ WebRetryWrite \/ Crash
    \/ \E t \in Tasks :
          WorkerStart(t) \/ WebRun(t) \/ WebCreate(t) \/ WebClaim(t) \/ WebRetryRead(t)
    \/ \E t \in Tasks : \E n \in DOMAIN runs[t] :
          \/ WorkerEnd(t, n) \/ WebEnd(t, n) \/ WorkerHeartbeat(t, n) \/ Lapse(t, n)
          \/ \E token \in {NoToken, n}, result \in BOOLEAN : WebComplete(t, n, token, result)

\* The loop ticks and runs what is ready, every stream ends (providers and tools
\* have timeouts), and the lease of a run nobody renews runs out.
Fairness ==
    /\ WF_allVars(Tick)
    /\ WF_allVars(WebRetryWrite)
    /\ \A t \in Tasks :
          /\ WF_allVars(WorkerStart(t))
          /\ \A n \in 1 .. MaxAttempts :
                /\ WF_allVars(n \in DOMAIN runs[t] /\ WorkerEnd(t, n))
                /\ WF_allVars(n \in DOMAIN runs[t] /\ WebEnd(t, n))
                /\ WF_allVars(Abandoned(t, n) /\ Lapse(t, n))

SchedulerSpec == SchedulerInit /\ [][SchedulerNext]_allVars /\ Fairness

-----------------------------------------------------------------------------
(***************************************************************************)
(* Properties.                                                             *)
(***************************************************************************)

\* The order lists every task once; workers execute runs that exist.
SchedulerTypeOK ==
    /\ TypeOK
    /\ recent \in SetToSeqs({t \in Tasks : status[t] # "absent"})
    /\ working \subseteq Tasks
    /\ starting \in [Tasks -> 0 .. MaxConcurrent]
    /\ incidents \in 0 .. MaxIncidents
    /\ \A t \in Tasks : executing[t] \cup web[t] \subseteq DOMAIN runs[t]

\* The configured concurrency bounds the workers that exist, not just the names
\* in _work_running: a task never has two workers of the loop, and a worker
\* that ends frees its own place only.  Nor is a place lost: a name in
\* _work_running has a worker that will give it back.
WithinCapacity ==
    /\ \A t \in Tasks : starting[t] + Cardinality(executing[t]) <= 1
    /\ Cardinality({t \in Tasks : starting[t] > 0 \/ executing[t] # {}}) <= MaxConcurrent
    /\ \A t \in working : starting[t] > 0 \/ executing[t] # {}

\* No task runs for ever: its worker reports, or its lease lapses and the next
\* tick frees it, also after a crash.
RunningEnds ==
    \A t \in Tasks : status[t] = "running" ~> status[t] # "running"

\* A task that waits for nothing but a worker.
Waiting(t) == status[t] \in {"queued", "stale"} /\ UnfinishedDependencies(t) = {}

\* Such a task is eventually taken.  Holds without dependencies.  A task whose
\* dependency is not done fills the capacity in Candidates without ever being
\* picked: with capacity one, nothing older than it, its own dependency
\* included, is taken again.
WaitingIsTaken ==
    \A t \in Tasks : Waiting(t) ~> ~Waiting(t)

=============================================================================

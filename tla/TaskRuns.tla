------------------------------ MODULE TaskRuns ------------------------------
(***************************************************************************)
(* The work-task store of HushClaw: class TaskRunStore in                  *)
(* src/hushclaw/memory/tasks.py.  A task is a row of table tasks, a run is *)
(* one attempt at it and a row of table task_runs; runs are only ever      *)
(* inserted, so the runs of a task form a sequence and a run is named by   *)
(* its task and its attempt number.  The lease token of a run is as unique *)
(* as its identifier and is represented by the attempt number too.         *)
(*                                                                         *)
(* The module gives the store the most general clients: any thread may     *)
(* call any operation at any time.  claim, _finish and mark_stale run      *)
(* under the lock of the connection and inside one transaction, so each is *)
(* one action; retry_task is a SELECT and a later UPDATE without either,   *)
(* so it is two, and another thread may act in between.  SharedConnection  *)
(* looks below this level, at the statements of a transaction.             *)
(*                                                                         *)
(* Time is abstracted to what the store asks of it, whether the expiry of  *)
(* a lease lies in the past: LeaseLapses lets it happen to any running     *)
(* run, heartbeat undoes it.                                               *)
(***************************************************************************)
EXTENDS Naturals, Sequences

CONSTANTS
    Tasks,        \* identifiers of the tasks that may be created
    Deps,         \* Deps[t]: the dependencies t is created with
    Proof,        \* Proof[t]: the completion contract of t
    Evidence,     \* the collections of evidence callers hand in, by kind
    Threads,      \* threads that call the store: the event loop, tool threads
    MaxAttempts,  \* bound on the runs of one task
    NoTask        \* not a task

ProofKinds == {"none", "response", "tool", "artifact"}

ASSUME DepsAssumption == Deps \in [Tasks -> SUBSET Tasks]
ASSUME ProofAssumption == Proof \in [Tasks -> ProofKinds]
ASSUME EvidenceAssumption == Evidence \subseteq SUBSET {"tool", "artifact"}
ASSUME AttemptsAssumption == MaxAttempts \in Nat
ASSUME NoTaskAssumption == NoTask \notin Tasks

VARIABLES
    status,    \* status[t]: column tasks.status, "absent" before create_task
    runs,      \* runs[t]: the rows of task_runs for t, by attempt
    retrying   \* retrying[th]: the task th found retryable and will re-queue

vars == <<status, runs, retrying>>

-----------------------------------------------------------------------------

TaskStatus == {"absent", "queued", "running", "blocked", "stale", "done"}
Claimable == {"queued", "blocked", "stale"}

RunState == {"running", "succeeded", "failed", "stale"}
EvidenceKinds == {"response", "tool", "artifact"}
Run == [state : RunState, lapsed : BOOLEAN, evidence : SUBSET EvidenceKinds]

NewRun == [state |-> "running", lapsed |-> FALSE, evidence |-> {}]

\* The empty string, accepted by complete and fail as "no token given".
NoToken == 0

IsRunning(t, n) == n \in DOMAIN runs[t] /\ runs[t][n].state = "running"

\* Variant: the clause forgets the status of the run.
ExpiredAtAll(t, n) == n \in DOMAIN runs[t] /\ runs[t][n].lapsed

\* mark_stale's WHERE clause.
Expired(t, n) == IsRunning(t, n) /\ runs[t][n].lapsed

\* Variant: a dependency that gave up counts as finished.
PendingDependencies(t) == {d \in Deps[t] : status[d] \in {"queued", "running"}}

UnfinishedDependencies(t) == {d \in Deps[t] : status[d] # "done"}

\* The evidence complete records: the usable items it is given, and one item
\* of kind response when the result is not blank.
Recorded(result, evidence) ==
    evidence \cup (IF result THEN {"response"} ELSE {})

\* evaluate_completion: what the contract of t asks of a completion.
Verified(t, result, recorded) ==
    CASE Proof[t] = "none"     -> TRUE
      [] Proof[t] = "response" -> result
      [] OTHER                 -> Proof[t] \in recorded

-----------------------------------------------------------------------------

Init ==
    /\ status = [t \in Tasks |-> "absent"]
    /\ runs = [t \in Tasks |-> << >>]
    /\ retrying = [th \in Threads |-> NoTask]

\* Thread th is not between the two statements of retry_task.
Free(th) == retrying[th] = NoTask

\* create_task makes the identifier, so a dependency exists before its dependent.
CreateTask(th, t) ==
    /\ Free(th)
    /\ status[t] = "absent"
    /\ \A d \in Deps[t] : status[d] # "absent"
    /\ status' = [status EXCEPT ![t] = "queued"]
    /\ UNCHANGED <<runs, retrying>>

\* Variant: claim does not look at the status.
ClaimUnchecked(th, t) ==
    /\ Free(th)
    /\ status[t] # "absent"
    /\ UnfinishedDependencies(t) = {}
    /\ Len(runs[t]) < MaxAttempts
    /\ status' = [status EXCEPT ![t] = "running"]
    /\ runs' = [runs EXCEPT ![t] = Append(@, NewRun)]
    /\ UNCHANGED retrying

\* Variant: claim does not look at the dependencies.
ClaimUngated(th, t) ==
    /\ Free(th)
    /\ status[t] \in Claimable
    /\ Len(runs[t]) < MaxAttempts
    /\ status' = [status EXCEPT ![t] = "running"]
    /\ runs' = [runs EXCEPT ![t] = Append(@, NewRun)]
    /\ UNCHANGED retrying

Claim(th, t) ==
    /\ Free(th)
    /\ status[t] \in Claimable
    /\ UnfinishedDependencies(t) = {}
    /\ Len(runs[t]) < MaxAttempts
    /\ status' = [status EXCEPT ![t] = "running"]
    /\ runs' = [runs EXCEPT ![t] = Append(@, NewRun)]
    /\ UNCHANGED retrying

Heartbeat(th, t, n, token) ==
    /\ Free(th)
    /\ IsRunning(t, n)
    /\ token = n
    /\ runs' = [runs EXCEPT ![t][n].lapsed = FALSE]
    /\ UNCHANGED <<status, retrying>>

\* Variant: a late call decides although the run has ended.
FinishLate(th, t, n, token, state, taskStatus, evidence) ==
    /\ Free(th)
    /\ n \in DOMAIN runs[t]
    /\ token \in {NoToken, n}
    /\ runs' = [runs EXCEPT ![t][n].state = state, ![t][n].evidence = evidence]
    /\ status' = [status EXCEPT ![t] = taskStatus]
    /\ UNCHANGED retrying

\* _finish: the run must still be running, and a token, if one is given, must
\* be its own; the task takes the status that goes with the outcome whatever
\* status it has.
Finish(th, t, n, token, state, taskStatus, evidence) ==
    /\ Free(th)
    /\ IsRunning(t, n)
    /\ token \in {NoToken, n}
    /\ runs' = [runs EXCEPT ![t][n].state = state, ![t][n].evidence = evidence]
    /\ status' = [status EXCEPT ![t] = taskStatus]
    /\ UNCHANGED retrying

\* Variant: a rejected completion closes the task all the same.
CompleteRejectedAsDone(th, t, n, token, result, evidence) ==
    LET recorded == Recorded(result, evidence) IN
    \/ /\ Verified(t, result, recorded)
       /\ Finish(th, t, n, token, "succeeded", "done", recorded)
    \/ /\ ~Verified(t, result, recorded)
       /\ Finish(th, t, n, token, "failed", "done", recorded)

\* complete reads the run and the contract before it calls _finish, which reads
\* the run again; the contract never changes, so the first look adds nothing.
Complete(th, t, n, token, result, evidence) ==
    LET recorded == Recorded(result, evidence) IN
    \/ /\ Verified(t, result, recorded)
       /\ Finish(th, t, n, token, "succeeded", "done", recorded)
    \/ /\ ~Verified(t, result, recorded)
       /\ Finish(th, t, n, token, "failed", "blocked", recorded)

Fail(th, t, n, token, evidence) ==
    Finish(th, t, n, token, "failed", "blocked", evidence)

\* Variant: the runs go stale, their tasks do not.
MarkRunsStale(th) ==
    /\ Free(th)
    /\ \E t \in Tasks : \E n \in DOMAIN runs[t] : Expired(t, n)
    /\ runs' = [t \in Tasks |->
                 [n \in DOMAIN runs[t] |->
                   IF Expired(t, n)
                   THEN [runs[t][n] EXCEPT !.state = "stale"]
                   ELSE runs[t][n]]]
    /\ UNCHANGED <<status, retrying>>

MarkStale(th) ==
    /\ Free(th)
    /\ \E t \in Tasks : \E n \in DOMAIN runs[t] : Expired(t, n)
    /\ runs' = [t \in Tasks |->
                 [n \in DOMAIN runs[t] |->
                   IF Expired(t, n)
                   THEN [runs[t][n] EXCEPT !.state = "stale"]
                   ELSE runs[t][n]]]
    /\ status' = [t \in Tasks |->
                   IF status[t] = "running" /\ \E n \in DOMAIN runs[t] : Expired(t, n)
                   THEN "stale"
                   ELSE status[t]]
    /\ UNCHANGED retrying

\* retry_task, first statement: any status but running will do, done included.
RetryRead(th, t) ==
    /\ Free(th)
    /\ status[t] \notin {"absent", "running"}
    /\ retrying' = [retrying EXCEPT ![th] = t]
    /\ UNCHANGED <<status, runs>>

\* retry_task, second statement: an UPDATE that does not look at the status.
RetryWrite(th) ==
    /\ ~Free(th)
    /\ status' = [status EXCEPT ![retrying[th]] = "queued"]
    /\ retrying' = [retrying EXCEPT ![th] = NoTask]
    /\ UNCHANGED runs

\* The clock passes the expiry of a lease that nobody renewed in time.
LeaseLapses(t, n) ==
    /\ IsRunning(t, n)
    /\ ~runs[t][n].lapsed
    /\ runs' = [runs EXCEPT ![t][n].lapsed = TRUE]
    /\ UNCHANGED <<status, retrying>>

Next ==
    \/ \E th \in Threads : MarkStale(th) \/ RetryWrite(th)
    \/ \E th \in Threads, t \in Tasks :
          CreateTask(th, t) \/ Claim(th, t) \/ RetryRead(th, t)
    \/ \E th \in Threads, t \in Tasks : \E n \in DOMAIN runs[t] :
          \E token \in {NoToken} \cup DOMAIN runs[t] :
             \/ Heartbeat(th, t, n, token)
             \/ \E evidence \in Evidence :
                   \/ \E result \in BOOLEAN : Complete(th, t, n, token, result, evidence)
                   \/ Fail(th, t, n, token, evidence)
    \/ \E t \in Tasks : \E n \in DOMAIN runs[t] : LeaseLapses(t, n)

Spec == Init /\ [][Next]_vars

-----------------------------------------------------------------------------
(***************************************************************************)
(* Properties.                                                             *)
(***************************************************************************)

\* Every column holds a value of its domain; a thread is retrying a task that
\* exists or none.
TypeOK ==
    /\ status \in [Tasks -> TaskStatus]
    /\ runs \in [Tasks -> Seq(Run)]
    /\ retrying \in [Threads -> Tasks \cup {NoTask}]

\* A task whose status is running has a run to wait for: its latest attempt is
\* running.  Neither claim nor retry_task accepts a running task and mark_stale
\* starts from the runs, so a running task without a running run would stay
\* that way for ever.
RunningHasLease ==
    \A t \in Tasks :
        status[t] = "running" => /\ runs[t] # << >>
                                 /\ runs[t][Len(runs[t])].state = "running"

\* The claim on t is exclusive: at most its latest attempt is running, and it is
\* running exactly when the task says so.
Exclusive(t) ==
    \A n \in DOMAIN runs[t] :
        runs[t][n].state = "running" <=> (n = Len(runs[t]) /\ status[t] = "running")

ExclusiveLease == \A t \in Tasks : Exclusive(t)

\* th re-queues t, which another thread has claimed since th looked at it.
Overtakes(th, t) == RetryWrite(th) /\ retrying[th] = t /\ status[t] = "running"

\* One thing only ends the exclusive claim on a task: a retry_task whose UPDATE
\* comes after the claim of another thread.  No claim, late report, heartbeat or
\* sweep does, from whichever thread and in whatever order.
LostToRetryOnly ==
    [][\A t \in Tasks :
         Exclusive(t) => Exclusive(t)' \/ \E th \in Threads : Overtakes(th, t)]_vars

\* A run succeeded only with the evidence its task's contract asks for, and the
\* evidence is on record.
SucceededWithProof ==
    \A t \in Tasks : \A n \in DOMAIN runs[t] :
        runs[t][n].state = "succeeded" => Proof[t] \in runs[t][n].evidence \cup {"none"}

\* Some run of t has succeeded, now or before a retry reopened t.
Delivered(t) == \E n \in DOMAIN runs[t] : runs[t][n].state = "succeeded"

\* done is never just a status: a run with accepted evidence stands behind it.
DoneIsDelivered ==
    \A t \in Tasks : status[t] = "done" => Delivered(t)

\* Work starts only on delivered dependencies: whenever a task has been
\* attempted, each of its dependencies has a succeeded run, even if a retry has
\* reopened the dependency since.
AttemptsRestOnDelivered ==
    \A t \in Tasks : runs[t] # << >> => \A d \in Deps[t] : Delivered(d)

\* The verdict on a run is final: no call, not even one of a worker that comes
\* back after its lease expired, changes a run that is not running any more.
VerdictFinal ==
    [][\A t \in Tasks : \A n \in DOMAIN runs[t] :
         /\ n \in DOMAIN runs'[t]
         /\ runs[t][n].state # "running" => runs'[t][n] = runs[t][n]]_vars

\* Only the attempt in charge decides, as long as the claim is exclusive: a task
\* becomes done or blocked in the step that ends its latest attempt, and that
\* attempt was running.  A worker that lost its lease cannot overwrite what its
\* successor does.
OnlyHolderDecides ==
    [][\A t \in Tasks :
         Exclusive(t) /\ status'[t] \in {"done", "blocked"} /\ status'[t] # status[t]
           => LET last == Len(runs[t]) IN
              /\ status[t] = "running"
              /\ runs[t][last].state = "running"
              /\ runs'[t][last].state # "running"]_vars

\* retry_task refuses a running task: work that holds a lease is never put back
\* in the queue.  What another thread claims between the two statements of
\* retry_task breaks this.
RunningNeverRequeued ==
    [][\A t \in Tasks : status[t] = "running" => status'[t] # "queued"]_vars

\* A finished task stays finished until somebody asks for a retry: nothing but
\* re-queueing takes a task without a running attempt out of done.
DoneOnlyReopened ==
    [][\A t \in Tasks :
         Exclusive(t) /\ status[t] = "done" => status'[t] \in {"done", "queued"}]_vars

=============================================================================

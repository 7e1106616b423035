--------------------------- MODULE TaskRunsProofs ---------------------------
(***************************************************************************)
(* Proofs about TaskRuns for every set of tasks, every dependency          *)
(* relation, every assignment of contracts and every number of attempts.   *)
(*                                                                         *)
(* The first part reads the actions as effects on single rows.  The second *)
(* part is about what holds in every state.  The third part follows the    *)
(* exclusive claim on a task: one step only ends it, the write of a retry  *)
(* that a claim has overtaken.  With it the fourth part shows that the     *)
(* store implements TaskLease.  The fifth part is about WorkScheduler: all *)
(* of that holds under the scheduler, the UI and crashes, for every step   *)
(* of them is a step of TaskRuns or invisible to it; since the event loop  *)
(* is the only caller there, no claim is ever lost to a retry; and the     *)
(* workers stay within the configured capacity.                            *)
(***************************************************************************)
EXTENDS TaskRunsRefinement, WorkScheduler, SequenceTheorems, FiniteSetTheorems, TLAPS

-----------------------------------------------------------------------------
(***************************************************************************)
(* Effects on rows.                                                        *)
(***************************************************************************)

\* UPDATE task_runs of one row: row n of task t becomes r.
RowWritten(t, n, r) ==
    /\ runs' \in [Tasks -> Seq(Run)]
    /\ \A u \in Tasks :
          /\ DOMAIN runs'[u] = DOMAIN runs[u]
          /\ Len(runs'[u]) = Len(runs[u])
          /\ \A m \in DOMAIN runs[u] :
                runs'[u][m] = IF u = t /\ m = n THEN r ELSE runs[u][m]

\* INSERT INTO task_runs: task t gets one more row, a new run.
RowInserted(t) ==
    /\ runs' \in [Tasks -> Seq(Run)]
    /\ \A u \in Tasks \ {t} : runs'[u] = runs[u]
    /\ Len(runs'[t]) = Len(runs[t]) + 1
    /\ DOMAIN runs'[t] = 1 .. Len(runs[t]) + 1
    /\ \A m \in DOMAIN runs[t] : runs'[t][m] = runs[t][m]
    /\ runs'[t][Len(runs[t]) + 1] = NewRun

\* mark_stale's UPDATE of every expired run.
RowsSwept ==
    /\ runs' \in [Tasks -> Seq(Run)]
    /\ \A u \in Tasks :
          /\ DOMAIN runs'[u] = DOMAIN runs[u]
          /\ Len(runs'[u]) = Len(runs[u])
          /\ \A m \in DOMAIN runs[u] :
                runs'[u][m] = IF Expired(u, m)
                              THEN [runs[u][m] EXCEPT !.state = "stale"]
                              ELSE runs[u][m]

\* Rows are where SELECT finds them.
LEMMA ReadRow ==
    ASSUME TypeOK, NEW t \in Tasks
    PROVE  /\ runs[t] \in Seq(Run)
           /\ Len(runs[t]) \in Nat
           /\ DOMAIN runs[t] = 1 .. Len(runs[t])
           /\ runs[t] # << >> => Len(runs[t]) \in DOMAIN runs[t]
           /\ \A n \in DOMAIN runs[t] : runs[t][n] \in Run
  <1>1. runs[t] \in Seq(Run)
    BY DEF TypeOK
  <1>2. Len(runs[t]) \in Nat /\ DOMAIN runs[t] = 1 .. Len(runs[t])
    BY <1>1, LenProperties
  <1>3. runs[t] # << >> => Len(runs[t]) \in DOMAIN runs[t]
    BY <1>1, <1>2, EmptySeq
  <1>4. \A n \in DOMAIN runs[t] : runs[t][n] \in Run
    BY <1>1, <1>2, ElementOfSeq
  <1> QED
    BY <1>1, <1>2, <1>3, <1>4

\* An assignment to one row has the effect RowWritten.
LEMMA WriteRow ==
    ASSUME TypeOK, NEW t \in Tasks, NEW n \in DOMAIN runs[t], NEW r \in Run,
           runs' = [runs EXCEPT ![t] = [runs[t] EXCEPT ![n] = r]]
    PROVE  RowWritten(t, n, r)
  <1> DEFINE s == [runs[t] EXCEPT ![n] = r]
  <1>1. runs[t] \in Seq(Run) /\ n \in 1 .. Len(runs[t]) /\ DOMAIN runs[t] = 1 .. Len(runs[t])
    BY ReadRow
  <1>2. /\ s \in Seq(Run)
        /\ Len(s) = Len(runs[t])
        /\ \A m \in 1 .. Len(runs[t]) : s[m] = IF m = n THEN r ELSE runs[t][m]
    BY <1>1, ExceptSeq
  <1>3. DOMAIN s = DOMAIN runs[t]
    OBVIOUS
  <1> HIDE DEF s
  <1>4. runs' = [runs EXCEPT ![t] = s]
    BY DEF s
  <1> QED
    BY <1>1, <1>2, <1>3, <1>4 DEF RowWritten, TypeOK

\* claim's INSERT has the effect RowInserted.
LEMMA InsertRow ==
    ASSUME TypeOK, NEW t \in Tasks, runs' = [runs EXCEPT ![t] = Append(@, NewRun)]
    PROVE  RowInserted(t)
  <1> DEFINE s == Append(runs[t], NewRun)
  <1>1. runs[t] \in Seq(Run) /\ DOMAIN runs[t] = 1 .. Len(runs[t]) /\ Len(runs[t]) \in Nat
    BY ReadRow
  <1>2. NewRun \in Run
    BY DEF NewRun, Run, RunState, EvidenceKinds
  <1>3. /\ s \in Seq(Run)
        /\ Len(s) = Len(runs[t]) + 1
        /\ \A m \in 1 .. Len(runs[t]) : s[m] = runs[t][m]
        /\ s[Len(runs[t]) + 1] = NewRun
    BY <1>1, <1>2, AppendProperties
  <1>4. DOMAIN s = 1 .. Len(runs[t]) + 1
    BY <1>3, LenProperties
  <1> HIDE DEF s
  <1>5. runs' = [runs EXCEPT ![t] = s]
    BY DEF s
  <1> QED
    BY <1>1, <1>3, <1>4, <1>5 DEF RowInserted, TypeOK

\* mark_stale's UPDATE has the effect RowsSwept.
LEMMA SweepRows ==
    ASSUME TypeOK, NEW th, MarkStale(th)
    PROVE  RowsSwept
  <1> DEFINE swept(u) == [m \in DOMAIN runs[u] |->
                            IF Expired(u, m)
                            THEN [runs[u][m] EXCEPT !.state = "stale"]
                            ELSE runs[u][m]]
  <1>1. runs' = [u \in Tasks |-> swept(u)]
    BY DEF MarkStale
  <1>2. ASSUME NEW u \in Tasks
        PROVE  /\ swept(u) \in Seq(Run)
               /\ DOMAIN swept(u) = DOMAIN runs[u]
               /\ Len(swept(u)) = Len(runs[u])
    <2>1. Len(runs[u]) \in Nat /\ DOMAIN runs[u] = 1 .. Len(runs[u])
      BY ReadRow
    <2>2. ASSUME NEW m \in DOMAIN runs[u]
          PROVE  swept(u)[m] \in Run
      <3>1. runs[u][m] \in Run
        BY ReadRow
      <3>2. [runs[u][m] EXCEPT !.state = "stale"] \in Run
        BY <3>1 DEF Run, RunState
      <3> QED
        BY <3>1, <3>2
    <2>3. swept(u) \in [1 .. Len(runs[u]) -> Run]
      BY <2>1, <2>2
    <2>4. swept(u) \in Seq(Run)
      BY <2>1, <2>3, SeqDef
    <2>5. DOMAIN swept(u) = 1 .. Len(swept(u)) /\ Len(swept(u)) \in Nat
      BY <2>4, LenProperties
    <2> QED
      BY <2>1, <2>4, <2>5
  <1>3. ASSUME NEW u \in Tasks, NEW m \in DOMAIN runs[u]
        PROVE  swept(u)[m] = IF Expired(u, m)
                             THEN [runs[u][m] EXCEPT !.state = "stale"]
                             ELSE runs[u][m]
    OBVIOUS
  <1> HIDE DEF swept
  <1> QED
    BY <1>1, <1>2, <1>3 DEF RowsSwept

\* A heartbeat renews the lease of one row.
LEMMA HeartbeatRow ==
    ASSUME TypeOK, NEW th, NEW t \in Tasks, NEW n \in DOMAIN runs[t], NEW token,
           Heartbeat(th, t, n, token)
    PROVE  /\ [runs[t][n] EXCEPT !.lapsed = FALSE] \in Run
           /\ RowWritten(t, n, [runs[t][n] EXCEPT !.lapsed = FALSE])
  <1>1. runs[t][n] \in Run
    BY ReadRow
  <1>2. [runs[t][n] EXCEPT !.lapsed = FALSE] \in Run
    BY <1>1 DEF Run
  <1>3. runs' = [runs EXCEPT ![t] = [runs[t] EXCEPT ![n] = [runs[t][n] EXCEPT !.lapsed = FALSE]]]
    BY DEF Heartbeat
  <1> QED
    BY <1>2, <1>3, WriteRow

\* The passing of time marks the lease of one row as lapsed.
LEMMA LapseRow ==
    ASSUME TypeOK, NEW t \in Tasks, NEW n \in DOMAIN runs[t], LeaseLapses(t, n)
    PROVE  /\ [runs[t][n] EXCEPT !.lapsed = TRUE] \in Run
           /\ RowWritten(t, n, [runs[t][n] EXCEPT !.lapsed = TRUE])
  <1>1. runs[t][n] \in Run
    BY ReadRow
  <1>2. [runs[t][n] EXCEPT !.lapsed = TRUE] \in Run
    BY <1>1 DEF Run
  <1>3. runs' = [runs EXCEPT ![t] = [runs[t] EXCEPT ![n] = [runs[t][n] EXCEPT !.lapsed = TRUE]]]
    BY DEF LeaseLapses
  <1> QED
    BY <1>2, <1>3, WriteRow

\* _finish gives one running row its outcome and its evidence.
LEMMA FinishRow ==
    ASSUME TypeOK, NEW th, NEW t \in Tasks, NEW n \in DOMAIN runs[t], NEW token,
           NEW state \in RunState, NEW taskStatus, NEW evidence \in SUBSET EvidenceKinds,
           Finish(th, t, n, token, state, taskStatus, evidence)
    PROVE  /\ [runs[t][n] EXCEPT !.state = state, !.evidence = evidence] \in Run
           /\ RowWritten(t, n, [runs[t][n] EXCEPT !.state = state, !.evidence = evidence])
  <1>1. runs[t][n] \in Run
    BY ReadRow
  <1>2. [runs[t][n] EXCEPT !.state = state, !.evidence = evidence] \in Run
    BY <1>1 DEF Run
  <1>3. runs' = [runs EXCEPT ![t] = [runs[t] EXCEPT ![n] =
                    [runs[t][n] EXCEPT !.state = state, !.evidence = evidence]]]
    <2>1. runs' = [runs EXCEPT ![t][n].state = state, ![t][n].evidence = evidence]
      BY DEF Finish
    <2> QED
      BY <2>1 DEF TypeOK
  <1> QED
    BY <1>2, <1>3, WriteRow

-----------------------------------------------------------------------------
(***************************************************************************)
(* Whatever the callers do.                                                *)
(***************************************************************************)

\* The evidence a completion records is of the known kinds.
LEMMA RecordedKinds ==
    ASSUME NEW evidence \in Evidence, NEW result \in BOOLEAN
    PROVE  Recorded(result, evidence) \in SUBSET EvidenceKinds
  BY EvidenceAssumption DEF Recorded, EvidenceKinds

\* complete and fail are both calls of _finish, with evidence of known kinds.
\* complete succeeds only when the contract is met.
LEMMA FinishCases ==
    ASSUME NEW th, NEW t \in Tasks, NEW n, NEW token, NEW evidence \in Evidence,
           \/ \E result \in BOOLEAN : Complete(th, t, n, token, result, evidence)
           \/ Fail(th, t, n, token, evidence)
    PROVE  \E recorded \in SUBSET EvidenceKinds :
              \/ /\ Proof[t] \in recorded \cup {"none"}
                 /\ Finish(th, t, n, token, "succeeded", "done", recorded)
              \/ Finish(th, t, n, token, "failed", "blocked", recorded)
  <1>1. CASE Fail(th, t, n, token, evidence)
    <2>1. evidence \in SUBSET EvidenceKinds
      BY EvidenceAssumption DEF EvidenceKinds
    <2> QED
      BY <1>1, <2>1 DEF Fail
  <1>2. ASSUME NEW result \in BOOLEAN, Complete(th, t, n, token, result, evidence)
        PROVE  \E recorded \in SUBSET EvidenceKinds :
                  \/ /\ Proof[t] \in recorded \cup {"none"}
                     /\ Finish(th, t, n, token, "succeeded", "done", recorded)
                  \/ Finish(th, t, n, token, "failed", "blocked", recorded)
    <2> DEFINE recorded == Recorded(result, evidence)
    <2>1. recorded \in SUBSET EvidenceKinds
      BY RecordedKinds
    <2>2. Verified(t, result, recorded) => Proof[t] \in recorded \cup {"none"}
      BY DEF Verified, Recorded
    <2>3. \/ /\ Verified(t, result, recorded)
             /\ Finish(th, t, n, token, "succeeded", "done", recorded)
          \/ Finish(th, t, n, token, "failed", "blocked", recorded)
      BY <1>2 DEF Complete
    <2> QED
      BY <2>1, <2>2, <2>3
  <1> QED
    BY <1>1, <1>2

\* A heartbeat or the passing of time: a running row stays running.
LeaseTouched(t, n, r) ==
    /\ runs[t][n].state = "running" /\ r.state = "running"
    /\ r \in Run /\ RowWritten(t, n, r)
    /\ UNCHANGED <<status, retrying>>

\* complete or fail by thread th: a running row ends, the task with it.
RunEnded(th, t, n, r) ==
    /\ Free(th)
    /\ runs[t][n].state = "running"
    /\ r \in Run /\ RowWritten(t, n, r)
    /\ \/ /\ r.state = "succeeded" /\ Proof[t] \in r.evidence \cup {"none"}
          /\ status' = [status EXCEPT ![t] = "done"]
       \/ /\ r.state = "failed"
          /\ status' = [status EXCEPT ![t] = "blocked"]
    /\ UNCHANGED retrying

\* mark_stale by thread th.
RunsSwept(th) ==
    /\ Free(th)
    /\ RowsSwept
    /\ status' = [t \in Tasks |->
                   IF status[t] = "running" /\ \E n \in DOMAIN runs[t] : Expired(t, n)
                   THEN "stale"
                   ELSE status[t]]
    /\ UNCHANGED retrying

\* The effect of a step on the rows: what the proofs below go by.
StepEffect ==
    \/ \E th \in Threads, t \in Tasks : CreateTask(th, t) \/ RetryRead(th, t)
    \/ \E th \in Threads : RetryWrite(th) \/ RunsSwept(th)
    \/ \E th \in Threads, t \in Tasks : Claim(th, t) /\ RowInserted(t)
    \/ \E t \in Tasks : \E n \in DOMAIN runs[t] :
          \/ \E r \in Run : LeaseTouched(t, n, r)
          \/ \E th \in Threads, r \in Run : RunEnded(th, t, n, r)

\* _finish is a RunEnded.
LEMMA FinishEffect ==
    ASSUME TypeOK, NEW th, NEW t \in Tasks, NEW n \in DOMAIN runs[t], NEW token,
           NEW evidence \in Evidence,
           \/ \E result \in BOOLEAN : Complete(th, t, n, token, result, evidence)
           \/ Fail(th, t, n, token, evidence)
    PROVE  \E r \in Run : RunEnded(th, t, n, r)
  <1>1. PICK recorded \in SUBSET EvidenceKinds :
              \/ /\ Proof[t] \in recorded \cup {"none"}
                 /\ Finish(th, t, n, token, "succeeded", "done", recorded)
              \/ Finish(th, t, n, token, "failed", "blocked", recorded)
    BY FinishCases
  <1>2. ASSUME NEW state \in {"succeeded", "failed"}, NEW taskStatus,
               Finish(th, t, n, token, state, taskStatus, recorded)
        PROVE  \E r \in Run :
                  /\ r.state = state /\ r.evidence = recorded
                  /\ RowWritten(t, n, r)
    <2> DEFINE r == [runs[t][n] EXCEPT !.state = state, !.evidence = recorded]
    <2>1. state \in RunState
      BY DEF RunState
    <2>2. r \in Run /\ RowWritten(t, n, r)
      BY <1>2, <2>1, FinishRow
    <2>3. runs[t][n] \in Run
      BY ReadRow
    <2>4. r.state = state /\ r.evidence = recorded
      BY <2>3 DEF Run
    <2> QED
      BY <2>2, <2>4
  <1>3. CASE /\ Proof[t] \in recorded \cup {"none"}
             /\ Finish(th, t, n, token, "succeeded", "done", recorded)
    <2>1. PICK r \in Run : r.state = "succeeded" /\ r.evidence = recorded /\ RowWritten(t, n, r)
      BY <1>2, <1>3
    <2> QED
      BY <1>3, <2>1 DEF RunEnded, Finish, IsRunning
  <1>4. CASE Finish(th, t, n, token, "failed", "blocked", recorded)
    <2>1. PICK r \in Run : r.state = "failed" /\ r.evidence = recorded /\ RowWritten(t, n, r)
      BY <1>2, <1>4
    <2> QED
      BY <1>4, <2>1 DEF RunEnded, Finish, IsRunning
  <1> QED
    BY <1>1, <1>3, <1>4

\* Every step of the store has one of the effects.
LEMMA NextEffect == TypeOK /\ Next => StepEffect
  <1> SUFFICES ASSUME TypeOK, Next
               PROVE  StepEffect
    OBVIOUS
  <1>1. ASSUME NEW th \in Threads, NEW t \in Tasks, Claim(th, t)
        PROVE  RowInserted(t)
    BY <1>1, InsertRow DEF Claim
  <1>2. ASSUME NEW th \in Threads, MarkStale(th)
        PROVE  RunsSwept(th)
    BY <1>2, SweepRows DEF MarkStale, RunsSwept
  <1>3. ASSUME NEW t \in Tasks, NEW n \in DOMAIN runs[t], NEW th, NEW token,
               Heartbeat(th, t, n, token)
        PROVE  \E r \in Run : LeaseTouched(t, n, r)
    <2>1. runs[t][n] \in Run /\ runs[t][n].state = "running"
      BY <1>3, ReadRow DEF Heartbeat, IsRunning
    <2>2. [runs[t][n] EXCEPT !.lapsed = FALSE].state = "running"
      BY <2>1 DEF Run
    <2> QED
      BY <1>3, <2>1, <2>2, HeartbeatRow DEF LeaseTouched, Heartbeat
  <1>4. ASSUME NEW t \in Tasks, NEW n \in DOMAIN runs[t], LeaseLapses(t, n)
        PROVE  \E r \in Run : LeaseTouched(t, n, r)
    <2>1. runs[t][n] \in Run /\ runs[t][n].state = "running"
      BY <1>4, ReadRow DEF LeaseLapses, IsRunning
    <2>2. [runs[t][n] EXCEPT !.lapsed = TRUE].state = "running"
      BY <2>1 DEF Run
    <2> QED
      BY <1>4, <2>1, <2>2, LapseRow DEF LeaseTouched, LeaseLapses
  <1> QED
    BY <1>1, <1>2, <1>3, <1>4, FinishEffect DEF Next, StepEffect

-----------------------------------------------------------------------------

\* The initial rows have their types.
LEMMA InitTypeOK == Init => TypeOK
  BY EmptySeq DEF Init, TypeOK, TaskStatus

\* Every operation keeps every row within its column types.
LEMMA StepTypeOK == TypeOK /\ [Next]_vars => TypeOK'
  <1> SUFFICES ASSUME TypeOK, [Next]_vars
               PROVE  TypeOK'
    OBVIOUS
  <1>1. ASSUME NEW th \in Threads, NEW t \in Tasks, CreateTask(th, t)
        PROVE  TypeOK'
    BY <1>1 DEF TypeOK, CreateTask, TaskStatus
  <1>2. ASSUME NEW th \in Threads, NEW t \in Tasks, RetryRead(th, t)
        PROVE  TypeOK'
    BY <1>2 DEF TypeOK, RetryRead
  <1>3. ASSUME NEW th \in Threads, RetryWrite(th)
        PROVE  TypeOK'
    BY <1>3 DEF TypeOK, RetryWrite, Free, TaskStatus
  <1>4. ASSUME NEW th \in Threads, RunsSwept(th)
        PROVE  TypeOK'
    BY <1>4 DEF TypeOK, RunsSwept, RowsSwept, TaskStatus
  <1>5. ASSUME NEW th \in Threads, NEW t \in Tasks, Claim(th, t), RowInserted(t)
        PROVE  TypeOK'
    BY <1>5 DEF TypeOK, Claim, RowInserted, TaskStatus
  <1>6. ASSUME NEW t \in Tasks, NEW n, NEW r, LeaseTouched(t, n, r)
        PROVE  TypeOK'
    BY <1>6 DEF TypeOK, LeaseTouched, RowWritten
  <1>7. ASSUME NEW th, NEW t \in Tasks, NEW n, NEW r, RunEnded(th, t, n, r)
        PROVE  TypeOK'
    BY <1>7 DEF TypeOK, RunEnded, RowWritten, TaskStatus
  <1>8. CASE Next
    BY <1>8, <1>1, <1>2, <1>3, <1>4, <1>5, <1>6, <1>7, NextEffect DEF StepEffect
  <1>9. CASE UNCHANGED vars
    BY <1>9 DEF vars, TypeOK
  <1> QED
    BY <1>8, <1>9

\* Whatever is called, every column of tasks and task_runs keeps to its domain
\* and the rows of a task stay numbered by attempt.
THEOREM TypeCorrect == Spec => []TypeOK
  BY InitTypeOK, StepTypeOK, PTL DEF Spec

-----------------------------------------------------------------------------

\* Every row that exists before a step exists after it, and a row that is not
\* running is untouched by it.
RowsKept ==
    \A t \in Tasks : \A n \in DOMAIN runs[t] :
        /\ n \in DOMAIN runs'[t]
        /\ runs[t][n].state # "running" => runs'[t][n] = runs[t][n]

\* No step of the store removes a row.
LEMMA StepRowsKept == TypeOK /\ [Next]_vars => RowsKept
  <1> SUFFICES ASSUME TypeOK, [Next]_vars
               PROVE  RowsKept
    OBVIOUS
  <1>1. CASE UNCHANGED runs
    BY <1>1 DEF RowsKept
  <1>2. ASSUME NEW th \in Threads, RunsSwept(th)
        PROVE  RowsKept
    BY <1>2 DEF RowsKept, RunsSwept, RowsSwept, Expired, IsRunning
  <1>3. ASSUME NEW t \in Tasks, RowInserted(t)
        PROVE  RowsKept
    BY <1>3, ReadRow DEF RowsKept, RowInserted
  <1>4. ASSUME NEW t \in Tasks, NEW n \in DOMAIN runs[t], NEW r,
               runs[t][n].state = "running", RowWritten(t, n, r)
        PROVE  RowsKept
    BY <1>4 DEF RowsKept, RowWritten
  <1>5. CASE Next
    BY <1>5, <1>1, <1>2, <1>3, <1>4, NextEffect
       DEF StepEffect, CreateTask, RetryRead, RetryWrite, LeaseTouched, RunEnded
  <1> QED
    BY <1>1, <1>5 DEF vars

\* A verdict is never revised: not by a late worker, not by a retry, not by
\* mark_stale.
THEOREM VerdictsAreFinal == Spec => VerdictFinal
  <1>1. TypeOK /\ [Next]_vars =>
          [\A t \in Tasks : \A n \in DOMAIN runs[t] :
             /\ n \in DOMAIN runs'[t]
             /\ runs[t][n].state # "running" => runs'[t][n] = runs[t][n]]_vars
    BY StepRowsKept DEF RowsKept
  <1> QED
    BY <1>1, TypeCorrect, PTL DEF Spec, VerdictFinal

-----------------------------------------------------------------------------

\* A task that was not created has no rows.
AbsentHasNoRuns == \A t \in Tasks : status[t] = "absent" => DOMAIN runs[t] = {}

\* The invariants that hold for any number of threads.
StoreInv ==
    /\ RunningHasLease
    /\ SucceededWithProof
    /\ DoneIsDelivered
    /\ AttemptsRestOnDelivered
    /\ AbsentHasNoRuns

\* A sequence of rows is empty when its length is zero.
LEMMA RowsEmpty ==
    ASSUME NEW s \in Seq(Run)
    PROVE  s = << >> <=> Len(s) = 0
  BY EmptySeq

\* A running task keeps its running latest attempt.
LEMMA StepRunningHasLease ==
    TypeOK /\ RunningHasLease /\ [Next]_vars => RunningHasLease'
  <1> SUFFICES ASSUME TypeOK, RunningHasLease, [Next]_vars,
                      NEW t \in Tasks, status'[t] = "running"
               PROVE  runs'[t] # << >> /\ runs'[t][Len(runs'[t])].state = "running"
    BY DEF RunningHasLease
  <1>1. TypeOK'
    BY StepTypeOK
  <1>2. /\ runs[t] \in Seq(Run) /\ runs'[t] \in Seq(Run)
        /\ Len(runs[t]) \in Nat /\ DOMAIN runs[t] = 1 .. Len(runs[t])
    BY <1>1, ReadRow DEF TypeOK
  <1>3. status[t] = "running" =>
           /\ Len(runs[t]) \in DOMAIN runs[t] /\ Len(runs[t]) # 0
           /\ runs[t][Len(runs[t])].state = "running"
    BY <1>2, ReadRow, RowsEmpty DEF RunningHasLease
  <1>4. CASE UNCHANGED runs /\ status[t] = "running"
    BY <1>4, <1>2, <1>3, RowsEmpty
  <1>5. ASSUME NEW th \in Threads, NEW u \in Tasks, CreateTask(th, u) \/ RetryRead(th, u)
        PROVE  UNCHANGED runs /\ status[t] = "running"
    BY <1>5 DEF CreateTask, RetryRead, TypeOK
  <1>6. ASSUME NEW th \in Threads, RetryWrite(th)
        PROVE  UNCHANGED runs /\ status[t] = "running"
    BY <1>6 DEF RetryWrite, TypeOK
  <1>7. ASSUME NEW th \in Threads, RunsSwept(th)
        PROVE  runs'[t] # << >> /\ runs'[t][Len(runs'[t])].state = "running"
    <2>1. status[t] = "running" /\ \A n \in DOMAIN runs[t] : ~Expired(t, n)
      BY <1>7 DEF RunsSwept
    <2> QED
      BY <1>7, <2>1, <1>2, <1>3, RowsEmpty DEF RunsSwept, RowsSwept
  <1>8. ASSUME NEW th \in Threads, NEW u \in Tasks, Claim(th, u), RowInserted(u)
        PROVE  runs'[t] # << >> /\ runs'[t][Len(runs'[t])].state = "running"
    <2>1. CASE t = u
      BY <1>8, <2>1, <1>2, RowsEmpty DEF RowInserted, NewRun
    <2>2. CASE t # u
      BY <1>8, <2>2, <1>2, <1>3, RowsEmpty DEF Claim, RowInserted, TypeOK
    <2> QED
      BY <2>1, <2>2
  <1>9. ASSUME NEW u \in Tasks, NEW n \in DOMAIN runs[u], NEW r, LeaseTouched(u, n, r)
        PROVE  runs'[t] # << >> /\ runs'[t][Len(runs'[t])].state = "running"
    BY <1>9, <1>2, <1>3, RowsEmpty DEF LeaseTouched, RowWritten
  <1>10. ASSUME NEW th, NEW u \in Tasks, NEW n \in DOMAIN runs[u], NEW r,
                RunEnded(th, u, n, r)
         PROVE  runs'[t] # << >> /\ runs'[t][Len(runs'[t])].state = "running"
    <2>1. t # u /\ status[t] = "running"
      BY <1>10 DEF RunEnded, TypeOK
    <2> QED
      BY <1>10, <2>1, <1>2, <1>3, RowsEmpty DEF RunEnded, RowWritten
  <1>11. CASE Next
    BY <1>11, <1>4, <1>5, <1>6, <1>7, <1>8, <1>9, <1>10, NextEffect DEF StepEffect
  <1>12. CASE UNCHANGED vars
    BY <1>12, <1>4 DEF vars
  <1> QED
    BY <1>11, <1>12

\* A row that becomes succeeded does so with the evidence of its contract.
LEMMA StepSucceededWithProof ==
    TypeOK /\ SucceededWithProof /\ [Next]_vars => SucceededWithProof'
  <1> SUFFICES ASSUME TypeOK, SucceededWithProof, [Next]_vars
               PROVE  SucceededWithProof'
    OBVIOUS
  <1>1. CASE UNCHANGED runs
    BY <1>1 DEF SucceededWithProof
  <1>2. ASSUME NEW th \in Threads, RunsSwept(th)
        PROVE  SucceededWithProof'
    <2>1. \A t \in Tasks : \A n \in DOMAIN runs[t] :
             Expired(t, n) => runs'[t][n].state = "stale"
      BY <1>2, ReadRow DEF RunsSwept, RowsSwept, Run
    <2>2. \A t \in Tasks : \A n \in DOMAIN runs[t] :
             ~Expired(t, n) => runs'[t][n] = runs[t][n]
      BY <1>2 DEF RunsSwept, RowsSwept
    <2>3. \A t \in Tasks : DOMAIN runs'[t] = DOMAIN runs[t]
      BY <1>2 DEF RunsSwept, RowsSwept
    <2> QED
      BY <2>1, <2>2, <2>3 DEF SucceededWithProof
  <1>3. ASSUME NEW u \in Tasks, RowInserted(u)
        PROVE  SucceededWithProof'
    <2>1. NewRun.state # "succeeded"
      BY DEF NewRun
    <2>2. \A n \in DOMAIN runs'[u] :
             \/ n \in DOMAIN runs[u] /\ runs'[u][n] = runs[u][n]
             \/ runs'[u][n] = NewRun
      BY <1>3, ReadRow DEF RowInserted
    <2> QED
      BY <1>3, <2>1, <2>2 DEF RowInserted, SucceededWithProof
  <1>4. ASSUME NEW u \in Tasks, NEW n \in DOMAIN runs[u], NEW r, RowWritten(u, n, r),
               r.state = "succeeded" => Proof[u] \in r.evidence \cup {"none"}
        PROVE  SucceededWithProof'
    BY <1>4 DEF RowWritten, SucceededWithProof
  <1>5. CASE Next
    BY <1>5, <1>1, <1>2, <1>3, <1>4, NextEffect
       DEF StepEffect, CreateTask, RetryRead, RetryWrite, LeaseTouched, RunEnded
  <1> QED
    BY <1>1, <1>5 DEF vars

\* What was delivered stays delivered.
LEMMA DeliveredStable ==
    ASSUME TypeOK, [Next]_vars, NEW t \in Tasks, Delivered(t)
    PROVE  Delivered(t)'
  BY StepRowsKept DEF RowsKept, Delivered

\* A task becomes done only in the step in which a run of it succeeds.
LEMMA StepDoneIsDelivered ==
    TypeOK /\ DoneIsDelivered /\ [Next]_vars => DoneIsDelivered'
  <1> SUFFICES ASSUME TypeOK, DoneIsDelivered, [Next]_vars,
                      NEW t \in Tasks, status'[t] = "done"
               PROVE  Delivered(t)'
    BY DEF DoneIsDelivered, Delivered
  <1>1. CASE status[t] = "done"
    BY <1>1, DeliveredStable DEF DoneIsDelivered
  <1>2. ASSUME NEW u \in Tasks, NEW n \in DOMAIN runs[u], NEW th, NEW r,
               RunEnded(th, u, n, r), status[t] # "done"
        PROVE  Delivered(t)'
    <2>1. t = u /\ r.state = "succeeded"
      BY <1>2 DEF RunEnded, TypeOK
    <2> QED
      BY <1>2, <2>1 DEF RunEnded, RowWritten, Delivered
  <1>3. CASE Next
    <2>1. ASSUME NEW th \in Threads, NEW u \in Tasks,
                 CreateTask(th, u) \/ RetryRead(th, u) \/ Claim(th, u)
          PROVE  status[t] = "done"
      BY <2>1 DEF CreateTask, RetryRead, Claim, TypeOK
    <2>2. ASSUME NEW th \in Threads, RetryWrite(th) \/ RunsSwept(th)
          PROVE  status[t] = "done"
      BY <2>2 DEF RetryWrite, RunsSwept, TypeOK
    <2>3. ASSUME NEW u \in Tasks, NEW n \in DOMAIN runs[u], NEW r, LeaseTouched(u, n, r)
          PROVE  status[t] = "done"
      BY <2>3 DEF LeaseTouched
    <2> QED
      BY <1>3, <1>1, <1>2, <2>1, <2>2, <2>3, NextEffect DEF StepEffect
  <1>4. CASE UNCHANGED vars
    BY <1>4, <1>1 DEF vars
  <1> QED
    BY <1>3, <1>4

\* The first row of a task appears in a claim that found the dependencies done.
LEMMA StepAttemptsRest ==
    TypeOK /\ DoneIsDelivered /\ AttemptsRestOnDelivered /\ [Next]_vars
      => AttemptsRestOnDelivered'
  <1> SUFFICES ASSUME TypeOK, DoneIsDelivered, AttemptsRestOnDelivered, [Next]_vars,
                      NEW t \in Tasks, runs'[t] # << >>, NEW d \in Deps[t]
               PROVE  Delivered(d)'
    BY DEF AttemptsRestOnDelivered, Delivered
  <1>1. d \in Tasks
    BY DepsAssumption
  <1>2. CASE runs[t] # << >>
    BY <1>1, <1>2, DeliveredStable DEF AttemptsRestOnDelivered
  <1>3. ASSUME NEW th \in Threads, Claim(th, t)
        PROVE  Delivered(d)'
    BY <1>1, <1>3, DeliveredStable DEF Claim, UnfinishedDependencies, DoneIsDelivered
  <1>4. CASE UNCHANGED runs[t]
    BY <1>2, <1>4
  <1>5. CASE \A u \in Tasks : Len(runs'[u]) = Len(runs[u])
    <2>1. TypeOK'
      BY StepTypeOK
    <2>2. Len(runs'[t]) # 0
      BY <2>1, RowsEmpty DEF TypeOK
    <2> QED
      BY <1>2, <1>5, <2>2, RowsEmpty DEF TypeOK
  <1>6. CASE Next
    <2>1. ASSUME NEW th \in Threads, NEW u \in Tasks, Claim(th, u), RowInserted(u)
          PROVE  Delivered(d)'
      BY <2>1, <1>3, <1>4 DEF RowInserted
    <2> QED
      BY <1>6, <1>4, <1>5, <2>1, NextEffect
         DEF StepEffect, CreateTask, RetryRead, RetryWrite, RunsSwept, RowsSwept,
             LeaseTouched, RunEnded, RowWritten
  <1> QED
    BY <1>4, <1>6 DEF vars

\* Rows are inserted by claim only, and a task is never absent again.
LEMMA StepAbsent == TypeOK /\ AbsentHasNoRuns /\ [Next]_vars => AbsentHasNoRuns'
  <1> SUFFICES ASSUME TypeOK, AbsentHasNoRuns, [Next]_vars,
                      NEW t \in Tasks, status'[t] = "absent"
               PROVE  DOMAIN runs'[t] = {}
    BY DEF AbsentHasNoRuns
  <1>1. CASE status[t] = "absent" /\ UNCHANGED runs
    BY <1>1 DEF AbsentHasNoRuns
  <1>2. ASSUME NEW th \in Threads, RunsSwept(th)
        PROVE  DOMAIN runs'[t] = {}
    BY <1>2 DEF RunsSwept, RowsSwept, AbsentHasNoRuns
  <1>3. ASSUME NEW th \in Threads, NEW u \in Tasks, Claim(th, u), RowInserted(u)
        PROVE  DOMAIN runs'[t] = {}
    BY <1>3 DEF Claim, RowInserted, AbsentHasNoRuns, TypeOK
  <1>4. ASSUME NEW u \in Tasks, NEW n \in DOMAIN runs[u], NEW r, LeaseTouched(u, n, r)
        PROVE  DOMAIN runs'[t] = {}
    BY <1>4 DEF LeaseTouched, RowWritten, AbsentHasNoRuns
  <1>5. ASSUME NEW u \in Tasks, NEW n \in DOMAIN runs[u], NEW th, NEW r, RunEnded(th, u, n, r)
        PROVE  DOMAIN runs'[t] = {}
    <2>1. status[t] = "absent"
      BY <1>5 DEF RunEnded, TypeOK
    <2> QED
      BY <1>5, <2>1 DEF RunEnded, RowWritten, AbsentHasNoRuns
  <1>6. ASSUME NEW th \in Threads, NEW u \in Tasks, CreateTask(th, u) \/ RetryRead(th, u)
        PROVE  status[t] = "absent" /\ UNCHANGED runs
    BY <1>6 DEF CreateTask, RetryRead, TypeOK
  <1>7. ASSUME NEW th \in Threads, RetryWrite(th)
        PROVE  status[t] = "absent" /\ UNCHANGED runs
    BY <1>7 DEF RetryWrite, TypeOK
  <1>8. CASE Next
    BY <1>8, <1>1, <1>2, <1>3, <1>4, <1>5, <1>6, <1>7, NextEffect DEF StepEffect
  <1> QED
    BY <1>1, <1>8 DEF vars

\* The invariant of the store, whoever calls it.
LEMMA StoreInvariant == Spec => []StoreInv
  <1>1. Init => StoreInv
    BY DEF Init, StoreInv, RunningHasLease, SucceededWithProof, DoneIsDelivered,
           AttemptsRestOnDelivered, AbsentHasNoRuns
  <1>2. TypeOK /\ StoreInv /\ [Next]_vars => StoreInv'
    BY StepRunningHasLease, StepSucceededWithProof, StepDoneIsDelivered, StepAttemptsRest,
       StepAbsent DEF StoreInv
  <1> QED
    BY <1>1, <1>2, TypeCorrect, PTL DEF Spec

\* No task is stuck in running without a run that can end: claim and retry_task
\* refuse a running task, and mark_stale can always free this one.
THEOREM RunningTasksHaveALease == Spec => []RunningHasLease
  BY StoreInvariant, PTL DEF StoreInv

\* No run succeeds without the evidence its task's contract asks for.
THEOREM SuccessIsProven == Spec => []SucceededWithProof
  BY StoreInvariant, PTL DEF StoreInv

\* A done task has a succeeded run, for any number of threads and any race.
THEOREM DoneTasksAreDelivered == Spec => []DoneIsDelivered
  BY StoreInvariant, PTL DEF StoreInv

\* Nothing is ever attempted before its dependencies were delivered once.
THEOREM AttemptsFollowDependencies == Spec => []AttemptsRestOnDelivered
  BY StoreInvariant, PTL DEF StoreInv

-----------------------------------------------------------------------------
(***************************************************************************)
(* The exclusive claim.                                                    *)
(***************************************************************************)

\* No thread re-queues t, which was claimed since the thread looked at it.
NotOvertaken(t) == \A th \in Threads : ~Overtakes(th, t)

\* A step that leaves the status of t and the states of its rows leaves the claim.
LEMMA SameClaim ==
    ASSUME TypeOK, NEW t \in Tasks, status'[t] = status[t], Len(runs'[t]) = Len(runs[t]),
           DOMAIN runs'[t] = DOMAIN runs[t],
           \A n \in DOMAIN runs[t] : runs'[t][n].state = runs[t][n].state
    PROVE  Exclusive(t)' <=> Exclusive(t)
  BY DEF Exclusive

\* Without a running row, and not running itself, a task is claimed by nobody.
LEMMA Unclaimed ==
    ASSUME NEW t \in Tasks, status'[t] # "running",
           \A n \in DOMAIN runs'[t] : runs'[t][n].state # "running"
    PROVE  Exclusive(t)'
  BY DEF Exclusive

\* Every other step keeps an exclusive claim exclusive: the status of a task and
\* the state of its latest run move together.
LEMMA StepExclusive ==
    ASSUME TypeOK, [Next]_vars, NEW t \in Tasks, Exclusive(t), NotOvertaken(t)
    PROVE  Exclusive(t)'
  <1>1. CASE UNCHANGED <<status, runs>>
    BY <1>1 DEF Exclusive
  <1>2. ASSUME NEW th \in Threads, NEW u \in Tasks, CreateTask(th, u)
        PROVE  Exclusive(t)'
    BY <1>2 DEF CreateTask, TypeOK, Exclusive
  <1>3. ASSUME NEW th \in Threads, RetryWrite(th)
        PROVE  Exclusive(t)'
    <2>1. CASE retrying[th] = t
      <3>1. status[t] # "running"
        BY <1>3, <2>1 DEF NotOvertaken, Overtakes
      <3>2. status'[t] = "queued" /\ UNCHANGED runs
        BY <1>3, <2>1 DEF RetryWrite, TypeOK
      <3> QED
        BY <3>1, <3>2 DEF Exclusive
    <2>2. CASE retrying[th] # t
      BY <1>3, <2>2 DEF RetryWrite, TypeOK, Exclusive
    <2> QED
      BY <2>1, <2>2
  <1>4. ASSUME NEW th \in Threads, RunsSwept(th)
        PROVE  Exclusive(t)'
    <2>1. CASE \A n \in DOMAIN runs[t] : ~Expired(t, n)
      BY <1>4, <2>1, SameClaim DEF RunsSwept, RowsSwept
    <2>2. ASSUME NEW m \in DOMAIN runs[t], Expired(t, m)
          PROVE  Exclusive(t)'
      <3>1. m = Len(runs[t]) /\ status[t] = "running"
        BY <2>2 DEF Expired, IsRunning, Exclusive
      <3>2. status'[t] # "running"
        BY <1>4, <2>2, <3>1 DEF RunsSwept
      <3>3. runs'[t][m].state = "stale"
        BY <1>4, <2>2, ReadRow DEF RunsSwept, RowsSwept, Run
      <3>4. \A n \in DOMAIN runs[t] : n # m => runs'[t][n].state # "running"
        BY <1>4, <3>1, ReadRow DEF RunsSwept, RowsSwept, Exclusive, Expired, IsRunning
      <3> QED
        BY <1>4, <3>2, <3>3, <3>4, Unclaimed DEF RunsSwept, RowsSwept
    <2> QED
      BY <2>1, <2>2
  <1>5. ASSUME NEW th \in Threads, NEW u \in Tasks, Claim(th, u), RowInserted(u)
        PROVE  Exclusive(t)'
    <2>1. CASE t # u
      BY <1>5, <2>1 DEF Claim, RowInserted, Exclusive, TypeOK
    <2>2. CASE t = u
      <3>1. status'[t] = "running" /\ status[t] # "running"
        BY <1>5, <2>2 DEF Claim, Claimable, TypeOK
      <3>2. Len(runs[t]) \in Nat /\ DOMAIN runs[t] = 1 .. Len(runs[t])
        BY ReadRow
      <3>3. \A m \in DOMAIN runs[t] : runs'[t][m].state # "running"
        BY <1>5, <2>2, <3>1 DEF RowInserted, Exclusive
      <3>4. runs'[t][Len(runs[t]) + 1].state = "running"
        BY <1>5, <2>2 DEF RowInserted, NewRun
      <3> QED
        BY <1>5, <2>2, <3>1, <3>2, <3>3, <3>4 DEF RowInserted, Exclusive
    <2> QED
      BY <2>1, <2>2
  <1>6. ASSUME NEW u \in Tasks, NEW m \in DOMAIN runs[u], NEW r, LeaseTouched(u, m, r)
        PROVE  Exclusive(t)'
    BY <1>6 DEF LeaseTouched, RowWritten, Exclusive
  <1>7. ASSUME NEW th, NEW u \in Tasks, NEW m \in DOMAIN runs[u], NEW r, RunEnded(th, u, m, r)
        PROVE  Exclusive(t)'
    <2>1. CASE t # u
      BY <1>7, <2>1 DEF RunEnded, RowWritten, Exclusive, TypeOK
    <2>2. CASE t = u
      <3>1. m = Len(runs[u]) /\ status[u] = "running"
        BY <1>7, <2>2 DEF RunEnded, Exclusive
      <3>2. status'[u] # "running" /\ r.state # "running" /\ RowWritten(u, m, r)
        BY <1>7 DEF RunEnded, TypeOK
      <3>3. \A n \in DOMAIN runs'[u] : runs'[u][n].state # "running"
        BY <2>2, <3>1, <3>2 DEF RowWritten, Exclusive
      <3> QED
        BY <2>2, <3>2, <3>3, Unclaimed
    <2> QED
      BY <2>1, <2>2
  <1>8. CASE Next
    BY <1>8, <1>1, <1>2, <1>3, <1>4, <1>5, <1>6, <1>7, NextEffect DEF StepEffect, RetryRead
  <1> QED
    BY <1>1, <1>8 DEF vars

\* Whoever calls the store, one step alone ends the exclusive claim on a task: the
\* UPDATE of a retry_task that a claim has overtaken.
THEOREM LeasesAreLostToRetriesOnly == Spec => LostToRetryOnly
  <1>1. TypeOK /\ [Next]_vars =>
          [\A t \in Tasks :
             Exclusive(t) => Exclusive(t)' \/ \E th \in Threads : Overtakes(th, t)]_vars
    BY StepExclusive DEF NotOvertaken
  <1> QED
    BY <1>1, TypeCorrect, PTL DEF Spec, LostToRetryOnly

\* When t is decided, what is decided is its latest attempt, which was running.
HolderDecided(t) ==
    status'[t] \in {"done", "blocked"} /\ status'[t] # status[t]
      => LET last == Len(runs[t]) IN
         /\ status[t] = "running"
         /\ runs[t][last].state = "running"
         /\ runs'[t][last].state # "running"

\* The step in which a task becomes done or blocked ends the attempt in charge.
LEMMA StepOnlyHolderDecides ==
    ASSUME TypeOK, [Next]_vars, NEW t \in Tasks, Exclusive(t)
    PROVE  HolderDecided(t)
  <1> SUFFICES ASSUME status'[t] \in {"done", "blocked"}, status'[t] # status[t]
               PROVE  /\ status[t] = "running"
                      /\ runs[t][Len(runs[t])].state = "running"
                      /\ runs'[t][Len(runs[t])].state # "running"
    BY DEF HolderDecided
  <1>2. ASSUME NEW u \in Tasks, NEW m \in DOMAIN runs[u], NEW th, NEW r, RunEnded(th, u, m, r)
        PROVE  /\ status[t] = "running"
               /\ runs[t][Len(runs[t])].state = "running"
               /\ runs'[t][Len(runs[t])].state # "running"
    <2>1. t = u
      BY <1>2 DEF RunEnded, TypeOK
    <2>2. m = Len(runs[u]) /\ status[u] = "running"
      BY <1>2, <2>1 DEF RunEnded, Exclusive
    <2> QED
      BY <1>2, <2>1, <2>2 DEF RunEnded, RowWritten
  <1>3. ASSUME NEW th \in Threads, NEW u \in Tasks,
               CreateTask(th, u) \/ RetryRead(th, u) \/ Claim(th, u)
        PROVE  FALSE
    BY <1>3 DEF CreateTask, RetryRead, Claim, TypeOK
  <1>4. ASSUME NEW th \in Threads, RetryWrite(th) \/ RunsSwept(th)
        PROVE  FALSE
    BY <1>4 DEF RetryWrite, RunsSwept, TypeOK
  <1>5. CASE UNCHANGED status
    BY <1>5
  <1> QED
    BY <1>2, <1>3, <1>4, <1>5, NextEffect DEF StepEffect, LeaseTouched, vars

\* While the claim is exclusive, a worker whose lease expired cannot decide the
\* task any more, not even without a token, from whichever thread.
THEOREM OnlyTheHolderDecides == Spec => OnlyHolderDecides
  <1>1. TypeOK /\ [Next]_vars =>
          [\A t \in Tasks :
             Exclusive(t) /\ status'[t] \in {"done", "blocked"} /\ status'[t] # status[t]
               => LET last == Len(runs[t]) IN
                  /\ status[t] = "running"
                  /\ runs[t][last].state = "running"
                  /\ runs'[t][last].state # "running"]_vars
    BY StepOnlyHolderDecides DEF HolderDecided
  <1> QED
    BY <1>1, TypeCorrect, PTL DEF Spec, OnlyHolderDecides

\* Nothing but a retry takes a task without a running attempt out of done.
LEMMA StepDone ==
    ASSUME TypeOK, [Next]_vars, NEW t \in Tasks, Exclusive(t), status[t] = "done"
    PROVE  status'[t] \in {"done", "queued"}
  <1>1. ASSUME NEW th \in Threads, NEW u \in Tasks,
               CreateTask(th, u) \/ RetryRead(th, u) \/ Claim(th, u)
        PROVE  status'[t] = "done"
    BY <1>1 DEF CreateTask, RetryRead, Claim, Claimable, TypeOK
  <1>2. ASSUME NEW th \in Threads, RetryWrite(th)
        PROVE  status'[t] \in {"done", "queued"}
    BY <1>2 DEF RetryWrite, TypeOK
  <1>3. ASSUME NEW th \in Threads, RunsSwept(th)
        PROVE  status'[t] = "done"
    BY <1>3 DEF RunsSwept
  <1>4. ASSUME NEW u \in Tasks, NEW m \in DOMAIN runs[u], NEW th, NEW r, RunEnded(th, u, m, r)
        PROVE  status'[t] = "done"
    <2>1. t # u
      BY <1>4 DEF RunEnded, Exclusive
    <2> QED
      BY <1>4, <2>1 DEF RunEnded, TypeOK
  <1>5. CASE UNCHANGED status
    BY <1>5
  <1> QED
    BY <1>1, <1>2, <1>3, <1>4, <1>5, NextEffect DEF StepEffect, LeaseTouched, vars

\* A done task of which no run is left stays done until somebody asks for a retry.
THEOREM DoneIsOnlyReopened == Spec => DoneOnlyReopened
  <1>1. TypeOK /\ [Next]_vars =>
          [\A t \in Tasks :
             Exclusive(t) /\ status[t] = "done" => status'[t] \in {"done", "queued"}]_vars
    BY StepDone
  <1> QED
    BY <1>1, TypeCorrect, PTL DEF Spec, DoneOnlyReopened

-----------------------------------------------------------------------------
(***************************************************************************)
(* The store implements TaskLease.                                         *)
(***************************************************************************)

\* The phases of the states, one by one.
LEMMA Phases ==
    /\ PhaseOf["absent"] = "absent"
    /\ PhaseOf["queued"] = "free"
    /\ PhaseOf["blocked"] = "free"
    /\ PhaseOf["stale"] = "free"
    /\ PhaseOf["running"] = "held"
    /\ PhaseOf["done"] = "done"
  BY DEF PhaseOf, TaskStatus

\* A step that changes neither the number of rows nor which tasks have a
\* succeeded row keeps what is delivered and the fencing numbers.
DeliveriesKept == \A t \in Tasks : Delivered(t)' <=> Delivered(t)

\* The tasks keep their numbers of runs.
FencesKept == \A t \in Tasks : Len(runs'[t]) = Len(runs[t])

\* What is kept row by row is kept as a function.
LEMMA KeptMapped ==
    /\ DeliveriesKept => UNCHANGED [t \in Tasks |-> Delivered(t)]
    /\ FencesKept => UNCHANGED [t \in Tasks |-> Len(runs[t])]
  <1>1. ASSUME DeliveriesKept
        PROVE  [t \in Tasks |-> Delivered(t)]' = [t \in Tasks |-> Delivered(t)]
    <2>1. \A t \in Tasks : Delivered(t)' = Delivered(t)
      BY <1>1, Zenon DEF DeliveriesKept, Delivered
    <2> QED
      BY <2>1, Zenon
  <1>2. ASSUME FencesKept
        PROVE  [t \in Tasks |-> Len(runs[t])]' = [t \in Tasks |-> Len(runs[t])]
    BY <1>2 DEF FencesKept
  <1> QED
    BY <1>1, <1>2

\* Writing a row that does not succeed over a running one delivers nothing and
\* loses nothing.
LEMMA WriteKeeps ==
    ASSUME NEW u \in Tasks, NEW n \in DOMAIN runs[u], NEW r, RowWritten(u, n, r),
           runs[u][n].state = "running", r.state # "succeeded"
    PROVE  DeliveriesKept /\ FencesKept
  BY DEF DeliveriesKept, FencesKept, Delivered, RowWritten

\* A sweep for lost leases delivers nothing and loses nothing.
LEMMA SweepKeeps ==
    ASSUME TypeOK, RowsSwept
    PROVE  DeliveriesKept /\ FencesKept
  <1>1. \A t \in Tasks : \A n \in DOMAIN runs[t] :
           (runs'[t][n].state = "succeeded") <=> (runs[t][n].state = "succeeded")
    <2> TAKE t \in Tasks
    <2> TAKE n \in DOMAIN runs[t]
    <2>1. CASE Expired(t, n)
      BY <2>1, ReadRow DEF RowsSwept, Expired, IsRunning, Run
    <2>2. CASE ~Expired(t, n)
      BY <2>2 DEF RowsSwept
    <2> QED
      BY <2>1, <2>2
  <1> QED
    BY <1>1 DEF RowsSwept, DeliveriesKept, FencesKept, Delivered

\* A step that changes no row delivers nothing and loses nothing.
LEMMA SameRowsKeep ==
    ASSUME UNCHANGED runs
    PROVE  DeliveriesKept /\ FencesKept
  BY DEF DeliveriesKept, FencesKept, Delivered

-----------------------------------------------------------------------------

\* What is known of the store in every state.
KnownInv == TypeOK /\ StoreInv

\* A task whose row and rows a step leaves alone stays in its phase.
LEMMA SeenKept ==
    ASSUME TypeOK, NEW t \in Tasks, status'[t] = status[t], Len(runs'[t]) = Len(runs[t]),
           DOMAIN runs'[t] = DOMAIN runs[t],
           \A n \in DOMAIN runs[t] : runs'[t][n].state = runs[t][n].state
    PROVE  PhaseSeen(t)' = PhaseSeen(t)
  BY SameClaim DEF PhaseSeen

\* When the claim is not exclusive some run has no claim.
LEMMA VoidHasRun ==
    ASSUME KnownInv, NEW t \in Tasks, ~Exclusive(t)
    PROVE  \E n \in DOMAIN runs[t] : /\ runs[t][n].state = "running"
                                    /\ (n # Len(runs[t]) \/ status[t] # "running")
  BY DEF KnownInv, StoreInv, RunningHasLease, Exclusive

\* Without an exclusive claim a task is in phase void, with one in that of its status.
LEMMA SeenPhases ==
    ASSUME NEW t \in Tasks
    PROVE  /\ ~Exclusive(t) => PhaseSeen(t) = "void"
           /\ Exclusive(t) => PhaseSeen(t) = PhaseOf[status[t]]
           /\ ~Exclusive(t)' => PhaseSeen(t)' = "void"
           /\ Exclusive(t)' => PhaseSeen(t)' = PhaseOf[status'[t]]
  BY DEF PhaseSeen

\* Before create_task nothing is offered, granted or delivered.
LEMMA InitMapped == Init => Lease!LeaseInit
  <1> SUFFICES ASSUME Init
               PROVE  Lease!LeaseInit
    OBVIOUS
  <1>1. \A t \in Tasks : status[t] = "absent" /\ Len(runs[t]) = 0
    BY DEF Init
  <1>2. \A t \in Tasks : DOMAIN runs[t] = {}
    <2>1. \A t \in Tasks : runs[t] = << >>
      BY DEF Init
    <2>2. DOMAIN << >> = {}
      OBVIOUS
    <2> QED
      BY <2>1, <2>2
  <1>3. \A t \in Tasks : Exclusive(t) /\ ~Delivered(t)
    BY <1>2 DEF Exclusive, Delivered
  <1>4. \A t \in Tasks : PhaseSeen(t) = "absent"
    BY <1>1, <1>3, Phases DEF PhaseSeen
  <1>5. /\ [t \in Tasks |-> PhaseSeen(t)] = [t \in Tasks |-> "absent"]
        /\ [t \in Tasks |-> Len(runs[t])] = [t \in Tasks |-> 0]
    BY <1>1, <1>4
  <1>6. \A t \in Tasks : Delivered(t) = FALSE
    BY <1>3, Zenon DEF Delivered
  <1>7. [t \in Tasks |-> Delivered(t)] = [t \in Tasks |-> FALSE]
    BY <1>6
  <1> QED
    BY <1>5, <1>7, Zenon DEF Lease!LeaseInit

\* create_task is Offer.
LEMMA CreateMapped ==
    ASSUME KnownInv, NEW th \in Threads, NEW u \in Tasks, CreateTask(th, u)
    PROVE  Lease!Offer(u)
  <1>1. /\ TypeOK /\ status[u] = "absent" /\ DOMAIN runs[u] = {}
        /\ status' = [status EXCEPT ![u] = "queued"] /\ UNCHANGED runs
    BY DEF CreateTask, KnownInv, StoreInv, AbsentHasNoRuns
  <1>2. Exclusive(u) /\ Exclusive(u)'
    BY <1>1 DEF Exclusive
  <1>3. PhaseSeen(u) = "absent" /\ PhaseSeen(u)' = "free"
    BY <1>1, <1>2, Phases, SeenPhases DEF TypeOK
  <1>4. \A t \in Tasks \ {u} : PhaseSeen(t)' = PhaseSeen(t)
    BY <1>1, SeenKept DEF TypeOK
  <1> QED
    BY <1>1, <1>3, <1>4, SameRowsKeep, KeptMapped DEF Lease!Offer

\* The second statement of retry_task is Reopen, makes a held lease void, or
\* changes nothing a lease holder could see.
LEMMA RetryMapped ==
    ASSUME KnownInv, NEW th \in Threads, RetryWrite(th)
    PROVE  \/ \E u \in Tasks : Lease!Offer(u) \/ Lease!Reopen(u) \/ Lease!Void(u)
           \/ UNCHANGED Lease!leaseVars
  <1>0. PICK u \in Tasks : u = retrying[th]
    BY DEF RetryWrite, Free, TypeOK, KnownInv
  <1>1. /\ TypeOK /\ status[u] \in TaskStatus
        /\ status' = [status EXCEPT ![u] = "queued"] /\ status'[u] = "queued"
        /\ UNCHANGED runs
    BY <1>0 DEF RetryWrite, TypeOK, KnownInv
  <1>2. \A t \in Tasks \ {u} : PhaseSeen(t)' = PhaseSeen(t)
    BY <1>1, SeenKept DEF TypeOK
  <1>3. CASE ~Exclusive(u)
    <2>1. ~Exclusive(u)'
      BY <1>1, <1>3, VoidHasRun DEF Exclusive
    <2>2. \A t \in Tasks : PhaseSeen(t)' = PhaseSeen(t)
      BY <1>2, <1>3, <2>1, SeenPhases
    <2> QED
      BY <1>1, <2>2, SameRowsKeep, KeptMapped DEF Lease!leaseVars
  <1>4. CASE Exclusive(u) /\ status[u] = "running"
    <2>1. Len(runs[u]) \in DOMAIN runs[u] /\ runs[u][Len(runs[u])].state = "running"
      BY <1>1, <1>4, ReadRow DEF KnownInv, StoreInv, RunningHasLease
    <2>2. ~Exclusive(u)'
      BY <1>1, <2>1 DEF Exclusive
    <2>3. PhaseSeen(u) = "held" /\ PhaseSeen(u)' = "void"
      BY <1>4, <2>2, Phases, SeenPhases
    <2>4. Lease!Void(u)
      BY <1>1, <1>2, <2>3, SameRowsKeep, KeptMapped DEF Lease!Void
    <2> QED
      BY <2>4
  <1>5. CASE Exclusive(u) /\ status[u] # "running"
    <2>1. Exclusive(u)'
      BY <1>1, <1>5 DEF Exclusive
    <2>2. PhaseSeen(u) = PhaseOf[status[u]] /\ PhaseSeen(u)' = "free"
      BY <1>1, <1>5, <2>1, Phases, SeenPhases
    <2>3. CASE status[u] = "done"
      <3>1. Lease!Reopen(u)
        BY <1>1, <1>2, <2>2, <2>3, Phases, SameRowsKeep, KeptMapped DEF Lease!Reopen
      <3> QED
        BY <3>1
    <2>4. CASE status[u] = "absent"
      <3>1. Lease!Offer(u)
        BY <1>1, <1>2, <2>2, <2>4, Phases, SameRowsKeep, KeptMapped DEF Lease!Offer
      <3> QED
        BY <3>1
    <2>5. CASE status[u] \in {"queued", "blocked", "stale"}
      <3>1. \A t \in Tasks : PhaseSeen(t)' = PhaseSeen(t)
        BY <1>2, <2>2, <2>5, Phases
      <3> QED
        BY <1>1, <3>1, SameRowsKeep, KeptMapped DEF Lease!leaseVars
    <2> QED
      BY <1>1, <1>5, <2>3, <2>4, <2>5 DEF TaskStatus
  <1> QED
    BY <1>3, <1>4, <1>5

\* claim is Acquire: the fencing number grows with the new run.
LEMMA ClaimMapped ==
    ASSUME KnownInv, NEW th \in Threads, NEW u \in Tasks, Claim(th, u), RowInserted(u)
    PROVE  Lease!Acquire(u)
  <1>1. /\ TypeOK /\ status[u] \in Claimable
        /\ \A d \in Deps[u] : d \in Tasks /\ status[d] = "done"
        /\ status' = [status EXCEPT ![u] = "running"]
    BY DepsAssumption DEF Claim, UnfinishedDependencies, KnownInv
  <1>2. \A d \in Deps[u] : \/ PhaseSeen(d) = "done"
                           \/ PhaseSeen(d) = "void" /\ Delivered(d)
    BY <1>1, Phases, SeenPhases DEF KnownInv, StoreInv, DoneIsDelivered
  <1>3. DeliveriesKept
    <2>1. NewRun.state # "succeeded"
      BY DEF NewRun
    <2>2. Delivered(u)' <=> Delivered(u)
      <3>1. Len(runs[u]) \in Nat /\ DOMAIN runs[u] = 1 .. Len(runs[u])
        BY <1>1, ReadRow
      <3>2. \A n \in DOMAIN runs'[u] : n \in DOMAIN runs[u] \/ runs'[u][n] = NewRun
        BY <3>1 DEF RowInserted
      <3>3. \A n \in DOMAIN runs[u] : n \in DOMAIN runs'[u] /\ runs'[u][n] = runs[u][n]
        BY <3>1 DEF RowInserted
      <3> QED
        BY <2>1, <3>2, <3>3, Zenon DEF Delivered
    <2>3. \A t \in Tasks \ {u} : Delivered(t)' <=> Delivered(t)
      BY DEF RowInserted, Delivered
    <2> QED
      BY <2>2, <2>3, Zenon DEF DeliveriesKept
  <1>4. [t \in Tasks |-> Len(runs[t])]' =
          [[t \in Tasks |-> Len(runs[t])] EXCEPT ![u] = Len(runs[u]) + 1]
    <2>1. \A t \in Tasks : Len(runs'[t]) = IF t = u THEN Len(runs[u]) + 1 ELSE Len(runs[t])
      BY DEF RowInserted
    <2> QED
      BY <2>1
  <1>5. \A t \in Tasks \ {u} : PhaseSeen(t)' = PhaseSeen(t)
    BY <1>1, SeenKept DEF RowInserted, TypeOK
  <1>6. \/ PhaseSeen(u) = "free" /\ PhaseSeen(u)' = "held"
        \/ PhaseSeen(u) = "void" /\ PhaseSeen(u)' = "void"
    <2>1. CASE Exclusive(u)
      <3>1. NotOvertaken(u)
        BY <1>1 DEF NotOvertaken, Overtakes, Claimable
      <3>2. Exclusive(u)'
        BY <1>1, <2>1, <3>1, StepExclusive DEF Next
      <3> QED
        BY <1>1, <2>1, <3>2, Phases, SeenPhases DEF Claimable, TypeOK
    <2>2. CASE ~Exclusive(u)
      <3>1. PICK n \in DOMAIN runs[u] : runs[u][n].state = "running"
        BY <2>2, VoidHasRun
      <3>2. n \in DOMAIN runs'[u] /\ runs'[u][n].state = "running" /\ n # Len(runs'[u])
        BY <1>1, <3>1, ReadRow DEF RowInserted
      <3>3. ~Exclusive(u)'
        BY <3>2 DEF Exclusive
      <3> QED
        BY <2>2, <3>3, SeenPhases
    <2> QED
      BY <2>1, <2>2
  <1>7. [t \in Tasks |-> PhaseSeen(t)]' =
          [[t \in Tasks |-> PhaseSeen(t)] EXCEPT ![u] = IF @ = "free" THEN "held" ELSE @]
    BY <1>5, <1>6
  <1> QED
    BY <1>1, <1>2, <1>3, <1>4, <1>6, <1>7, KeptMapped DEF Lease!Acquire, Lease!Satisfied

\* complete and fail are Deliver and Release; the end of a run without a claim may
\* change nothing a lease holder could see.
LEMMA EndMapped ==
    ASSUME KnownInv, NEW th \in Threads, NEW u \in Tasks, NEW n \in DOMAIN runs[u], NEW r,
           RunEnded(th, u, n, r)
    PROVE  \/ Lease!Deliver(u)
           \/ {u} \in SUBSET Lease!Lent /\ Lease!Release({u}, {})
           \/ UNCHANGED Lease!leaseVars
  <1>1. /\ TypeOK
        /\ runs[u][n].state = "running" /\ r.state # "running"
        /\ RowWritten(u, n, r)
        /\ \A t \in Tasks \ {u} : status'[t] = status[t]
        /\ status'[u] \in {"done", "blocked"}
    BY DEF KnownInv, RunEnded, TypeOK
  <1>2. \A t \in Tasks \ {u} : PhaseSeen(t)' = PhaseSeen(t)
    BY <1>1, SeenKept DEF RowWritten
  <1>3. \/ PhaseSeen(u) = "held" /\ PhaseSeen(u)' = PhaseOf[status'[u]]
        \/ PhaseSeen(u) = "void" /\ PhaseSeen(u)' \in {"void", PhaseOf[status'[u]]}
    <2>1. CASE Exclusive(u)
      <3>1. n = Len(runs[u]) /\ status[u] = "running"
        BY <1>1, <2>1 DEF Exclusive
      <3>2. \A m \in DOMAIN runs'[u] : runs'[u][m].state # "running"
        BY <1>1, <2>1, <3>1 DEF RowWritten, Exclusive
      <3>3. Exclusive(u)'
        BY <1>1, <3>2, Unclaimed
      <3> QED
        BY <2>1, <3>1, <3>3, Phases, SeenPhases
    <2>2. CASE ~Exclusive(u)
      BY <2>2, SeenPhases
    <2> QED
      BY <2>1, <2>2
  <1>4. CASE r.state = "succeeded" /\ status' = [status EXCEPT ![u] = "done"]
    <2>1. \A t \in Tasks : Delivered(t)' = IF t = u THEN TRUE ELSE Delivered(t)
      <3>1. Delivered(u)'
        BY <1>1, <1>4 DEF RowWritten, Delivered
      <3>2. \A t \in Tasks \ {u} : Delivered(t)' <=> Delivered(t)
        BY <1>1 DEF RowWritten, Delivered
      <3> QED
        BY <3>1, <3>2, Zenon DEF Delivered
    <2>2. [t \in Tasks |-> Delivered(t)]' = [[t \in Tasks |-> Delivered(t)] EXCEPT ![u] = TRUE]
      BY <2>1, Zenon
    <2>3. UNCHANGED [t \in Tasks |-> Len(runs[t])]
      BY <1>1, KeptMapped DEF FencesKept, RowWritten
    <2>4. status'[u] = "done"
      BY <1>1, <1>4 DEF TypeOK
    <2>5. CASE PhaseSeen(u)' = "done"
      <3>1. [t \in Tasks |-> PhaseSeen(t)]' =
              [[t \in Tasks |-> PhaseSeen(t)] EXCEPT ![u] = "done"]
        BY <1>2, <2>5
      <3>2. PhaseSeen(u) \in {"held", "void"}
        BY <1>3
      <3> QED
        BY <2>2, <2>3, <3>1, <3>2 DEF Lease!Deliver
    <2>6. CASE PhaseSeen(u) = "void" /\ PhaseSeen(u)' = "void"
      <3>1. UNCHANGED [t \in Tasks |-> PhaseSeen(t)]
        BY <1>2, <2>6
      <3> QED
        BY <2>2, <2>3, <2>6, <3>1 DEF Lease!Deliver
    <2> QED
      BY <1>3, <2>4, <2>5, <2>6, Phases
  <1>5. CASE r.state = "failed" /\ status' = [status EXCEPT ![u] = "blocked"]
    <2>1. DeliveriesKept /\ FencesKept
      BY <1>1, <1>5, WriteKeeps
    <2>2. status'[u] = "blocked"
      BY <1>1, <1>5 DEF TypeOK
    <2>3. CASE PhaseSeen(u)' = "free"
      <3>1. \A t \in Tasks : PhaseSeen(t)' = IF t \in {u} THEN "free" ELSE PhaseSeen(t)
        BY <1>2, <2>3
      <3>2. PhaseSeen(u) \in {"held", "void"}
        BY <1>3
      <3>3. {u} \in SUBSET Lease!Lent
        BY <3>2 DEF Lease!Lent
      <3>4. Lease!Release({u}, {})
        BY <2>1, <3>1, KeptMapped DEF Lease!Release
      <3> QED
        BY <3>3, <3>4
    <2>4. CASE PhaseSeen(u) = "void" /\ PhaseSeen(u)' = "void"
      <3>1. \A t \in Tasks : PhaseSeen(t)' = PhaseSeen(t)
        BY <1>2, <2>4
      <3> QED
        BY <2>1, <3>1, KeptMapped DEF Lease!leaseVars
    <2> QED
      BY <1>3, <2>2, <2>3, <2>4, Phases
  <1> QED
    BY <1>4, <1>5 DEF RunEnded

\* What mark_stale makes of a task: nothing, free, or of a void lease done.
LEMMA SweptPhase ==
    ASSUME KnownInv, NEW th \in Threads, RunsSwept(th), NEW t \in Tasks
    PROVE  \/ PhaseSeen(t)' = PhaseSeen(t)
           \/ PhaseSeen(t) \in {"held", "void"} /\ PhaseSeen(t)' = "free"
           \/ PhaseSeen(t) = "void" /\ PhaseSeen(t)' = "done" /\ Delivered(t)
  <1>1. TypeOK /\ RowsSwept
    BY DEF KnownInv, RunsSwept
  <1>2. CASE \A n \in DOMAIN runs[t] : ~Expired(t, n)
    BY <1>1, <1>2, SeenKept DEF RunsSwept, RowsSwept
  <1>3. ASSUME NEW m \in DOMAIN runs[t], Expired(t, m)
        PROVE  \/ PhaseSeen(t)' = PhaseSeen(t)
               \/ PhaseSeen(t) \in {"held", "void"} /\ PhaseSeen(t)' = "free"
               \/ PhaseSeen(t) = "void" /\ PhaseSeen(t)' = "done" /\ Delivered(t)
    <2>1. /\ status[t] \in TaskStatus \ {"absent"}
          /\ status'[t] = IF status[t] = "running" THEN "stale" ELSE status[t]
      BY <1>1, <1>3 DEF RunsSwept, KnownInv, StoreInv, AbsentHasNoRuns, TypeOK
    <2>2. CASE Exclusive(t)
      <3>1. status[t] = "running"
        BY <1>3, <2>2 DEF Expired, IsRunning, Exclusive
      <3>2. NotOvertaken(t)
        BY <2>1, <3>1 DEF NotOvertaken, Overtakes, RetryWrite, RunsSwept, Free
      <3>3. Exclusive(t)'
        <4>1. m = Len(runs[t])
          BY <1>3, <2>2 DEF Expired, IsRunning, Exclusive
        <4>2. runs'[t][m].state = "stale"
          BY <1>1, <1>3, ReadRow DEF RowsSwept, Run
        <4>3. \A n \in DOMAIN runs[t] : n # m => runs'[t][n].state # "running"
          BY <1>1, <2>2, <4>1, ReadRow DEF RowsSwept, Exclusive, Expired, IsRunning
        <4> QED
          BY <1>1, <2>1, <3>1, <4>2, <4>3, Unclaimed DEF RowsSwept
      <3> QED
        BY <2>1, <2>2, <3>1, <3>3, Phases, SeenPhases
    <2>3. CASE ~Exclusive(t) /\ ~Exclusive(t)'
      BY <2>3, SeenPhases
    <2>4. CASE ~Exclusive(t) /\ Exclusive(t)'
      <3>1. PhaseSeen(t) = "void" /\ PhaseSeen(t)' = PhaseOf[status'[t]]
        BY <2>4, SeenPhases
      <3>2. CASE status[t] = "done"
        BY <2>1, <3>1, <3>2, Phases DEF KnownInv, StoreInv, DoneIsDelivered
      <3>3. CASE status[t] # "done"
        BY <2>1, <3>1, <3>3, Phases DEF TaskStatus
      <3> QED
        BY <3>2, <3>3
    <2> QED
      BY <2>2, <2>3, <2>4
  <1> QED
    BY <1>2, <1>3

\* mark_stale is a Release.
LEMMA SweepMapped ==
    ASSUME KnownInv, NEW th \in Threads, RunsSwept(th)
    PROVE  \E S \in SUBSET Lease!Lent : \E D \in SUBSET (Lease!Lent \ S) : Lease!Release(S, D)
  <1>1. PICK S : S = {t \in Tasks : PhaseSeen(t) \in {"held", "void"} /\ PhaseSeen(t)' = "free"}
    OBVIOUS
  <1>2. PICK D : D = {t \in Tasks : PhaseSeen(t) = "void" /\ PhaseSeen(t)' = "done" /\ Delivered(t)}
    OBVIOUS
  <1>3. DeliveriesKept /\ FencesKept
    BY SweepKeeps DEF RunsSwept, KnownInv
  <1>4. \A t \in Tasks : PhaseSeen(t)' =
            IF t \in S THEN "free" ELSE IF t \in D THEN "done" ELSE PhaseSeen(t)
    BY <1>1, <1>2, SweptPhase
  <1>5. S \in SUBSET Lease!Lent /\ D \in SUBSET (Lease!Lent \ S)
    BY <1>1, <1>2 DEF Lease!Lent
  <1>6. Lease!Release(S, D)
    BY <1>1, <1>2, <1>3, <1>4, KeptMapped DEF Lease!Release
  <1> QED
    BY <1>5, <1>6

\* Every step of the store is a step of the lease, or invisible to it.
LEMMA StepMapped ==
    ASSUME KnownInv, [Next]_vars
    PROVE  [Lease!LeaseNext]_(Lease!leaseVars)
  <1>1. TypeOK
    BY DEF KnownInv
  <1>2. CASE UNCHANGED <<status, runs>>
    <2>1. \A t \in Tasks : PhaseSeen(t)' = PhaseSeen(t)
      BY <1>1, <1>2, SeenKept
    <2> QED
      BY <1>2, <2>1, SameRowsKeep, KeptMapped DEF Lease!leaseVars
  <1>3. ASSUME NEW u \in Tasks, NEW n \in DOMAIN runs[u], NEW r, LeaseTouched(u, n, r)
        PROVE  UNCHANGED Lease!leaseVars
    <2>1. DeliveriesKept /\ FencesKept
      BY <1>3, WriteKeeps DEF LeaseTouched
    <2>2. \A t \in Tasks : PhaseSeen(t)' = PhaseSeen(t)
      BY <1>1, <1>3, SeenKept DEF LeaseTouched, RowWritten
    <2> QED
      BY <2>1, <2>2, KeptMapped DEF Lease!leaseVars
  <1>4. ASSUME NEW th \in Threads, RetryWrite(th)
        PROVE  [Lease!LeaseNext]_(Lease!leaseVars)
    BY <1>4, RetryMapped DEF Lease!LeaseNext
  <1>5. ASSUME NEW th \in Threads, NEW u \in Tasks, NEW n \in DOMAIN runs[u], NEW r,
               RunEnded(th, u, n, r)
        PROVE  [Lease!LeaseNext]_(Lease!leaseVars)
    <2>1. CASE {u} \in SUBSET Lease!Lent /\ Lease!Release({u}, {})
      <3>1. {} \in SUBSET (Lease!Lent \ {u})
        OBVIOUS
      <3> QED
        BY <2>1, <3>1 DEF Lease!LeaseNext
    <2> QED
      BY <1>5, <2>1, EndMapped DEF Lease!LeaseNext
  <1>6. ASSUME NEW th \in Threads, NEW u \in Tasks,
               CreateTask(th, u) \/ (Claim(th, u) /\ RowInserted(u))
        PROVE  Lease!LeaseNext
    BY <1>6, CreateMapped, ClaimMapped DEF Lease!LeaseNext
  <1>7. ASSUME NEW th \in Threads, RunsSwept(th)
        PROVE  Lease!LeaseNext
    BY <1>7, SweepMapped DEF Lease!LeaseNext
  <1>8. CASE Next
    BY <1>1, <1>8, <1>2, <1>3, <1>4, <1>5, <1>6, <1>7, NextEffect DEF StepEffect, RetryRead
  <1> QED
    BY <1>2, <1>8 DEF vars

\* Whoever calls it, the store is a lease per task, taken only on delivered
\* prerequisites, given up once, exclusive until a retry makes it void.
THEOREM StoreImplementsLease == Spec => ImplementsTaskLease
  <1>1. Spec => []KnownInv
    BY TypeCorrect, StoreInvariant, PTL DEF KnownInv
  <1> QED
    BY <1>1, InitMapped, StepMapped, PTL DEF Spec, ImplementsTaskLease, Lease!LeaseSpec

-----------------------------------------------------------------------------
(***************************************************************************)
(* The store under the scheduler, and the capacity of its workers.         *)
(***************************************************************************)

\* A handler acts on the store through the store's operations only.
LEMMA StepUsesStore == [SchedulerNext]_allVars => [Next]_vars
  <1> SUFFICES ASSUME [SchedulerNext]_allVars
               PROVE  [Next]_vars
    OBVIOUS
  <1> USE LoopAssumption
  <1>1. CASE UNCHANGED vars
    BY <1>1
  <1>2. CASE Tick
    BY <1>2, <1>1 DEF Tick, Sweep, Next
  <1>3. CASE WebRetryWrite
    BY <1>3 DEF WebRetryWrite, Next
  <1>4. ASSUME NEW t \in Tasks,
               WorkerStart(t) \/ WebRun(t) \/ WebCreate(t) \/ WebClaim(t) \/ WebRetryRead(t)
        PROVE  [Next]_vars
    BY <1>4 DEF WorkerStart, WebRun, WebCreate, WebClaim, WebRetryRead, Next
  <1>5. ASSUME NEW t \in Tasks, NEW n \in DOMAIN runs[t], Report(t, n)
        PROVE  [Next]_vars
    BY <1>5, <1>1 DEF Report, Next
  <1>6. ASSUME NEW t \in Tasks, NEW n \in DOMAIN runs[t],
               WorkerHeartbeat(t, n) \/ Lapse(t, n)
        PROVE  [Next]_vars
    BY <1>6 DEF WorkerHeartbeat, Lapse, Next
  <1>7. ASSUME NEW t \in Tasks, NEW n \in DOMAIN runs[t], NEW token \in {NoToken, n},
               NEW result \in BOOLEAN, WebComplete(t, n, token, result)
        PROVE  [Next]_vars
    <2>1. Complete(Loop, t, n, token, result, {}) /\ token \in {NoToken} \cup DOMAIN runs[t]
      BY <1>7 DEF WebComplete
    <2> QED
      BY <2>1, NoEvidenceAssumption DEF Next
  <1> QED
    BY <1>1, <1>2, <1>3, <1>4, <1>5, <1>6, <1>7
       DEF SchedulerNext, WorkerEnd, WebEnd, Crash, allVars

\* Every behaviour of the scheduler, the UI and the crashes is one of the store.
THEOREM SchedulerUsesStore == SchedulerSpec => Spec
  <1>1. SchedulerInit => Init
    BY DEF SchedulerInit
  <1> QED
    BY <1>1, StepUsesStore, PTL DEF SchedulerSpec, Spec

\* What a retry found is still so when it writes: while the loop is between the
\* two statements, its task is not claimed.
RetryFresh == \A th \in Threads : ~Free(th) => status[retrying[th]] # "running"

\* The invariant that the event loop, as the only caller, adds.
AloneInv == TypeOK /\ ExclusiveLease /\ RetryFresh

\* A retry is not overtaken: every other operation needs the thread it is on.
LEMMA StepRetryFresh ==
    ASSUME AloneInv, [Next]_vars
    PROVE  RetryFresh'
  <1>1. TypeOK /\ Threads = {Loop}
    BY LoopAssumption DEF AloneInv
  <1>2. CASE UNCHANGED <<status, retrying>>
    BY <1>2 DEF AloneInv, RetryFresh, Free
  <1>3. ASSUME NEW th \in Threads, Free(th), UNCHANGED retrying
        PROVE  RetryFresh'
    BY <1>1, <1>3 DEF RetryFresh, Free
  <1>4. ASSUME NEW th \in Threads, NEW t \in Tasks, RetryRead(th, t)
        PROVE  RetryFresh'
    BY <1>1, <1>4 DEF RetryRead, RetryFresh, TypeOK
  <1>5. ASSUME NEW th \in Threads, RetryWrite(th)
        PROVE  RetryFresh'
    BY <1>1, <1>5 DEF RetryWrite, RetryFresh, Free, TypeOK
  <1>6. CASE Next
    BY <1>1, <1>6, <1>2, <1>3, <1>4, <1>5, NextEffect
       DEF StepEffect, CreateTask, Claim, RunsSwept, LeaseTouched, RunEnded
  <1> QED
    BY <1>2, <1>6 DEF vars

\* In WorkScheduler, where one thread calls the store, it holds in every state.
LEMMA AloneInvariant == Spec => []AloneInv
  <1>1. Init => AloneInv
    BY InitTypeOK DEF Init, AloneInv, ExclusiveLease, Exclusive, RetryFresh, Free
  <1>2. ASSUME AloneInv, [Next]_vars
        PROVE  ExclusiveLease'
    <2>1. \A t \in Tasks : NotOvertaken(t)
      BY <1>2 DEF AloneInv, RetryFresh, NotOvertaken, Overtakes, RetryWrite
    <2> QED
      BY <1>2, <2>1, StepExclusive DEF AloneInv, ExclusiveLease
  <1>3. AloneInv /\ [Next]_vars => AloneInv'
    BY <1>2, StepTypeOK, StepRetryFresh DEF AloneInv
  <1> QED
    BY <1>1, <1>3, PTL DEF Spec

\* However often the process crashes and whoever claims, completes or retries
\* beside the workers, a task has at most one running run, its latest, and it
\* has it exactly while its status says so.
THEOREM SchedulerLeasesAreExclusive == SchedulerSpec => []ExclusiveLease
  BY SchedulerUsesStore, AloneInvariant, PTL DEF AloneInv

\* A worker that outlived its lease cannot decide the task any more.
THEOREM LateWorkersAreFenced == SchedulerSpec => [][\A t \in Tasks : HolderDecided(t)]_vars
  <1>1. AloneInv /\ [Next]_vars => [\A t \in Tasks : HolderDecided(t)]_vars
    BY StepOnlyHolderDecides DEF AloneInv, ExclusiveLease
  <1> QED
    BY <1>1, SchedulerUsesStore, AloneInvariant, PTL DEF Spec

-----------------------------------------------------------------------------
(***************************************************************************)
(* The capacity.                                                           *)
(***************************************************************************)

\* Of a list cut off at k no more than k tasks are looked at.
LEMMA FirstIsSmall ==
    ASSUME NEW list, NEW k \in Nat
    PROVE  IsFiniteSet(First(list, k)) /\ Cardinality(First(list, k)) <= k
  <1> DEFINE D == (1 .. k) \cap DOMAIN list
             f == [i \in D |-> list[i]]
  <1>1. IsFiniteSet(1 .. k) /\ Cardinality(1 .. k) = k
    BY FS_Interval
  <1>2. IsFiniteSet(D) /\ Cardinality(D) <= k /\ Cardinality(D) \in Nat
    BY <1>1, FS_Subset, FS_CardinalityType
  <1>3. f \in Surjection(D, First(list, k))
    BY DEF Surjection, First
  <1>4. IsFiniteSet(First(list, k)) /\ Cardinality(First(list, k)) <= Cardinality(D)
    BY <1>2, <1>3, FS_Surjection
  <1> QED
    BY <1>2, <1>4, FS_CardinalityType

\* What the capacity rests on: _work_running holds exactly the tasks that have a
\* worker, each has one, and there are no more of them than there is room for.
CapacityInv ==
    /\ starting \in [Tasks -> {0, 1}]
    /\ executing \in [Tasks -> SUBSET Nat]
    /\ \A t \in Tasks :
          executing[t] = {} \/ (starting[t] = 0 /\ \E n \in Nat : executing[t] = {n})
    /\ working = {t \in Tasks : starting[t] = 1 \/ executing[t] # {}}
    /\ IsFiniteSet(working) /\ Cardinality(working) <= MaxConcurrent

\* Before the first pass nothing was picked and nobody works.
LEMMA CapacityInit == SchedulerInit => CapacityInv
  <1> SUFFICES ASSUME SchedulerInit
               PROVE  CapacityInv
    OBVIOUS
  <1>1. \A t \in Tasks : starting[t] = 0 /\ executing[t] = {}
    BY DEF SchedulerInit
  <1> QED
    BY <1>1, FS_EmptySet, CapacityAssumption DEF SchedulerInit, CapacityInv

\* The tasks a tick picks fit beside those in work, and are none of them.
LEMMA PickedFits ==
    ASSUME CapacityInv, NEW order, NEW stat
    PROVE  /\ Picked(order, stat) \subseteq Tasks \ working
           /\ IsFiniteSet(working \cup Picked(order, stat))
           /\ Cardinality(working \cup Picked(order, stat)) <= MaxConcurrent
  <1> DEFINE room == MaxConcurrent - Cardinality(working)
             picked == Picked(order, stat)
  <1>1. IsFiniteSet(working) /\ Cardinality(working) \in Nat /\ room \in Nat
    BY FS_CardinalityType, CapacityAssumption DEF CapacityInv
  <1>2. PICK list : Candidates(order, stat, room) = First(list, room)
    BY DEF Candidates
  <1>3. picked \subseteq First(list, room) /\ picked \subseteq Tasks \ working
    BY <1>2 DEF Picked
  <1>4. IsFiniteSet(picked) /\ Cardinality(picked) <= room
    <2>1. /\ IsFiniteSet(First(list, room)) /\ Cardinality(First(list, room)) <= room
          /\ Cardinality(First(list, room)) \in Nat
      BY <1>1, FirstIsSmall, FS_CardinalityType
    <2>2. IsFiniteSet(picked) /\ Cardinality(picked) <= Cardinality(First(list, room))
      BY <1>3, <2>1, FS_Subset
    <2> HIDE DEF room, picked
    <2> QED
      BY <1>1, <2>1, <2>2, FS_CardinalityType
  <1>5. working \cap picked = {}
    BY <1>3
  <1>6. /\ IsFiniteSet(working \cup picked)
        /\ Cardinality(working \cup picked) =
             Cardinality(working) + Cardinality(picked) - Cardinality(working \cap picked)
    BY <1>1, <1>4, FS_Union
  <1>7. Cardinality(working \cap picked) = 0 /\ Cardinality(picked) \in Nat
    BY <1>4, <1>5, FS_EmptySet, FS_CardinalityType
  <1>8. Cardinality(working \cup picked) <= MaxConcurrent
    <2> HIDE DEF picked
    <2> QED
      BY <1>1, <1>4, <1>6, <1>7, CapacityAssumption
  <1> QED
    BY <1>3, <1>6, <1>8

\* A worker that is gone makes room.
LEMMA RoomMade ==
    ASSUME CapacityInv, NEW t \in Tasks
    PROVE  IsFiniteSet(working \ {t}) /\ Cardinality(working \ {t}) <= MaxConcurrent
  <1>1. IsFiniteSet(working) /\ Cardinality(working) \in Nat
    BY FS_CardinalityType DEF CapacityInv
  <1>2. /\ IsFiniteSet(working \ {t})
        /\ Cardinality(working \ {t}) = IF t \in working THEN Cardinality(working) - 1
                                                       ELSE Cardinality(working)
    BY <1>1, FS_RemoveElement
  <1> QED
    BY <1>1, <1>2, CapacityAssumption DEF CapacityInv

\* Every step of the loop, the workers and the process keeps the invariant.
LEMMA CapacityStep ==
    ASSUME TypeOK, CapacityInv, [SchedulerNext]_allVars
    PROVE  CapacityInv'
  <1>1. CASE UNCHANGED <<working, starting, executing>>
    BY <1>1 DEF CapacityInv
  <1>2. CASE Tick
    <2> DEFINE picked == Picked(recent', status')
    <2>1. /\ working' = working \cup picked
          /\ starting' = [t \in Tasks |-> starting[t] + IF t \in picked THEN 1 ELSE 0]
          /\ executing' = executing
      BY <1>2 DEF Tick
    <2>2. /\ picked \subseteq Tasks \ working
          /\ IsFiniteSet(working \cup picked)
          /\ Cardinality(working \cup picked) <= MaxConcurrent
      BY PickedFits
    <2> HIDE DEF picked
    <2>3. \A t \in picked : t \in Tasks /\ starting[t] = 0 /\ executing[t] = {}
      BY <2>2 DEF CapacityInv
    <2>4. \A t \in Tasks : starting'[t] = IF t \in picked THEN 1 ELSE starting[t]
      BY <2>1, <2>3 DEF CapacityInv
    <2>5. starting' \in [Tasks -> {0, 1}]
      BY <2>1, <2>3 DEF CapacityInv
    <2>6. \A t \in Tasks :
            executing'[t] = {} \/ (starting'[t] = 0 /\ \E n \in Nat : executing'[t] = {n})
      BY <2>1, <2>3, <2>4 DEF CapacityInv
    <2>7. working' = {t \in Tasks : starting'[t] = 1 \/ executing'[t] # {}}
      BY <2>1, <2>2, <2>4 DEF CapacityInv
    <2> QED
      BY <2>1, <2>2, <2>5, <2>6, <2>7 DEF CapacityInv
  <1>3. ASSUME NEW t \in Tasks, WorkerStart(t)
        PROVE  CapacityInv'
    <2>1. /\ starting[t] = 1 /\ executing[t] = {} /\ t \in working
          /\ starting' = [starting EXCEPT ![t] = 0]
      <3>1. starting[t] > 0 /\ starting' = [starting EXCEPT ![t] = @ - 1]
        BY <1>3 DEF WorkerStart
      <3>2. starting[t] \in {0, 1}
        BY DEF CapacityInv
      <3>3. starting[t] = 1
        BY <3>1, <3>2
      <3> QED
        BY <3>1, <3>3 DEF CapacityInv
    <2>2. CASE executing' = [executing EXCEPT ![t] = @ \cup {Len(runs[t]) + 1}] /\ UNCHANGED working
      <3>1. Len(runs[t]) + 1 \in Nat
        BY DEF TypeOK
      <3>2. executing' = [executing EXCEPT ![t] = {Len(runs[t]) + 1}]
        BY <2>1, <2>2 DEF CapacityInv
      <3>3. starting' \in [Tasks -> {0, 1}] /\ executing' \in [Tasks -> SUBSET Nat]
        BY <2>1, <3>1, <3>2 DEF CapacityInv
      <3>4. \A u \in Tasks :
              executing'[u] = {} \/ (starting'[u] = 0 /\ \E n \in Nat : executing'[u] = {n})
        BY <2>1, <3>1, <3>2 DEF CapacityInv
      <3>5. working' = {u \in Tasks : starting'[u] = 1 \/ executing'[u] # {}}
        BY <2>1, <2>2, <3>2 DEF CapacityInv
      <3> QED
        BY <2>2, <3>3, <3>4, <3>5 DEF CapacityInv
    <2>3. CASE working' = working \ {t} /\ UNCHANGED executing
      <3>1. working' = {u \in Tasks : starting'[u] = 1 \/ executing'[u] # {}}
        BY <2>1, <2>3 DEF CapacityInv
      <3> QED
        BY <2>1, <2>3, <3>1, RoomMade DEF CapacityInv
    <2> QED
      BY <1>3, <2>2, <2>3 DEF WorkerStart
  <1>4. ASSUME NEW t \in Tasks, NEW n, WorkerEnd(t, n)
        PROVE  CapacityInv'
    <2>1. /\ starting[t] = 0 /\ executing[t] = {n}
          /\ executing' = [executing EXCEPT ![t] = {}]
          /\ working' = working \ {t} /\ starting' = starting
      BY <1>4 DEF WorkerEnd, CapacityInv
    <2>2. executing' \in [Tasks -> SUBSET Nat]
      BY <2>1 DEF CapacityInv
    <2>3. \A u \in Tasks :
            executing'[u] = {} \/ (starting'[u] = 0 /\ \E m \in Nat : executing'[u] = {m})
      BY <2>1 DEF CapacityInv
    <2>4. working' = {u \in Tasks : starting'[u] = 1 \/ executing'[u] # {}}
      BY <2>1 DEF CapacityInv
    <2> QED
      BY <2>1, <2>2, <2>3, <2>4, RoomMade DEF CapacityInv
  <1>5. CASE Crash
    <2>1. \A t \in Tasks : starting'[t] = 0 /\ executing'[t] = {}
      BY <1>5 DEF Crash
    <2> QED
      BY <1>5, <2>1, FS_EmptySet, CapacityAssumption DEF Crash, CapacityInv
  <1> QED
    BY <1>1, <1>2, <1>3, <1>4, <1>5
       DEF SchedulerNext, WebRetryWrite, WebRun, WebCreate, WebClaim, WebRetryRead, WebEnd,
           WorkerHeartbeat, Lapse, WebComplete, loopVars, allVars

\* The invariant implies that the workers keep within the capacity.
LEMMA CapacityGives == CapacityInv => WithinCapacity
  <1> SUFFICES ASSUME CapacityInv
               PROVE  WithinCapacity
    OBVIOUS
  <1>1. ASSUME NEW t \in Tasks
        PROVE  starting[t] + Cardinality(executing[t]) <= 1
    <2>1. CASE executing[t] = {}
      BY <2>1, FS_EmptySet DEF CapacityInv
    <2>2. ASSUME starting[t] = 0, NEW n \in Nat, executing[t] = {n}
          PROVE  starting[t] + Cardinality(executing[t]) <= 1
      BY <2>2, FS_Singleton
    <2> QED
      BY <2>1, <2>2 DEF CapacityInv
  <1>2. working = {t \in Tasks : starting[t] > 0 \/ executing[t] # {}}
    BY DEF CapacityInv
  <1> QED
    BY <1>1, <1>2 DEF CapacityInv, WithinCapacity

\* Whatever the web UI does beside the workers, however often the process
\* crashes and whichever workers give up their claim, a task has one worker of
\* the loop, there are no more of them than configured, and no place is lost.
THEOREM CapacityIsKept == SchedulerSpec => []WithinCapacity
  <1>1. SchedulerSpec => []TypeOK
    BY SchedulerUsesStore, TypeCorrect, PTL
  <1>2. TypeOK /\ CapacityInv /\ [SchedulerNext]_allVars => CapacityInv'
    BY CapacityStep
  <1> QED
    BY <1>1, <1>2, CapacityInit, CapacityGives, PTL DEF SchedulerSpec

=============================================================================

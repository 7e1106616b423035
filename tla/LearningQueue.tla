---------------------------- MODULE LearningQueue ----------------------------
(***************************************************************************)
(* What is learnt from a turn after it (PersonalLearningWorker.tick in     *)
(* src/hushclaw/learning/personal_worker.py, the learning steps of         *)
(* src/hushclaw/learning/controller.py, the receipts of                    *)
(* src/hushclaw/memory/personalization.py).                                *)
(*                                                                         *)
(* A turn leaves two rows in two queues: a receipt, with the evidence that *)
(* the model was shown, to be reviewed, and a learning job.  One worker    *)
(* claims a row, awaits a provider, and writes the outcome.  While it      *)
(* waits the user may purge a message, which deletes what comes from it,   *)
(* its opinions apart, and scrubs it from the receipts of other turns, and *)
(* the process may stop or crash.                                          *)
(***************************************************************************)
EXTENDS Integers, FiniteSets, FiniteSetsExt

CONSTANTS
    Turns,         \* the turns, numbered in the order in which they are answered
    Replays,       \* those of regression replays, which teach nothing
    MaxAttempts,   \* the attempts that a row is given: 3
    MaxPurges,     \* bound: purges
    MaxRestarts    \* bound: stops and crashes of the process

ASSUME TurnsAssumption == IsFiniteSet(Turns) /\ Turns \subseteq Nat /\ Replays \subseteq Turns
ASSUME AttemptsAssumption == MaxAttempts \in Nat \ {0}
ASSUME BoundsAssumption == MaxPurges \in Nat /\ MaxRestarts \in Nat

VARIABLES
    course,     \* course[t]: how far the turn itself is
    bundle,     \* bundle[t]: the turns whose words the model is shown for it
    purged,     \* the turns whose message the user has purged
    queue,      \* queue[q][t]: the row of t in the queue q
    evidence,   \* evidence[t]: what the receipt's payload quotes
    analysis,   \* analysis[t]: the evidence that its stored analysis is about
    learnt,     \* <<kind, t>>: what is kept because of the message of t
    next,       \* the queue that the worker looks at next
    work,       \* what the worker does
    restarts    \* stops and crashes so far

learningVars ==
    <<course, bundle, purged, queue, evidence, analysis, learnt, next, work, restarts>>

-----------------------------------------------------------------------------

Queues == {"receipts", "jobs"}
NoAnalysis == {-1}

\* What is kept because of a message: the case of a correction; notes, with them
\* reflections and facts of the profile; and opinions, with them the lessons in the
\* outcomes of skills, which are kept under the skill and not the message.
Learnable == {"case", "note", "opinion"}

\* "due" is next_attempt <= now.
NoRow == [status |-> "none", attempts |-> 0, due |-> FALSE]
NewRow == [status |-> "pending", attempts |-> 0, due |-> TRUE]

Idle == [doing |-> "nothing"]
Busy == work # Idle

\* The worker's row: its queue and turn, the payload and the attempts it read,
\* and the step of a job.
Claimed(q, t, step) ==
    [doing |-> q, turn |-> t, seen |-> evidence[t],
     before |-> queue[q][t].attempts, step |-> step]

LearningInit ==
    /\ course = [t \in Turns |-> "none"]
    /\ bundle = [t \in Turns |-> {}]
    /\ purged = {}
    /\ queue = [q \in Queues |-> [t \in Turns |-> NoRow]]
    /\ evidence = [t \in Turns |-> {}]
    /\ analysis = [t \in Turns |-> NoAnalysis]
    /\ learnt = {}
    /\ next = "receipts"
    /\ work = Idle
    /\ restarts = 0

\* _source_available
Available(t) == t \notin purged

-----------------------------------------------------------------------------
(***************************************************************************)
(* The turns.                                                              *)
(***************************************************************************)

\* The evidence is chosen as the turn begins.
BeginTurn(t) ==
    /\ course[t] = "none"
    /\ course' = [course EXCEPT ![t] = "running"]
    /\ \E shown \in SUBSET {u \in Turns \ {t} : course[u] = "over" /\ Available(u)} :
          bundle' = [bundle EXCEPT ![t] = shown]
    /\ UNCHANGED <<purged, queue, evidence, analysis, learnt, next, work, restarts>>

\* save_receipt, just before the done event.
SaveReceipt(t) ==
    /\ course[t] = "running"
    /\ \A u \in Turns : u < t => course[u] \notin {"none", "running"}
    /\ course' = [course EXCEPT ![t] = "answered"]
    /\ queue' = [queue EXCEPT !["receipts"][t] = NewRow]
    /\ evidence' = [evidence EXCEPT ![t] = bundle[t]]
    /\ bundle' = [bundle EXCEPT ![t] = {}]
    /\ UNCHANGED <<purged, analysis, learnt, next, work, restarts>>

\* The hook after the done event.
EnqueueJob(t) ==
    /\ course[t] = "answered"
    /\ course' = [course EXCEPT ![t] = "over"]
    /\ queue' = IF t \in Replays THEN queue ELSE [queue EXCEPT !["jobs"][t] = NewRow]
    /\ UNCHANGED <<bundle, purged, evidence, analysis, learnt, next, work, restarts>>

\* The user deletes the message of t: forget_source scrubs it from the receipts
\* that quote it, which are to be reviewed anew, and deletes t's own rows.  What
\* was learnt from it goes too, but for the opinions.
Scrubbed(t) == {u \in Turns \ {t} : queue["receipts"][u] # NoRow /\ t \in evidence[u]}

Purge(t) ==
    /\ course[t] # "none"
    /\ t \notin purged
    /\ Cardinality(purged) < MaxPurges
    /\ purged' = purged \cup {t}
    /\ queue' = [q \in Queues |-> [u \in Turns |->
                   IF u = t THEN NoRow
                   ELSE IF q = "receipts" /\ u \in Scrubbed(t) THEN NewRow
                   ELSE queue[q][u]]]
    /\ evidence' = [u \in Turns |-> IF u = t THEN {}
                                    ELSE IF u \in Scrubbed(t) THEN evidence[u] \ {t}
                                    ELSE evidence[u]]
    /\ analysis' = [u \in Turns |-> IF u \in Scrubbed(t) \cup {t} THEN NoAnalysis
                                    ELSE analysis[u]]
    /\ learnt' = {l \in learnt : l[2] # t \/ l[1] = "opinion"}
    /\ UNCHANGED <<course, bundle, next, work, restarts>>

-----------------------------------------------------------------------------
(***************************************************************************)
(* The worker.                                                             *)
(***************************************************************************)

Other(q) == IF q = "receipts" THEN "jobs" ELSE "receipts"

\* Rows whose last lease ran out are given up.
GivenUp(q) ==
    {t \in Turns : queue[q][t].status = "running" /\ queue[q][t].due
                   /\ queue[q][t].attempts >= MaxAttempts}

Eligible(q) ==
    {t \in Turns : queue[q][t].status \in {"pending", "running"} /\ queue[q][t].due
                   /\ queue[q][t].attempts < MaxAttempts}

\* One table of a tick: the oldest row that is due is claimed, with a lease; a
\* job whose message is gone is done with at once.
Tick ==
    /\ ~Busy
    /\ LET q == next
           told == [t \in Turns |-> IF t \in GivenUp(q)
                                    THEN [queue[q][t] EXCEPT !.status = "failed"]
                                    ELSE queue[q][t]] IN
       IF Eligible(q) = {}
       THEN /\ queue' = [queue EXCEPT ![q] = told]
            /\ next' = Other(q)
            /\ work' = work
       ELSE LET t == Min(Eligible(q))
                forgotten == q = "jobs" /\ ~Available(t) IN
            /\ queue' = [queue EXCEPT ![q] =
                           [told EXCEPT ![t] = [status |-> IF forgotten THEN "ready" ELSE "running",
                                                due |-> forgotten,
                                                attempts |-> @.attempts + 1]]]
            /\ work' = IF forgotten THEN work ELSE Claimed(q, t, "first")
            /\ next' = IF forgotten THEN Other(q) ELSE next
    /\ UNCHANGED <<course, bundle, purged, evidence, analysis, learnt, restarts>>

\* An UPDATE of the row that the worker has claimed, if it is still there.
Row(status, attempts, due) ==
    LET q == work.doing
        t == work.turn IN
    queue' = IF queue[q][t] = NoRow THEN queue
             ELSE [queue EXCEPT ![q][t] =
                     [status |-> status, attempts |-> attempts, due |-> due]]

Attempts == queue[work.doing][work.turn].attempts

Ended == work' = Idle /\ next' = Other(work.doing)

\* Variant: the payload is written whatever happened to the row.
WrittenAnyhow(t) == queue["receipts"][t] # NoRow

\* "AND payload=? AND status='running'"
StillTheSame(t) ==
    /\ queue["receipts"][t].status = "running"
    /\ evidence[t] = work.seen
    /\ analysis[t] = NoAnalysis

\* The provider's review arrives: the payload that was read is written back
\* with it, or nothing.
Reviewed ==
    /\ work.doing = "receipts"
    /\ LET t == work.turn IN
       IF StillTheSame(t)
       THEN /\ evidence' = [evidence EXCEPT ![t] = work.seen]
            /\ analysis' = [analysis EXCEPT ![t] = work.seen]
            /\ Row("ready", Attempts, TRUE)
       ELSE UNCHANGED <<evidence, analysis, queue>>
    /\ Ended
    /\ UNCHANGED <<course, bundle, purged, learnt, restarts>>

Keep(kinds) == learnt' = learnt \cup (kinds \X {work.turn})

\* The classification of a correction arrives: a reflection is kept, and its lesson
\* with the skills of the corrected turn, if it used some.
Correct ==
    /\ work.doing = "jobs"
    /\ work.step = "first"
    /\ work' = [work EXCEPT !.step = "patching"]
    /\ IF Available(work.turn) THEN Keep({"note"}) \/ Keep({"note", "opinion"})
       ELSE UNCHANGED learnt
    /\ UNCHANGED <<course, bundle, purged, queue, evidence, analysis, next, restarts>>

\* The skill's patch is done: the case is kept.
KeepCase ==
    /\ work.doing = "jobs"
    /\ work.step = "patching"
    /\ work' = [work EXCEPT !.step = "rest"]
    /\ Keep({"case"})
    /\ UNCHANGED <<course, bundle, purged, queue, evidence, analysis, next, restarts>>

\* Variant: the source is not looked at again after the provider's answer.
WhateverHappened(t) == TRUE

\* What each extraction and the reflection look at after their answer.
Admissible(t) == Available(t)

\* The answer for the profile, the opinions, the facts or the reflection, which may
\* hold nothing; the last one ends the job.
Extract(last) ==
    /\ work.doing = "jobs"
    /\ work.step \in {"first", "rest"}
    /\ IF Admissible(work.turn) THEN \E kinds \in SUBSET {"note", "opinion"} : Keep(kinds)
       ELSE UNCHANGED learnt
    /\ IF last THEN Row("ready", Attempts, TRUE) /\ Ended
       ELSE UNCHANGED <<queue, next>> /\ work' = [work EXCEPT !.step = "rest"]
    /\ UNCHANGED <<course, bundle, purged, evidence, analysis, restarts>>

\* Variant: a row that fails is always tried again.
AgainAndAgain == "pending"

AfterFailure == IF work.before + 1 >= MaxAttempts THEN "failed" ELSE "pending"

\* The provider fails, its answer is no JSON, or the time is up.  The row is
\* written whatever became of it meanwhile; its backoff counts from the claim.
Fail(due) ==
    /\ Busy
    /\ AfterFailure = "failed" => due
    /\ Row(AfterFailure, Attempts, due)
    /\ Ended
    /\ UNCHANGED <<course, bundle, purged, evidence, analysis, learnt, restarts>>

\* A lease or a backoff runs out; never the lease of the row that is worked on.
FallDue(q, t) ==
    /\ ~queue[q][t].due
    /\ queue[q][t].status \in {"pending", "running"}
    /\ ~(Busy /\ work.doing = q /\ work.turn = t)
    /\ queue' = [queue EXCEPT ![q][t].due = TRUE]
    /\ UNCHANGED <<course, bundle, purged, evidence, analysis, learnt, next, work, restarts>>

-----------------------------------------------------------------------------
(***************************************************************************)
(* The process ends and is started again; turns under way are lost.        *)
(***************************************************************************)

Interrupted ==
    /\ restarts < MaxRestarts
    /\ restarts' = restarts + 1
    /\ course' = [t \in Turns |->
                    IF course[t] \in {"running", "answered"} THEN "over" ELSE course[t]]
    /\ bundle' = [t \in Turns |-> {}]
    /\ work' = Idle
    /\ next' = "receipts"
    /\ UNCHANGED <<purged, evidence, analysis, learnt>>

\* stop(): the worker's task is cancelled, and gives its attempt back.
Stop ==
    /\ Interrupted
    /\ IF Busy THEN Row("pending", Max({0, Attempts - 1}), TRUE) ELSE UNCHANGED queue

WorkerCrash ==
    /\ Interrupted
    /\ UNCHANGED queue

-----------------------------------------------------------------------------

Answer == Reviewed \/ Correct \/ KeepCase \/ (\E last \in BOOLEAN : Extract(last))

LearningNext ==
    \/ \E t \in Turns : BeginTurn(t) \/ SaveReceipt(t) \/ EnqueueJob(t) \/ Purge(t)
    \/ Tick \/ Answer
    \/ \E due \in BOOLEAN : Fail(due)
    \/ \E q \in Queues, t \in Turns : FallDue(q, t)
    \/ Stop \/ WorkerCrash

\* The worker runs, its waits are bounded (90 s, 180 s), and time passes.
LearningFairness ==
    /\ WF_learningVars(Tick)
    /\ WF_learningVars(Reviewed \/ Extract(TRUE) \/ \E due \in BOOLEAN : Fail(due))
    /\ WF_learningVars(\E q \in Queues, t \in Turns : FallDue(q, t))

LearningSpec == LearningInit /\ [][LearningNext]_learningVars /\ LearningFairness

-----------------------------------------------------------------------------
(***************************************************************************)
(* Properties.                                                             *)
(***************************************************************************)

\* The type invariant.
LearningTypeOK ==
    /\ course \in [Turns -> {"none", "running", "answered", "over"}]
    /\ bundle \in [Turns -> SUBSET Turns]
    /\ purged \subseteq Turns
    /\ \A q \in Queues, t \in Turns :
          queue[q][t] \in [status : {"none", "pending", "running", "ready", "failed"},
                           attempts : 0 .. MaxAttempts, due : BOOLEAN]
    /\ evidence \in [Turns -> SUBSET Turns]
    /\ analysis \in [Turns -> (SUBSET Turns) \cup {NoAnalysis}]
    /\ learnt \subseteq Learnable \X Turns
    /\ next \in Queues
    /\ Busy => work.doing \in Queues /\ work.turn \in Turns
    /\ restarts \in 0 .. MaxRestarts

\* "Do not restore the old payload over a newly scrubbed receipt"
\* (personal_worker.py): what a purge has taken out of a receipt does not come
\* back, whichever review was under way; and an analysis is about the evidence
\* that the receipt has now.
ScrubbedStaysScrubbed ==
    [][\A t \in Turns :
          queue["receipts"][t] # NoRow =>
             /\ evidence'[t] \subseteq evidence[t]
             /\ analysis'[t] \in {NoAnalysis, evidence'[t]}]_learningVars

\* A purged message leaves no note.
NotesAreAvailable == \A l \in learnt : l[1] = "note" => Available(l[2])

\* A message that is purged leaves no note, reflection or fact of the profile, even
\* when its job was at work; and once it is purged nothing more is learnt from it.
\* There are two exceptions, which the code has: the opinions, and the lessons in
\* the outcomes of skills, that were kept before the purge stay; and the case of a
\* correction is kept without another look.
LearntFromAvailable ==
    [][/\ NotesAreAvailable'
       /\ \A l \in learnt' \ learnt : l[1] # "case" => Available(l[2])]_learningVars

\* The claim of memory/eval_cases.py:7-8 for the cases: "purging either
\* referenced message or the session removes them".
PurgedCasesAreRemoved ==
    \A l \in learnt : l[1] = "case" => Available(l[2])

Unsettled == \E q \in Queues, t \in Turns : queue[q][t].status \in {"pending", "running"}

\* The queues run dry: a row is done with, given up after its attempts, or
\* deleted, whatever failures, stops and crashes there are.
QueueSettles == Unsettled ~> ~Unsettled

=============================================================================

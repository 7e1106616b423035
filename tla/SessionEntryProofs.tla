------------------------- MODULE SessionEntryProofs -------------------------
(***************************************************************************)
(* What holds of a session's entry for every number of requests and        *)
(* amendments: an entry serves one request at a time, and a running one    *)
(* can be found; a queue gives up an amendment only to the request that    *)
(* takes it; and a chat carries on with later amendments each time.        *)
(***************************************************************************)
EXTENDS SessionEntry, TLAPS

-----------------------------------------------------------------------------
(* Facts about the queue and about the records.                            *)

\* What is queued are amendments.
LEMMA QueuedType ==
    ASSUME NEW queue \in Seq(SUBSET Amendments)
    PROVE  Queued(queue) \subseteq Amendments
    BY DEF Queued

\* queue_amendment returns a queue, within the limit if it was, that holds one
\* amendment more.
LEMMA WithAmendmentFacts ==
    ASSUME NEW queue \in Seq(SUBSET Amendments), NEW a \in Amendments
    PROVE  /\ WithAmendment(queue, a) \in Seq(SUBSET Amendments)
           /\ Len(queue) <= MaxPending => Len(WithAmendment(queue, a)) <= MaxPending
           /\ Queued(WithAmendment(queue, a)) = Queued(queue) \cup {a}
<1>1. CASE Len(queue) < MaxPending
  <2>1. WithAmendment(queue, a) = Append(queue, {a})
    BY <1>1 DEF WithAmendment
  <2>2. /\ Append(queue, {a}) \in Seq(SUBSET Amendments)
        /\ Len(Append(queue, {a})) = Len(queue) + 1
        /\ \A i \in 1 .. Len(queue) : Append(queue, {a})[i] = queue[i]
        /\ Append(queue, {a})[Len(queue) + 1] = {a}
    OBVIOUS
  <2>3. Queued(Append(queue, {a})) = Queued(queue) \cup {a}
    BY <2>2 DEF Queued
  <2>4. Len(queue) <= MaxPending => Len(Append(queue, {a})) <= MaxPending
    BY <1>1, <2>2, PendingAssumption
  <2> QED
    BY <2>1, <2>2, <2>3, <2>4
<1>2. CASE ~(Len(queue) < MaxPending)
  <2> DEFINE merged == [queue EXCEPT ![Len(queue)] = @ \cup {a}]
  <2>1. WithAmendment(queue, a) = merged
    BY <1>2 DEF WithAmendment
  <2>2. /\ Len(queue) \in 1 .. Len(queue)
        /\ queue[Len(queue)] \cup {a} \in SUBSET Amendments
    BY <1>2, PendingAssumption
  <2>3. /\ merged \in Seq(SUBSET Amendments)
        /\ Len(merged) = Len(queue)
        /\ DOMAIN merged = DOMAIN queue
        /\ \A i \in DOMAIN queue :
              merged[i] = IF i = Len(queue) THEN queue[i] \cup {a} ELSE queue[i]
    <3>1. queue \in [1 .. Len(queue) -> SUBSET Amendments] /\ Len(queue) \in Nat
      OBVIOUS
    <3>2. merged \in [1 .. Len(queue) -> SUBSET Amendments]
      BY <2>2, <3>1
    <3>3. merged \in Seq(SUBSET Amendments) /\ Len(merged) = Len(queue)
      BY <3>1, <3>2
    <3> QED
      BY <2>2, <3>1, <3>2, <3>3
  <2>4. Queued(merged) = Queued(queue) \cup {a}
    BY <2>2, <2>3 DEF Queued
  <2> HIDE DEF merged
  <2> QED
    BY <2>1, <2>3, <2>4
<1> QED
    BY <1>1, <1>2

-----------------------------------------------------------------------------
(* Type correctness.                                                       *)

\* Every task is of an entry, only tasks are cancelled or delegate, tools run within
\* the budget, and what an entry serves is a task.
TaskPlaced ==
    \A t \in Tasks :
        /\ task[t].kind # "none" => task[t].entry \in Entries
        /\ task[t].cancelled \/ task[t].at # "unborn" => task[t].kind # "none"
        /\ t \in children => task[t].kind # "none"
        /\ task[t].at = "tools" => task[t].round < MaxRounds

\* What an entry serves is a task.
EntryPlaced ==
    \A e \in Entries : entry[e].task # NoTask => task[entry[e].task].kind # "none"

\* The places of the tasks and of the entries.
Placed == TaskPlaced /\ EntryPlaced

\* The inductive invariant.  That an entry serves one request is what makes a new
\* request or an expired finalizer safe for the running one.
IInv == EntryTypeOK /\ Placed /\ OneLiveRequest /\ RunningIsListed

\* What a step of a task does to it: it stays of its kind and its entry, and does
\* not come to life.
Advances(t) ==
    \E r \in Task :
        /\ task' = [task EXCEPT ![t] = r]
        /\ r.kind = task[t].kind /\ r.entry = task[t].entry
        /\ r.kind # "none" /\ r.at \notin OverStages /\ ~r.cancelled => Live(t)
        /\ r.at = "tools" => r.round < MaxRounds

\* The entries keep their tasks.
SameServed ==
    /\ entry' \in [Entries -> Entry]
    /\ \A e \in Entries : entry'[e].task = entry[e].task

\* The initial values are of their types.
LEMMA InitType == EntryInit => EntryTypeOK
<1> SUFFICES ASSUME EntryInit PROVE EntryTypeOK
    OBVIOUS
<1>1. Fresh \in Entry
    BY DEF Fresh, Entry, NoTask
<1>2. Unborn \in Task
    BY RoundsAssumption DEF Unborn, Task, Stages
<1> QED
    BY <1>1, <1>2, AmendmentsAssumption DEF EntryInit, EntryTypeOK

\* The changes that the steps make to a task leave a task.
LEMMA TaskChanges ==
    ASSUME NEW r \in Task, NEW stage \in Stages, NEW next \in SUBSET Amendments
    PROVE  /\ [r EXCEPT !.at = stage] \in Task
           /\ [r EXCEPT !.cancelled = TRUE] \in Task
           /\ [r EXCEPT !.at = "ended", !.amended = FALSE, !.next = {}, !.round = 0] \in Task
           /\ [r EXCEPT !.at = stage, !.amended = TRUE] \in Task
           /\ r.round < MaxRounds => [r EXCEPT !.at = stage, !.round = @ + 1] \in Task
           /\ [r EXCEPT !.at = stage, !.next = next] \in Task
           /\ [r EXCEPT !.at = stage, !.request = next, !.next = {}, !.amended = FALSE,
                        !.round = 0] \in Task
<1>1. 0 \in 0 .. MaxRounds
  BY RoundsAssumption
<1>2. [r EXCEPT !.at = stage] \in Task
  BY DEF Task
<1>3. [r EXCEPT !.cancelled = TRUE] \in Task
  BY DEF Task
<1>4. [r EXCEPT !.at = "ended", !.amended = FALSE, !.next = {}, !.round = 0] \in Task
  BY <1>1 DEF Task, Stages
<1>5. [r EXCEPT !.at = stage, !.amended = TRUE] \in Task
  BY DEF Task
<1>6. ASSUME r.round < MaxRounds
      PROVE  [r EXCEPT !.at = stage, !.round = @ + 1] \in Task
  <2>1. r.round + 1 \in 0 .. MaxRounds
    BY <1>6, RoundsAssumption DEF Task
  <2> QED
    BY <2>1 DEF Task
<1>7. [r EXCEPT !.at = stage, !.next = next] \in Task
  BY DEF Task
<1>8. [r EXCEPT !.at = stage, !.request = next, !.next = {}, !.amended = FALSE, !.round = 0]
        \in Task
  BY <1>1 DEF Task
<1> QED
  BY <1>2, <1>3, <1>4, <1>5, <1>6, <1>7, <1>8

\* An entry whose fields are set to values of their types is an entry.
LEMMA EntryChanges ==
    ASSUME NEW r \in Entry
    PROVE  /\ \A applied \in SUBSET Amendments, pending \in Seq(SUBSET Amendments) :
                /\ [r EXCEPT !.applied = applied] \in Entry
                /\ [r EXCEPT !.pending = pending] \in Entry
                /\ [r EXCEPT !.applied = applied, !.pending = pending] \in Entry
           /\ \A t \in Tasks : [r EXCEPT !.task = t] \in Entry
    BY DEF Entry

-----------------------------------------------------------------------------
(* The steps.                                                              *)

\* Before the first request nothing is served.
LEMMA InitInv == EntryInit => IInv
<1> SUFFICES ASSUME EntryInit PROVE IInv
    OBVIOUS
<1>1. EntryTypeOK
  BY InitType
<1>2. \A t \in Tasks : task[t].kind = "none" /\ task[t].at = "unborn" /\ t \notin children
  BY DEF EntryInit, Unborn
<1> QED
  BY <1>1, <1>2 DEF IInv, Placed, TaskPlaced, EntryPlaced, OneLiveRequest, RunningIsListed,
                    Live, EntryInit, Fresh, Unborn

\* Going on to another stage, or ending, advances a task.
LEMMA Moves ==
    ASSUME EntryTypeOK, NEW t \in Tasks, Live(t) \/ Over(t) \/ task[t].cancelled
    PROVE  /\ \A stage \in Stages :
                GoTo(t, stage) /\ (stage = "tools" => task[t].round < MaxRounds)
                    /\ (Live(t) \/ stage \in OverStages) => Advances(t)
           /\ End(t) => Advances(t)
<1>t. task[t] \in Task
  BY DEF EntryTypeOK
<1>1. ASSUME NEW stage \in Stages, GoTo(t, stage),
             stage = "tools" => task[t].round < MaxRounds,
             Live(t) \/ stage \in OverStages
      PROVE  Advances(t)
  <2> DEFINE r == [task[t] EXCEPT !.at = stage]
  <2>1. r \in Task
    BY <1>t, TaskChanges
  <2>2. task' = [task EXCEPT ![t] = r]
    BY <1>1 DEF GoTo
  <2>3. /\ r.kind = task[t].kind /\ r.entry = task[t].entry /\ r.at = stage
        /\ r.cancelled = task[t].cancelled /\ r.round = task[t].round
    BY <1>t DEF Task
  <2> HIDE DEF r
  <2> QED
    BY <1>1, <2>1, <2>2, <2>3 DEF Advances
<1>2. ASSUME End(t) PROVE Advances(t)
  <2> DEFINE r == [task[t] EXCEPT !.at = "ended", !.amended = FALSE, !.next = {}, !.round = 0]
  <2>1. r \in Task
    BY <1>t, TaskChanges DEF Stages
  <2>2. task' = [task EXCEPT ![t] = r]
    BY <1>2 DEF End
  <2>3. /\ r.kind = task[t].kind /\ r.entry = task[t].entry /\ r.at = "ended"
    BY <1>t DEF Task
  <2> HIDE DEF r
  <2> QED
    BY <2>1, <2>2, <2>3 DEF Advances, OverStages
<1> QED
  BY <1>1, <1>2

\* Taking the amendments keeps the entries what they are.
LEMMA PopKeeps ==
    ASSUME EntryTypeOK, NEW e \in Entries, entry' = PopMerged(e)
    PROVE  SameServed
<1>1. entry[e] \in Entry /\ entry[e].pending \in Seq(SUBSET Amendments)
  BY DEF EntryTypeOK, Entry
<1>2. Queued(entry[e].pending) \in SUBSET Amendments
  BY <1>1, QueuedType
<1> DEFINE r == [entry[e] EXCEPT !.applied = Queued(entry[e].pending), !.pending = <<>>]
<1>r. <<>> \in Seq(SUBSET Amendments)
  OBVIOUS
<1>3. r \in Entry /\ r.task = entry[e].task
  <2>1. r \in Entry
    BY <1>1, <1>2, <1>r, EntryChanges
  <2>2. r.task = entry[e].task
    BY <1>1 DEF Entry
  <2> QED
    BY <2>1, <2>2
<1>4. entry' = [entry EXCEPT ![e] = r]
  BY DEF PopMerged, EntryTypeOK
<1>5. entry \in [Entries -> Entry]
  BY DEF EntryTypeOK
<1> HIDE DEF r
<1>6. entry' \in [Entries -> Entry]
  BY <1>3, <1>4, <1>5
<1>7. \A f \in Entries : entry'[f].task = entry[f].task
  BY <1>3, <1>4, <1>5
<1> QED
  BY <1>6, <1>7 DEF SameServed

\* A step of a task advances it, and changes the entries' contents at most.
LEMMA StepAdvances ==
    ASSUME IInv, NEW t \in Tasks, Step(t)
    PROVE  /\ Advances(t) /\ SameServed
           /\ UNCHANGED <<current, expiry, job, acked>>
           /\ children' \subseteq children \cup {t}
           /\ task[t].kind # "none"
<1>t. task[t] \in Task /\ EntryTypeOK /\ Placed
  BY DEF IInv, EntryTypeOK
<1>s. ASSUME entry' = entry PROVE SameServed
  BY <1>s, <1>t DEF SameServed, EntryTypeOK
<1>1. CASE Cancelled(t)
  <2>1. /\ task[t].kind # "none" /\ task[t].cancelled /\ End(t) /\ entry' = entry
        /\ UNCHANGED <<current, expiry, job, acked, children>>
    BY <1>1, <1>t DEF Cancelled, Placed, TaskPlaced
  <2> QED
    BY <2>1, <1>s, <1>t, Moves
<1>2. CASE Start(t) \/ PipelineEnds(t) \/ TimeOut(t) \/ CallModel(t) \/ Answer(t) \/ Fail(t)
           \/ Finish(t)
  <2>1. Live(t) /\ entry' = entry /\ UNCHANGED <<current, expiry, job, acked, children>>
    BY <1>2 DEF Start, PipelineEnds, TimeOut, CallModel, Answer, Fail, Finish
  <2>2. End(t) \/ \E stage \in Stages \ {"tools"} : GoTo(t, stage)
    BY <1>2 DEF Start, PipelineEnds, TimeOut, CallModel, Answer, Fail, Finish, Stages
  <2> QED
    BY <2>1, <2>2, <1>s, <1>t, Moves DEF Live
<1>3. CASE CallTools(t)
  <2>1. Live(t) /\ entry' = entry /\ GoTo(t, "tools") /\ task[t].round < MaxRounds
        /\ UNCHANGED <<current, expiry, job, acked>> /\ children' \subseteq children \cup {t}
    BY <1>3 DEF CallTools, WithinBudget
  <2>2. "tools" \in Stages
    BY DEF Stages
  <2> QED
    BY <2>1, <2>2, <1>s, <1>t, Moves DEF Live
<1>4. CASE TakeAmendments(t)
  <2>1. Live(t) /\ task[t].entry \in Entries
    BY <1>4, <1>t DEF TakeAmendments, Live, Placed, TaskPlaced
  <2>2. SameServed
    BY <1>4, <2>1, <1>t, PopKeeps DEF TakeAmendments
  <2> DEFINE r == [task[t] EXCEPT !.at = "closing", !.amended = TRUE]
  <2>3. r \in Task
    BY <1>t, TaskChanges DEF Stages
  <2>4. r.kind = task[t].kind /\ r.entry = task[t].entry /\ r.at = "closing"
    BY <1>t DEF Task
  <2>5. task' = [task EXCEPT ![t] = r]
    BY <1>4 DEF TakeAmendments, IInv, EntryTypeOK
  <2> HIDE DEF r
  <2>6. Advances(t)
    BY <2>1, <2>3, <2>4, <2>5 DEF Advances
  <2> QED
    BY <1>4, <2>1, <2>2, <2>6 DEF TakeAmendments, Live
<1>5. CASE ToolsDone(t)
  <2>1. Live(t) /\ task[t].round < MaxRounds /\ entry' = entry
    BY <1>5, <1>t DEF ToolsDone, Placed, TaskPlaced
  <2> DEFINE r == [task[t] EXCEPT !.at = "ready", !.round = @ + 1]
  <2>3. r \in Task
    BY <2>1, <1>t, TaskChanges DEF Stages
  <2>4. r.kind = task[t].kind /\ r.entry = task[t].entry /\ r.at = "ready"
    BY <1>t DEF Task
  <2>5. task' = [task EXCEPT ![t] = r]
    BY <1>5 DEF ToolsDone, IInv, EntryTypeOK
  <2> HIDE DEF r
  <2>6. Advances(t)
    BY <2>1, <2>3, <2>4, <2>5 DEF Advances
  <2> QED
    BY <1>5, <1>s, <2>1, <2>6 DEF ToolsDone, Live
<1>6. CASE Done(t)
  <2> DEFINE next == IF task[t].kind = "chat" /\ task[t].amended
                     THEN entry[task[t].entry].applied ELSE task[t].next
             r == [task[t] EXCEPT !.at = "closed", !.next = next]
  <2>1. Live(t) /\ task[t].entry \in Entries
    BY <1>6, <1>t DEF Done, Live, Placed, TaskPlaced
  <2>2. next \in SUBSET Amendments
    BY <2>1, <1>t DEF EntryTypeOK, Entry, Task
  <2>5. task' = [task EXCEPT ![t] = r]
    BY <1>6 DEF Done, IInv, EntryTypeOK
  <2> HIDE DEF next
  <2>3. r \in Task
    BY <2>2, <1>t, TaskChanges DEF Stages
  <2>4. r.kind = task[t].kind /\ r.entry = task[t].entry /\ r.at = "closed"
    BY <1>t DEF Task
  <2> HIDE DEF r
  <2>6. Advances(t)
    BY <2>1, <2>3, <2>4, <2>5 DEF Advances
  <2> QED
    BY <1>6, <1>s, <2>1, <2>6 DEF Done, Live
<1>7. CASE CarryOn(t)
  <2> DEFINE r == [task[t] EXCEPT !.at = "ready", !.request = task[t].next, !.next = {},
                                  !.amended = FALSE, !.round = 0]
             u == [entry[task[t].entry] EXCEPT !.applied = {}]
  <2>1. Live(t) /\ task[t].entry \in Entries
    BY <1>7, <1>t DEF CarryOn, Live, Placed, TaskPlaced
  <2>3. r \in Task
    <3>1. task[t].next \in SUBSET Amendments /\ "ready" \in Stages
      BY <1>t DEF Task, Stages
    <3> QED
      BY <3>1, <1>t, TaskChanges
  <2>4. r.kind = task[t].kind /\ r.entry = task[t].entry /\ r.at = "ready"
    BY <1>t DEF Task
  <2>5. task' = [task EXCEPT ![t] = r]
    BY <1>7, <1>t DEF CarryOn, Restarted, EntryTypeOK
  <2>6. u \in Entry /\ u.task = entry[task[t].entry].task
    <3>1. /\ entry[task[t].entry] \in Entry
          /\ {} \in SUBSET Amendments /\ <<>> \in Seq(SUBSET Amendments)
      BY <2>1, <1>t DEF EntryTypeOK
    <3>2. u \in Entry
      BY <3>1, EntryChanges
    <3>3. u.task = entry[task[t].entry].task
      BY <3>1 DEF Entry
    <3> QED
      BY <3>2, <3>3
  <2>7. entry' = [entry EXCEPT ![task[t].entry] = u]
    BY <1>7, <1>t DEF CarryOn, EntryTypeOK
  <2> HIDE DEF r, u
  <2>8. Advances(t)
    BY <2>1, <2>3, <2>4, <2>5 DEF Advances
  <2>9. SameServed
    <3>1. entry \in [Entries -> Entry]
      BY <1>t DEF EntryTypeOK
    <3>2. entry' \in [Entries -> Entry]
      BY <2>1, <2>6, <2>7, <3>1
    <3>3. \A f \in Entries : entry'[f].task = entry[f].task
      BY <2>1, <2>6, <2>7, <3>1
    <3> QED
      BY <3>2, <3>3 DEF SameServed
  <2> QED
    BY <1>7, <2>1, <2>8, <2>9 DEF CarryOn, Live
<1> QED
  BY <1>1, <1>2, <1>3, <1>4, <1>5, <1>6, <1>7 DEF Step

\* Every step of a task keeps the invariant.
LEMMA AdvanceKeeps ==
    ASSUME IInv, NEW t \in Tasks, Advances(t), SameServed,
           UNCHANGED <<current, job, acked>>,
           expiry' \in [Tasks -> Entries \cup {NoEntry}],
           children' \subseteq children \cup {t},
           task[t].kind # "none"
    PROVE  IInv'
<1>t. EntryTypeOK /\ TaskPlaced /\ EntryPlaced /\ OneLiveRequest /\ RunningIsListed
  BY DEF IInv, Placed
<1>1. PICK r \in Task :
        /\ task' = [task EXCEPT ![t] = r]
        /\ r.kind = task[t].kind /\ r.entry = task[t].entry
        /\ r.kind # "none" /\ r.at \notin OverStages /\ ~r.cancelled => Live(t)
        /\ r.at = "tools" => r.round < MaxRounds
  BY DEF Advances
<1>2. /\ task' \in [Tasks -> Task] /\ task'[t] = r
      /\ \A u \in Tasks : /\ u # t => task'[u] = task[u]
                          /\ task'[u].kind = task[u].kind
                          /\ task'[u].entry = task[u].entry
  BY <1>1, <1>t DEF EntryTypeOK
<1>3. \A u \in Tasks : Live(u)' => Live(u)
  BY <1>1, <1>2 DEF Live, Over
<1>4. EntryTypeOK'
  BY <1>2, <1>t DEF EntryTypeOK, SameServed
<1>5. TaskPlaced'
  BY <1>1, <1>2, <1>t DEF TaskPlaced
<1>6. EntryPlaced'
  <2>1. \A e \in Entries : entry[e].task \in Tasks \cup {NoTask}
    BY <1>t DEF EntryTypeOK, Entry
  <2> QED
    BY <2>1, <1>2, <1>t DEF EntryPlaced, SameServed
<1>7. OneLiveRequest'
  BY <1>2, <1>3, <1>t DEF OneLiveRequest, SameServed
<1>8. RunningIsListed'
  BY <1>2, <1>3, <1>t DEF RunningIsListed
<1> QED
  BY <1>4, <1>5, <1>6, <1>7, <1>8 DEF IInv, Placed

\* Starting a task makes a task.
LEMMA StartedFacts ==
    ASSUME NEW kind \in {"chat", "pipeline", "resume"}, NEW e \in Entries
    PROVE  /\ Started(kind, e) \in Task
           /\ Started(kind, e).kind = kind /\ Started(kind, e).entry = e
           /\ Started(kind, e).at = "starting" /\ ~Started(kind, e).cancelled
<1>1. Unborn \in Task /\ ~Unborn.cancelled
  BY RoundsAssumption DEF Unborn, Task, Stages
<1> DEFINE r == [Unborn EXCEPT !.kind = kind, !.entry = e, !.at = "starting"]
<1>2. r \in Task
  BY <1>1 DEF Task, Stages
<1>3. r.kind = kind /\ r.entry = e /\ r.at = "starting" /\ ~r.cancelled
  BY <1>1 DEF Task
<1> QED
  BY <1>2, <1>3 DEF Started

\* A new request cancels what its entry served, and is then the only one it serves.
LEMMA RequestKeeps ==
    ASSUME IInv, NEW kind \in {"chat", "pipeline"}, NEW e \in Entries, NEW t \in Tasks,
           Request(kind, e, t)
    PROVE  IInv'
<1>t. EntryTypeOK /\ TaskPlaced /\ EntryPlaced /\ OneLiveRequest /\ RunningIsListed
  BY DEF IInv, Placed
<1> DEFINE new == Started(kind, e)
<1>n. new \in Task /\ new.kind = kind /\ new.entry = e /\ new.at = "starting" /\ ~new.cancelled
  BY StartedFacts
<1>r. /\ task[t].kind = "none"
      /\ current' = e
      /\ entry' = [entry EXCEPT ![e] = [Fresh EXCEPT !.task = t]]
      /\ task' = [Superseded(e) EXCEPT ![t] = new]
      /\ UNCHANGED <<children, expiry, job, acked>>
  BY DEF Request, NewTask
<1>c. current = e \/ (current = NoEntry /\ entry[e].task = NoTask)
  BY DEF Request, NewEntry
<1> HIDE DEF new
<1>1. /\ entry' \in [Entries -> Entry] /\ entry'[e].task = t
      /\ \A f \in Entries : f # e => entry'[f] = entry[f]
  <2>1. Fresh \in Entry /\ {} \in SUBSET Amendments /\ <<>> \in Seq(SUBSET Amendments)
    BY DEF Fresh, Entry
  <2>2. [Fresh EXCEPT !.task = t] \in Entry /\ [Fresh EXCEPT !.task = t].task = t
    <3>1. [Fresh EXCEPT !.task = t] \in Entry
      BY <2>1, EntryChanges
    <3>2. [Fresh EXCEPT !.task = t].task = t
      BY <2>1 DEF Entry
    <3> QED
      BY <3>1, <3>2
  <2>3. entry \in [Entries -> Entry]
    BY <1>t DEF EntryTypeOK
  <2> QED
    BY <1>r, <2>2, <2>3
<1>2. /\ task' \in [Tasks -> Task] /\ task'[t] = new
      /\ \A u \in Tasks : u # t =>
            task'[u] = IF u = entry[e].task /\ ~Over(u)
                       THEN [task[u] EXCEPT !.cancelled = TRUE] ELSE task[u]
  <2>1. task \in [Tasks -> Task]
    BY <1>t DEF EntryTypeOK
  <2>2. \A u \in Tasks : [task[u] EXCEPT !.cancelled = TRUE] \in Task
    <3> TAKE u \in Tasks
    <3>1. task[u] \in Task
      BY <2>1
    <3>2. "ended" \in Stages /\ {} \in SUBSET Amendments
      BY DEF Stages
    <3> QED
      BY <3>1, <3>2, TaskChanges
  <2>3. Superseded(e) \in [Tasks -> Task]
    BY <2>1, <2>2 DEF Superseded
  <2> QED
    BY <1>r, <1>n, <2>3 DEF Superseded
<1>3. \A u \in Tasks : u # t =>
        /\ task'[u].kind = task[u].kind /\ task'[u].entry = task[u].entry
        /\ task'[u].at = task[u].at /\ task'[u].round = task[u].round
        /\ task'[u].cancelled => task[u].cancelled \/ u = entry[e].task
        /\ Live(u)' => Live(u) /\ u # entry[e].task
  <2> TAKE u \in Tasks
  <2> HAVE u # t
  <2>1. task[u] \in Task
    BY <1>t DEF EntryTypeOK
  <2>2. CASE u = entry[e].task /\ ~Over(u)
    <3>1. task'[u] = [task[u] EXCEPT !.cancelled = TRUE]
      BY <1>2, <2>2
    <3>2. /\ task'[u].kind = task[u].kind /\ task'[u].entry = task[u].entry
          /\ task'[u].at = task[u].at /\ task'[u].round = task[u].round
          /\ task'[u].cancelled
      BY <2>1, <3>1 DEF Task
    <3> QED
      BY <2>2, <3>2 DEF Live, Over
  <2>3. CASE ~(u = entry[e].task /\ ~Over(u))
    <3>1. task'[u] = task[u]
      BY <1>2, <2>3
    <3> QED
      BY <2>3, <3>1 DEF Live, Over
  <2> QED
    BY <2>2, <2>3
\* What lived on e was what e served; what lived elsewhere was in no registry.
<1>4. \A u \in Tasks : u # t /\ Live(u)' => Live(u) /\ task[u].entry # e
  BY <1>3, <1>t DEF OneLiveRequest
<1>5. EntryTypeOK'
  BY <1>1, <1>2, <1>r, <1>t DEF EntryTypeOK
<1>6. TaskPlaced'
  <2>1. entry[e].task # NoTask => task[entry[e].task].kind # "none"
    BY <1>t DEF EntryPlaced
  <2>2. \A u \in Tasks : u # NoTask
    BY DEF Tasks, NoTask
  <2> QED
    BY <1>2, <1>3, <1>n, <1>r, <1>t, <2>1, <2>2 DEF TaskPlaced
<1>7. EntryPlaced'
  <2>1. \A f \in Entries : entry[f].task \in Tasks \cup {NoTask}
    BY <1>t DEF EntryTypeOK, Entry
  <2> QED
    BY <1>1, <1>2, <1>3, <1>n, <1>r, <1>t, <2>1 DEF EntryPlaced
<1>8. OneLiveRequest'
  BY <1>1, <1>2, <1>3, <1>4, <1>n, <1>t DEF OneLiveRequest
<1>9. RunningIsListed'
  <2>1. NoEntry \notin Entries
    BY DEF NoEntry, Entries
  <2>2. ASSUME NEW u \in Tasks, u # t, Live(u)', task[u].kind # "resume"
        PROVE  FALSE
    <3>1. Live(u) /\ task[u].entry # e /\ task[u].entry \in Entries
      BY <1>4, <1>t, <2>2 DEF OneLiveRequest
    <3>2. current = task[u].entry
      BY <1>t, <2>2, <3>1 DEF RunningIsListed
    <3> QED
      BY <1>c, <2>1, <3>1, <3>2
  <2> QED
    BY <1>2, <1>3, <1>n, <1>r, <2>2 DEF RunningIsListed
<1> QED
  BY <1>5, <1>6, <1>7, <1>8, <1>9 DEF IInv, Placed

\* What leaves the tasks alone, and the entries' tasks, keeps the invariant.
LEMMA BesideKeeps ==
    ASSUME IInv, UNCHANGED <<task, current>>, SameServed, EntryTypeOK', children' \subseteq children
    PROVE  IInv'
<1>1. \A t \in Tasks : Live(t)' = Live(t)
  BY DEF Live, Over
<1> QED
  BY <1>1 DEF IInv, Placed, TaskPlaced, EntryPlaced, OneLiveRequest, RunningIsListed, SameServed

\* What is queued stays a queue.
LEMMA AmendKeeps ==
    ASSUME IInv, Amend
    PROVE  IInv'
<1>t. EntryTypeOK
  BY DEF IInv
<1>1. /\ current \in Entries /\ acked' \in Amendments /\ acked' \in 0 .. MaxAmendments
      /\ entry' = [entry EXCEPT ![current].pending = WithAmendment(@, acked')]
      /\ UNCHANGED <<current, task, children, expiry, job>>
  BY <1>t, AmendmentsAssumption DEF Amend, EntryTypeOK, Amendments
<1>2. entry \in [Entries -> Entry] /\ entry[current] \in Entry
      /\ entry[current].pending \in Seq(SUBSET Amendments)
  BY <1>1, <1>t DEF EntryTypeOK, Entry
<1> DEFINE queue == WithAmendment(entry[current].pending, acked')
           r == [entry[current] EXCEPT !.pending = queue]
<1>3. queue \in Seq(SUBSET Amendments)
  BY <1>1, <1>2, WithAmendmentFacts
<1>4. r \in Entry
  <2>1. {} \in SUBSET Amendments
    OBVIOUS
  <2> HIDE DEF queue
  <2> QED
    BY <1>2, <1>3, <2>1, EntryChanges
<1>5. entry' = [entry EXCEPT ![current] = r]
  BY <1>1, <1>2
<1>6. r.task = entry[current].task
  BY <1>2 DEF Entry
<1> HIDE DEF r
<1>7. SameServed
  BY <1>1, <1>2, <1>4, <1>5, <1>6 DEF SameServed
<1>8. EntryTypeOK'
  BY <1>1, <1>7, <1>t DEF EntryTypeOK, SameServed
<1> QED
  BY <1>1, <1>7, <1>8, BesideKeeps

\* Stopping leaves fewer live tasks.
LEMMA StopKeeps ==
    ASSUME IInv, Stop
    PROVE  IInv'
<1>t. EntryTypeOK /\ TaskPlaced /\ EntryPlaced /\ OneLiveRequest /\ RunningIsListed
  BY DEF IInv, Placed
<1> DEFINE t == entry[current].task
           r == [task[t] EXCEPT !.cancelled = TRUE]
<1>1. /\ current \in Entries /\ t \in Tasks /\ task[t].kind # "none"
      /\ task' = [task EXCEPT ![t].cancelled = TRUE]
      /\ UNCHANGED <<current, entry, children, expiry, job, acked>>
  BY <1>t DEF Stop, Running, EntryTypeOK, EntryPlaced, Entry
<1>2. task \in [Tasks -> Task] /\ task[t] \in Task
  BY <1>1, <1>t DEF EntryTypeOK
<1>3. r \in Task
  <2>1. "ended" \in Stages /\ {} \in SUBSET Amendments
    BY DEF Stages
  <2> HIDE DEF t
  <2> QED
    BY <1>2, <2>1, TaskChanges
<1>4. r.kind = task[t].kind /\ r.entry = task[t].entry /\ r.cancelled
      /\ r.at = task[t].at /\ r.round = task[t].round
  BY <1>2 DEF Task
<1>5. task' = [task EXCEPT ![t] = r]
  BY <1>1, <1>2
<1> HIDE DEF r
<1>6. Advances(t)
  BY <1>1, <1>3, <1>4, <1>5, <1>t DEF Advances, TaskPlaced
<1>7. SameServed
  BY <1>1, <1>t DEF SameServed, EntryTypeOK
<1>8. expiry' \in [Tasks -> Entries \cup {NoEntry}]
  BY <1>1, <1>t DEF EntryTypeOK
<1> HIDE DEF t
<1> QED
  BY <1>1, <1>6, <1>7, <1>8, AdvanceKeeps

\* A delegated run that takes the amendments, or ends, leaves the tasks alone.
LEMMA ChildKeeps ==
    ASSUME IInv, NEW t \in Tasks, ChildTakes(t) \/ ChildEnds(t)
    PROVE  IInv'
<1>t. EntryTypeOK /\ TaskPlaced
  BY DEF IInv, Placed
<1>1. /\ UNCHANGED <<current, task, expiry, job, acked>>
      /\ children' \subseteq children /\ t \in children
      /\ entry' = entry \/ entry' = PopMerged(task[t].entry)
  BY DEF ChildTakes, ChildEnds
<1>2. task[t].entry \in Entries
  BY <1>1, <1>t DEF TaskPlaced
<1>3. SameServed
  <2>1. CASE entry' = entry
    BY <2>1, <1>t DEF SameServed, EntryTypeOK
  <2>2. CASE entry' = PopMerged(task[t].entry)
    BY <2>2, <1>2, <1>t, PopKeeps
  <2> QED
    BY <1>1, <2>1, <2>2
<1>4. EntryTypeOK'
  BY <1>1, <1>3, <1>t DEF EntryTypeOK, SameServed
<1> QED
  BY <1>1, <1>3, <1>4, BesideKeeps

\* The finalizer removes an entry only when its task is over.
LEMMA FinalizeKeeps ==
    ASSUME IInv, NEW t \in Tasks, Finalize(t)
    PROVE  IInv'
<1>t. EntryTypeOK /\ TaskPlaced
  BY DEF IInv, Placed
<1>1. /\ Over(t) /\ task[t].kind # "none" /\ GoTo(t, "finalized")
      /\ UNCHANGED <<current, entry, children, job, acked>>
  BY <1>t DEF Finalize, Over, OverStages, TaskPlaced
<1>2. "finalized" \in Stages /\ "finalized" \in OverStages /\ "finalized" # "tools"
  BY DEF Stages, OverStages
<1>3. Advances(t)
  BY <1>1, <1>2, <1>t, Moves
<1>4. SameServed
  BY <1>1, <1>t DEF SameServed, EntryTypeOK
<1>5. expiry' \in [Tasks -> Entries \cup {NoEntry}]
  BY <1>t DEF Finalize, EntryTypeOK
<1> QED
  BY <1>1, <1>3, <1>4, <1>5, AdvanceKeeps

\* The finalizer of an earlier request drops an entry only if nothing lives on it.
LEMMA ExpireKeeps ==
    ASSUME IInv, NEW t \in Tasks, Expire(t)
    PROVE  IInv'
<1>t. EntryTypeOK /\ Placed /\ OneLiveRequest /\ RunningIsListed
  BY DEF IInv
<1>1. /\ UNCHANGED <<entry, task, children, job, acked>>
      /\ expiry' = [expiry EXCEPT ![t] = NoEntry]
      /\ current' = current \/ (current' = NoEntry /\ ~Running(current))
  BY DEF Expire, Expires
<1>2. EntryTypeOK'
  BY <1>1, <1>t DEF EntryTypeOK
<1>3. Placed' /\ OneLiveRequest' /\ \A u \in Tasks : Live(u)' = Live(u)
  BY <1>1, <1>t DEF Placed, TaskPlaced, EntryPlaced, OneLiveRequest, Live, Over
<1>4. RunningIsListed'
  <2> SUFFICES ASSUME NEW u \in Tasks, Live(u)', (task[u].kind # "resume")'
               PROVE  current' = task'[u].entry
    BY DEF RunningIsListed
  <2>1. Live(u) /\ current = task[u].entry /\ entry[current].task = u
    BY <1>1, <1>3, <1>t DEF RunningIsListed, OneLiveRequest
  <2>2. u # NoTask
    BY DEF Tasks, NoTask
  <2>3. Running(current)
    BY <2>1, <2>2 DEF Running, Live
  <2> QED
    BY <1>1, <2>1, <2>3
<1> QED
  BY <1>2, <1>3, <1>4 DEF IInv

\* A background job's end reaches no entry and no task.
LEMMA JobKeeps ==
    ASSUME IInv, NEW j \in Jobs, JobDone(j) \/ NotifyOnly(j)
    PROVE  IInv'
<1>t. EntryTypeOK
  BY DEF IInv
<1>1. UNCHANGED <<current, entry, task, children, expiry, acked>>
  BY DEF JobDone, NotifyOnly
<1>2. job' \in [Jobs -> Entries \cup {Working, Told}]
  BY <1>t DEF JobDone, NotifyOnly, EntryTypeOK
<1>3. SameServed /\ EntryTypeOK'
  BY <1>1, <1>2, <1>t DEF SameServed, EntryTypeOK
<1> QED
  BY <1>1, <1>3, BesideKeeps

\* A session is resumed only when nothing lives on its entry.
LEMMA ResumeKeeps ==
    ASSUME IInv, NEW j \in Jobs, NEW t \in Tasks, Resume(j, t)
    PROVE  IInv'
<1>t. EntryTypeOK /\ TaskPlaced /\ EntryPlaced /\ OneLiveRequest /\ RunningIsListed
  BY DEF IInv, Placed
<1> DEFINE e == job[j]
           new == Started("resume", e)
           r == [entry[e] EXCEPT !.task = t]
<1>1. /\ e \in Entries /\ ~Running(e) /\ task[t].kind = "none"
      /\ job' = [job EXCEPT ![j] = Told]
      /\ entry' = [entry EXCEPT ![e].task = t]
      /\ task' = [task EXCEPT ![t] = new]
      /\ UNCHANGED <<current, children, expiry, acked>>
  BY DEF Resume, MayResume, NewTask
<1>2. new \in Task /\ new.kind = "resume" /\ new.entry = e /\ new.at = "starting"
      /\ ~new.cancelled
  BY <1>1, StartedFacts
<1>3. entry \in [Entries -> Entry] /\ entry[e] \in Entry /\ task \in [Tasks -> Task]
  BY <1>1, <1>t DEF EntryTypeOK
<1>4. r \in Entry /\ r.task = t
  <2>1. {} \in SUBSET Amendments /\ <<>> \in Seq(SUBSET Amendments)
    OBVIOUS
  <2>2. r.task = t
    BY <1>3 DEF Entry
  <2> HIDE DEF e
  <2>3. r \in Entry
    BY <1>3, <2>1, EntryChanges
  <2> QED
    BY <2>2, <2>3
<1>5. entry' = [entry EXCEPT ![e] = r]
  BY <1>1, <1>3
<1> HIDE DEF e, new, r
<1>6. /\ entry' \in [Entries -> Entry] /\ entry'[e].task = t
      /\ \A f \in Entries : f # e => entry'[f] = entry[f]
  BY <1>1, <1>3, <1>4, <1>5
<1>7. /\ task' \in [Tasks -> Task] /\ task'[t] = new
      /\ \A u \in Tasks : u # t => task'[u] = task[u]
  BY <1>1, <1>2, <1>3
<1>8. \A u \in Tasks : u # t => Live(u)' = Live(u)
  BY <1>7 DEF Live, Over
<1>9. \A u \in Tasks : Live(u) => task[u].entry # e
  <2>1. \A u \in Tasks : u # NoTask
    BY DEF Tasks, NoTask
  <2> QED
    BY <1>1, <1>t, <2>1 DEF OneLiveRequest, Running, Live
<1>10. EntryTypeOK'
  <2>1. job' \in [Jobs -> Entries \cup {Working, Told}]
    BY <1>1, <1>t DEF EntryTypeOK
  <2> QED
    BY <1>1, <1>6, <1>7, <1>t, <2>1 DEF EntryTypeOK
<1>11. TaskPlaced'
  BY <1>1, <1>2, <1>7, <1>t DEF TaskPlaced
<1>12. EntryPlaced'
  <2>1. \A f \in Entries : entry[f].task \in Tasks \cup {NoTask}
    BY <1>t DEF EntryTypeOK, Entry
  <2> QED
    BY <1>1, <1>2, <1>6, <1>7, <1>t, <2>1 DEF EntryPlaced
<1>13. OneLiveRequest'
  BY <1>1, <1>2, <1>6, <1>7, <1>8, <1>9, <1>t DEF OneLiveRequest
<1>14. RunningIsListed'
  BY <1>1, <1>2, <1>7, <1>8, <1>t DEF RunningIsListed
<1> QED
  BY <1>10, <1>11, <1>12, <1>13, <1>14 DEF IInv, Placed

-----------------------------------------------------------------------------
(* The theorems.                                                           *)

\* Every step of SessionEntry keeps the inductive invariant.
LEMMA StepInv == IInv /\ [EntryNext]_entryVars => IInv'
<1> SUFFICES ASSUME IInv, [EntryNext]_entryVars PROVE IInv'
    OBVIOUS
<1>1. ASSUME NEW t \in Tasks, Step(t) PROVE IInv'
  <2>1. expiry' \in [Tasks -> Entries \cup {NoEntry}]
    BY <1>1, StepAdvances DEF IInv, EntryTypeOK
  <2> QED
    BY <1>1, <2>1, StepAdvances, AdvanceKeeps
<1>2. ASSUME UNCHANGED entryVars PROVE IInv'
  BY <1>2 DEF entryVars, IInv, EntryTypeOK, Placed, TaskPlaced, EntryPlaced, OneLiveRequest,
              RunningIsListed, Live, Over
<1> QED
  BY <1>1, <1>2, RequestKeeps, AmendKeeps, StopKeeps, ChildKeeps, FinalizeKeeps,
     ExpireKeeps, JobKeeps, ResumeKeeps DEF EntryNext

\* The invariant holds in every state of the registry, its entries and their tasks.
THEOREM SessionInvariant == EntrySpec => []IInv
  BY InitInv, StepInv, PTL DEF EntrySpec

\* The entry, the tasks and the jobs are always of their types; in particular no run
\* goes beyond its rounds of tools (WithinBudget in loop.py).
THEOREM SessionTypeCorrect == EntrySpec => []EntryTypeOK
<1>1. IInv => EntryTypeOK
  BY DEF IInv
<1> QED
  BY <1>1, SessionInvariant, PTL

\* However requests, resumptions, stops and finalizers interleave, an entry serves at
\* most one request that is neither over nor being cancelled.
THEOREM OneRequestAtATime == EntrySpec => []OneLiveRequest
<1>1. IInv => OneLiveRequest
  BY DEF IInv
<1> QED
  BY <1>1, SessionInvariant, PTL

\* A running chat or pipeline is found under the session's id: no finalizer of an
\* earlier request drops the entry of a later one.
THEOREM RunningRequestsAreListed == EntrySpec => []RunningIsListed
<1>1. IInv => RunningIsListed
  BY DEF IInv
<1> QED
  BY <1>1, SessionInvariant, PTL

-----------------------------------------------------------------------------
(***************************************************************************)
(* Amendments.                                                             *)
(***************************************************************************)

\* The parts of an entry that a queued amendment, a safe point, an amended run and
\* a resumption leave.
LEMMA EntryParts ==
    ASSUME NEW r \in Entry, NEW queue, NEW some, NEW t
    PROVE  /\ [r EXCEPT !.pending = queue].pending = queue
           /\ [r EXCEPT !.pending = queue].applied = r.applied
           /\ [r EXCEPT !.applied = some, !.pending = <<>>].pending = <<>>
           /\ [r EXCEPT !.applied = some, !.pending = <<>>].applied = some
           /\ [r EXCEPT !.applied = {}].pending = r.pending
           /\ [r EXCEPT !.applied = {}].applied = {}
           /\ [r EXCEPT !.task = t].pending = r.pending
           /\ [r EXCEPT !.task = t].applied = r.applied
  BY DEF Entry

\* The empty queue holds no amendment.
LEMMA NothingQueued == Queued(<<>>) = {}
  BY DEF Queued

\* What an entry holds after a safe point took its amendments.
LEMMA PopFacts ==
    ASSUME EntryTypeOK, NEW e \in Entries, entry' = PopMerged(e)
    PROVE  /\ entry'[e].pending = <<>> /\ entry'[e].applied = Queued(entry[e].pending)
           /\ \A f \in Entries \ {e} : entry'[f] = entry[f]
<1>1. entry \in [Entries -> Entry]
  BY DEF EntryTypeOK
<1> DEFINE r == [entry[e] EXCEPT !.applied = Queued(entry[e].pending), !.pending = <<>>]
<1>2. entry' = [entry EXCEPT ![e] = r]
  BY <1>1 DEF PopMerged
<1>3. r.pending = <<>> /\ r.applied = Queued(entry[e].pending)
  BY <1>1, EntryParts
<1> HIDE DEF r
<1> QED
  BY <1>1, <1>2, <1>3

\* The steps other than a request's, an amendment's and a task's, as far as the
\* entries go: one takes its amendments, or another task serves one.
LEMMA EntriesBeside ==
    ASSUME IInv, NEW t \in Tasks
    PROVE  /\ ChildTakes(t) => task[t].entry \in Entries /\ entry' = PopMerged(task[t].entry)
           /\ ChildEnds(t) \/ Finalize(t) \/ Expire(t) => entry' = entry
           /\ \A j \in Jobs : JobDone(j) \/ NotifyOnly(j) => entry' = entry
           /\ \A j \in Jobs : Resume(j, t) =>
                \A f \in Entries : /\ entry'[f].pending = entry[f].pending
                                   /\ entry'[f].applied = entry[f].applied
<1>1. ChildTakes(t) => task[t].entry \in Entries /\ entry' = PopMerged(task[t].entry)
  BY DEF ChildTakes, IInv, Placed, TaskPlaced
<1>2. ASSUME NEW j \in Jobs, Resume(j, t), NEW f \in Entries
      PROVE  entry'[f].pending = entry[f].pending /\ entry'[f].applied = entry[f].applied
  <2> DEFINE r == [entry[job[j]] EXCEPT !.task = t]
  <2>1. entry \in [Entries -> Entry] /\ job[j] \in Entries
    BY <1>2 DEF Resume, IInv, EntryTypeOK
  <2>2. entry' = [entry EXCEPT ![job[j]] = r]
    BY <1>2, <2>1 DEF Resume
  <2>3. r.pending = entry[job[j]].pending /\ r.applied = entry[job[j]].applied
    BY <2>1, EntryParts
  <2> HIDE DEF r
  <2> QED
    BY <2>1, <2>2, <2>3
<1> QED
  BY <1>1, <1>2 DEF ChildEnds, Finalize, Expire, JobDone, NotifyOnly

\* A new request finds or makes an entry, whose task becomes its own, and resets it.
LEMMA RequestFacts ==
    ASSUME IInv, NEW kind \in {"chat", "pipeline"}, NEW e \in Entries, NEW t \in Tasks,
           Request(kind, e, t)
    PROVE  /\ entry'[e] = [Fresh EXCEPT !.task = t]
           /\ entry'[e].pending = <<>> /\ entry'[e].applied = {} /\ entry'[e].task = t
           /\ entry[e].task # t
           /\ \A f \in Entries \ {e} : entry'[f] = entry[f]
<1>1. entry \in [Entries -> Entry] /\ task[t].kind = "none"
  BY DEF Request, NewTask, IInv, EntryTypeOK
<1>2. entry[e].task # t
  <2>1. t # NoTask
    BY DEF Tasks, NoTask
  <2> QED
    BY <1>1, <2>1 DEF IInv, Placed, EntryPlaced
<1> QED
  BY <1>1, <1>2 DEF Request, Fresh

\* What an amendment does to the entry it is queued at.
LEMMA AmendFacts ==
    ASSUME IInv, Amend
    PROVE  /\ current \in Entries /\ acked' = acked + 1 /\ acked \in Nat
           /\ entry'[current].applied = entry[current].applied
           /\ Queued(entry'[current].pending) = Queued(entry[current].pending) \cup {acked'}
           /\ \A f \in Entries \ {current} : entry'[f] = entry[f]
<1>1. /\ current \in Entries /\ acked' \in Amendments /\ acked \in Nat
      /\ entry' = [entry EXCEPT ![current].pending = WithAmendment(@, acked')]
  BY AmendmentsAssumption DEF Amend, IInv, EntryTypeOK, Amendments
<1>2. /\ entry \in [Entries -> Entry] /\ entry[current] \in Entry
      /\ entry[current].pending \in Seq(SUBSET Amendments)
  BY <1>1 DEF IInv, EntryTypeOK, Entry
<1> DEFINE queue == WithAmendment(entry[current].pending, acked')
           r == [entry[current] EXCEPT !.pending = queue]
<1>3. Queued(queue) = Queued(entry[current].pending) \cup {acked'}
  BY <1>1, <1>2, WithAmendmentFacts
<1>4. r.pending = queue /\ r.applied = entry[current].applied
  <2> HIDE DEF queue
  <2> QED
    BY <1>2, EntryParts
<1>5. entry' = [entry EXCEPT ![current] = r]
  BY <1>1, <1>2
<1> HIDE DEF r, queue
<1>6. entry'[current] = r /\ \A f \in Entries \ {current} : entry'[f] = entry[f]
  BY <1>1, <1>2, <1>5
<1>7. acked' = acked + 1
  BY DEF Amend
<1> QED
  BY <1>1, <1>3, <1>4, <1>6, <1>7

\* What the step of a task does to the entries: nothing, or it takes the amendments,
\* or forgets the amendment it carries on with.
LEMMA EntriesOfStep ==
    ASSUME IInv, NEW t \in Tasks, Step(t)
    PROVE  \/ entry' = entry /\ ~TakeAmendments(t) /\ ~CarryOn(t)
           \/ TakeAmendments(t) /\ task[t].entry \in Entries /\ entry' = PopMerged(task[t].entry)
           \/ /\ CarryOn(t) /\ task[t].entry \in Entries
              /\ entry'[task[t].entry].applied = {}
              /\ entry'[task[t].entry].pending = entry[task[t].entry].pending
              /\ \A f \in Entries \ {task[t].entry} : entry'[f] = entry[f]
<1>1. Live(t) => task[t].entry \in Entries
  BY DEF Live, IInv, Placed, TaskPlaced
<1>2. CASE TakeAmendments(t)
  BY <1>1, <1>2 DEF TakeAmendments
<1>3. CASE CarryOn(t)
  <2> DEFINE e == task[t].entry
             r == [entry[e] EXCEPT !.applied = {}]
  <2>1. e \in Entries /\ entry \in [Entries -> Entry]
    BY <1>1, <1>3 DEF CarryOn, IInv, EntryTypeOK
  <2>2. r.pending = entry[e].pending /\ r.applied = {}
    BY <2>1, EntryParts
  <2>3. entry' = [entry EXCEPT ![e] = r]
    BY <1>3, <2>1 DEF CarryOn
  <2> HIDE DEF e, r
  <2>4. entry'[e] = r /\ \A f \in Entries \ {e} : entry'[f] = entry[f]
    BY <2>1, <2>3
  <2> QED
    BY <1>3, <2>1, <2>2, <2>4 DEF e
<1>4. CASE ~TakeAmendments(t) /\ ~CarryOn(t)
  BY <1>4 DEF Step, Cancelled, Start, PipelineEnds, TimeOut, CallModel, CallTools, ToolsDone,
              Answer, Fail, Done, Finish
<1> QED
  BY <1>2, <1>3, <1>4

\* A step leaves what is queued, or hands all of it to the request that is served, or
\* clears the queue of a request that is over.
LEMMA QueueStep ==
    ASSUME IInv, [EntryNext]_entryVars, NEW e \in Entries
    PROVE  \/ Queued(entry[e].pending) \subseteq Queued(entry'[e].pending)
           \/ /\ entry'[e].pending = <<>>
              /\ \/ entry'[e].applied = Queued(entry[e].pending)
                 \/ entry'[e].task # entry[e].task
<1> DEFINE Goal == \/ Queued(entry[e].pending) \subseteq Queued(entry'[e].pending)
                   \/ /\ entry'[e].pending = <<>>
                      /\ \/ entry'[e].applied = Queued(entry[e].pending)
                         \/ entry'[e].task # entry[e].task
<1>1. EntryTypeOK
  BY DEF IInv
<1>2. ASSUME entry'[e].pending = entry[e].pending
      PROVE  Goal
  BY <1>2
<1>3. ASSUME NEW f \in Entries, entry' = PopMerged(f)
      PROVE  Goal
  BY <1>1, <1>3, PopFacts
<1>4. ASSUME NEW kind \in {"chat", "pipeline"}, NEW f \in Entries, NEW t \in Tasks,
             Request(kind, f, t)
      PROVE  Goal
  <2>1. CASE e = f
    BY <1>4, <2>1, RequestFacts
  <2>2. CASE e # f
    BY <1>4, <2>2, RequestFacts
  <2> QED
    BY <2>1, <2>2
<1>5. CASE Amend
  BY <1>5, AmendFacts
<1>6. ASSUME NEW t \in Tasks, Step(t)
      PROVE  Goal
  BY <1>2, <1>3, <1>6, EntriesOfStep
<1>7. CASE Stop
  BY <1>7 DEF Stop
<1>8. ASSUME NEW t \in Tasks, ChildTakes(t) \/ ChildEnds(t) \/ Finalize(t) \/ Expire(t)
      PROVE  Goal
  BY <1>2, <1>3, <1>8, EntriesBeside
<1>9. ASSUME NEW j \in Jobs, NEW t \in Tasks, Resume(j, t)
      PROVE  Goal
  BY <1>2, <1>9, EntriesBeside
<1>10. ASSUME NEW j \in Jobs, JobDone(j) \/ NotifyOnly(j)
       PROVE  Goal
  BY <1>10 DEF JobDone, NotifyOnly
<1>11. CASE UNCHANGED entryVars
  BY <1>11 DEF entryVars
<1> QED
  BY <1>4, <1>5, <1>6, <1>7, <1>8, <1>9, <1>10, <1>11 DEF EntryNext

\* What is queued leaves the queue only as a whole, for any bound on the queue and
\* any interleaving of requests, safe points, delegated runs and resumptions.
THEOREM QueuesKeepAll == EntrySpec => QueueKeepsAll
<1>1. IInv /\ [EntryNext]_entryVars =>
        [\A e \in Entries :
          \/ Queued(entry[e].pending) \subseteq Queued(entry'[e].pending)
          \/ /\ entry'[e].pending = <<>>
             /\ \/ entry'[e].applied = Queued(entry[e].pending)
                \/ entry'[e].task # entry[e].task]_entryVars
  BY QueueStep
<1> QED
  BY <1>1, SessionInvariant, PTL DEF EntrySpec, QueueKeepsAll

\* A run of a chat that is going on.
Serving(t) == Live(t) /\ task[t].kind = "chat"

\* Amendments later than all that any request was carried on with.
Later(some) == \A a \in some, u \in Tasks : \A b \in task[u].request : b < a

\* On the way to the next run amendments overtake none: what is to be carried on
\* with, what was taken and what is queued are later than what was, in this order.
InOrder(t) ==
    LET e == task[t].entry IN
    /\ Later(task[t].next) /\ Later(entry[e].applied) /\ Later(Queued(entry[e].pending))
    /\ \A a \in Queued(entry[e].pending), b \in task[t].next \cup entry[e].applied : b < a

\* Only amendments that were acknowledged are anywhere, and only chats carry on.
Known ==
    /\ \A t \in Tasks : task[t].request \cup task[t].next \subseteq 1 .. acked
    /\ \A e \in Entries : entry[e].applied \cup Queued(entry[e].pending) \subseteq 1 .. acked

\* Only chats carry on.
ChatsCarryOn == \A t \in Tasks : task[t].next # {} => task[t].kind = "chat"

\* The inductive invariant of the order of amendments.
OrderInv == Known /\ ChatsCarryOn /\ \A t \in Tasks : Serving(t) => InOrder(t)

\* The parts of a task that its steps leave.
LEMMA TaskParts ==
    ASSUME NEW r \in Task, NEW stage, NEW next
    PROVE  /\ [r EXCEPT !.at = stage].request = r.request
           /\ [r EXCEPT !.at = stage].next = r.next
           /\ [r EXCEPT !.cancelled = TRUE].request = r.request
           /\ [r EXCEPT !.cancelled = TRUE].next = r.next
           /\ [r EXCEPT !.at = "ended", !.amended = FALSE, !.next = {}, !.round = 0].request
                = r.request
           /\ [r EXCEPT !.at = "ended", !.amended = FALSE, !.next = {}, !.round = 0].next = {}
           /\ [r EXCEPT !.at = stage, !.amended = TRUE].request = r.request
           /\ [r EXCEPT !.at = stage, !.amended = TRUE].next = r.next
           /\ [r EXCEPT !.at = stage, !.round = @ + 1].request = r.request
           /\ [r EXCEPT !.at = stage, !.round = @ + 1].next = r.next
           /\ [r EXCEPT !.at = stage, !.next = next].request = r.request
           /\ [r EXCEPT !.at = stage, !.next = next].next = next
           /\ [r EXCEPT !.at = stage, !.request = next, !.next = {}, !.amended = FALSE,
                        !.round = 0].request = next
           /\ [r EXCEPT !.at = stage, !.request = next, !.next = {}, !.amended = FALSE,
                        !.round = 0].next = {}
  BY DEF Task

\* The requests of all tasks, and what they are to be carried on with, stay or go.
NoneNew ==
    \A u \in Tasks : /\ task'[u].request = task[u].request
                     /\ task'[u].next \in {task[u].next, {}}

\* Runs of chats stay with their entries, and none comes to life.
NoneBorn ==
    \A u \in Tasks : /\ task'[u].kind = task[u].kind
                     /\ Serving(u)' => Serving(u) /\ task'[u].entry = task[u].entry

\* An advancing task brings none to life.
LEMMA AdvanceServes ==
    ASSUME EntryTypeOK, NEW t \in Tasks, Advances(t)
    PROVE  NoneBorn /\ \A u \in Tasks \ {t} : task'[u] = task[u]
<1>1. PICK r \in Task :
        /\ task' = [task EXCEPT ![t] = r]
        /\ r.kind = task[t].kind /\ r.entry = task[t].entry
        /\ r.kind # "none" /\ r.at \notin OverStages /\ ~r.cancelled => Live(t)
  BY DEF Advances
<1>2. /\ task'[t] = r /\ \A u \in Tasks \ {t} : task'[u] = task[u]
  BY <1>1 DEF EntryTypeOK
<1>3. \A u \in Tasks : Live(u)' => Live(u)
  BY <1>1, <1>2 DEF Live, Over
<1> QED
  BY <1>1, <1>2, <1>3 DEF Serving, NoneBorn

\* The stages of a task that take and forget nothing.
LEMMA QuietTask ==
    ASSUME EntryTypeOK, NEW t \in Tasks, Step(t), ~Done(t), ~CarryOn(t)
    PROVE  task'[t].request = task[t].request /\ task'[t].next \in {task[t].next, {}}
<1>1. task \in [Tasks -> Task] /\ task[t] \in Task
  BY DEF EntryTypeOK
<1>2. ASSUME End(t)
      PROVE  task'[t].request = task[t].request /\ task'[t].next = {}
  BY <1>1, <1>2, TaskParts DEF End
<1>3. ASSUME NEW stage, GoTo(t, stage)
      PROVE  task'[t].request = task[t].request /\ task'[t].next = task[t].next
  <2> DEFINE r == [task[t] EXCEPT !.at = stage]
  <2>1. task' = [task EXCEPT ![t] = r]
    BY <1>1, <1>3 DEF GoTo
  <2>2. r.request = task[t].request /\ r.next = task[t].next
    BY <1>1, TaskParts
  <2> HIDE DEF r
  <2> QED
    BY <1>1, <2>1, <2>2
<1>4. CASE TakeAmendments(t)
  <2> DEFINE r == [task[t] EXCEPT !.at = "closing", !.amended = TRUE]
  <2>1. task' = [task EXCEPT ![t] = r]
    BY <1>1, <1>4 DEF TakeAmendments
  <2>2. r.request = task[t].request /\ r.next = task[t].next
    BY <1>1, TaskParts
  <2> HIDE DEF r
  <2> QED
    BY <1>1, <2>1, <2>2
<1>5. CASE ToolsDone(t)
  <2> DEFINE r == [task[t] EXCEPT !.at = "ready", !.round = @ + 1]
  <2>1. task' = [task EXCEPT ![t] = r]
    BY <1>1, <1>5 DEF ToolsDone
  <2>2. r.request = task[t].request /\ r.next = task[t].next
    BY <1>1, TaskParts
  <2> HIDE DEF r
  <2> QED
    BY <1>1, <2>1, <2>2
<1>6. CASE ~TakeAmendments(t) /\ ~ToolsDone(t)
  <2>1. End(t) \/ \E stage \in Stages : GoTo(t, stage)
    BY <1>6 DEF Step, Cancelled, Start, PipelineEnds, TimeOut, CallModel, CallTools, Answer,
                Fail, Finish, Stages
  <2> QED
    BY <1>2, <1>3, <2>1
<1> QED
  BY <1>4, <1>5, <1>6

\* What the done event and the run of the amended request do to a task.
LEMMA DoneFacts ==
    ASSUME EntryTypeOK, NEW t \in Tasks, Done(t)
    PROVE  /\ task'[t].request = task[t].request
           /\ \/ task'[t].next = task[t].next
              \/ task[t].kind = "chat" /\ task'[t].next = entry[task[t].entry].applied
<1> DEFINE next == IF task[t].kind = "chat" /\ task[t].amended
                   THEN entry[task[t].entry].applied ELSE task[t].next
           r == [task[t] EXCEPT !.at = "closed", !.next = next]
<1>1. task \in [Tasks -> Task] /\ task[t] \in Task
  BY DEF EntryTypeOK
<1>2. task' = [task EXCEPT ![t] = r]
  BY <1>1 DEF Done
<1>3. r.request = task[t].request /\ r.next = next
  <2> HIDE DEF next
  <2> QED
    BY <1>1, TaskParts
<1>4. task'[t] = r
  <2> HIDE DEF r
  <2> QED
    BY <1>1, <1>2
<1>5. task'[t].request = task[t].request /\ task'[t].next = next
  BY <1>3, <1>4
<1> QED
  BY <1>5

\* A chat carries on with what was set aside for its next run.
LEMMA CarryOnFacts ==
    ASSUME EntryTypeOK, NEW t \in Tasks, CarryOn(t)
    PROVE  task'[t].request = task[t].next /\ task'[t].next = {}
<1> DEFINE r == [task[t] EXCEPT !.at = "ready", !.request = task[t].next, !.next = {},
                                !.amended = FALSE, !.round = 0]
<1>1. task \in [Tasks -> Task] /\ task[t] \in Task
  BY DEF EntryTypeOK
<1>2. task' = [task EXCEPT ![t] = r]
  BY <1>1 DEF CarryOn, Restarted
<1>3. r.request = task[t].next /\ r.next = {}
  BY <1>1, TaskParts
<1> HIDE DEF r
<1> QED
  BY <1>1, <1>2, <1>3

-----------------------------------------------------------------------------

\* Where nothing is added, the order stays.
LEMMA OrderKept ==
    ASSUME OrderInv, IInv, acked' = acked,
           \A u \in Tasks : /\ task'[u].request \subseteq task[u].request
                            /\ task'[u].next \subseteq task[u].next
                            /\ task'[u].next # {} => task'[u].kind = task[u].kind,
           \A e \in Entries : /\ entry'[e].applied \subseteq entry[e].applied
                              /\ Queued(entry'[e].pending) \subseteq Queued(entry[e].pending),
           \A u \in Tasks : Serving(u)' =>
              \/ Serving(u) /\ task'[u].entry = task[u].entry
              \/ /\ task'[u].next = {} /\ entry'[task'[u].entry].applied = {}
                 /\ Queued(entry'[task'[u].entry].pending) = {}
    PROVE  OrderInv'
<1>1. Known'
  BY DEF OrderInv, Known
<1>2. ChatsCarryOn'
  BY DEF OrderInv, ChatsCarryOn
<1>3. ASSUME NEW u \in Tasks, Serving(u)'
      PROVE  InOrder(u)'
  <2>1. CASE Serving(u) /\ task'[u].entry = task[u].entry
    <3>1. InOrder(u) /\ task[u].entry \in Entries
      BY <2>1 DEF OrderInv, Serving, Live, IInv, Placed, TaskPlaced
    <3>2. \A some, less : Later(some) /\ less \subseteq some => Later(less)'
      BY DEF Later
    <3>3. /\ task'[u].next \subseteq task[u].next
          /\ entry'[task[u].entry].applied \subseteq entry[task[u].entry].applied
          /\ Queued(entry'[task[u].entry].pending) \subseteq Queued(entry[task[u].entry].pending)
      BY <3>1
    <3>4. /\ Later(task[u].next)' /\ Later(entry[task[u].entry].applied)'
          /\ Later(Queued(entry[task[u].entry].pending))'
      BY <2>1, <3>1, <3>2, <3>3 DEF InOrder, Later
    <3> QED
      BY <2>1, <3>1, <3>3, <3>4 DEF InOrder
  <2>2. CASE /\ task'[u].next = {} /\ entry'[task'[u].entry].applied = {}
             /\ Queued(entry'[task'[u].entry].pending) = {}
    BY <2>2 DEF InOrder, Later
  <2> QED
    BY <1>3, <2>1, <2>2
<1> QED
  BY <1>1, <1>2, <1>3 DEF OrderInv

\* A safe point takes what is later than all before it.
LEMMA PopOrder ==
    ASSUME OrderInv, IInv, NEW e \in Entries, entry' = PopMerged(e), acked' = acked,
           NoneNew, NoneBorn
    PROVE  OrderInv'
<1>1. /\ entry'[e].pending = <<>> /\ entry'[e].applied = Queued(entry[e].pending)
      /\ \A f \in Entries \ {e} : entry'[f] = entry[f]
  BY PopFacts DEF IInv
<1>2. Queued(entry'[e].pending) = {}
  BY <1>1, NothingQueued
<1>3. Known'
  BY <1>1, <1>2 DEF OrderInv, Known, NoneNew
<1>4. ChatsCarryOn'
  BY DEF OrderInv, ChatsCarryOn, NoneNew, NoneBorn
<1>5. ASSUME NEW u \in Tasks, Serving(u)'
      PROVE  InOrder(u)'
  <2>1. /\ InOrder(u) /\ task'[u].entry = task[u].entry /\ task[u].entry \in Entries
    BY <1>5 DEF NoneBorn, OrderInv, Serving, Live, IInv, Placed, TaskPlaced
  <2>2. \A some : Later(some) => Later(some)'
    BY DEF Later, NoneNew
  <2>3. Later(task[u].next)'
    <3>1. task'[u].next \in {task[u].next, {}}
      BY DEF NoneNew
    <3> QED
      BY <2>1, <3>1 DEF InOrder, Later, NoneNew
  <2>4. CASE task[u].entry = e
    <3>1. Later(entry[e].applied)' /\ Later(Queued(entry[e].pending))'
      BY <1>1, <1>2, <2>1, <2>4 DEF InOrder, Later, NoneNew
    <3> QED
      BY <1>2, <2>1, <2>3, <2>4, <3>1 DEF InOrder
  <2>5. CASE task[u].entry # e
    <3>1. entry'[task[u].entry] = entry[task[u].entry]
      BY <1>1, <2>1, <2>5
    <3>2. Later(entry[task[u].entry].applied)' /\ Later(Queued(entry[task[u].entry].pending))'
      BY <2>1, <3>1 DEF InOrder, Later, NoneNew
    <3> QED
      BY <2>1, <2>3, <3>1, <3>2 DEF InOrder, NoneNew
  <2> QED
    BY <2>4, <2>5
<1> QED
  BY <1>3, <1>4, <1>5 DEF OrderInv

\* An amendment is later than all before it.
LEMMA AmendOrder ==
    ASSUME OrderInv, IInv, Amend
    PROVE  OrderInv'
<1>1. /\ current \in Entries /\ acked' = acked + 1 /\ acked \in Nat
      /\ entry'[current].applied = entry[current].applied
      /\ Queued(entry'[current].pending) = Queued(entry[current].pending) \cup {acked'}
      /\ \A f \in Entries \ {current} : entry'[f] = entry[f]
  BY AmendFacts
<1>2. task' = task
  BY DEF Amend
<1>3. Known'
  <2>1. \A some : some \subseteq 1 .. acked => some \subseteq 1 .. acked'
    BY <1>1
  <2>2. acked' \in 1 .. acked'
    BY <1>1
  <2> QED
    BY <1>1, <1>2, <2>1, <2>2 DEF OrderInv, Known
<1>4. ChatsCarryOn'
  BY <1>2 DEF OrderInv, ChatsCarryOn
<1>5. ASSUME NEW u \in Tasks, Serving(u)'
      PROVE  InOrder(u)'
  <2>1. InOrder(u) /\ task[u].entry \in Entries
    BY <1>2, <1>5 DEF OrderInv, Serving, Live, Over, IInv, Placed, TaskPlaced
  <2>2. CASE task[u].entry # current
    BY <1>1, <1>2, <2>1, <2>2 DEF InOrder, Later
  <2>3. CASE task[u].entry = current
    <3>1. \A v \in Tasks : \A b \in task[v].request : b < acked'
      BY <1>1 DEF OrderInv, Known
    <3>2. \A b \in task[u].next \cup entry[current].applied : b < acked'
      BY <1>1 DEF OrderInv, Known
    <3> QED
      BY <1>1, <1>2, <2>1, <2>3, <3>1, <3>2 DEF InOrder, Later
  <2> QED
    BY <2>2, <2>3
<1> QED
  BY <1>3, <1>4, <1>5 DEF OrderInv

\* The done event passes on what was taken.
LEMMA DoneOrder ==
    ASSUME OrderInv, IInv, NEW t \in Tasks, Done(t)
    PROVE  OrderInv'
<1>1. EntryTypeOK /\ Step(t)
  BY DEF IInv, Step
<1>2. NoneBorn /\ \A u \in Tasks \ {t} : task'[u] = task[u]
  BY <1>1, StepAdvances, AdvanceServes
<1>3. /\ task'[t].request = task[t].request
      /\ \/ task'[t].next = task[t].next
         \/ task[t].kind = "chat" /\ task'[t].next = entry[task[t].entry].applied
  BY <1>1, DoneFacts
<1>4. entry' = entry /\ acked' = acked /\ task[t].entry \in Entries
  BY DEF Done, Live, IInv, Placed, TaskPlaced
<1>5. \A u \in Tasks : task'[u].request = task[u].request
  BY <1>2, <1>3
<1>6. Known'
  BY <1>2, <1>3, <1>4, <1>5 DEF OrderInv, Known
<1>7. ChatsCarryOn'
  BY <1>2, <1>3 DEF OrderInv, ChatsCarryOn, NoneBorn
<1>8. ASSUME NEW u \in Tasks, Serving(u)'
      PROVE  InOrder(u)'
  <2>1. InOrder(u) /\ task'[u].entry = task[u].entry
    BY <1>8, <1>2 DEF NoneBorn, OrderInv
  <2>2. task'[u].next = task[u].next \/ task'[u].next = entry[task[u].entry].applied
    BY <1>2, <1>3
  <2>3. Later(task[u].next)'
    BY <1>5, <2>1, <2>2 DEF InOrder, Later
  <2>4. Later(entry[task[u].entry].applied)' /\ Later(Queued(entry[task[u].entry].pending))'
    BY <1>4, <1>5, <2>1 DEF InOrder, Later
  <2> QED
    BY <1>4, <2>1, <2>2, <2>3, <2>4 DEF InOrder
<1> QED
  BY <1>6, <1>7, <1>8 DEF OrderInv

\* Only the run of a chat carries on, and it is the only one.
LEMMA CarryOnServes ==
    ASSUME OrderInv, IInv, NEW t \in Tasks, CarryOn(t)
    PROVE  Serving(t) /\ \A u \in Tasks \ {t} : ~Serving(u)
<1>1. Serving(t)
  BY DEF CarryOn, Serving, OrderInv, ChatsCarryOn
<1>2. \A u \in Tasks : Serving(u) => entry[current].task = u
  BY DEF Serving, IInv, OneLiveRequest, RunningIsListed
<1> QED
  BY <1>1, <1>2

\* Carrying on: what was to come next is now what the chat was carried on with, and
\* all that is still queued is later.
LEMMA CarryOnOrder ==
    ASSUME OrderInv, IInv, NEW t \in Tasks, CarryOn(t)
    PROVE  OrderInv'
<1>1. EntryTypeOK /\ Step(t)
  BY DEF IInv, Step
<1>2. NoneBorn /\ \A u \in Tasks \ {t} : task'[u] = task[u]
  BY <1>1, StepAdvances, AdvanceServes
<1>3. task'[t].request = task[t].next /\ task'[t].next = {}
  BY <1>1, CarryOnFacts
<1>4. /\ task[t].entry \in Entries
      /\ entry'[task[t].entry].applied = {}
      /\ entry'[task[t].entry].pending = entry[task[t].entry].pending
      /\ \A f \in Entries \ {task[t].entry} : entry'[f] = entry[f]
      /\ acked' = acked
  <2>1. ~TakeAmendments(t)
    BY DEF TakeAmendments, CarryOn
  <2> QED
    BY <1>1, <2>1, EntriesOfStep DEF CarryOn
<1>5. Known'
  BY <1>2, <1>3, <1>4 DEF OrderInv, Known
<1>6. ChatsCarryOn'
  BY <1>2, <1>3 DEF OrderInv, ChatsCarryOn
<1>7. ASSUME NEW u \in Tasks, Serving(u)'
      PROVE  InOrder(u)'
  <2>1. u = t /\ InOrder(t) /\ task'[t].entry = task[t].entry
    BY <1>2, <1>7, CarryOnServes DEF NoneBorn, OrderInv
  <2>2. \A v \in Tasks : task'[v].request \in {task[v].request, task[t].next}
    BY <1>2, <1>3
  <2>3. Later(Queued(entry[task[t].entry].pending))'
    BY <1>4, <2>1, <2>2 DEF InOrder, Later
  <2> QED
    BY <1>3, <1>4, <2>1, <2>3 DEF InOrder, Later
<1> QED
  BY <1>5, <1>6, <1>7 DEF OrderInv

\* Every step of a task keeps the order.
LEMMA StepOrder ==
    ASSUME OrderInv, IInv, NEW t \in Tasks, Step(t)
    PROVE  OrderInv'
<1>1. CASE Done(t)
  BY <1>1, DoneOrder
<1>2. CASE CarryOn(t)
  BY <1>2, CarryOnOrder
<1>3. CASE ~Done(t) /\ ~CarryOn(t)
  <2>1. EntryTypeOK
    BY DEF IInv
  <2>2. NoneBorn /\ (\A u \in Tasks \ {t} : task'[u] = task[u]) /\ acked' = acked
    BY <2>1, StepAdvances, AdvanceServes
  <2>3. NoneNew
    BY <1>3, <2>1, <2>2, QuietTask DEF NoneNew
  <2>4. CASE entry' = entry
    BY <2>2, <2>3, <2>4, OrderKept DEF NoneNew, NoneBorn
  <2>5. CASE entry' # entry
    BY <1>3, <2>2, <2>3, <2>5, EntriesOfStep, PopOrder
  <2> QED
    BY <2>4, <2>5
<1> QED
  BY <1>1, <1>2, <1>3

\* A task that starts carries nothing on yet.
LEMMA StartedParts ==
    ASSUME NEW kind, NEW e
    PROVE  /\ Started(kind, e).request = {} /\ Started(kind, e).next = {}
           /\ Started(kind, e).kind = kind /\ Started(kind, e).entry = e
  BY DEF Started, Unborn

\* A request begins with a clean entry.
LEMMA RequestOrder ==
    ASSUME OrderInv, IInv, NEW kind \in {"chat", "pipeline"}, NEW e \in Entries,
           NEW t \in Tasks, Request(kind, e, t)
    PROVE  OrderInv'
<1>1. task \in [Tasks -> Task] /\ entry \in [Entries -> Entry]
  BY DEF IInv, EntryTypeOK
<1>2. /\ entry'[e].pending = <<>> /\ entry'[e].applied = {}
      /\ \A f \in Entries \ {e} : entry'[f] = entry[f]
      /\ acked' = acked
  BY RequestFacts DEF Request
<1>3. \A f \in Entries : /\ entry'[f].applied \subseteq entry[f].applied
                         /\ Queued(entry'[f].pending) \subseteq Queued(entry[f].pending)
  BY <1>2, NothingQueued
<1>4. /\ task'[t] = Started(kind, e)
      /\ \A u \in Tasks \ {t} : task'[u] = Superseded(e)[u]
  BY <1>1 DEF Request, Superseded
<1>5. ASSUME NEW u \in Tasks \ {t}
      PROVE  /\ task'[u].request = task[u].request /\ task'[u].next = task[u].next
             /\ task'[u].kind = task[u].kind /\ task'[u].entry = task[u].entry
             /\ Serving(u)' => Serving(u)
  <2> DEFINE r == [task[u] EXCEPT !.cancelled = TRUE]
  <2>1. task'[u] = task[u] \/ task'[u] = r
    BY <1>4, <1>5 DEF Superseded
  <2>2. /\ r.request = task[u].request /\ r.next = task[u].next
        /\ r.kind = task[u].kind /\ r.entry = task[u].entry /\ r.cancelled
    BY <1>1 DEF Task
  <2> HIDE DEF r
  <2> QED
    BY <2>1, <2>2 DEF Serving, Live, Over
<1>6. \A u \in Tasks : /\ task'[u].request \subseteq task[u].request
                       /\ task'[u].next \subseteq task[u].next
                       /\ task'[u].next # {} => task'[u].kind = task[u].kind
  BY <1>4, <1>5, StartedParts
<1>7. /\ task'[t].next = {} /\ entry'[task'[t].entry].applied = {}
      /\ Queued(entry'[task'[t].entry].pending) = {}
  BY <1>2, <1>4, StartedParts, NothingQueued
<1> QED
  BY <1>2, <1>3, <1>5, <1>6, <1>7, OrderKept

\* A resumed run carries nothing on.
LEMMA ResumeOrder ==
    ASSUME OrderInv, IInv, NEW j \in Jobs, NEW t \in Tasks, Resume(j, t)
    PROVE  OrderInv'
<1>1. task \in [Tasks -> Task]
  BY DEF IInv, EntryTypeOK
<1>2. \A f \in Entries : /\ entry'[f].pending = entry[f].pending
                         /\ entry'[f].applied = entry[f].applied
  BY EntriesBeside
<1>3. /\ task'[t] = Started("resume", job[j])
      /\ \A u \in Tasks \ {t} : task'[u] = task[u]
      /\ acked' = acked
  BY <1>1 DEF Resume
<1>4. ~Serving(t)'
  BY <1>3, StartedParts DEF Serving
<1>5. \A u \in Tasks \ {t} : Serving(u)' => Serving(u)
  BY <1>3 DEF Serving, Live, Over
<1> QED
  BY <1>2, <1>3, <1>4, <1>5, StartedParts, OrderKept

\* Stopping a run, or being done with it, adds nothing.
LEMMA EndedOrder ==
    ASSUME OrderInv, IInv, Stop \/ \E t \in Tasks : Finalize(t)
    PROVE  OrderInv'
<1>1. task \in [Tasks -> Task] /\ entry' = entry /\ acked' = acked
  BY DEF Stop, Finalize, IInv, EntryTypeOK
<1>2. ASSUME NEW t \in Tasks, NEW r \in Task, task' = [task EXCEPT ![t] = r],
             r.request = task[t].request, r.next = task[t].next, r.kind = task[t].kind,
             r.entry = task[t].entry, r.cancelled \/ r.at \in OverStages
      PROVE  OrderInv'
  <2>1. task'[t] = r /\ \A u \in Tasks \ {t} : task'[u] = task[u]
    BY <1>1, <1>2
  <2>2. \A u \in Tasks : Serving(u)' => Serving(u) /\ task'[u].entry = task[u].entry
    BY <1>2, <2>1 DEF Serving, Live, Over
  <2> QED
    BY <1>1, <1>2, <2>1, <2>2, OrderKept
<1>3. CASE Stop
  <2> DEFINE t == entry[current].task
             r == [task[t] EXCEPT !.cancelled = TRUE]
  <2>1. t \in Tasks
    BY <1>3 DEF Stop, Running, IInv, EntryTypeOK, Entry
  <2>2. task' = [task EXCEPT ![t] = r]
    BY <1>1, <1>3, <2>1 DEF Stop
  <2> HIDE DEF t
  <2>3. /\ r \in Task /\ r.request = task[t].request /\ r.next = task[t].next
        /\ r.kind = task[t].kind /\ r.entry = task[t].entry /\ r.cancelled
    BY <1>1, <2>1 DEF Task
  <2> HIDE DEF r
  <2> QED
    BY <1>2, <2>1, <2>2, <2>3
<1>4. ASSUME NEW t \in Tasks, Finalize(t)
      PROVE  OrderInv'
  <2> DEFINE r == [task[t] EXCEPT !.at = "finalized"]
  <2>1. task' = [task EXCEPT ![t] = r]
    BY <1>1, <1>4 DEF Finalize, GoTo
  <2>2. /\ r \in Task /\ r.request = task[t].request /\ r.next = task[t].next
        /\ r.kind = task[t].kind /\ r.entry = task[t].entry /\ r.at \in OverStages
    BY <1>1 DEF Task, Stages, OverStages
  <2> HIDE DEF r
  <2> QED
    BY <1>2, <2>1, <2>2
<1> QED
  BY <1>3, <1>4

\* Every step of SessionEntry keeps the order.
LEMMA NextOrder == OrderInv /\ IInv /\ [EntryNext]_entryVars => OrderInv'
<1> SUFFICES ASSUME OrderInv, IInv, [EntryNext]_entryVars PROVE OrderInv'
    OBVIOUS
<1>1. ASSUME NEW t \in Tasks, ChildTakes(t)
      PROVE  OrderInv'
  <2>1. NoneNew /\ NoneBorn /\ acked' = acked
    BY <1>1 DEF ChildTakes, NoneNew, NoneBorn, Serving, Live, Over
  <2> QED
    BY <1>1, <2>1, EntriesBeside, PopOrder
<1>2. ASSUME UNCHANGED <<entry, task, acked>>
      PROVE  OrderInv'
  BY <1>2, OrderKept DEF Serving, Live, Over
<1> QED
  BY <1>1, <1>2, RequestOrder, AmendOrder, EndedOrder, StepOrder, ResumeOrder
     DEF EntryNext, ChildEnds, Expire, JobDone, NotifyOnly, entryVars

\* Before the first request there are no amendments.
LEMMA InitOrder == EntryInit => OrderInv
<1> SUFFICES ASSUME EntryInit PROVE OrderInv
    OBVIOUS
<1>1. \A t \in Tasks : task[t].request = {} /\ task[t].next = {} /\ ~Serving(t)
  BY DEF EntryInit, Unborn, Serving, Live
<1>2. \A e \in Entries : entry[e].applied = {} /\ Queued(entry[e].pending) = {}
  BY NothingQueued DEF EntryInit, Fresh
<1> QED
  BY <1>1, <1>2 DEF OrderInv, Known, ChatsCarryOn

\* Only carrying on changes what a task was carried on with.
LEMMA RequestsKept ==
    ASSUME IInv, [EntryNext]_entryVars, NEW t \in Tasks, ~CarryOn(t)
    PROVE  task'[t].request \in {task[t].request, {}}
<1>1. task \in [Tasks -> Task] /\ EntryTypeOK
  BY DEF IInv, EntryTypeOK
<1>2. /\ [task[t] EXCEPT !.cancelled = TRUE].request = task[t].request
      /\ [task[t] EXCEPT !.at = "finalized"].request = task[t].request
  BY <1>1, TaskParts
<1>3. ASSUME NEW kind \in {"chat", "pipeline"}, NEW e \in Entries, NEW u \in Tasks,
             Request(kind, e, u)
      PROVE  task'[t].request \in {task[t].request, {}}
  <2>1. /\ t = u => task'[t] = Started(kind, e)
        /\ t # u => task'[t] \in {task[t], [task[t] EXCEPT !.cancelled = TRUE]}
    BY <1>1, <1>3 DEF Request, Superseded
  <2>2. CASE t = u
    BY <2>1, <2>2, StartedParts
  <2>3. CASE t # u
    <3>1. CASE task'[t] = task[t]
      BY <3>1
    <3>2. CASE task'[t] = [task[t] EXCEPT !.cancelled = TRUE]
      BY <1>2, <3>2
    <3> QED
      BY <2>1, <2>3, <3>1, <3>2
  <2> QED
    BY <2>2, <2>3
<1>4. CASE Stop
  <2>1. task'[t] \in {task[t], [task[t] EXCEPT !.cancelled = TRUE]}
    BY <1>1, <1>4 DEF Stop
  <2> QED
    BY <1>2, <2>1
<1>5. ASSUME NEW u \in Tasks, Step(u)
      PROVE  task'[t].request \in {task[t].request, {}}
  <2>1. CASE t = u
    BY <1>1, <1>5, <2>1, QuietTask, DoneFacts
  <2>2. CASE t # u
    BY <1>1, <1>5, <2>2, StepAdvances, AdvanceServes
  <2> QED
    BY <2>1, <2>2
<1>6. ASSUME NEW u \in Tasks, Finalize(u)
      PROVE  task'[t].request \in {task[t].request, {}}
  <2>1. task'[t] \in {task[t], [task[t] EXCEPT !.at = "finalized"]}
    BY <1>1, <1>6 DEF Finalize, GoTo
  <2> QED
    BY <1>2, <2>1
<1>7. ASSUME NEW j \in Jobs, NEW u \in Tasks, Resume(j, u)
      PROVE  task'[t].request \in {task[t].request, {}}
  <2>1. task'[t] \in {task[t], Started("resume", job[j])}
    BY <1>1, <1>7 DEF Resume
  <2> QED
    BY <2>1, StartedParts
<1>8. ASSUME task' = task
      PROVE  task'[t].request = task[t].request
  BY <1>8
<1> QED
  BY <1>3, <1>4, <1>5, <1>6, <1>7, <1>8
     DEF EntryNext, Amend, ChildTakes, ChildEnds, Expire, JobDone, NotifyOnly, entryVars

\* However often a chat is amended while its runs, its delegated runs and other
\* requests take amendments, it carries on with later ones each time: none is
\* answered twice or after a later one.
THEOREM AmendmentsInOrder == EntrySpec => AnsweredInOrder
<1>1. ASSUME OrderInv, IInv, [EntryNext]_entryVars, NEW t \in Tasks,
             task'[t].request # task[t].request,
             NEW u \in Tasks, NEW a \in task'[t].request, NEW b \in task[u].request
      PROVE  b < a
  <2>1. CarryOn(t)
    BY <1>1, RequestsKept
  <2>2. task'[t].request = task[t].next /\ InOrder(t)
    BY <1>1, <2>1, CarryOnFacts, CarryOnServes DEF OrderInv, IInv
  <2> QED
    BY <1>1, <2>2 DEF InOrder, Later
<1>2. OrderInv /\ IInv /\ [EntryNext]_entryVars =>
        [\A t \in Tasks :
           task'[t].request # task[t].request =>
               \A u \in Tasks :
                   \A a \in task'[t].request, b \in task[u].request : b < a]_entryVars
  BY <1>1
<1>3. EntrySpec => []OrderInv
  BY InitOrder, NextOrder, SessionInvariant, PTL DEF EntrySpec
<1> QED
  BY <1>2, <1>3, SessionInvariant, PTL DEF EntrySpec, AnsweredInOrder

=============================================================================

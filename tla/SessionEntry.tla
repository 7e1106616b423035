---------------------------- MODULE SessionEntry ----------------------------
(***************************************************************************)
(* The requests of one web session: the registry entry that outlives the   *)
(* connections (src/hushclaw/server/session.py), the handler of the        *)
(* messages that start, amend and stop a request                           *)
(* (src/hushclaw/server_impl.py), the task of a request (_handle_chat in   *)
(* src/hushclaw/server/chat_mixin.py), the points of the agent loop where  *)
(* it takes amendments (src/hushclaw/loop.py), the runs it delegates       *)
(* (Gateway.execute in src/hushclaw/gateway.py) and the runs that resume   *)
(* a session when a background job is done.                                *)
(*                                                                         *)
(* All of it runs on one event loop, and a step is what happens between    *)
(* two suspensions.  The locks around the entry and the registry are never *)
(* contended, because nothing inside them suspends: taking one is no step, *)
(* and "is it running?  then queue the amendment" is a single step.        *)
(*                                                                         *)
(* An amendment is the number of its acknowledgement; a queued item is the *)
(* set of the amendments merged into it.                                   *)
(***************************************************************************)
EXTENDS Integers, Sequences

CONSTANTS
    MaxTasks,       \* bound: tasks of the session's requests
    MaxEntries,     \* bound: entries made for the session
    MaxAmendments,  \* bound: amendments acknowledged
    Jobs,           \* background jobs that resume the session when done
    MaxPending,     \* _MAX_PENDING_AMENDMENTS
    MaxRounds       \* rounds of tools in a run

ASSUME TasksAssumption == MaxTasks \in Nat
ASSUME EntriesAssumption == MaxEntries \in Nat
ASSUME AmendmentsAssumption == MaxAmendments \in Nat
ASSUME PendingAssumption == MaxPending \in Nat \ {0}
ASSUME RoundsAssumption == MaxRounds \in Nat

VARIABLES
    current,   \* the entry in _session_tasks under the session's id
    entry,     \* entry[e]: its task, pending_amendments and applied_amendment
    task,      \* task[t]: how far the task of a request is
    children,  \* the tasks whose delegated run is under way
    expiry,    \* expiry[t]: the entry that the finalizer of t may drop
    job,       \* job[j]: under way, over, or the entry it is announced to
    acked      \* the number of amendments acknowledged

entryVars == <<current, entry, task, children, expiry, job, acked>>

-----------------------------------------------------------------------------

Tasks == 1 .. MaxTasks
Entries == 1 .. MaxEntries
Amendments == 1 .. MaxAmendments
NoTask == 0
NoEntry == 0
Working == -1   \* a job that is not done
Told == -2      \* a job that is done and announced

\* "ready", "model", "tools" and "closing" are the stages of loop.event_stream;
\* "closed" is after its done event; "finalized" after the done callback.
Stages == {"unborn", "starting", "ready", "model", "tools", "closing", "closed",
           "ended", "finalized"}
OverStages == {"ended", "finalized"}

Task == [kind : {"none", "chat", "pipeline", "resume"},
         entry : Entries \cup {NoEntry},
         at : Stages,
         cancelled : BOOLEAN,
         amended : BOOLEAN,
         next : SUBSET Amendments,
         request : SUBSET Amendments,
         round : 0 .. MaxRounds]

Unborn == [kind |-> "none", entry |-> NoEntry, at |-> "unborn", cancelled |-> FALSE,
           amended |-> FALSE, next |-> {}, request |-> {}, round |-> 0]

Entry == [task : Tasks \cup {NoTask},
          pending : Seq(SUBSET Amendments),
          applied : SUBSET Amendments]

Fresh == [task |-> NoTask, pending |-> <<>>, applied |-> {}]

Over(t) == task[t].at \in OverStages
Live(t) == task[t].kind # "none" /\ ~Over(t) /\ ~task[t].cancelled

\* is_running
Running(e) == entry[e].task # NoTask /\ ~Over(entry[e].task)

\* The amendments in a queue.
Queued(queue) == UNION {queue[i] : i \in DOMAIN queue}

\* Variant: what does not fit replaces the tail.
QueueKeepingLatest(queue, a) ==
    IF Len(queue) < MaxPending
    THEN Append(queue, {a})
    ELSE [queue EXCEPT ![Len(queue)] = {a}]

\* queue_amendment: append, or merge into the tail of a full queue.
WithAmendment(queue, a) ==
    IF Len(queue) < MaxPending
    THEN Append(queue, {a})
    ELSE [queue EXCEPT ![Len(queue)] = @ \cup {a}]

\* Variant: the queue is read and not cleared.
PeekMerged(e) == [entry EXCEPT ![e].applied = Queued(entry[e].pending)]

\* pop_merged_amendment on a queue that is not empty.
PopMerged(e) ==
    [entry EXCEPT ![e].applied = Queued(entry[e].pending), ![e].pending = <<>>]

\* The first task and the first entry that were never used.
NewTask(t) == task[t].kind = "none" /\ \A u \in 1 .. t - 1 : task[u].kind # "none"
NewEntry(e) == entry[e].task = NoTask /\ \A f \in 1 .. e - 1 : entry[f].task # NoTask

Started(kind, e) == [Unborn EXCEPT !.kind = kind, !.entry = e, !.at = "starting"]

EntryInit ==
    /\ current = NoEntry
    /\ entry = [e \in Entries |-> Fresh]
    /\ task = [t \in Tasks |-> Unborn]
    /\ children = {}
    /\ expiry = [t \in Tasks |-> NoEntry]
    /\ job = [j \in Jobs |-> Working]
    /\ acked = 0

-----------------------------------------------------------------------------
(* Messages of the connections.                                            *)

\* prepare_for_new_request returns the task to cancel if it is not done.
Superseded(e) ==
    [t \in Tasks |->
        IF t = entry[e].task /\ ~Over(t) THEN [task[t] EXCEPT !.cancelled = TRUE] ELSE task[t]]

\* A request: get or make the entry, reset it, cancel its task, start a new one.
Request(kind, e, t) ==
    /\ kind = "chat" /\ current # NoEntry => ~Running(current)
    /\ IF current = NoEntry THEN NewEntry(e) ELSE e = current
    /\ NewTask(t)
    /\ current' = e
    /\ entry' = [entry EXCEPT ![e] = [Fresh EXCEPT !.task = t]]
    /\ task' = [Superseded(e) EXCEPT ![t] = Started(kind, e)]
    /\ UNCHANGED <<children, expiry, job, acked>>

\* A chat message while the session is running is an amendment.
Amend ==
    /\ current # NoEntry /\ Running(current)
    /\ acked < MaxAmendments
    /\ acked' = acked + 1
    /\ entry' = [entry EXCEPT ![current].pending = WithAmendment(@, acked')]
    /\ UNCHANGED <<current, task, children, expiry, job>>

\* The message "stop".
Stop ==
    /\ current # NoEntry /\ Running(current)
    /\ ~task[entry[current].task].cancelled
    /\ task' = [task EXCEPT ![entry[current].task].cancelled = TRUE]
    /\ UNCHANGED <<current, entry, children, expiry, job, acked>>

-----------------------------------------------------------------------------
(* The task of a request.                                                  *)

GoTo(t, stage) == task' = [task EXCEPT ![t].at = stage]

\* The task is over, and its locals are gone; what it ran with last is remembered.
End(t) ==
    task' = [task EXCEPT ![t] = [@ EXCEPT !.at = "ended", !.amended = FALSE,
                                          !.next = {}, !.round = 0]]

\* CancelledError is raised in the task.  A run it delegated goes on: execute
\* cancels it on an Exception only.
Cancelled(t) ==
    /\ task[t].cancelled /\ ~Over(t)
    /\ End(t)
    /\ UNCHANGED <<current, entry, children, expiry, job, acked>>

\* The run is bound, or a pipeline starts; a slash command or an empty text needs
\* no run.
Start(t) ==
    /\ Live(t) /\ task[t].at = "starting"
    /\ \/ GoTo(t, IF task[t].kind = "pipeline" THEN "model" ELSE "ready")
       \/ End(t)
    /\ UNCHANGED <<current, entry, children, expiry, job, acked>>

\* A pipeline does not know of the entry.
PipelineEnds(t) ==
    /\ Live(t) /\ task[t].kind = "pipeline" /\ task[t].at = "model"
    /\ End(t)
    /\ UNCHANGED <<current, entry, children, expiry, job, acked>>

\* The deadline of the run has passed, as found before a round other than the first,
\* which begins at once; no amendment is looked for.
TimeOut(t) ==
    /\ Live(t) /\ task[t].at = "ready" /\ task[t].round > 0
    /\ GoTo(t, "closing")
    /\ UNCHANGED <<current, entry, children, expiry, job, acked>>

\* A safe point where amendments are pending: the run takes them and stops.
TakeAmendments(t) ==
    LET e == task[t].entry IN
    /\ Live(t)
    /\ task[t].at = "ready" \/ (task[t].at = "tools" /\ t \notin children)
    /\ entry[e].pending # <<>>
    /\ entry' = PopMerged(e)
    /\ task' = [task EXCEPT ![t].at = "closing", ![t].amended = TRUE]
    /\ UNCHANGED <<current, children, expiry, job, acked>>

\* The safe point before the model call finds nothing.
CallModel(t) ==
    /\ Live(t) /\ task[t].at = "ready"
    /\ entry[task[t].entry].pending = <<>>
    /\ GoTo(t, "model")
    /\ UNCHANGED <<current, entry, children, expiry, job, acked>>

WithinBudget(t) == task[t].round < MaxRounds

\* The response calls tools within the budget, and one may delegate to another agent.
CallTools(t) ==
    /\ Live(t) /\ task[t].kind # "pipeline" /\ task[t].at = "model"
    /\ WithinBudget(t)
    /\ GoTo(t, "tools")
    /\ children' \in {children, children \cup {t}}
    /\ UNCHANGED <<current, entry, expiry, job, acked>>

\* The safe point after the tools finds nothing: next round.
ToolsDone(t) ==
    /\ Live(t) /\ task[t].at = "tools" /\ t \notin children
    /\ entry[task[t].entry].pending = <<>>
    /\ task' = [task EXCEPT ![t].at = "ready", ![t].round = @ + 1]
    /\ UNCHANGED <<current, entry, children, expiry, job, acked>>

\* The response calls no tools, or tools that need a confirmation or exceed the
\* budget: it is the answer, and no safe point follows it.
Answer(t) ==
    /\ Live(t) /\ task[t].kind # "pipeline" /\ task[t].at = "model"
    /\ GoTo(t, "closing")
    /\ UNCHANGED <<current, entry, children, expiry, job, acked>>

\* An exception: the handler reports it and returns.
Fail(t) ==
    /\ Live(t)
    /\ task[t].at \in {"ready", "model", "tools", "closing", "closed"} /\ t \notin children
    /\ End(t)
    /\ UNCHANGED <<current, entry, children, expiry, job, acked>>

\* The done event: _handle_chat notes what to do next, a resumed run nothing.
Done(t) ==
    /\ Live(t) /\ task[t].at = "closing"
    /\ task' = [task EXCEPT
                  ![t].at = "closed",
                  ![t].next = IF task[t].kind = "chat" /\ task[t].amended
                              THEN entry[task[t].entry].applied ELSE @]
    /\ UNCHANGED <<current, entry, children, expiry, job, acked>>

\* Variant: the request that was carried on with is not forgotten.
Rerun(t) ==
    [task EXCEPT ![t].at = "ready", ![t].request = task[t].next, ![t].amended = FALSE,
                 ![t].round = 0]

\* The run of the amended request: a new turn of the loop in _handle_chat.
Restarted(t) ==
    [task EXCEPT ![t].at = "ready", ![t].request = task[t].next, ![t].next = {},
                 ![t].amended = FALSE, ![t].round = 0]

\* The stream is exhausted, and a next request is carried on with.
CarryOn(t) ==
    /\ Live(t) /\ task[t].at = "closed" /\ task[t].next # {}
    /\ task' = Restarted(t)
    /\ entry' = [entry EXCEPT ![task[t].entry].applied = {}]
    /\ UNCHANGED <<current, children, expiry, job, acked>>

\* The stream is exhausted, and there is no next request.
Finish(t) ==
    /\ Live(t) /\ task[t].at = "closed" /\ task[t].next = {}
    /\ End(t)
    /\ UNCHANGED <<current, entry, children, expiry, job, acked>>

-----------------------------------------------------------------------------
(* Delegated runs, finalizers and background jobs.                         *)

\* A delegated run shares the entry: at its safe points it takes the pending
\* amendments, and ends.
ChildTakes(t) ==
    /\ t \in children
    /\ entry[task[t].entry].pending # <<>>
    /\ entry' = PopMerged(task[t].entry)
    /\ children' = children \ {t}
    /\ UNCHANGED <<current, task, expiry, job, acked>>

ChildEnds(t) ==
    /\ t \in children
    /\ children' = children \ {t}
    /\ UNCHANGED <<current, entry, task, expiry, job, acked>>

\* The done callback of a request's task looks up the entry; a resumed run has none.
Finalize(t) ==
    /\ task[t].at = "ended" /\ task[t].kind # "resume"
    /\ GoTo(t, "finalized")
    /\ expiry' = [expiry EXCEPT ![t] = current]
    /\ UNCHANGED <<current, entry, children, job, acked>>

\* Variant: the time alone decides.
ExpiresByAge(e) == current = e

\* The entry is still the session's and idle.
Expires(e) == current = e /\ ~Running(e)

\* _SESSION_TTL later.
Expire(t) ==
    /\ expiry[t] # NoEntry
    /\ current' = IF Expires(expiry[t]) THEN NoEntry ELSE current
    /\ expiry' = [expiry EXCEPT ![t] = NoEntry]
    /\ UNCHANGED <<entry, task, children, job, acked>>

\* A job is done: its event is published to the subscriber, which suspends.
JobDone(j) ==
    /\ job[j] = Working
    /\ job' = [job EXCEPT ![j] = IF current = NoEntry THEN Told ELSE current]
    /\ UNCHANGED <<current, entry, task, children, expiry, acked>>

\* Variant: whether a request runs was looked up before.
MayResumeAnyway(e) == TRUE

MayResume(e) == ~Running(e)

\* Then an idle session is resumed.  Its amendments are not reset.
Resume(j, t) ==
    LET e == job[j] IN
    /\ e \in Entries
    /\ MayResume(e)
    /\ NewTask(t)
    /\ job' = [job EXCEPT ![j] = Told]
    /\ entry' = [entry EXCEPT ![e].task = t]
    /\ task' = [task EXCEPT ![t] = Started("resume", e)]
    /\ UNCHANGED <<current, children, expiry, acked>>

\* A running session is notified only.
NotifyOnly(j) ==
    /\ job[j] \in Entries
    /\ Running(job[j])
    /\ job' = [job EXCEPT ![j] = Told]
    /\ UNCHANGED <<current, entry, task, children, expiry, acked>>

-----------------------------------------------------------------------------

\* What the task of a request does next.
Step(t) ==
    \/ Cancelled(t) \/ Start(t) \/ PipelineEnds(t) \/ TimeOut(t)
    \/ TakeAmendments(t) \/ CallModel(t) \/ CallTools(t) \/ ToolsDone(t)
    \/ Answer(t) \/ Fail(t) \/ Done(t) \/ CarryOn(t) \/ Finish(t)

EntryNext ==
    \/ \E kind \in {"chat", "pipeline"}, e \in Entries, t \in Tasks : Request(kind, e, t)
    \/ Amend
    \/ Stop
    \/ \E t \in Tasks :
          Step(t) \/ ChildTakes(t) \/ ChildEnds(t) \/ Finalize(t) \/ Expire(t)
    \/ \E j \in Jobs : JobDone(j) \/ NotifyOnly(j)
    \/ \E j \in Jobs, t \in Tasks : Resume(j, t)

\* The event loop gets to every task that is ready, and what a task awaits comes:
\* calls of models and tools have time-outs, and a run has a deadline.
EntryFairness ==
    /\ \A t \in Tasks : WF_entryVars(Step(t))
    /\ \A t \in Tasks : WF_entryVars(ChildEnds(t))

EntrySpec == EntryInit /\ [][EntryNext]_entryVars /\ EntryFairness

-----------------------------------------------------------------------------
(* Properties.                                                             *)

EntryTypeOK ==
    /\ current \in Entries \cup {NoEntry}
    /\ entry \in [Entries -> Entry]
    /\ task \in [Tasks -> Task]
    /\ children \subseteq Tasks
    /\ expiry \in [Tasks -> Entries \cup {NoEntry}]
    /\ job \in [Jobs -> Entries \cup {Working, Told}]
    /\ acked \in 0 .. MaxAmendments

\* At most one request of an entry is served at a time: any other is over or being
\* cancelled.  (prepare_for_new_request cancels, a resume looks whether one runs.)
OneLiveRequest ==
    \A t \in Tasks : Live(t) => task[t].entry \in Entries /\ entry[task[t].entry].task = t

\* While a chat or a pipeline runs, its entry is the one in the registry, so that
\* stop, subscribe and amendments find it.  (The finalizers of earlier requests
\* expire meanwhile.)
RunningIsListed ==
    \A t \in Tasks : Live(t) /\ task[t].kind # "resume" => current = task[t].entry

\* A run that a request carries on with has amendments that are later than those of
\* every run before it: none is applied twice or after a later one.
AnsweredInOrder ==
    [][\A t \in Tasks :
          task'[t].request # task[t].request =>
              \A u \in Tasks :
                  \A a \in task'[t].request, b \in task[u].request : b < a]_entryVars

\* What is queued leaves the queue only as a whole: into the amendment to apply, or
\* because a new request replaces all of it.
QueueKeepsAll ==
    [][\A e \in Entries :
          \/ Queued(entry[e].pending) \subseteq Queued(entry'[e].pending)
          \/ /\ entry'[e].pending = <<>>
             /\ \/ entry'[e].applied = Queued(entry[e].pending)
                \/ entry'[e].task # entry[e].task]_entryVars

\* Every request comes to an end, however often it is amended, stopped or superseded.
EveryRequestEnds == \A t \in Tasks : task[t].kind # "none" ~> Over(t)

\* A request that finishes with an answer has taken every amendment that was
\* acknowledged as queued ("Queued update" in web/modules/websocket.js).  The code
\* does not keep it: no safe point follows the answer.
AnswerTakesAll ==
    [][\A t \in Tasks : Finish(t) => entry[task[t].entry].pending = <<>>]_entryVars

=============================================================================

# HushClaw in TLA+

HushClaw is a personal agent server: a Python process that runs language-model
agents with tools, serves a web UI over WebSockets, answers on messaging
platforms, schedules background work and keeps everything in one SQLite
database. This directory holds TLA+ specifications of the parts of it in which
several things happen at once or can break off in the middle, the TLC
configurations that check them, and proofs for TLAPS. The specifications follow
the source; `PROJECT.json` maps each definition to the lines it stands for.

## 1. The system

One process, one event loop (asyncio), a default thread pool for synchronous
tools, one SQLite connection in autocommit mode shared by all of them.

| Component | Source | State it keeps | Operations | Hard part | Module |
|---|---|---|---|---|---|
| Work tasks and runs | `memory/tasks.py` | tables `tasks`, `task_runs` | create, claim, heartbeat, complete, fail, retry, mark stale | leases that lapse, late workers, two-statement retry | `TaskRuns` |
| Scheduler, work-task worker | `scheduler.py` | `_work_running`, heartbeats | worker loop, run now | capacity, crashes, starvation | `WorkScheduler` |
| Scheduler, cron loop | `scheduler.py`, `memory/store.py` | table `scheduled_tasks`, jobs at work | wake, start, record, toggle, delete, run now | a start that is not recorded | `ScheduledJobs` |
| Shared connection, event log | `memory/events.py`, `memory/session_log.py` | the connection and its lock | append, complete, fail, async variants | one transaction for all threads | `SharedConnection` |
| Database files | `memory/db.py`, `cli/database.py`, `cli/backup.py`, `memory/encryption.py` | the file, its snapshots and rollbacks, its key and mode | open, migrate, encrypt, export, restore | an end between two renames | `DatabaseFiles` |
| Delivery outbox | `memory/outbox.py`, `os_api.py` | table `delivery_outbox`, `_delivery_senders` | enqueue, claim, claim due, recover, mark delivered/failed, deliver, drain | at-least-once, restarts, reloads | `DeliveryOutbox`, `ReplyDelivery` |
| Connectors | `connectors/*.py` | one connector per platform, the poll's offset, handlers | build, start, stop, reload, poll, handle | handlers that outlive their connector | `TelegramIntake`, `InboundDelivery` |
| Web sessions | `server/session.py`, `server/chat_mixin.py`, `server_impl.py` | `_SessionEntry`: task, generation, amendments | chat, amend, stop, resume, finalize | superseded requests, lost amendments | `SessionEntry` |
| Session sinks | `server/session.py` | generation, subscriber, batch of wire events, approvals | publish, flush, subscribe, replay, approve | a subscriber that changes during a send | `SessionSink` |
| Gateway, agent pools | `gateway.py` | a semaphore and a cache of loops per agent, rows of runs | run, delegate, watch, cancel | nested delegation, watchdog | `AgentPool` |
| Agent loop | `loop.py` | the context and the calls that wait for the user | model call, tool calls, confirm, prune, compact | what remains after a turn broke off | `AgentLoop`, `ConcurrentTurns` |
| Thread history | `memory/context_history.py`, `context/compactor.py`, `gateway.py` | durable messages, excluded messages, `context_checkpoints`, the cached loop | begin, receive, summarise, save, exclude, drop, restore | exclusions and dropped loops during a turn | `ContextHistory` |
| Learning | `learning/` | `learning_jobs`, `understanding_receipts` | tick: lease, review, record; purge | cancellation, purge during a review | `LearningQueue` |
| Calendar synchronisation | `connectors/caldav_sync.py` | tags, sync tokens, imported events | sync, prune, clear | a calendar that fails in between | `CalendarSync` |
| Inbound automation | `app_connectors/` | `app_inbox_events` | deliver, claim, reply, record | crash after the reply, repeated delivery | `InboundAutomation` |
| Update | `server/update_handler.py`, `update/` | `in_progress`, a lock | ask, check, launch, exit | a client that leaves | `Upgrade` |
| Configuration | `server/config_handler.py`, `server/config_mixin.py`, `server/http_mixin.py`, `connectors/manager.py` | the file, the watcher's time stamp, the connectors | save, edit, watch, reload | several writers, one watcher | `ConfigReload` |
| Tool executor and policies | `tools/`, `runtime/` | approvals, policy rules | execute one or many | threads, time-outs | in the modules that call them |
| Memory store | `memory/store.py` and others | notes, turns, profile | save, search, project | writes from many places | `Write` of `SharedConnection` |
| Others | skills, providers, search, browser, enterprise directory, solutions, artifacts, web UI | files, registries, own tables | sequential | see section 5 | |

How they interact: the web UI, connectors, the scheduler and app connectors hand
requests to the OS API, which streams them through the gateway to an agent loop.
The loop calls tools, some of which (claim and complete a work task) come back
into the stores from a pool thread. Replies for platforms go through the
outbox. All stores share the connection and, where they take it, its lock. The
scheduler's loops, the delivery worker, the learning worker, the watcher of the
configuration and the UI's handlers interleave at their awaits; tool threads
interleave between any two statements. The commands of the command line run in a
process of their own, while no server runs.

What makes each part correct:

* tasks: an exclusive, fenced lease; verdicts that are final; success only with
  evidence; work only on delivered dependencies;
* scheduler: never more workers than configured, places that come back, no task
  that runs or waits for ever; a cron job once per due minute, a run-once job once;
* connection: transactions that are committed as a whole, writes that stay;
* database files: what was recorded is in some file that the key opens, whatever
  was interrupted, and copies are secured before the database itself;
* outbox: nothing called delivered that was not accepted, nothing stuck, no
  send twice at a time, every duplicate explained by a failed attempt or a crash;
* connectors: a message that the platform considers handed over reaches a handler,
  and every message ends in a settled reply;
* sessions: nothing of a superseded request reaches the new one, no accepted
  amendment is lost, events are recorded and sent once and in order;
* gateway and loop: delegation that cannot lock up the pool, every delegated run
  watched while its caller waits; a context the model accepts, no call twice;
* history: what was said and not excluded is in every context of its thread, in full or
  in a summary; what was excluded between turns is in none;
* learning, calendar, inbound, update, configuration: a crash, a failed step, a purge
  or a hang-up in between leaves a state from which the next round recovers.

`PROJECT.json` lists every component and, under `hazards`, each place where one
of these can go wrong.

## 2. Modules

Modules of one component state its variables, `Init`, an action per operation,
`Next` and its specification; `InboundDelivery`, `WorkScheduler` and
`ConcurrentTurns` compose components that interact. Modules ending in `Proofs` hold
theorems: `TaskRunsProofs` (also of `WorkScheduler` and the refinement),
`SharedConnectionProofs`, `InboundDeliveryProofs` (`DeliveryOutbox` with its refinement,
`TelegramIntake` and their composition), `SessionEntryProofs`, `AgentLoopProofs`,
`RecordsProofs` (`SessionSink`, `ContextHistory`, `DatabaseFiles`), `BackgroundProofs`
(`ScheduledJobs`, `AgentPool`) and `ServicesProofs` (`Upgrade`, `InboundAutomation`,
`LearningQueue`, `CalendarSync`). `MCRecords`, `MCConversation`, `MCServices` and `MCBackgroundWork` gather parts
that do not interact for one run of TLC: the variable `part`, chosen at the start, says which
one moves, while the others rest in their initial states. Nothing is lost by it: the
states are the disjoint union of the parts' states, and a property holds of the sum
when it holds of the part that its variables belong to. Two parts whose interaction
matters are never put together in this way.

### TaskRuns, TaskLease

`status[t]` is the row of a task, `runs[t]` the sequence of its rows in
`task_runs`; runs are inserted and never deleted, so a run is named by task and
attempt, and so is its lease token. `Finish` is `_finish`; `Complete` and `Fail`
are its callers with the outcome they compute (`Verified` is
`evaluate_completion`, `Recorded` the evidence `complete` stores).
`MarkStale` updates all expired runs and their tasks at once. `RetryRead` and
`RetryWrite` are the two statements of `retry_task`; every other operation of a
thread is one action because it is one statement or a transaction under the
lock. That this is right is the subject of `SharedConnection`. Time appears as
one bit per run, whether its expiry lies in the past.

The store is called by the event loop and by the pool threads of tools, so its claim is not
always exclusive: the UPDATE of a retry can come after another thread's claim (`Overtakes`).
`LostToRetryOnly` says that nothing else ends an exclusive claim (`Exclusive`), and
`OnlyHolderDecides` what holds while it lasts. `TaskLease` is the abstract
promise, one exclusive, numbered lease per task, which only such a retry makes `void`, until no
run of the task is left; `TaskRunsRefinement` holds the mapping.

### WorkScheduler

EXTENDS `TaskRuns` with the event loop as the only thread. An action is what
happens between two awaits: `Tick` is a pass of `_work_loop` (sweep, candidates,
workers created), `WorkerStart` the new worker up to its first await (claim or
give up), `WorkerEnd` the end of the stream with its report, `WebRun`,
`WebClaim`, `WebComplete`, `WebRetryRead`/`WebRetryWrite`, `WebCreate` the UI's
messages, `Crash` the end of the process. `recent` is the order in which
`list_tasks` returns tasks. Attempts are bounded by `MaxAttempts` and what
consumes them by hand is guarded so that one attempt always remains for the
scheduler: the bound must not be what stops a task. `WithinCapacity` says both that
no more workers run than configured and that every place taken is a worker's.

### ScheduledJobs

The cron loop over whole minutes. `Wake` computes the due jobs of the minute
(`FoundDue`: one malformed expression hides all), `StartJob` is the creation of a
job's task with the record of `last_run` and, for a run-once job, its disabling;
`StartUnrecorded` the same when the record fails, after which the pass goes on with the next job; `Sleep` goes to
the next full minute. `CreateJob`, `EnableJob`, `DisableJob`, `DeleteJob`, `RunJobNow`
are clients and tools; `RestartJobs` forgets the pass and the jobs at work.

### SharedConnection

One task, its run and a few independent writes. `Enter`, `Check`, `Step` and
`Commit` are the statements of `claim` and `_finish`; `Write` and `Flush` the two
of an append. `Unlocked` says which threads write without the lock. `db` is what
survives a `Crash`, `view` what the connection sees. Two history variables say who did
damage: `cut` are the threads whose commit ended another's transaction, `inside` who made a
write inside one. `DamageIsLimited` rests on them.

### DatabaseFiles

`dir` maps the live database and its snapshots to what lies at that path and at its
hidden rollback; a file has a schema version, the facts it holds and the key it is
sealed with. `doing` is the process that uses them and the point it has reached: a
server or a command that opens (`OpenDatabase`, `TakeSnapshot`, `MigrateOne`,
`Opened`), an encryption (`BeginEncryption` to `Encrypted`: export, rename away, rename
to, next file), an export of a backup, or a restore (`RemoveOne`, `CopyBack`,
`Restored`). `Interrupt` ends the process at any of these points.
`EncryptionFails` is the handler that puts the rollback back. The stored `key` may lie in
a file (`KeyInFile`), which a restore removes with the rest. `recorded` are the facts
that a server has been told are written.

### DeliveryOutbox, ReplyDelivery

`rows` is the table; `senders` and `enabled` the OS API's and the manager's
dictionaries, with connectors numbered by the configuration they were built
from. `Deliver` and `DeliverEnd` are `deliver_message` before and after its await,
`Drain` and `WorkerEnd` the same of the delivery worker, `Accept` the platform.
`phase` follows the startup; `EarlyTraffic` allows inbound messages between the
start of the connectors and that of the worker, as the code does; it bounds instances and
no theorem assumes anything of it. `posted`, `lost` and `caught` are history variables: what the
platform accepted, what of it a crash cut off before the verdict, and the messages that a handler
was sending when a delivery worker started, whose rows `recover_in_flight` takes for interrupted.

`ReplyDelivery` is what the outbox promises to those who hand it a reply. A reply has a
fate (absent, open, delivered, given up, disclaimed), attempts that are over, and perhaps one that
is not and was accepted. `Post` is an attempt that the platform accepts, only while the fate
is open and no other is unsure; `Judge` ends attempts, of one reply or of a batch, with
their verdicts; `Forget` is a crash; `Disclaim` gives up the promise about open replies, once
after each crash. `DeliveryOutboxRefinement` maps pending, in flight and
retry to open, the replies that are `caught` to disclaimed, and hides who sends, when and with
which connector.

### TelegramIntake, InboundDelivery

`TelegramIntake` is the long poll. The platform keeps updates until a request carries an
offset beyond them (`GetUpdates`); the connector's offset lives in memory and starts
anew with each build (`Started`). `TakeBatch` creates a handler per update and advances
the offset, `StopPolling` cancels the poll, whose request may still be on its way, and
not the handlers; `CrashIntake` ends everything. `InboundDelivery` composes it with
`DeliveryOutbox`: `StartChat` and `Rebuild` build connector and sender together,
`TakeUpdates` hands each update to a delivery, and `HandlerReplies` happens with the end
of the outbox's delivery. The handlers of the outbox are pairs of update and build.

### SessionEntry, SessionSink

`SessionEntry` is one session. `current` is the registry's entry under the session's id,
`entry` the entries made for it (a finalizer may drop one, and a later request make
another), `task` the tasks of requests. `Request`, `Amend` and `Stop` are the messages,
with `prepare_for_new_request` and `queue_amendment` inside. A task walks through the
stages of `event_stream`: `TakeAmendments` are the safe points before a model call
and after tools, `CallModel`, `CallTools`, `Answer` and `TimeOut` the rounds and
their ends, `Done` and `CarryOn` the handler's "done" branch and its next turn with
the amended request. `ChildTakes` and `ChildEnds` are a delegated run, which shares
the entry and outlives the cancellation of the request; `Finalize` and `Expire` the
done callback and its wake-up; `JobDone`, `Resume` and `NotifyOnly` a background job
before and after the await in `_on_background_task_event`. Nothing suspends inside
the entry's or the registry's lock, so a handler up to its next send is one action.

`SessionSink` is what an entry does with events: a publisher is the request of a
generation or a background job; `Publish` and `Write` put a wire event into the batch
and write it to the log when the batch is full, `Flush` when its delay is over; `Sent` and
`SendFails` are the two ends of the send, after which another client may have
subscribed. `Subscribe`, `Replay` and `ReplayFails` are the replay of stored events to a
client that attaches, `Close` and `Leave` the end of its connection. `Ask`, `Respond`,
`ApprovalTimesOut` and `Decide` are an approval, answered or not.

### AgentPool

Runs of agents, each holding a place of its agent's semaphore while it works, while it
delegates and while it closes. `Call` comes from outside, `Delegate` from a run, to one
or several agents. The watcher of a delegated run wakes for what it hears (`SeesDone`,
`SeesEnd`, `SeesError`, `SeesProgress`) or for the time (`MarkRunStale`, `Stall`), and
shows a status in the run's row. `CancelRun` ends a run at its await; the runs it waits for
go on, without a watcher.

### AgentLoop, ConcurrentTurns

`AgentLoop` is the context that turns leave behind: messages with the identifiers of the
calls they make or answer. `Begin` sanitizes and prunes, `UserAnswers`, `Confirmed`,
`Declined` and `RunConfirmed` deal with calls that wait for the user, `RespondText` and
`RespondCalls` are the model, `RunParallel` and `RunSerial` the calls of a round,
`Compact`, `RunTimeout`, `ForceAnswer`, `Forced`, `EndTurn` and `Interrupt` the rest of
`event_stream`. An answer may be empty (`RespondText`, `Forced`): then a turn that ran only
memory tools, or spent its budget, asks once more, without tools. The interaction gate,
which never pauses a turn (`runtime/interaction.py:24`), is left out. `ran` counts how often each call was run, up to two. Messages that are
kept are chosen by their positions (`Selected`, over `Ordered`), without recursion, so that
the provers can reason about them.
`ConcurrentTurns` lets two turns of one chat use the same context.

### ContextHistory

`history` is the thread's messages in their order, each with its role, where it was saved
(its event, else its turn, else nowhere) and whether a context took it; `carried` the
context of the loop that the pool caches (`pooled`). A context is the messages that its
summary was made from and those that follow in full. `BeginTurn` is
`_get_or_create_loop`, which restores a new loop (`RestoredContext`); `Receive`,
`NotConfirmed`, `Reply` and `EndUnanswered` are the messages and ends of a turn;
`Summarise` is a compaction up to its call of the provider, which also fixes the boundary
of the checkpoint (`Prepared`), `Summarised` and `NotSummarised` what follows the call.
`Raw` is `raw_history` with the turns that fill the gaps between events. `Exclude`,
`Clear` and `Restart` drop the loop; a turn under way keeps its own. `late` and `taken` are
history variables. The turns of the thread follow one another, as in a web session; the calls
of tools belong to the reply they lead to. Left out: a message included again, a thread
deleted, and a turn that is not saved while its event is.

### LearningQueue

Two queues, of receipts and of learning jobs. A `Tick` leases the next row that is due,
counts the attempt and sets the time of the next one; `Reviewed`, `Correct`, `KeepCase`
and `Extract` are the stages of the work between awaits, each with the look at whether
its source is still there; `Fail` counts; `Interrupted` and `Stop` are the cancellation
with its hand-back, `WorkerCrash` the process. `Purge` removes a message, scrubs what
rests on it, and the receipts of later turns whose context it was (`Replays`). It leaves
what the code leaves: the opinions that were formed from the message and the lessons in the
outcomes of skills (`"opinion"`), which `delete_message_derived_data` does not look at.

### InboundAutomation, CalendarSync, Upgrade, ConfigReload

`InboundAutomation`: `Deliver` inserts a message or makes its row unread again; `Poll`
takes the unread ones; `Decide` applies the rules and the cooldown and claims the row as
pending; `Reply`, `ReplyFails` and `End` are the rest of the handler, `Age` the end of a
cooldown. The cooldown looks at the rows that changed last only (`Listed`, `LookBack`; 200
in the code, over the rows of one connector). `update_app_inbox_event_status`, which could
make a row unread again, has no caller.

`CalendarSync`: a server whose calendars change all the while (`Edit`) and a sync that
begins with the list of calendars and then, for each, reuses what has an unchanged tag
(`Reuse`), applies changes since a token (`AskForChanges`, `ApplyDelta`, `DeltaBreaks`)
or fetches everything (`FetchAll`, `FetchRaises`), stores rows and marks (`Store`) and
prunes what it did not see (`Prune`). The history variable `stale` holds the events whose
row a sync has left wrong, each from the step that misses it (`LeftOut`, `Overlooked`,
`Unpruned`) until the event is loaded again; it is by event, so that one failure does not
excuse the rest of the copy. An event that two calendars hold, which is one row in
the code (its key has no calendar), is taken for two.

`Upgrade`: clients that ask, are refused or admitted under the lock, launch the delegate
and report it; each send may find the client gone (`SendThen`). `Exit` is the process
leaving for its delegate.

`ConfigReload`: the file (as the set of enabled connectors, or `NotLoadable`), the time
stamps of the file, of the watcher and of the last save, clients that save settings, an
owner who edits, and a walk of the connector manager through its connectors, one await
at a time: `StopNext`, `BuildAnew`, `StartNext`, `StartFails`. `Entries` is a dictionary
in the order of insertion; the walk is over it while it may change.

## 3. Runs

| Run | Instance | Shows |
|---|---|---|
| `Records` | `TaskRuns`: 2 tasks, one depending on the other, 2 threads that may be exchanged, 2 attempts; `SessionSink`: 2 clients, 2 requests, 2 events, a batch of 1, a replay of 2; `ContextHistory`: 4 messages, 1 of them without its event, compaction keeps 2 messages of the user or 1; `DatabaseFiles`: 1 fact, 1 snapshot, 1 key, 1 archive, 2 releases, mode `auto` or `sqlcipher`, the key in a file | `LostToRetryOnly`, `RunningHasLease`, `DoneIsDelivered`, `AttemptsRestOnDelivered`, `OnlyHolderDecides`, `VerdictFinal`, `ImplementsTaskLease`; `EventsOnce`, `SupersededIsSilent`; `HistoryIsKept`, `ExclusionsHold`; `RecordsAreKept`, `CopiesBeforeLive` |
| `BackgroundWork` | `WorkScheduler`: 2 independent tasks, capacity 1, 2 attempts, 2 incidents; `InboundDelivery`: 1 update, 2 builds of the connector, 2 attempts, 3 configurations, 1 crash, no early traffic | `WithinCapacity`, `RunningEnds`, `WaitingIsTaken`; `EveryMessageIsAnswered` |
| `Conversation` | `SessionEntry`: 2 requests or resumptions, 2 entries, 3 amendments, a queue of 2, 1 job, 1 round of tools; `AgentLoop`: 3 turns, 2 calls, 1 round of tools, compaction keeps 1 turn; `DeliveryOutbox`: 2 messages on 2 platforms, 1 handler, 2 attempts, 2 configurations, also early traffic | `OneLiveRequest`, `RunningIsListed`, `AnsweredInOrder`, `QueueKeepsAll`, `EveryRequestEnds`; `RequestsArePaired`, `CallsRunOnce`; `InFlightIsOwned`, `PostsAccounted`, `ImplementsDelivery`, `RepliesAreSettled` |
| `Services` | `SharedConnection`: 2 threads, the event loop unlocked, 2 writes; `AgentPool`: an agent that delegates to another, 1 place each, 4 runs; `LearningQueue`: 2 turns, 2 attempts, 1 purge, 1 restart; `InboundAutomation`: 3 messages, 2 of one sender, 2 deliveries, 1 stop, a cooldown that looks at 2 rows; `CalendarSync`: a calendar with tags and one with tokens, 1 event each, 3 changes, at most 2 of one calendar; `ScheduledJobs`: a run-once job and a malformed one, 2 minutes, 1 failed record, 1 toggle; `Upgrade`: 2 clients, 1 session, 2 requests; `TelegramIntake`: 2 updates, 3 builds, 1 crash; `ConfigReload`: 2 connectors, one of which may fail to start, 2 clients, 2 changes | `DamageIsLimited`; `DelegatesAreWatched`, `EveryCallEnds`; `LearntFromAvailable`, `ScrubbedStaysScrubbed`, `QueueSettles`; `RepliesAreLimited`; `SyncIsExact`; `ClockStartsOnce`; `OneUpgrade`; `HandedOver`; `ConfigTakesEffect` |
| `TaskRunsRetryRace` | `TaskRuns` with 2 threads | violated: a running task is re-queued |
| `SharedConnectionUnlocked` | as in `Services` | violated: half a claim is committed |
| `DeliveryOutboxOverlap` | as in `Conversation`, with 3 configurations | violated: two senders of one message |
| `SessionEntryLate` | 1 request, 1 amendment | violated: an amendment acknowledged during the answer is never applied |
| `ConcurrentTurns` | 2 turns on one context | violated: the second turn strips the calls of the first, whose results then have none |
| `PurgedEvalCase` | 1 turn, 1 purge | violated: a purged message leaves the regression case that quotes it |
| `EncryptionInterrupted` | as in `Records`, in any mode, without archives | violated: an encryption that is interrupted between its renames and repeated reports success over an empty database |
| `ExclusionIgnored` | 3 messages, no failed saves | violated: a message that is excluded during a turn is in the summary that later loops restore |

The violated properties are listed in `PROJECT.json` under `findings` with the
sentence of the repository they contradict.

Why the bounds are enough to be interesting. Two attempts are the least with
which a late worker meets its successor; two tasks give dependencies and
`MarkStale` something to choose from; two threads are what the retry race needs.
Capacity 1 is the default of the configuration, and a second task then has to wait.
Two incidents allow a crash during a retry's aftermath. Two messages let a batch have a
tail, two platforms let a sender vanish while the other stays, and two configurations
allow a restart, after which messages come before the worker has recovered the rows, or a
reload. `BackgroundWork` has three, for a restart and a reload, and lets no message come early:
both together would make that instance several times larger. Three amendments overflow a queue of two, and can be
taken by two runs; two tasks are a request with what supersedes or resumes it, and
each may be amended and start again. Two clients are the old subscriber and the new one;
a batch of one is full with the first event, and what comes before the flush waits. A
snapshot comes from a migration: the second release copies what the first has written, or
a database whose beginning was interrupted between the schema and a migration; one
archive is older than the facts recorded since. What the mode `off` allows is what `auto`
allows, less the opening of encrypted files: its behaviours are among those of `auto`. Three turns are one that is cut off, one
that confirms or sanitizes, and one that reads the result; two calls make a round that
can end half-way. Two agents are the least that delegate, and four runs make both pools
full with callers that wait. Two turns of a chat let one be the context of the other,
and two attempts let an analysis fail for good. Four messages are two exchanges,
with a summary of the first and a summary that contains a summary, and a message without
an event may lie on either side of a checkpoint's boundary. Three builds let an old request
answer after two reloads. Two saves let one client save during the other's reload, and
two connectors let the walk stand between them.

Deadlock is checked in `BackgroundWork`, `TaskRunsRetryRace` and
`SharedConnectionUnlocked`, and does not occur: a task can always be retried or
completed, and a chat that has nothing left to do rests (`Rest`). The other runs do not check it. The server may be idle for good there: no
request, no message, no job, no command; and the numbers of these are bounded.

Fairness. `WorkScheduler`: the loop ticks, created workers are scheduled, streams
end (providers and tools have time-outs), the lease of a run without worker runs
out. Nothing forces a live worker's lease to lapse, a heartbeat to be sent, or a
user to do anything. `WaitingIsTaken` needs finitely many retries (`MaxIncidents`):
the list is ordered by the last update, newest first, so a user who retries tasks
for ever can keep an old one waiting.

`DeliveryOutbox`: the server comes back, the worker runs, sends end, backoffs pass; no
fairness of connectors, inbound messages or acceptance. `RepliesAreSettled` therefore
allows for a platform that has no sender. Its restarts are bounded (`MaxGenerations`): a
process that crashes in every send settles nothing. `InboundDelivery` adds strong
fairness of the request for updates and of taking them: a poll that is interrupted
again and again, but never for good, succeeds in the end, as crashes, reloads and
failing requests are finite.

`SessionEntry`: a task whose await is over runs, model and tool calls end, delegated
runs end; nobody has to send, stop or amend anything, and no finalizer has to wake up.
`EveryRequestEnds` holds because amendments are finite (`MaxAmendments`): a user who
amends for ever keeps a request going, and may. `SessionSink` needs no fairness in
`Records`: that a batch is not forgotten is the invariant that a flush is due.

`AgentPool`: a run that can go on does, and the watcher that has something to see wakes;
models and tools return. Calls are bounded by `MaxRuns`. `LearningQueue`: the worker
ticks, a lease runs out, and the work at hand ends, well or badly; nobody has to purge,
stop or start anything. `ConfigReload`: clients' saves and the server's own
tasks (the watcher, the startup, a reload) go on; nobody has to change anything.

What TLC also shows, without a run that claims it, because no document of the repository
promises otherwise:

* `WaitingIsTaken` is false of tasks with dependencies: with a capacity of one, a queued
  task whose dependency is not done hides that dependency (`scheduler.py:116`);
* the sender of a replaced connector comes back when one of its handlers delivers
  (`SendersAreCurrent` of `DeliveryOutbox` is false);
* a send to the old subscriber that fails after a new client has subscribed removes the new one
  (`SendFails` of `SessionSink`), and an event that is not flushed yet when a client asks for the
  replay is in neither replay nor stream; `EventsOnce` is about what a client is sent;
* `EveryCallEnds` is false when two agents delegate to each other with full pools;
* calls are unpaired in a turn with confirmed calls, which is not sanitized, and in an
  answer forced after an amendment; two messages of a chat that both confirm can run
  a call twice;
* a message that answers waiting calls without confirming them is saved, but the running
  context does not take it (`loop.py:1071`), and a later summary stands for it unseen;
* a row of the calendar's copy stays wrong, until its event changes once more, after a
  change between the first whole fetch and the bootstrap of the sync token
  (`caldav_sync.py:305-333`); so do rows of a calendar that could not be fetched or not in
  full, rows that a stopped sync did not prune, and the last rows of an account that
  became empty;
* a message that is delivered again loses its cooldown key, and in a busy inbox the cooldown
  ends early, when the replied row is no longer among the 200 that changed last;
* what was learnt as an opinion, or as the lesson of a skill's outcome, stays after the
  message has been purged;
* a malformed cron expression hides all other jobs that are due (`memory/store.py:3233`);
* a connector that cannot be stopped, or that fails to start, leaves those after it as
  they were; a reload during the startup changes the dictionary under its walk; a save
  over a malformed file drops its other settings;
* a restore removes a key that lies in a file before it is set again.

Two more contradict a comment. They have no run of their own: the properties named here
except them, and say so.

* An interrupted conversion of a snapshot leaves its plaintext under a hidden name that no
  later run looks at (the glob at `cli/database.py:236`), and the next run seals the live
  database, although `cli/database.py:288-290` says that it "remains plaintext until every
  historical copy is protected" (`CopiesBeforeLive`, whose variable `cut` holds these
  snapshots and no others).
* An upgrade whose client hangs up between launch and report never exits, and its flag
  stays set, although `update/executor.py:131` says that the caller "MUST exit the server
  process shortly after this returns" (`OneUpgrade`).

## 4. Proofs

| Theorem | Assumes | Property |
|---|---|---|
| `TypeCorrect`, `VerdictsAreFinal`, `RunningTasksHaveALease`, `SuccessIsProven`, `DoneTasksAreDelivered`, `AttemptsFollowDependencies` | nothing | type and the safety of the store under any threads |
| `LeasesAreLostToRetriesOnly`, `OnlyTheHolderDecides`, `DoneIsOnlyReopened` | nothing | the lease, under any threads |
| `StoreImplementsLease` | nothing | `TaskRuns` implements `TaskLease` |
| `SchedulerUsesStore` | nothing | the composed system is a behaviour of the store |
| `SchedulerLeasesAreExclusive`, `LateWorkersAreFenced` | nothing | the store's theorems carried to the scheduler |
| `CapacityIsKept` | nothing | `WithinCapacity`: workers, names and places of the worker loop |
| `DamageSound` | nothing | `DamageIsLimited`: what the lock is worth, and what is left without it |
| `OutboxTypeCorrect`, `DeliveredMeansPosted`, `NothingIsStuck`, `PostsAreAccounted` | nothing | outbox safety |
| `SendsDoNotOverlap`, `SettledDeliveriesAreFinal`, `PostsAreBounded` | nothing | one sender at a time, final verdicts, as many posts as attempts and crashes allow, of all messages but those being sent when a worker starts |
| `OutboxKeepsPromise` | nothing | `DeliveryOutbox` implements `ReplyDelivery` |
| `ChatUsesIntake`, `ChatHandsOver`, `ChatDelivers` | the chat's constants fit | the theorems of intake and outbox carried to `InboundDelivery`; the first two assume nothing |
| `NoUpdateIsLost` | the chat's constants fit | an update taken by the connector is handled, answered or missed |
| `ChatSendsDoNotOverlap`, `ChatKeepsPromise` | the chat's constants fit | the same of the replies of a chat |
| `SessionTypeCorrect`, `OneRequestAtATime`, `RunningRequestsAreListed` | nothing | the session's entry and registry |
| `QueuesKeepAll`, `AmendmentsInOrder` | nothing | the fate of amendments |
| `CallsSound`, `PairingSound` | nothing | `CallsRunOnce`, `RequestsArePaired` of the agent loop |
| `EventsSound`, `SilenceSound` | nothing | `EventsOnce`, `SupersededIsSilent` of a session's sink |
| `HistorySound`, `ExclusionsSound` | nothing | `HistoryIsKept`, `ExclusionsHold` of the contexts |
| `RecordsSound`, `CopiesSound` | nothing | `RecordsAreKept`, `CopiesBeforeLive` of the database's files |
| `JobsSound`, `PoolSound` | nothing | `ClockStartsOnce`, `DelegatesAreWatched` |
| `UpgradeSound`, `IntakeSound`, `InboundSound` | nothing | `OneUpgrade`, `HandedOver`, `RepliesAreLimited` |
| `LearntSound`, `ScrubbedSound` | nothing | `LearntFromAvailable`, `ScrubbedStaysScrubbed` of the learning queues |
| `SyncSound` | nothing | `SyncIsExact` of the calendar's copy, event by event |

"Nothing" is: nothing but the named assumptions on the constants, which each run
evaluates. `SuccessIsProven`, `DoneIsOnlyReopened`, `SchedulerLeasesAreExclusive`,
`LateWorkersAreFenced`, `DeliveredMeansPosted`, `SendsDoNotOverlap` and
`SettledDeliveriesAreFinal` (consequences of `ImplementsDelivery`), `PostsAreBounded` and
`NoUpdateIsLost` stand on their proofs alone: no run repeats them on an instance. With these theorems every invariant and every action property
that a passing run checks holds for any number of tasks, threads, attempts, writes, messages,
platforms, handlers, requests, amendments, turns, calls, clients, events, jobs, agents,
calendars, updates, crashes. The bounds that remain (`MaxTurns`, `MaxUpdates`, ...) are
constants of any value. One assumption has a name: `TelegramFits`, "the constants fit", says that
the outbox's handlers are pairs of update and build; `BackgroundWork` evaluates it. No theorem
assumes away what a violated run shows. Where the code has such a flaw, the theorem holds with it
and says how far it reaches: `LeasesAreLostToRetriesOnly` beside `TaskRunsRetryRace`,
`DamageSound` beside `SharedConnectionUnlocked`, `SendsDoNotOverlap` beside
`DeliveryOutboxOverlap`, `RecordsSound` and `CopiesSound` beside `EncryptionInterrupted`,
`ExclusionsSound` beside `ExclusionIgnored`.

The arguments. Each inductive invariant was first checked by TLC on an instance.

* `RunningHasLease` is inductive with any threads: a claim makes the latest attempt running,
  and every step that ends the latest attempt changes the status with it;
  `MarkStale` is the delicate case, since it looks at runs and at tasks separately.
  `LostToRetryOnly` has one case per action: a run and the status of its task change in the
  same step everywhere but in `RetryWrite`. The event loop alone never overtakes itself, so
  the scheduler's claims stay exclusive (`SchedulerLeasesAreExclusive`).
  Refinement: a task is `void` while its claim is not exclusive; one case per action;
  `MarkStale` maps to the abstract `Release` of the sets of tasks it frees and finishes.
* `WithinCapacity`: a name in `_work_running` has exactly one worker of the loop, created or
  at work, and there are no other workers; a pass picks only as many candidates as there is
  room for, because it cuts the list off at the free capacity (`First`).
* `SharedConnection`: the invariant says who holds the lock at which statement and what
  `view` is then relative to `db`, as long as nobody has cut a transaction; what is said of the
  time after rests on less: only the holder of the lock changes task and run, so what its
  earlier statements left is still in `view`, committed or not.
* `DeliveryOutbox`: a row in flight has exactly one owner and nobody sends while the process
  is down. For `PostsAccounted` each step moves a post from "being sent" to an attempt or to
  `lost`, and the sets of senders are compared by their elements.
* `ReplyDelivery`: the send of a message that is not `caught` owns its row, which is in flight
  (`QuietInv`). So an accepted post meets no other attempt that is unsure, a verdict falls
  on an open fate, and the rows a worker skips or judges together are one abstract `Judge`.
  `PostsAreBounded` adds that a row that is not settled has attempts left (`AttemptsInv`).
* `InboundDelivery`: a step of the chat is a step of the outbox, except that a batch begins
  several handlers at once and an empty message ends one (`ChatOutboxStep`). The handlers of a
  batch are new, because this build of the connector has not taken the update before
  (`BegunAreNew`): that is the intake's invariant, and the outbox's rests on it. That no
  update is lost follows it from hand to hand: taken, then with a handler, then in a row,
  and no step removes a row (`KeptInv`).
* `SessionEntry`: that a running request is listed is inductive only together with
  `OneLiveRequest`: a finalizer asks its entry whether *its* task runs, and the answer
  concerns every request only because the entry serves one; conversely a new request
  cancels only what its entry serves. `Placed` adds that tasks that were cancelled,
  delegate or are served have begun. Each step of a task is shown to "advance" it (same
  kind, same entry, not brought back to life), and one lemma says that this is enough.
  `AnsweredInOrder` needs where each amendment is: acknowledged ones are numbered, and
  for the request that is served what it carries on with next is earlier than what it has taken,
  and that is earlier than what is queued (`InOrder`).
* `AgentLoop`, calls (`CallsInv`): what waits to be run or confirmed has not run, and is on
  one list only, once; what publishes is run from no list but that of confirmed calls.
* `AgentLoop`, context (`PairInv`): a result follows its call with nothing but results
  between them (`InPlace`); calls that are owed a result, because they are still to run or
  wait for the user, are in the last message before results only (`OwedInv`); and unless
  the turn runs confirmed calls, every other call has its result (`RoundInv`, `PairedBut`). A
  turn that is cut off breaks the last of these, and the next turn's sanitizing restores it.
  Most of the work are lemmas about the operators on messages: what a selection of
  messages keeps (`SelectKeeps`), what sanitizing, pruning and compacting keep and restore.
* `SessionSink`: log, batch and event numbers are one increasing sequence, and the batch holds
  events of the latest generation only; a replay and what was sent are disjoint.
* `ContextHistory`: every context is `Sound`: its summary is about what precedes the rest, it
  holds what must be kept and nothing excluded; the checkpoint `Covers` what lies before its
  boundary. Both are needed of the prepared checkpoint too, from the call of the
  provider until it is stored.
* `DatabaseFiles`: what each step of a command may rely on: the file a serving process has
  opened stays openable, between the renames of an encryption the plain file is in its place
  or beside it, and the live file is set aside only when the snapshots are sealed; a
  snapshot's rollback is plaintext only between the renames, or when the process ended
  there (`HiddenInv`).
* `ScheduledJobs`: the last start of a job is before the minute of the pass as long as the job
  is listed; a run-once job still has its start only while its row is enabled or the pass lists it.
* `AgentPool`: runs are numbered as they are called (`NumberedInv`), and the stages of a run, its
  row, its watcher and what is shown go together (`VerdictsInv`).
* `Upgrade`: at most one client is past the check, and the flag and the delegate are its.
  `TelegramIntake`: an update before any offset under way was taken, and a build asks
  beyond what it took. `InboundAutomation`: replies, the unread row and the reply being
  written add up to the deliveries. `LearningQueue`: a receipt exists only for an answered
  turn, and an analysis is of the evidence as it is now. `CalendarSync`: the copy is right of
  every event that has not changed since the tag, token or listing that stands for it and was not
  missed (`Unchanged`, `Copy`).

Only model-checked: what rests on fairness, which these provers cannot do (`RunningEnds`,
`WaitingIsTaken`, `EveryMessageIsAnswered`, `EveryRequestEnds`, `RepliesAreSettled`,
`EveryCallEnds`, `QueueSettles`, `ConfigTakesEffect`), and therefore all that is claimed of
`ConfigReload`.
The inductive invariants contain the types their proofs read; what they do not read is left
out (the agents' lines and places in `AgentPool`, `recent` in `WorkScheduler`).

## 5. What is not modelled

* data: prompts, provider formats, search, notes, embeddings, the contents of the
  configuration, rendering, the browser and the web UI (see the notes in
  `PROJECT.json`);
* in what is modelled: the text of tasks and messages; the clock, beyond order
  and expiry; two updates in the same second, which `list_tasks` may return in
  either order; failures of the database itself; the account and thread of a
  conversation, which only address the message;
* the worker loop is off by default (`gateway.work_task_worker_enabled`); without
  it nothing marks tasks stale, and `RunningEnds` does not hold;
* notifications to the web UI, and requests whose handlers only read and answer;
* the projection of notes (`memory/projection.py`): one worker over rows of its own;
* the registry of agents (`gateway.py`): deleting or changing an
  agent while its runs are at work. What is read there: the pool is gone before the
  loops are closed, and the window an update leaves falls back to the default agent;
* installing skills: a package is copied over its target and recorded in the lock file
  after an await, so an interruption leaves files without a record;
* the socket connectors (Slack, Discord, Feishu, DingTalk, WeCom) and WhatsApp's webhook: what they acknowledge
  and resume is decided in their platforms' libraries;
* most of the repository's lines are such data, wire formats, tables and the web UI:
  that is why the map covers a small part of them, and most of the control.

## 6. Plan

Done: the task store and its worker, the connection, the outbox, the session's entry; then
sinks, pools, the loop's context, the thread's history, the learning queue, inbound
automation, calendars, cron jobs, the upgrade, Telegram's intake and its composition
with the outbox, the configuration and the database's files; the proofs of every invariant
and action property that the runs check; the abstract delivery that the outbox implements,
and the theorems of outbox and intake carried to the chat. Left:

1. `AgentRegistry`: agents that are created, changed and deleted while they run;
2. `SkillLibrary`: install, remove, reload;
3. `AgentPool`: a theorem that the places of an agent are held by runs that are at work,
   and that its line is served in order.

Running a check: `tlc -config <Run>.cfg <Module>`, with the module `PROJECT.json` names
for the run; a proof: `tlapm <Module>Proofs.tla`.

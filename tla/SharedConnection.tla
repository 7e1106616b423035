-------------------------- MODULE SharedConnection --------------------------
(***************************************************************************)
(* The SQLite connection that all stores of MemoryStore share, statement   *)
(* by statement.  It is in autocommit mode (isolation_level None), so a    *)
(* statement outside a transaction is committed at once, and a transaction *)
(* belongs to the connection: any thread's commit ends it.                 *)
(*                                                                         *)
(* claim and _finish (src/hushclaw/memory/tasks.py) hold the lock of the   *)
(* connection (src/hushclaw/memory/events.py) from BEGIN to COMMIT.  The   *)
(* synchronous writers do not: EventStore.append, heartbeat, create_task   *)
(* and retry_task are a statement and a commit; their asynchronous         *)
(* variants, aappend and asave_turn, take the lock around the two.  A      *)
(* synchronous tool runs on a pool thread (src/hushclaw/tools/executor.py) *)
(* and calls claim and complete there while the event loop writes.         *)
(*                                                                         *)
(* One task and its run are enough: the module is about what a transaction *)
(* on them is worth.  TaskRuns takes each transaction as one step.         *)
(***************************************************************************)
EXTENDS FiniteSets

CONSTANTS
    Threads,    \* threads that use the connection
    Unlocked,   \* those among them that write without the lock
    Writes,     \* the single-statement writes
    NoThread,   \* not a thread
    NoWrite     \* not a write

ASSUME UnlockedAssumption == Unlocked \subseteq Threads
ASSUME NoThreadAssumption == NoThread \notin Threads
ASSUME NoWriteAssumption == NoWrite \notin Writes

VARIABLES
    db,       \* the rows as committed
    view,     \* the rows as the connection sees them
    tx,       \* a transaction is open on the connection
    lock,     \* the thread that holds _conn_lock
    pc,       \* pc[th]: the next statement of th
    item,     \* item[th]: the write th is about to commit
    acked,    \* the writes reported as done to their callers
    raised,   \* an operation ended in an exception
    cut,      \* history: the threads whose commit ended an open transaction of another
    inside    \* history: inside[w]: who last wrote w into one, or nobody

connectionVars == <<db, view, tx, lock, pc, item, acked, raised, cut, inside>>
connectionRest == <<item, acked, raised, cut, inside>>

-----------------------------------------------------------------------------

Rows == [task : {"queued", "running", "done"},
         run : {"none", "running", "succeeded"},
         written : SUBSET Writes]

ConnectionInit ==
    /\ db = [task |-> "queued", run |-> "none", written |-> {}]
    /\ view = db
    /\ tx = FALSE
    /\ lock = NoThread
    /\ pc = [th \in Threads |-> "idle"]
    /\ item = [th \in Threads |-> NoWrite]
    /\ acked = {}
    /\ raised = FALSE
    /\ cut = {}
    /\ inside = [w \in Writes |-> NoThread]

\* The rows change; outside a transaction the change is committed with it.
Statement(rows) ==
    /\ view' = rows
    /\ db' = IF tx THEN db ELSE rows
    /\ UNCHANGED tx

CommitTransaction == db' = view /\ tx' = FALSE /\ UNCHANGED view
RollbackTransaction == view' = db /\ tx' = FALSE /\ UNCHANGED db

GoTo(th, label) == pc' = [pc EXCEPT ![th] = label]

Leave(th) ==
    /\ GoTo(th, "idle")
    /\ lock' = IF lock = th THEN NoThread ELSE lock

\* except: roll back if a transaction is open, and raise.
Unwind(th) ==
    /\ IF tx THEN RollbackTransaction ELSE UNCHANGED <<db, view, tx>>
    /\ raised' = TRUE
    /\ Leave(th)
    /\ UNCHANGED <<item, acked, cut, inside>>

\* with lock: BEGIN IMMEDIATE.  Only holders of the lock begin transactions, so
\* none is open.
Enter(th, op) ==
    /\ pc[th] = "idle"
    /\ lock = NoThread /\ ~tx
    /\ lock' = th
    /\ tx' = TRUE
    /\ GoTo(th, op)
    /\ UNCHANGED <<db, view, connectionRest>>

\* The checks of claim and _finish; a refusal executes ROLLBACK, which raises
\* when the transaction is gone.
Check(th, op, passes, next) ==
    /\ pc[th] = op
    /\ \/ /\ passes
          /\ GoTo(th, next)
          /\ UNCHANGED <<db, view, tx, lock, connectionRest>>
       \/ /\ ~passes /\ tx
          /\ RollbackTransaction
          /\ Leave(th)
          /\ UNCHANGED connectionRest
       \/ /\ ~passes /\ ~tx
          /\ Unwind(th)

\* One UPDATE or INSERT of a transaction.
Step(th, label, rows, next) ==
    /\ pc[th] = label
    /\ Statement(rows)
    /\ GoTo(th, next)
    /\ UNCHANGED <<lock, connectionRest>>

Claim(th) ==
    \/ Enter(th, "claim")
    \/ Check(th, "claim", view.task = "queued", "mark")
    \/ Step(th, "mark", [view EXCEPT !.task = "running"], "insert")
    \/ Step(th, "insert", [view EXCEPT !.run = "running"], "commit")

\* Variant: the task is closed before its run ends.
FinishTaskFirst(th) ==
    \/ Enter(th, "finish")
    \/ Check(th, "finish", view.run = "running", "end")
    \/ Step(th, "end", [view EXCEPT !.task = "done"], "close")
    \/ Step(th, "close", [view EXCEPT !.run = "succeeded"], "commit")

Finish(th) ==
    \/ Enter(th, "finish")
    \/ Check(th, "finish", view.run = "running", "end")
    \/ Step(th, "end", [view EXCEPT !.run = "succeeded"], "close")
    \/ Step(th, "close", [view EXCEPT !.task = "done"], "commit")

\* COMMIT, which raises when the transaction is gone.
Commit(th) ==
    /\ pc[th] = "commit"
    /\ \/ /\ tx
          /\ CommitTransaction
          /\ Leave(th)
          /\ UNCHANGED connectionRest
       \/ /\ ~tx
          /\ Unwind(th)

\* aappend, not append.
TakesLock(th) == th \notin Unlocked

\* execute of a single-statement write.
Write(th, w) ==
    /\ pc[th] = "idle"
    /\ w \notin view.written \cup acked
    /\ IF TakesLock(th) THEN lock = NoThread /\ lock' = th ELSE UNCHANGED lock
    /\ Statement([view EXCEPT !.written = @ \cup {w}])
    /\ item' = [item EXCEPT ![th] = w]
    /\ GoTo(th, "flush")
    /\ inside' = [inside EXCEPT ![w] = IF tx THEN th ELSE NoThread]
    /\ UNCHANGED <<acked, raised, cut>>

\* conn.commit(), which commits whatever transaction is open, and the return to
\* the caller.
Flush(th) ==
    /\ pc[th] = "flush"
    /\ IF tx THEN CommitTransaction ELSE UNCHANGED <<db, view, tx>>
    /\ cut' = IF tx THEN cut \cup {th} ELSE cut
    /\ acked' = acked \cup {item[th]}
    /\ item' = [item EXCEPT ![th] = NoWrite]
    /\ Leave(th)
    /\ UNCHANGED <<raised, inside>>

\* The process dies; SQLite comes back with what was committed.
Crash ==
    /\ view' = db
    /\ tx' = FALSE
    /\ lock' = NoThread
    /\ pc' = [th \in Threads |-> "idle"]
    /\ item' = [th \in Threads |-> NoWrite]
    /\ UNCHANGED <<db, acked, raised, cut, inside>>

ConnectionNext ==
    \/ \E th \in Threads : Claim(th) \/ Finish(th) \/ Commit(th) \/ Flush(th)
    \/ \E th \in Threads, w \in Writes : Write(th, w)
    \/ Crash

ConnectionSpec == ConnectionInit /\ [][ConnectionNext]_connectionVars

-----------------------------------------------------------------------------
(***************************************************************************)
(* Properties.                                                             *)
(***************************************************************************)

Labels == {"idle", "claim", "mark", "insert", "finish", "end", "close", "commit", "flush"}

ConnectionTypeOK ==
    /\ db \in Rows /\ view \in Rows
    /\ tx \in BOOLEAN
    /\ lock \in Threads \cup {NoThread}
    /\ pc \in [Threads -> Labels]
    /\ item \in [Threads -> Writes \cup {NoWrite}]
    /\ acked \subseteq Writes
    /\ raised \in BOOLEAN
    /\ cut \subseteq Threads
    /\ inside \in [Writes -> Threads \cup {NoThread}]

\* What a claim or a finish writes is committed as a whole: whenever the process
\* dies, the task and its run agree.  A task left running without a run can
\* neither be claimed nor retried, and mark_stale does not find it.  A writer
\* without the lock breaks this.
AtomicClaims ==
    /\ db.task = "running" <=> db.run = "running"
    /\ db.task = "done" <=> db.run = "succeeded"

\* What a writer without the lock can do to the others, and what it cannot.
\* Half a claim or a finish becomes durable, or an operation fails, only after
\* such a writer's commit fell into an open transaction; the half is then always
\* the same one: the task is marked before its run appears, the run ends before
\* its task.  A write that returned to its caller is missing only if it was made
\* without the lock, and inside a transaction that was rolled back.
DamageIsLimited ==
    /\ cut \subseteq Unlocked
    /\ cut = {} => AtomicClaims /\ ~raised
    /\ db.run = "running" => db.task = "running"
    /\ db.task = "done" => db.run = "succeeded"
    /\ \A w \in acked \ db.written : inside[w] \in Unlocked

=============================================================================

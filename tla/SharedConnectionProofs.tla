----------------------- MODULE SharedConnectionProofs -----------------------
(***************************************************************************)
(* What writers without the lock can do to the transactions of claim and   *)
(* _finish, and what they cannot, for any threads of which any go without  *)
(* the lock, any writes, and a crash between any two statements.  One      *)
(* invariant says how a transaction may be torn; a second one says by      *)
(* whom, and that nothing is torn or lost otherwise.                       *)
(***************************************************************************)
EXTENDS SharedConnection, TLAPS

\* Statements that run inside a transaction.
InTransaction == {"claim", "mark", "insert", "finish", "end", "close", "commit"}

-----------------------------------------------------------------------------
(***************************************************************************)
(* How a transaction may be torn.  Some writers go without the lock, as    *)
(* append does, so it may be committed before its end.  What is left is    *)
(* the order of its statements.                                            *)
(***************************************************************************)

\* What is left of it, as DamageIsLimited reads it in the committed rows.
OneWay(rows) ==
    /\ rows.run = "running" => rows.task = "running"
    /\ rows.task = "done" => rows.run = "succeeded"

\* What the statements before label have left for it, committed or not: only the
\* holder of the lock changes the task and its run.
Prepared(label) ==
    /\ label = "mark" => view.task = "queued"
    /\ label = "insert" => view.task = "running"
    /\ label = "end" => view.run = "running"
    /\ label = "close" => view.run = "succeeded"

\* The invariant that is inductive whoever takes the lock.
TornInv ==
    /\ ConnectionTypeOK
    /\ OneWay(view) /\ OneWay(db)
    /\ ~tx => view = db
    /\ \A th \in Threads : pc[th] \in InTransaction => lock = th /\ Prepared(pc[th])
    /\ \A th \in Threads : pc[th] = "flush" => item[th] \in Writes

\* The end of a transaction, with the rows seen or the rows committed.
LEMMA LeaveTorn ==
    ASSUME TornInv, NEW th \in Threads, lock = th, Leave(th),
           view' \in {view, db}, db' \in {view, db}, tx' = FALSE, view' = db',
           raised' \in BOOLEAN, UNCHANGED <<item, acked, cut, inside>>
    PROVE  TornInv'
  <1>1. \A x \in Threads : pc'[x] \notin InTransaction
    BY DEF TornInv, ConnectionTypeOK, Leave, GoTo, InTransaction
  <1>2. pc' \in [Threads -> Labels] /\ lock' \in Threads \cup {NoThread}
    BY DEF TornInv, ConnectionTypeOK, Labels, Leave, GoTo
  <1>3. ConnectionTypeOK'
    BY <1>2 DEF TornInv, ConnectionTypeOK, Rows
  <1>4. \A x \in Threads : pc'[x] = "flush" => item'[x] \in Writes
    BY DEF TornInv, ConnectionTypeOK, Leave, GoTo
  <1> QED
    BY <1>1, <1>3, <1>4 DEF TornInv, OneWay

\* The lock is held by the one thread that is at a transaction.
LEMMA HolderAlone ==
    ASSUME TornInv, NEW th \in Threads, pc[th] \in InTransaction
    PROVE  lock = th /\ \A x \in Threads \ {th} : pc[x] \notin InTransaction
BY DEF TornInv

\* A transaction: its check, its statements, and its commit.
LEMMA TransactionTorn ==
    ASSUME TornInv, NEW th \in Threads, Claim(th) \/ Finish(th) \/ Commit(th)
    PROVE  TornInv'
  <1>1. ASSUME NEW op \in {"claim", "finish"}, Enter(th, op)
        PROVE  TornInv'
    <2>1. lock = NoThread /\ lock' = th /\ tx' = TRUE /\ UNCHANGED <<db, view, connectionRest>>
      BY <1>1 DEF Enter
    <2>2. pc' = [pc EXCEPT ![th] = op]
      BY <1>1 DEF Enter, GoTo
    <2>3. ConnectionTypeOK'
      BY <2>1, <2>2 DEF TornInv, ConnectionTypeOK, Rows, Labels, connectionRest
    <2>4. \A x \in Threads : pc[x] \notin InTransaction
      BY <2>1, NoThreadAssumption DEF TornInv
    <2>5. \A x \in Threads : pc'[x] \in InTransaction => x = th /\ pc'[x] = op
      BY <2>2, <2>4 DEF TornInv, ConnectionTypeOK
    <2>6. \A x \in Threads : pc'[x] = "flush" => item'[x] \in Writes
      BY <2>1, <2>2 DEF TornInv, ConnectionTypeOK, connectionRest
    <2> QED
      BY <2>1, <2>3, <2>5, <2>6 DEF TornInv, OneWay, Prepared
  <1>2. ASSUME Unwind(th), lock = th
        PROVE  TornInv'
    BY <1>2, LeaveTorn DEF TornInv, ConnectionTypeOK, Unwind, RollbackTransaction
  <1>3. ASSUME NEW next \in {"mark", "insert", "end", "close", "commit"}, GoTo(th, next),
               pc[th] \in InTransaction, view' \in Rows, db' \in {db, view'},
               OneWay(view)', ~tx => db' = view', Prepared(next)',
               UNCHANGED <<tx, lock, connectionRest>>
        PROVE  TornInv'
    <2>1. /\ lock = th
          /\ \A x \in Threads : pc'[x] \in InTransaction => x = th /\ pc'[x] = next
      BY <1>3, HolderAlone DEF TornInv, ConnectionTypeOK, GoTo
    <2>2. ConnectionTypeOK'
      BY <1>3 DEF TornInv, ConnectionTypeOK, Labels, GoTo, connectionRest
    <2>3. OneWay(db)'
      BY <1>3 DEF TornInv, OneWay
    <2>4. ~tx' => view' = db'
      BY <1>3
    <2>5. \A x \in Threads : pc'[x] \in InTransaction => lock' = x /\ Prepared(pc[x])'
      BY <1>3, <2>1 DEF Prepared
    <2>6. \A x \in Threads : pc'[x] = "flush" => item'[x] \in Writes
      BY <1>3 DEF TornInv, ConnectionTypeOK, GoTo, connectionRest
    <2> QED
      BY <1>3, <2>2, <2>3, <2>4, <2>5, <2>6 DEF TornInv
  <1>4. ASSUME NEW op \in {"claim", "finish"}, NEW passes \in BOOLEAN, NEW next \in {"mark", "end"},
               passes => Prepared(next), Check(th, op, passes, next)
        PROVE  TornInv'
    <2>1. lock = th /\ pc[th] \in InTransaction
      BY <1>4, HolderAlone DEF Check, InTransaction
    <2>2. CASE passes /\ GoTo(th, next) /\ UNCHANGED <<db, view, tx, lock, connectionRest>>
      <3>1. view' \in Rows /\ db' \in {db, view'} /\ OneWay(view)' /\ (~tx => db' = view')
        BY <2>2 DEF TornInv, ConnectionTypeOK, OneWay
      <3>2. Prepared(next)'
        BY <1>4, <2>2 DEF Prepared
      <3> QED
        BY <1>3, <2>1, <2>2, <3>1, <3>2
    <2>3. CASE tx /\ RollbackTransaction /\ Leave(th) /\ UNCHANGED connectionRest
      BY <2>1, <2>3, LeaveTorn DEF TornInv, ConnectionTypeOK, RollbackTransaction, connectionRest
    <2> QED
      BY <1>2, <1>4, <2>1, <2>2, <2>3 DEF Check
  <1>5. ASSUME NEW label \in {"mark", "insert", "end", "close"}, NEW rows \in Rows,
               NEW next \in {"insert", "close", "commit"}, Step(th, label, rows, next),
               OneWay(rows), view' = rows => Prepared(next)'
        PROVE  TornInv'
    <2>1. pc[th] \in InTransaction /\ GoTo(th, next) /\ UNCHANGED <<lock, connectionRest>>
      BY <1>5 DEF Step, InTransaction
    <2>2. view' = rows /\ db' = (IF tx THEN db ELSE rows) /\ UNCHANGED tx
      BY <1>5 DEF Step, Statement
    <2> QED
      BY <1>3, <1>5, <2>1, <2>2 DEF OneWay
  <1>6. CASE Step(th, "mark", [view EXCEPT !.task = "running"], "insert")
    <2>1. view \in Rows /\ OneWay(view) /\ view.task = "queued"
      BY <1>6 DEF TornInv, ConnectionTypeOK, Step, Prepared, InTransaction
    <2>2. [view EXCEPT !.task = "running"] \in Rows
      BY <2>1 DEF Rows
    <2>3. OneWay([view EXCEPT !.task = "running"])
      BY <2>1 DEF Rows, OneWay
    <2>4. view' = [view EXCEPT !.task = "running"] => Prepared("insert")'
      BY <2>1 DEF Rows, Prepared
    <2> QED
      BY <1>5, <1>6, <2>2, <2>3, <2>4
  <1>7. CASE Step(th, "insert", [view EXCEPT !.run = "running"], "commit")
    <2>1. view \in Rows /\ OneWay(view) /\ view.task = "running"
      BY <1>7 DEF TornInv, ConnectionTypeOK, Step, Prepared, InTransaction
    <2>2. [view EXCEPT !.run = "running"] \in Rows
      BY <2>1 DEF Rows
    <2>3. OneWay([view EXCEPT !.run = "running"])
      BY <2>1 DEF Rows, OneWay
    <2> QED
      BY <1>5, <1>7, <2>2, <2>3 DEF Prepared
  <1>8. CASE Step(th, "end", [view EXCEPT !.run = "succeeded"], "close")
    <2>1. view \in Rows /\ OneWay(view) /\ view.run = "running"
      BY <1>8 DEF TornInv, ConnectionTypeOK, Step, Prepared, InTransaction
    <2>2. [view EXCEPT !.run = "succeeded"] \in Rows
      BY <2>1 DEF Rows
    <2>3. OneWay([view EXCEPT !.run = "succeeded"])
      BY <2>1 DEF Rows, OneWay
    <2>4. view' = [view EXCEPT !.run = "succeeded"] => Prepared("close")'
      BY <2>1 DEF Rows, Prepared
    <2> QED
      BY <1>5, <1>8, <2>2, <2>3, <2>4
  <1>9. CASE Step(th, "close", [view EXCEPT !.task = "done"], "commit")
    <2>1. view \in Rows /\ OneWay(view) /\ view.run = "succeeded"
      BY <1>9 DEF TornInv, ConnectionTypeOK, Step, Prepared, InTransaction
    <2>2. [view EXCEPT !.task = "done"] \in Rows
      BY <2>1 DEF Rows
    <2>3. OneWay([view EXCEPT !.task = "done"])
      BY <2>1 DEF Rows, OneWay
    <2> QED
      BY <1>5, <1>9, <2>2, <2>3 DEF Prepared
  <1>10. CASE Commit(th)
    <2>1. lock = th
      BY <1>10, HolderAlone DEF Commit, InTransaction
    <2>2. CASE tx /\ CommitTransaction /\ Leave(th) /\ UNCHANGED connectionRest
      BY <2>1, <2>2, LeaveTorn DEF TornInv, ConnectionTypeOK, CommitTransaction, connectionRest
    <2> QED
      BY <1>2, <1>10, <2>1, <2>2 DEF Commit
  <1>11. CASE Check(th, "claim", view.task = "queued", "mark")
    BY <1>4, <1>11 DEF Prepared
  <1>12. CASE Check(th, "finish", view.run = "running", "end")
    BY <1>4, <1>12 DEF Prepared
  <1> QED
    BY <1>1, <1>6, <1>7, <1>8, <1>9, <1>10, <1>11, <1>12 DEF Claim, Finish

\* A write changes neither the task nor its run, and commits what others began.
LEMMA WriteTorn ==
    ASSUME TornInv, NEW th \in Threads, (\E w \in Writes : Write(th, w)) \/ Flush(th)
    PROVE  TornInv'
  <1>1. CASE Flush(th)
    <2>1. /\ view' = view /\ db' \in {db, view} /\ (tx => db' = view) /\ tx' = FALSE
          /\ UNCHANGED <<raised, inside>> /\ cut' \in {cut, cut \cup {th}}
          /\ pc[th] = "flush" /\ pc' = [pc EXCEPT ![th] = "idle"]
          /\ acked' = acked \cup {item[th]} /\ item' = [item EXCEPT ![th] = NoWrite]
      BY <1>1 DEF TornInv, ConnectionTypeOK, Flush, CommitTransaction, Leave, GoTo
    <2>2. lock' = IF lock = th THEN NoThread ELSE lock
      BY <1>1 DEF Flush, Leave
    <2>3. item[th] \in Writes
      BY <2>1 DEF TornInv
    <2>4. ConnectionTypeOK'
      BY <2>1, <2>2, <2>3 DEF TornInv, ConnectionTypeOK, Labels
    <2>5. \A x \in Threads : pc'[x] \in InTransaction => x # th /\ pc'[x] = pc[x]
      BY <2>1 DEF TornInv, ConnectionTypeOK, InTransaction
    <2>6. \A x \in Threads : pc'[x] = "flush" => item'[x] \in Writes
      BY <2>1 DEF TornInv, ConnectionTypeOK
    <2>7. \A x \in Threads : pc'[x] \in InTransaction => lock' = x /\ Prepared(pc[x])'
      BY <2>1, <2>2, <2>5 DEF TornInv, Prepared
    <2>8. OneWay(view)' /\ OneWay(db)' /\ (~tx' => view' = db')
      BY <2>1 DEF TornInv, OneWay
    <2> QED
      BY <2>4, <2>6, <2>7, <2>8 DEF TornInv
  <1>2. ASSUME NEW w \in Writes, Write(th, w)
        PROVE  TornInv'
    <2> DEFINE rows == [view EXCEPT !.written = @ \cup {w}]
    <2>1. /\ view' = rows /\ db' = (IF tx THEN db ELSE rows)
          /\ UNCHANGED <<tx, acked, raised, cut>>
          /\ inside' = [inside EXCEPT ![w] = IF tx THEN th ELSE NoThread]
          /\ pc' = [pc EXCEPT ![th] = "flush"] /\ pc[th] = "idle"
          /\ item' = [item EXCEPT ![th] = w]
          /\ (lock' = lock \/ (lock = NoThread /\ lock' = th))
      BY <1>2 DEF Write, Statement, GoTo
    <2>2. rows \in Rows /\ rows.task = view.task /\ rows.run = view.run
      BY DEF TornInv, ConnectionTypeOK, Rows
    <2>3. ConnectionTypeOK'
      <3> HIDE DEF rows
      <3> QED
        BY <2>1, <2>2 DEF TornInv, ConnectionTypeOK, Labels
    <2>4. \A x \in Threads : pc'[x] \in InTransaction => x # th /\ pc'[x] = pc[x]
      BY <2>1 DEF TornInv, ConnectionTypeOK, InTransaction
    <2>5. OneWay(view)' /\ OneWay(db)' /\ \A label : Prepared(label) => Prepared(label)'
      <3> HIDE DEF rows
      <3> QED
        BY <2>1, <2>2 DEF TornInv, OneWay, Prepared
    <2>6. \A x \in Threads : pc'[x] \in InTransaction => lock' = x /\ Prepared(pc[x])'
      BY <2>1, <2>4, <2>5, NoThreadAssumption DEF TornInv
    <2>7. \A x \in Threads : pc'[x] = "flush" => item'[x] \in Writes
      BY <2>1 DEF TornInv, ConnectionTypeOK
    <2>8. ~tx' => view' = db'
      BY <2>1
    <2> QED
      BY <2>3, <2>5, <2>6, <2>7, <2>8 DEF TornInv
  <1> QED
    BY <1>1, <1>2

\* The end of the process leaves the rows as committed.
LEMMA CrashTorn ==
    ASSUME TornInv, Crash
    PROVE  TornInv'
  <1>1. ConnectionTypeOK'
    BY DEF TornInv, ConnectionTypeOK, Labels, Crash
  <1> QED
    BY <1>1 DEF TornInv, OneWay, InTransaction, Crash

\* It holds in every state.
LEMMA TornInvariant == ConnectionSpec => []TornInv
  <1>1. ConnectionInit => TornInv
    <2> SUFFICES ASSUME ConnectionInit PROVE TornInv
      OBVIOUS
    <2>1. ConnectionTypeOK
      BY DEF ConnectionInit, ConnectionTypeOK, Rows, Labels
    <2> QED
      BY <2>1 DEF ConnectionInit, TornInv, OneWay, InTransaction
  <1>2. TornInv /\ UNCHANGED connectionVars => TornInv'
    BY DEF TornInv, ConnectionTypeOK, OneWay, Prepared, connectionVars
  <1>3. TornInv /\ [ConnectionNext]_connectionVars => TornInv'
    BY <1>2, CrashTorn, TransactionTorn, WriteTorn DEF ConnectionNext
  <1> QED
    BY <1>1, <1>3, PTL DEF ConnectionSpec

-----------------------------------------------------------------------------
(***************************************************************************)
(* By whom.                                                                *)
(***************************************************************************)

\* A task and its run agree, as AtomicClaims reads them in the committed rows.
Agree(rows) ==
    /\ rows.task = "running" <=> rows.run = "running"
    /\ rows.task = "done" <=> rows.run = "succeeded"

\* The write is committed, or was made inside an open transaction without the lock.
Accounted(w) == w \in db.written \/ inside[w] \in Unlocked

\* No commit has fallen into a transaction: each is open until its own end, and
\* its rows agree before it commits.
Uncut ==
    /\ Agree(db) /\ ~raised
    /\ \A th \in Threads : pc[th] \in InTransaction => tx
    /\ \A th \in Threads : pc[th] = "commit" => Agree(view)

\* Who is where, and what the histories say of it.
BlameInv ==
    /\ tx => \E th \in Threads : pc[th] \in InTransaction
    /\ \A th \in Threads : pc[th] = "flush" => th \in Unlocked \/ lock = th
    /\ \A th \in Threads : pc[th] = "flush" => Accounted(item[th])
    /\ \A w \in acked : Accounted(w)
    /\ db.written \subseteq view.written
    /\ cut \subseteq Unlocked
    /\ cut = {} => Uncut

\* A thread that moves leaves the others where they are.
LEMMA Moves ==
    ASSUME TornInv, NEW th \in Threads, NEW label, GoTo(th, label)
    PROVE  /\ pc'[th] = label
           /\ \A x \in Threads \ {th} : pc'[x] = pc[x]
  BY DEF TornInv, ConnectionTypeOK, GoTo

\* The beginning of a transaction.
LEMMA EnterBlame ==
    ASSUME TornInv, BlameInv, NEW th \in Threads, NEW op \in {"claim", "finish"}, Enter(th, op)
    PROVE  BlameInv'
  <1>1. /\ lock = NoThread /\ lock' = th /\ tx' = TRUE
        /\ UNCHANGED <<db, view, item, acked, raised, cut, inside>>
    BY DEF Enter, connectionRest
  <1>2. pc'[th] = op /\ \A x \in Threads \ {th} : pc'[x] = pc[x]
    BY Moves DEF Enter
  <1>3. \A x \in Threads : pc'[x] = "flush" => x \in Unlocked /\ pc[x] = "flush"
    BY <1>1, <1>2, NoThreadAssumption DEF BlameInv
  <1>4. cut = {} => Uncut'
    BY <1>1, <1>2 DEF BlameInv, Uncut, Agree
  <1> QED
    BY <1>1, <1>2, <1>3, <1>4 DEF BlameInv, Accounted, InTransaction

\* The end of a transaction; nobody raises over one that is open.
LEMMA LeaveBlame ==
    ASSUME TornInv, BlameInv, NEW th \in Threads, pc[th] \in InTransaction, Leave(th),
           \/ CommitTransaction /\ tx /\ (cut = {} => Agree(view))
           \/ RollbackTransaction
           \/ ~tx /\ UNCHANGED <<db, view, tx>>,
           ~tx \/ UNCHANGED raised, UNCHANGED <<item, acked, cut, inside>>
    PROVE  BlameInv'
  <1>1. lock = th /\ \A x \in Threads \ {th} : pc[x] \notin InTransaction
    BY HolderAlone
  <1>2. pc'[th] = "idle" /\ \A x \in Threads \ {th} : pc'[x] = pc[x]
    BY Moves DEF Leave
  <1>3. tx' = FALSE
    BY DEF CommitTransaction, RollbackTransaction, TornInv, ConnectionTypeOK
  <1>4. db.written \subseteq db'.written /\ db'.written \subseteq view'.written
    BY DEF CommitTransaction, RollbackTransaction, BlameInv
  <1>5. \A x \in Threads : pc'[x] = "flush" => pc[x] = "flush" /\ x \in Unlocked
    BY <1>1, <1>2 DEF BlameInv, InTransaction
  <1>6. cut = {} => Uncut'
    <2> SUFFICES ASSUME cut = {}
                 PROVE  Uncut'
      OBVIOUS
    <2>1. tx /\ Agree(db) /\ ~raised
      BY DEF BlameInv, Uncut
    <2>2. Agree(db)' /\ ~raised'
      BY <2>1 DEF CommitTransaction, RollbackTransaction, Agree
    <2>3. \A x \in Threads : pc'[x] \notin InTransaction
      BY <1>1, <1>2 DEF InTransaction
    <2> QED
      BY <2>2, <2>3 DEF Uncut, InTransaction
  <1>7. \A w : Accounted(w) => Accounted(w)'
    BY <1>4 DEF Accounted
  <1> QED
    BY <1>3, <1>4, <1>5, <1>6, <1>7 DEF BlameInv

\* Any other step of a transaction.
LEMMA AheadBlame ==
    ASSUME TornInv, BlameInv, NEW th \in Threads, pc[th] \in InTransaction,
           NEW label \in InTransaction, GoTo(th, label), NEW rows,
           rows.written = view.written, view' = rows, db' = IF tx THEN db ELSE rows,
           label = "commit" => Agree(rows), ~tx => db = view,
           UNCHANGED <<tx, lock, item, acked, raised, cut, inside>>
    PROVE  BlameInv'
  <1>1. lock = th /\ \A x \in Threads \ {th} : pc[x] \notin InTransaction
    BY HolderAlone
  <1>2. pc'[th] = label /\ \A x \in Threads \ {th} : pc'[x] = pc[x]
    BY Moves
  <1>3. db.written \subseteq db'.written /\ db'.written \subseteq view'.written
    BY DEF BlameInv
  <1>4. \A x \in Threads : pc'[x] = "flush" => pc[x] = "flush"
    BY <1>2 DEF InTransaction
  <1>5. cut = {} => Uncut'
    <2> SUFFICES ASSUME cut = {}
                 PROVE  Uncut'
      OBVIOUS
    <2>1. tx /\ Agree(db) /\ ~raised
      BY DEF BlameInv, Uncut
    <2>2. \A x \in Threads : pc'[x] \in InTransaction => x = th
      BY <1>1, <1>2
    <2> QED
      BY <1>2, <2>1, <2>2 DEF Uncut, InTransaction, Agree
  <1>6. \A w : Accounted(w) => Accounted(w)'
    BY <1>3 DEF Accounted
  <1>7. pc'[th] \in InTransaction
    BY <1>2
  <1> QED
    BY <1>3, <1>4, <1>5, <1>6, <1>7 DEF BlameInv

\* A transaction: its check, its statements, and its commit.
LEMMA TransactionBlame ==
    ASSUME TornInv, BlameInv, NEW th \in Threads, Claim(th) \/ Finish(th) \/ Commit(th)
    PROVE  BlameInv'
  <1>1. ASSUME Unwind(th), pc[th] \in InTransaction, ~tx
        PROVE  BlameInv'
    BY <1>1, LeaveBlame DEF Unwind
  <1>2. ASSUME NEW op \in {"claim", "finish"}, NEW passes, NEW next \in {"mark", "end"},
               Check(th, op, passes, next)
        PROVE  BlameInv'
    <2>1. pc[th] \in InTransaction
      BY <1>2 DEF Check, InTransaction
    <2>2. CASE GoTo(th, next) /\ UNCHANGED <<db, view, tx, lock, connectionRest>>
      <3>1. next \in InTransaction /\ next # "commit"
        BY DEF InTransaction
      <3>2. ~tx => db = view
        BY DEF TornInv
      <3> QED
        BY <2>1, <2>2, <3>1, <3>2, AheadBlame DEF connectionRest
    <2>3. CASE RollbackTransaction /\ Leave(th) /\ UNCHANGED connectionRest
      BY <2>1, <2>3, LeaveBlame DEF connectionRest
    <2> QED
      BY <1>1, <1>2, <2>1, <2>2, <2>3 DEF Check
  <1>3. ASSUME NEW label \in {"mark", "insert", "end", "close"}, NEW rows,
               NEW next \in {"insert", "close", "commit"}, Step(th, label, rows, next),
               rows.written = view.written, next = "commit" => Agree(rows)
        PROVE  BlameInv'
    <2>1. pc[th] \in InTransaction /\ next \in InTransaction
      BY <1>3 DEF Step, InTransaction
    <2>2. /\ GoTo(th, next) /\ UNCHANGED <<tx, lock, item, acked, raised, cut, inside>>
          /\ view' = rows /\ db' = IF tx THEN db ELSE rows
      BY <1>3 DEF Step, Statement, connectionRest
    <2>3. ~tx => db = view
      BY DEF TornInv
    <2> QED
      BY <1>3, <2>1, <2>2, <2>3, AheadBlame
  <1>4. view \in Rows
    BY DEF TornInv, ConnectionTypeOK
  <1>5. CASE Step(th, "mark", [view EXCEPT !.task = "running"], "insert")
    <2>1. [view EXCEPT !.task = "running"].written = view.written
      BY <1>4 DEF Rows
    <2> QED
      BY <1>3, <1>5, <2>1
  <1>6. CASE Step(th, "insert", [view EXCEPT !.run = "running"], "commit")
    <2>1. view.task = "running"
      BY <1>6 DEF TornInv, Step, Prepared, InTransaction
    <2>2. /\ [view EXCEPT !.run = "running"].written = view.written
          /\ Agree([view EXCEPT !.run = "running"])
      BY <1>4, <2>1 DEF Rows, Agree
    <2> QED
      BY <1>3, <1>6, <2>2
  <1>7. CASE Step(th, "end", [view EXCEPT !.run = "succeeded"], "close")
    <2>1. [view EXCEPT !.run = "succeeded"].written = view.written
      BY <1>4 DEF Rows
    <2> QED
      BY <1>3, <1>7, <2>1
  <1>8. CASE Step(th, "close", [view EXCEPT !.task = "done"], "commit")
    <2>1. view.run = "succeeded"
      BY <1>8 DEF TornInv, Step, Prepared, InTransaction
    <2>2. /\ [view EXCEPT !.task = "done"].written = view.written
          /\ Agree([view EXCEPT !.task = "done"])
      BY <1>4, <2>1 DEF Rows, Agree
    <2> QED
      BY <1>3, <1>8, <2>2
  <1>9. CASE Commit(th)
    <2>1. pc[th] \in InTransaction /\ (cut = {} => Agree(view))
      BY <1>9 DEF Commit, InTransaction, BlameInv, Uncut
    <2>2. CASE tx /\ CommitTransaction /\ Leave(th) /\ UNCHANGED connectionRest
      BY <2>1, <2>2, LeaveBlame DEF connectionRest
    <2> QED
      BY <1>1, <1>9, <2>1, <2>2 DEF Commit
  <1>10. CASE \E op \in {"claim", "finish"} : Enter(th, op)
    BY <1>10, EnterBlame
  <1>11. CASE \/ Check(th, "claim", view.task = "queued", "mark")
              \/ Check(th, "finish", view.run = "running", "end")
    BY <1>2, <1>11
  <1> QED
    BY <1>5, <1>6, <1>7, <1>8, <1>9, <1>10, <1>11 DEF Claim, Finish

\* execute of a write: a thread that takes the lock finds no transaction open.
LEMMA WriteBlame ==
    ASSUME TornInv, BlameInv, NEW th \in Threads, NEW w \in Writes, Write(th, w)
    PROVE  BlameInv'
  <1> DEFINE rows == [view EXCEPT !.written = @ \cup {w}]
  <1>1. /\ view' = rows /\ db' = (IF tx THEN db ELSE rows)
        /\ UNCHANGED <<tx, acked, raised, cut>>
        /\ pc[th] = "idle" /\ GoTo(th, "flush") /\ w \notin acked
    BY DEF Write, Statement
  <1>2. /\ item'[th] = w /\ \A x \in Threads \ {th} : item'[x] = item[x]
        /\ inside'[w] = (IF tx THEN th ELSE NoThread)
        /\ \A v \in Writes \ {w} : inside'[v] = inside[v]
    BY DEF Write, TornInv, ConnectionTypeOK
  <1>3. pc'[th] = "flush" /\ \A x \in Threads \ {th} : pc'[x] = pc[x]
    BY <1>1, Moves
  <1>4. rows.task = view.task /\ rows.run = view.run /\ rows.written = view.written \cup {w}
    BY DEF TornInv, ConnectionTypeOK, Rows
  <1>5. CASE tx
    <2>1. PICK y \in Threads : pc[y] \in InTransaction
      BY <1>5 DEF BlameInv
    <2>2. lock = y /\ y # th
      BY <2>1, <1>1 DEF TornInv, InTransaction
    <2>3. th \in Unlocked /\ lock' = lock
      BY <2>2, NoThreadAssumption DEF Write, TakesLock
    <2>4. inside'[w] \in Unlocked /\ db' = db
      BY <1>1, <1>2, <1>5, <2>3
    <2>5. \A v \in Writes : Accounted(v) => Accounted(v)'
      BY <1>2, <2>4 DEF Accounted
    <2>6. \A x \in Threads : pc'[x] = "flush" =>
             (x \in Unlocked \/ lock' = x) /\ Accounted(item[x])'
      <3> SUFFICES ASSUME NEW x \in Threads, pc'[x] = "flush"
                   PROVE  (x \in Unlocked \/ lock' = x) /\ Accounted(item[x])'
        OBVIOUS
      <3>1. CASE x = th
        BY <3>1, <1>2, <2>3, <2>4 DEF Accounted
      <3>2. CASE x # th
        <4>1. pc[x] = "flush" /\ item'[x] = item[x] /\ item[x] \in Writes
          BY <1>2, <1>3, <3>2 DEF TornInv
        <4>2. Accounted(item[x])
          BY <4>1 DEF BlameInv
        <4> QED
          BY <4>1, <4>2, <2>3, <1>2, <2>4 DEF BlameInv, Accounted
      <3> QED
        BY <3>1, <3>2
    <2>7. pc'[y] \in InTransaction
      BY <1>3, <2>1, <2>2
    <2>8. \A v \in acked' : Accounted(v)'
      BY <1>1, <2>5 DEF BlameInv, TornInv, ConnectionTypeOK
    <2>9. cut' = {} => Uncut'
      BY <1>1, <1>3, <1>4, <2>4, <1>5 DEF BlameInv, Uncut, Agree, InTransaction
    <2>10. db'.written \subseteq view'.written /\ cut' \subseteq Unlocked
      BY <1>1, <1>4, <2>4 DEF BlameInv
    <2> QED
      BY <2>6, <2>7, <2>8, <2>9, <2>10 DEF BlameInv
  <1>6. CASE ~tx
    <2>1. view = db /\ db' = rows /\ db'.written = db.written \cup {w}
      BY <1>1, <1>4, <1>6 DEF TornInv
    <2>2. \A v \in Writes : Accounted(v) => Accounted(v)'
      BY <1>2, <2>1 DEF Accounted
    <2>3. lock' = lock \/ lock = NoThread
      BY DEF Write
    <2>4. th \in Unlocked \/ lock' = th
      BY DEF Write, TakesLock
    <2>5. \A x \in Threads : pc'[x] = "flush" =>
             (x \in Unlocked \/ lock' = x) /\ Accounted(item[x])'
      <3> SUFFICES ASSUME NEW x \in Threads, pc'[x] = "flush"
                   PROVE  (x \in Unlocked \/ lock' = x) /\ Accounted(item[x])'
        OBVIOUS
      <3>1. CASE x = th
        BY <3>1, <1>2, <2>1, <2>4 DEF Accounted
      <3>2. CASE x # th
        <4>1. pc[x] = "flush" /\ item'[x] = item[x] /\ item[x] \in Writes
          BY <1>2, <1>3, <3>2 DEF TornInv
        <4>2. Accounted(item[x])
          BY <4>1 DEF BlameInv
        <4>3. x \in Unlocked \/ lock' = x
          BY <4>1, <2>3, NoThreadAssumption DEF BlameInv
        <4> QED
          BY <4>1, <4>2, <4>3, <1>2, <2>1 DEF Accounted
      <3> QED
        BY <3>1, <3>2
    <2>6. \A v \in acked' : Accounted(v)'
      BY <1>1, <2>2 DEF BlameInv, TornInv, ConnectionTypeOK
    <2>7. cut' = {} => Uncut'
      <3> SUFFICES ASSUME cut = {}
                   PROVE  Uncut'
        BY <1>1
      <3>1. \A x \in Threads : pc[x] \notin InTransaction
        BY <1>6 DEF BlameInv, Uncut
      <3>2. \A x \in Threads : pc'[x] \notin InTransaction
        BY <1>3, <3>1 DEF InTransaction
      <3>3. Agree(db)' /\ ~raised'
        BY <1>1, <1>4, <2>1 DEF BlameInv, Uncut, Agree
      <3> QED
        BY <3>2, <3>3 DEF Uncut, InTransaction
    <2>8. db'.written \subseteq view'.written /\ cut' \subseteq Unlocked /\ ~tx'
      BY <1>1, <1>6, <2>1 DEF BlameInv
    <2> QED
      BY <2>5, <2>6, <2>7, <2>8 DEF BlameInv
  <1> QED
    BY <1>5, <1>6

\* conn.commit() of a write: a transaction that it ends is not its thread's own.
LEMMA FlushBlame ==
    ASSUME TornInv, BlameInv, NEW th \in Threads, Flush(th)
    PROVE  BlameInv'
  <1>1. /\ pc[th] = "flush" /\ GoTo(th, "idle") /\ UNCHANGED <<raised, inside>>
        /\ acked' = acked \cup {item[th]}
        /\ lock' = IF lock = th THEN NoThread ELSE lock
    BY DEF Flush, Leave
  <1>2. pc'[th] = "idle" /\ \A x \in Threads \ {th} : pc'[x] = pc[x]
    BY <1>1, Moves
  <1>3. \A x \in Threads \ {th} : item'[x] = item[x]
    BY DEF Flush, TornInv, ConnectionTypeOK
  <1>4. view' = view /\ db'.written \subseteq view'.written /\ db.written \subseteq db'.written
        /\ tx' = FALSE
    BY DEF Flush, CommitTransaction, BlameInv, TornInv, ConnectionTypeOK
  <1>5. \A w : Accounted(w) => Accounted(w)'
    BY <1>1, <1>4 DEF Accounted
  <1>6. \A w \in acked' : Accounted(w)'
    BY <1>1, <1>5 DEF BlameInv
  <1>7. \A x \in Threads : pc'[x] = "flush" =>
           (x \in Unlocked \/ lock' = x) /\ Accounted(item[x])'
    <2> SUFFICES ASSUME NEW x \in Threads, pc'[x] = "flush"
                 PROVE  (x \in Unlocked \/ lock' = x) /\ Accounted(item[x])'
      OBVIOUS
    <2>1. x # th /\ pc[x] = "flush" /\ item'[x] = item[x]
      BY <1>2, <1>3
    <2>2. Accounted(item[x]) /\ (x \in Unlocked \/ lock = x)
      BY <2>1 DEF BlameInv
    <2> QED
      BY <1>1, <1>4, <2>1, <2>2 DEF Accounted
  <1>8. CASE tx
    <2>1. PICK y \in Threads : pc[y] \in InTransaction
      BY <1>8 DEF BlameInv
    <2>2. lock = y /\ y # th
      BY <1>1, <2>1 DEF TornInv, InTransaction
    <2>3. cut' = cut \cup {th} /\ th \in Unlocked
      BY <1>1, <1>8, <2>2 DEF Flush, BlameInv
    <2> QED
      BY <1>4, <1>6, <1>7, <2>3 DEF BlameInv
  <1>9. CASE ~tx
    <2>1. UNCHANGED <<db, view, cut>>
      BY <1>9 DEF Flush
    <2>2. cut' = {} => Uncut'
      BY <1>1, <1>2, <1>9, <2>1 DEF BlameInv, Uncut, Agree, InTransaction
    <2> QED
      BY <1>4, <1>6, <1>7, <2>1, <2>2 DEF BlameInv
  <1> QED
    BY <1>8, <1>9

\* The end of the process.
LEMMA CrashBlame ==
    ASSUME TornInv, BlameInv, Crash
    PROVE  BlameInv'
  <1>1. \A x \in Threads : pc'[x] = "idle"
    BY DEF Crash
  <1>2. /\ view' = db /\ tx' = FALSE
        /\ UNCHANGED <<db, acked, raised, cut, inside>>
    BY DEF Crash
  <1>3. cut' = {} => Uncut'
    BY <1>1, <1>2 DEF BlameInv, Uncut, Agree, InTransaction
  <1> QED
    BY <1>1, <1>2, <1>3 DEF BlameInv, Accounted, InTransaction

\* Whichever threads write without the lock: only they tear a transaction or make
\* another operation fail, a torn transaction is torn one way, and a write is lost
\* only by such a thread, to the rollback of a transaction it wrote into.
THEOREM DamageSound == ConnectionSpec => []DamageIsLimited
  <1>1. ConnectionInit => BlameInv
    BY DEF ConnectionInit, BlameInv, Uncut, Agree, InTransaction
  <1>2. TornInv /\ BlameInv /\ UNCHANGED connectionVars => BlameInv'
    BY DEF BlameInv, Uncut, Agree, Accounted, connectionVars
  <1>3. TornInv /\ BlameInv /\ [ConnectionNext]_connectionVars => BlameInv'
    BY <1>2, CrashBlame, TransactionBlame, WriteBlame, FlushBlame DEF ConnectionNext
  <1>4. TornInv /\ BlameInv => DamageIsLimited
    BY DEF TornInv, BlameInv, OneWay, Uncut, Agree, Accounted, DamageIsLimited, AtomicClaims
  <1> QED
    BY <1>1, <1>3, <1>4, TornInvariant, PTL DEF ConnectionSpec

=============================================================================

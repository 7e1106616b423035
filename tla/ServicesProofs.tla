-------------------------- MODULE ServicesProofs ----------------------------
(***************************************************************************)
(* What holds of the services beside a conversation for every number of    *)
(* clients, turns, messages and events: the update of the installation     *)
(* (Upgrade), the replies to inbound messages (InboundAutomation), what is *)
(* learnt from turns (LearningQueue) and the local copy of a calendar      *)
(* (CalendarSync). Each part states an inductive invariant that implies    *)
(* the safety properties of its module.                                    *)
(***************************************************************************)
EXTENDS Upgrade, InboundAutomation, LearningQueue, CalendarSync,
        WellFoundedInduction, FiniteSetTheorems, TLAPS

-----------------------------------------------------------------------------
(***************************************************************************)
(* The update of the installation.                                         *)
(***************************************************************************)

\* The handlers past the check: at most one is, by the flag.
InHand(c) == step[c] \notin {"idle", "lock", "refuse"}

\* Who is past the launch has started the one installer; before it, there is none.
HandlersInv ==
    /\ \A c, d \in Admins : InHand(c) /\ InHand(d) => c = d
    /\ \A c \in Admins :
          InHand(c) =>
             /\ inProgress
             /\ delegates = IF step[c] \in {"launched", "report", "exit"} THEN 1 ELSE 0
    /\ ~inProgress => delegates = 0

\* The inductive invariant of the update.
UpgradeInv == UpgradeTypeOK /\ HandlersInv /\ OneUpgrade

\* Before the first client asks, nobody is past the check.
LEMMA UpgradeInitInv == UpgradeInit => UpgradeInv
<1> SUFFICES ASSUME UpgradeInit PROVE UpgradeInv
  OBVIOUS
<1>1. UpgradeTypeOK
  <2>1. 0 \in 0 .. MaxUpgrades
    BY UpgradeBoundsAssumption
  <2>2. /\ step \in [Admins -> {"idle"}]
        /\ forced \in [Admins -> {FALSE}]
        /\ asked \in [Admins -> {0}]
    BY DEF UpgradeInit
  <2> QED
    BY <2>1, <2>2 DEF UpgradeInit, UpgradeTypeOK
<1>2. HandlersInv
  BY DEF UpgradeInit, HandlersInv, InHand
<1>3. OneUpgrade
  BY DEF UpgradeInit, OneUpgrade
<1> QED
  BY <1>1, <1>2, <1>3 DEF UpgradeInv

\* A step of one client's handler keeps the invariant: the check and the setting of
\* the flag are one step, so that a second handler is refused.
LEMMA UpgradeStep ==
    ASSUME UpgradeInv, UpgradeNext
    PROVE  UpgradeInv'
<1> USE DEF UpgradeInv, HandlersInv, InHand, OneUpgrade
<1>1. ASSUME NEW c \in Admins, NEW force \in BOOLEAN, AskForUpgrade(c, force)
      PROVE  UpgradeInv'
  BY <1>1, UpgradeBoundsAssumption DEF UpgradeTypeOK, AskForUpgrade, At, Goes
<1>2. ASSUME NEW c \in Admins, HangUp(c)
      PROVE  UpgradeInv'
  BY <1>2 DEF UpgradeTypeOK, HangUp
<1>3. ASSUME NEW c \in Admins, Handler(c)
      PROVE  UpgradeInv'
  <2>1. CASE Admit(c)
    BY <2>1 DEF UpgradeTypeOK, Admit, At, Goes, Blocked
  <2>2. CASE Refuse(c)
    BY <2>2 DEF UpgradeTypeOK, Refuse, At, Goes
  <2>3. CASE Refused(c)
    BY <2>3 DEF UpgradeTypeOK, Refused, At, Goes
  <2>4. CASE Announce(c)
    BY <2>4 DEF UpgradeTypeOK, Announce, At, Goes, SendThen
  <2>5. CASE Launch(c)
    BY <2>5 DEF UpgradeTypeOK, Launch, At, Goes
  <2>6. CASE LaunchFails(c)
    BY <2>6 DEF UpgradeTypeOK, LaunchFails, At, Goes, SendThen
  <2>7. CASE Report(c)
    BY <2>7 DEF UpgradeTypeOK, Report, At, Goes, SendThen
  <2>8. CASE ExitSoon(c)
    BY <2>8 DEF UpgradeTypeOK, ExitSoon, At, Goes
  <2>9. CASE ClearFlag(c)
    BY <2>9 DEF UpgradeTypeOK, ClearFlag, At, Goes
  <2> QED
    BY <1>3, <2>1, <2>2, <2>3, <2>4, <2>5, <2>6, <2>7, <2>8, <2>9 DEF Handler
<1>4. ASSUME NEW s \in Sessions, SessionRuns(s) \/ SessionIdles(s)
      PROVE  UpgradeInv'
  BY <1>4 DEF UpgradeTypeOK, SessionRuns, SessionIdles
<1>5. CASE Exit
  BY <1>5 DEF UpgradeTypeOK, Exit
<1> QED
  BY <1>1, <1>2, <1>3, <1>4, <1>5 DEF UpgradeNext

\* The types, and the flag that reserves the update, hold of every update: whoever is
\* past the check of _handle_run_update is the one for whom the flag is set.
THEOREM UpgradeInvariant == UpgradeSpec => []UpgradeInv
<1>1. UpgradeInv /\ UNCHANGED upgradeVars => UpgradeInv'
  BY DEF UpgradeInv, UpgradeTypeOK, HandlersInv, InHand, OneUpgrade, upgradeVars
<1>2. UpgradeInv /\ [UpgradeNext]_upgradeVars => UpgradeInv'
  BY <1>1, UpgradeStep
<1> QED
  BY <1>2, UpgradeInitInv, PTL DEF UpgradeSpec

\* Two installers never run on one installation, and a later update is refused only
\* while one is being made, the exit is due or the client who asked is gone.
THEOREM UpgradeSound == UpgradeSpec => []OneUpgrade
BY UpgradeInvariant, PTL DEF UpgradeInv

-----------------------------------------------------------------------------
(***************************************************************************)
(* Replies to inbound messages.                                            *)
(***************************************************************************)

\* A delivery that was not replied to is on its way: an unread row, or the reply
\* that is being written.  What the worker has listed is still unread.
Unread(m) == IF status[m] = "unread" THEN 1 ELSE 0
BeingWritten(m) == IF writing = m THEN 1 ELSE 0

\* No delivery is replied to twice.
DeliveriesInv ==
    /\ batch \subseteq {m \in Messages : status[m] = "unread"}
    /\ writing \notin batch
    /\ \A m \in Messages : posted[m] + Unread(m) + BeingWritten(m) <= delivered[m]

\* No reply that would cool down the one being written is begun meanwhile.
CoolingInv == writing # NoMessage => ~Cooling(writing)

\* The inductive invariant of the replies.
InboundInv == InboundTypeOK /\ DeliveriesInv /\ CoolingInv /\ CooldownHolds

\* Before the first delivery, nothing is unread and nothing was answered.
LEMMA InboundInitInv == InboundInit => InboundInv
<1> SUFFICES ASSUME InboundInit PROVE InboundInv
  OBVIOUS
<1>1. InboundTypeOK
  <2>1. 0 \in 0 .. MaxDeliveries /\ 0 \in 0 .. MaxStops
    BY InboundBoundsAssumption
  <2>2. /\ status \in [Messages -> {"none"}]
        /\ keyed \in [Messages -> {FALSE}]
        /\ recent \in [Messages -> {FALSE}]
        /\ newer \in [Messages -> {{}}]
        /\ delivered \in [Messages -> {0}]
        /\ posted \in [Messages -> {0}]
    BY DEF InboundInit
  <2> QED
    BY <2>1, <2>2 DEF InboundInit, InboundTypeOK
<1>2. DeliveriesInv
  BY MessagesAssumption DEF InboundInit, DeliveriesInv, Unread, BeingWritten
<1>3. CoolingInv /\ CooldownHolds
  BY DEF InboundInit, CoolingInv, CooldownHolds
<1> QED
  BY <1>1, <1>2, <1>3 DEF InboundInv

\* Every step of the webhook and of the worker keeps the types.
LEMMA InboundTypes ==
    ASSUME InboundInv, InboundNext
    PROVE  InboundTypeOK'
<1> USE DEF InboundInv, InboundTypeOK
<1>1. ASSUME NEW m \in Messages, Deliver(m)
      PROVE  InboundTypeOK'
  <2>1. delivered[m] + 1 \in 0 .. MaxDeliveries
    BY <1>1, InboundBoundsAssumption DEF Deliver
  <2>2. delivered' \in [Messages -> 0 .. MaxDeliveries]
    BY <1>1, <2>1 DEF Deliver
  <2>3. /\ status' \in [Messages -> {"none", "unread", "pending", "classified", "ignored",
                                    "auto_replied", "failed"}]
        /\ recent' \in [Messages -> BOOLEAN]
        /\ newer' \in [Messages -> SUBSET Messages]
        /\ keyed' \in [Messages -> BOOLEAN]
    BY <1>1 DEF Deliver, Patch
  <2> QED
    BY <1>1, <2>2, <2>3 DEF Deliver
<1>2. ASSUME NEW m \in Messages, Age(m)
      PROVE  InboundTypeOK'
  BY <1>2 DEF Age
<1>3. ASSUME NEW m \in Messages, Decide(m)
      PROVE  InboundTypeOK'
  <2>1. /\ keyed' \in [Messages -> BOOLEAN] /\ batch' \subseteq Messages
        /\ writing' \in Messages \cup {NoMessage}
        /\ UNCHANGED <<delivered, posted, stops>>
    BY <1>3 DEF Decide
  <2>2. CASE UNCHANGED <<status, recent, newer>>
    BY <2>1, <2>2
  <2>3. CASE \E s \in {"pending", "ignored", "classified"} : Patch(m, s)
    BY <2>1, <2>3 DEF Patch
  <2> QED
    BY <1>3, <2>2, <2>3 DEF Decide
<1>4. CASE Poll
  BY <1>4 DEF Poll
<1>5. CASE Reply
  BY <1>5 DEF Reply, Patch
<1>6. ASSUME NEW got \in BOOLEAN, ReplyFails(got)
      PROVE  InboundTypeOK'
  BY <1>6 DEF ReplyFails, Patch, AfterError
<1>7. ASSUME NEW got \in BOOLEAN, End(got)
      PROVE  InboundTypeOK'
  <2>1. stops' \in 0 .. MaxStops
    BY <1>7, InboundBoundsAssumption DEF End
  <2> QED
    BY <1>7, <2>1 DEF End
<1> QED
  BY <1>1, <1>2, <1>3, <1>4, <1>5, <1>6, <1>7 DEF InboundNext

\* A row that did not change itself is not looked at again, once enough others have.
LEMMA ListedBefore ==
    ASSUME InboundTypeOK, NEW m \in Messages, NEW s, Patch(m, s), NEW o \in Messages,
           o # m, Listed(o)'
    PROVE  Listed(o)
<1>1. newer[o] \subseteq newer'[o] /\ newer'[o] \subseteq Messages
  BY DEF InboundTypeOK, Patch
<1>2. IsFiniteSet(newer'[o]) /\ IsFiniteSet(Messages)
  BY <1>1, LookBackAssumption, FS_Subset
<1>3. /\ Cardinality(newer[o]) <= Cardinality(newer'[o])
      /\ Cardinality(newer[o]) \in Nat /\ Cardinality(newer'[o]) \in Nat
  BY <1>1, <1>2, FS_Subset, FS_CardinalityType
<1> QED
  BY <1>3, LookBackAssumption DEF Listed

\* Every step keeps the account of the deliveries and the cooldown: a message becomes
\* unread by a delivery, and a reply begins with an unread row that does not cool.
LEMMA InboundStep ==
    ASSUME InboundInv, InboundNext
    PROVE  DeliveriesInv' /\ CoolingInv' /\ CooldownHolds'
<1> USE DEF InboundInv, InboundTypeOK, DeliveriesInv, Unread, BeingWritten,
            CoolingInv, CooldownHolds, Cooling
<1>0. ASSUME NEW m \in Messages, NEW s, Patch(m, s), NEW o \in Messages \ {m}, Listed(o)'
      PROVE  Listed(o)
  BY <1>0, ListedBefore
<1>1. ASSUME NEW m \in Messages, Deliver(m)
      PROVE  DeliveriesInv' /\ CoolingInv' /\ CooldownHolds'
  <2>1. \A o \in Messages \ {m} : Listed(o)' => Listed(o)
    BY <1>0, <1>1 DEF Deliver
  <2> QED
    BY <1>1, <2>1 DEF Deliver, Patch
<1>2. ASSUME NEW m \in Messages, Age(m)
      PROVE  DeliveriesInv' /\ CoolingInv' /\ CooldownHolds'
  BY <1>2 DEF Age, Listed
<1>3. ASSUME NEW m \in Messages, Decide(m)
      PROVE  DeliveriesInv' /\ CoolingInv' /\ CooldownHolds'
  <2>1. CASE /\ Verdict[m] = "reply" /\ ~Cooling(m)
             /\ status[m] \notin {"unread", "classified"}
    BY <1>3, <2>1, MessagesAssumption DEF Decide, Listed
  <2>2. CASE ~(/\ Verdict[m] = "reply" /\ ~Cooling(m)
               /\ status[m] \notin {"unread", "classified"})
    <3>1. \E s : Patch(m, s)
      BY <1>3, <2>2 DEF Decide
    <3>2. \A o \in Messages \ {m} : Listed(o)' => Listed(o)
      BY <1>0, <3>1
    <3> QED
      BY <1>3, <2>2, <3>2, MessagesAssumption DEF Decide, Patch
  <2> QED
    BY <2>1, <2>2
<1>4. CASE Poll
  BY <1>4, MessagesAssumption DEF Poll, Listed
<1>5. CASE Reply
  <2>1. writing \in Messages
    BY <1>5 DEF Reply
  <2>2. \A o \in Messages \ {writing} : Listed(o)' => Listed(o)
    BY <1>0, <1>5, <2>1 DEF Reply
  <2> QED
    BY <1>5, <2>1, <2>2, MessagesAssumption DEF Reply, Patch
<1>6. ASSUME NEW got \in BOOLEAN, ReplyFails(got)
      PROVE  DeliveriesInv' /\ CoolingInv' /\ CooldownHolds'
  <2>1. writing \in Messages
    BY <1>6 DEF ReplyFails
  <2>2. \A o \in Messages \ {writing} : Listed(o)' => Listed(o)
    BY <1>0, <1>6, <2>1 DEF ReplyFails
  <2> QED
    BY <1>6, <2>1, <2>2, MessagesAssumption DEF ReplyFails, Patch, AfterError
<1>7. ASSUME NEW got \in BOOLEAN, End(got)
      PROVE  DeliveriesInv' /\ CoolingInv' /\ CooldownHolds'
  BY <1>7, MessagesAssumption DEF End, Listed
<1> QED
  BY <1>1, <1>2, <1>3, <1>4, <1>5, <1>6, <1>7 DEF InboundNext

\* The account of the deliveries, and the cooldown of the reply that is being
\* written, hold under every order of deliveries, replies and restarts.
THEOREM InboundInvariant == InboundSpec => []InboundInv
<1>1. InboundInv /\ UNCHANGED inboundVars => InboundInv'
  BY DEF InboundInv, InboundTypeOK, DeliveriesInv, Unread, BeingWritten, CoolingInv,
         CooldownHolds, Cooling, Listed, inboundVars
<1>2. InboundInv /\ [InboundNext]_inboundVars => InboundInv'
  BY <1>1, InboundTypes, InboundStep DEF InboundInv
<1> QED
  BY <1>2, InboundInitInv, PTL DEF InboundSpec

\* A message is answered at most once for each of its deliveries, and the cooldown
\* holds between the messages of a key for as long as the worker looks back, whatever
\* fails and whenever the process ends.
THEOREM InboundSound == InboundSpec => []RepliesAreLimited
<1>1. InboundInv => RepliesAreLimited
  BY DEF InboundInv, InboundTypeOK, DeliveriesInv, Unread, BeingWritten,
         RepliesAreLimited, OneReplyPerDelivery
<1> QED
  BY <1>1, InboundInvariant, PTL

-----------------------------------------------------------------------------
(***************************************************************************)
(* The receipts of turns, and what is learnt from them.                    *)
(***************************************************************************)

\* The least of a set of numbers is one of them.
LEMMA MinIsMember ==
    ASSUME NEW S, S \subseteq Nat, S # {}
    PROVE  Min(S) \in S
<1>1. PICK k \in S : \A j \in S : <<j, k>> \notin OpToRel(<, Nat)
  BY WFMin, NatLessThanWellFounded, Zenon
<1>2. \A j \in S : ~(j < k)
  BY <1>1, Zenon DEF OpToRel
<1>3. \A j \in S : k <= j
  BY <1>2
<1> QED
  BY <1>3 DEF Min

\* The rows of the queues, and what a worker has claimed.
Rows == [status : {"none", "pending", "running", "ready", "failed"},
         attempts : 0 .. MaxAttempts, due : BOOLEAN]
Claims == [doing : Queues, turn : Turns, seen : SUBSET Turns,
           before : 0 .. MaxAttempts, step : {"first", "patching", "rest"}]

\* A receipt is stored when its turn is answered, and what is kept with it is
\* about the evidence that it quotes.
ReceiptsInv ==
    /\ \A t \in Turns :
          course[t] \in {"none", "running"} =>
             queue["receipts"][t] = NoRow /\ analysis[t] = NoAnalysis
    /\ \A t \in Turns : analysis[t] \in {NoAnalysis, evidence[t]}

\* The types of the turns, the queues and what is kept of them.
LearningTypes ==
    /\ course \in [Turns -> {"none", "running", "answered", "over"}]
    /\ bundle \in [Turns -> SUBSET Turns]
    /\ purged \subseteq Turns
    /\ queue \in [Queues -> [Turns -> Rows]]
    /\ evidence \in [Turns -> SUBSET Turns]
    /\ analysis \in [Turns -> (SUBSET Turns) \cup {NoAnalysis}]
    /\ learnt \subseteq Learnable \X Turns
    /\ next \in Queues
    /\ work \in Claims \cup {Idle}
    /\ restarts \in 0 .. MaxRestarts

\* The inductive invariant of learning.
LearningInv == LearningTypes /\ ReceiptsInv /\ NotesAreAvailable

\* The sets of rows and claims are those of the type invariant of LearningQueue.
LEMMA LearningTypesSuffice == LearningTypes => LearningTypeOK
<1> SUFFICES ASSUME LearningTypes PROVE LearningTypeOK
  OBVIOUS
<1>1. \A q \in Queues, t \in Turns : queue[q][t] \in Rows
  BY DEF LearningTypes
<1>2. Busy => work.doing \in Queues /\ work.turn \in Turns
  BY DEF LearningTypes, Busy, Claims
<1> QED
  BY <1>1, <1>2 DEF LearningTypes, LearningTypeOK, Rows

\* An absent row and a new one are rows, and differ.
LEMMA NewRows == NoRow \in Rows /\ NewRow \in Rows /\ NoRow # NewRow
BY AttemptsAssumption DEF NoRow, NewRow, Rows

\* Before the first turn, no receipt is stored and nothing is learnt.
LEMMA LearningInitInv == LearningInit => LearningInv
<1> SUFFICES ASSUME LearningInit PROVE LearningInv
  OBVIOUS
<1>1. LearningTypes
  <2>1. /\ course \in [Turns -> {"none"}]
        /\ bundle \in [Turns -> {{}}]
        /\ evidence \in [Turns -> {{}}]
        /\ analysis \in [Turns -> {NoAnalysis}]
    BY DEF LearningInit
  <2>2. queue \in [Queues -> [Turns -> Rows]]
    BY NewRows DEF LearningInit
  <2>3. 0 \in 0 .. MaxRestarts
    BY BoundsAssumption
  <2>4. /\ course \in [Turns -> {"none", "running", "answered", "over"}]
        /\ bundle \in [Turns -> SUBSET Turns]
        /\ evidence \in [Turns -> SUBSET Turns]
    BY <2>1
  <2>7. analysis \in [Turns -> (SUBSET Turns) \cup {NoAnalysis}]
    <3>1. {NoAnalysis} \subseteq (SUBSET Turns) \cup {NoAnalysis}
      OBVIOUS
    <3> HIDE DEF NoAnalysis
    <3> QED
      BY <2>1, <3>1
  <2>5. purged \subseteq Turns /\ learnt \subseteq Learnable \X Turns
    BY DEF LearningInit
  <2>6. next \in Queues /\ work \in Claims \cup {Idle} /\ restarts \in 0 .. MaxRestarts
    BY <2>3 DEF LearningInit, Queues
  <2> QED
    BY <2>2, <2>4, <2>5, <2>6, <2>7 DEF LearningTypes
<1>2. ReceiptsInv
  BY DEF LearningInit, ReceiptsInv, Queues
<1>3. NotesAreAvailable
  BY DEF LearningInit, NotesAreAvailable
<1> QED
  BY <1>1, <1>2, <1>3 DEF LearningInv

\* What an UPDATE of the claimed row does.
LEMMA RowWrites ==
    ASSUME LearningTypes, work \in Claims,
           NEW st \in {"none", "pending", "running", "ready", "failed"},
           NEW n \in 0 .. MaxAttempts, NEW due \in BOOLEAN,
           Row(st, n, due)
    PROVE  /\ queue' \in [Queues -> [Turns -> Rows]]
           /\ \A q \in Queues, t \in Turns : queue[q][t] = NoRow => queue'[q][t] = NoRow
<1> DEFINE d == work.doing
           w == work.turn
           row == [status |-> st, attempts |-> n, due |-> due]
<1>1. d \in Queues /\ w \in Turns /\ row \in Rows
  BY DEF Claims, Rows
<1>2. queue' = IF queue[d][w] = NoRow THEN queue ELSE [queue EXCEPT ![d][w] = row]
  BY DEF Row
<1> HIDE DEF d, w, row
<1> QED
  BY <1>1, <1>2 DEF LearningTypes

\* The attempts that a tick counts keep within their bound.
LEMMA AttemptsOfClaim ==
    ASSUME LearningTypes, work \in Claims
    PROVE  Attempts \in 0 .. MaxAttempts
<1>1. queue[work.doing][work.turn] \in Rows
  BY DEF LearningTypes, Claims
<1> QED
  BY <1>1 DEF Attempts, Rows

\* A tick works on rows that are there.
LEMMA TickWrites ==
    ASSUME LearningTypes, Tick
    PROVE  /\ queue' \in [Queues -> [Turns -> Rows]]
           /\ \A q \in Queues, t \in Turns : queue[q][t] = NoRow => queue'[q][t] = NoRow
           /\ work' \in Claims \cup {Idle}
           /\ next' \in Queues
<1> DEFINE q == next
           t == Min(Eligible(q))
           told == [u \in Turns |-> IF u \in GivenUp(q)
                                    THEN [queue[q][u] EXCEPT !.status = "failed"]
                                    ELSE queue[q][u]]
           forgotten == q = "jobs" /\ ~Available(t)
           claim == [status |-> IF forgotten THEN "ready" ELSE "running",
                     attempts |-> told[t].attempts + 1, due |-> forgotten]
<1>1. q \in Queues /\ Other(q) \in Queues
  BY DEF LearningTypes, Other, Queues
<1>2. \A u \in Turns : queue[q][u] \in Rows
  BY <1>1 DEF LearningTypes
<1>3. /\ told \in [Turns -> Rows]
      /\ \A u \in Turns : queue[q][u] = NoRow => told[u] = NoRow
  BY <1>2 DEF Rows, GivenUp, NoRow
<1>4. CASE Eligible(q) = {}
  <2>1. queue' = [queue EXCEPT ![q] = told] /\ next' = Other(q) /\ work' = work
    BY <1>4 DEF Tick
  <2> HIDE DEF told, q
  <2> QED
    BY <1>1, <1>3, <2>1 DEF LearningTypes
<1>5. CASE Eligible(q) # {}
  <2>1. /\ queue' = [queue EXCEPT ![q] = [told EXCEPT ![t] =
                        [status |-> IF forgotten THEN "ready" ELSE "running",
                         due |-> forgotten, attempts |-> @.attempts + 1]]]
        /\ work' = IF forgotten THEN work ELSE Claimed(q, t, "first")
        /\ next' = IF forgotten THEN Other(q) ELSE next
    BY <1>5 DEF Tick
  <2>2. t \in Eligible(q)
    BY <1>5, MinIsMember, TurnsAssumption DEF Eligible
  <2>3. /\ t \in Turns
        /\ queue[q][t].status \in {"pending", "running"}
        /\ queue[q][t].attempts < MaxAttempts
    BY <2>2 DEF Eligible
  <2>4. queue[q][t] # NoRow
    BY <2>3 DEF NoRow
  <2>5. told[t] \in Rows /\ told[t].attempts = queue[q][t].attempts
    BY <1>2, <1>3, <2>3 DEF Rows
  <2>6. claim \in Rows
    <3>1. told[t].attempts \in 0 .. MaxAttempts /\ told[t].attempts < MaxAttempts
      BY <2>3, <2>5 DEF Rows
    <3>2. told[t].attempts + 1 \in 0 .. MaxAttempts
      BY <3>1, AttemptsAssumption
    <3> QED
      BY <3>2 DEF Rows
  <2>7. Claimed(q, t, "first") \in Claims
    <3>1. queue[q][t].attempts \in 0 .. MaxAttempts
      BY <1>2, <2>3 DEF Rows
    <3>2. evidence[t] \in SUBSET Turns
      BY <2>3 DEF LearningTypes
    <3> QED
      BY <1>1, <2>3, <3>1, <3>2 DEF Claimed, Claims
  <2>8. queue' = [queue EXCEPT ![q] = [told EXCEPT ![t] = claim]]
    BY <1>3, <2>1, <2>3
  <2> HIDE DEF told, claim, q, t, forgotten
  <2>9. [told EXCEPT ![t] = claim] \in [Turns -> Rows]
    BY <1>3, <2>6
  <2>10. \A u \in Turns : queue[q][u] = NoRow => [told EXCEPT ![t] = claim][u] = NoRow
    BY <1>3, <2>3, <2>4
  <2> QED
    BY <1>1, <2>1, <2>7, <2>8, <2>9, <2>10 DEF LearningTypes
<1> QED
  BY <1>4, <1>5

\* An action leaves a row that is not there alone.
RowsKept ==
    /\ queue' \in [Queues -> [Turns -> Rows]]
    /\ \A q \in Queues, t \in Turns : queue[q][t] = NoRow => queue'[q][t] = NoRow

\* The turns, and what they leave for the worker.
LEMMA TurnsStep ==
    ASSUME LearningInv, NEW t \in Turns,
           BeginTurn(t) \/ SaveReceipt(t) \/ EnqueueJob(t) \/ Purge(t)
    PROVE  LearningInv'
<1> USE DEF LearningInv
<1>1. CASE BeginTurn(t)
  <2>1. bundle' \in [Turns -> SUBSET Turns]
    BY <1>1 DEF BeginTurn, LearningTypes
  <2>2. /\ course' \in [Turns -> {"none", "running", "answered", "over"}]
        /\ \A u \in Turns : course'[u] \in {"none", "running"} =>
                             course[u] \in {"none", "running"}
    BY <1>1 DEF BeginTurn, LearningTypes
  <2>3. UNCHANGED <<purged, queue, evidence, analysis, learnt, next, work, restarts>>
    BY <1>1 DEF BeginTurn
  <2>4. LearningTypes'
    BY <2>1, <2>2, <2>3 DEF LearningTypes, Claims, Idle
  <2>5. ReceiptsInv'
    BY <2>2, <2>3 DEF ReceiptsInv
  <2> QED
    BY <2>3, <2>4, <2>5 DEF NotesAreAvailable, Available
<1>2. CASE SaveReceipt(t)
  <2>1. queue' = [queue EXCEPT !["receipts"] = [queue["receipts"] EXCEPT ![t] = NewRow]]
    BY <1>2 DEF SaveReceipt, LearningTypes, Queues
  <2>2. /\ queue' \in [Queues -> [Turns -> Rows]]
        /\ \A u \in Turns \ {t} : queue'["receipts"][u] = queue["receipts"][u]
    BY <2>1, NewRows DEF LearningTypes, Queues
  <2>3. /\ course' \in [Turns -> {"none", "running", "answered", "over"}]
        /\ course[t] = "running" /\ course'[t] = "answered"
        /\ \A u \in Turns \ {t} : course'[u] = course[u]
    BY <1>2 DEF SaveReceipt, LearningTypes
  <2>4. /\ evidence' \in [Turns -> SUBSET Turns]
        /\ bundle' \in [Turns -> SUBSET Turns]
        /\ \A u \in Turns \ {t} : evidence'[u] = evidence[u]
    BY <1>2 DEF SaveReceipt, LearningTypes
  <2>5. UNCHANGED <<purged, analysis, learnt, next, work, restarts>>
    BY <1>2 DEF SaveReceipt
  <2>6. LearningTypes'
    BY <2>2, <2>3, <2>4, <2>5 DEF LearningTypes, Claims, Idle
  <2>7. ReceiptsInv'
    <3>1. analysis'[t] = NoAnalysis
      BY <2>3, <2>5 DEF ReceiptsInv
    <3> QED
      BY <2>2, <2>3, <2>4, <2>5, <3>1 DEF ReceiptsInv
  <2> QED
    BY <2>5, <2>6, <2>7 DEF NotesAreAvailable, Available
<1>3. CASE EnqueueJob(t)
  <2>1. queue' = IF t \in Replays THEN queue
                 ELSE [queue EXCEPT !["jobs"] = [queue["jobs"] EXCEPT ![t] = NewRow]]
    BY <1>3 DEF EnqueueJob, LearningTypes, Queues
  <2>2. /\ queue' \in [Queues -> [Turns -> Rows]]
        /\ queue'["receipts"] = queue["receipts"]
    BY <2>1, NewRows DEF LearningTypes, Queues
  <2>3. /\ course' \in [Turns -> {"none", "running", "answered", "over"}]
        /\ \A u \in Turns : course'[u] \in {"none", "running"} =>
                             course[u] \in {"none", "running"}
    BY <1>3 DEF EnqueueJob, LearningTypes
  <2>4. UNCHANGED <<bundle, purged, evidence, analysis, learnt, next, work, restarts>>
    BY <1>3 DEF EnqueueJob
  <2>5. LearningTypes'
    BY <2>2, <2>3, <2>4 DEF LearningTypes, Claims, Idle
  <2>6. ReceiptsInv'
    BY <2>2, <2>3, <2>4 DEF ReceiptsInv
  <2> QED
    BY <2>4, <2>5, <2>6 DEF NotesAreAvailable, Available
<1>4. CASE Purge(t)
  <2>1. queue' \in [Queues -> [Turns -> Rows]]
    BY <1>4, NewRows DEF Purge, LearningTypes
  <2>2. \A u \in Turns :
           queue'["receipts"][u] = IF u = t THEN NoRow
                                   ELSE IF u \in Scrubbed(t) THEN NewRow
                                   ELSE queue["receipts"][u]
    BY <1>4 DEF Purge, Queues
  <2>3. evidence' \in [Turns -> SUBSET Turns]
    BY <1>4 DEF Purge, LearningTypes
  <2>4. \A u \in Turns :
           /\ u \in Scrubbed(t) \cup {t} => analysis'[u] = NoAnalysis
           /\ u \notin Scrubbed(t) \cup {t} =>
                 evidence'[u] = evidence[u] /\ analysis'[u] = analysis[u]
    BY <1>4 DEF Purge
  <2>5. analysis' \in [Turns -> (SUBSET Turns) \cup {NoAnalysis}]
    <3>1. analysis' = [u \in Turns |-> IF u \in Scrubbed(t) \cup {t} THEN NoAnalysis
                                      ELSE analysis[u]]
      BY <1>4 DEF Purge
    <3>2. \A u \in Turns : analysis[u] \in (SUBSET Turns) \cup {NoAnalysis}
      BY DEF LearningTypes
    <3> QED
      BY <3>1, <3>2
  <2>6. /\ purged' = purged \cup {t}
        /\ learnt' = {l \in learnt : l[2] # t \/ l[1] = "opinion"}
        /\ UNCHANGED <<course, bundle, next, work, restarts>>
    BY <1>4 DEF Purge
  <2>7. LearningTypes'
    BY <2>1, <2>3, <2>5, <2>6 DEF LearningTypes, Claims, Idle
  <2>8. \A u \in Scrubbed(t) : queue["receipts"][u] # NoRow
    BY DEF Scrubbed
  <2>9. ReceiptsInv'
    BY <2>2, <2>4, <2>6, <2>8 DEF ReceiptsInv
  <2>10. NotesAreAvailable'
    BY <2>6 DEF NotesAreAvailable, Available
  <2> QED
    BY <2>7, <2>9, <2>10
<1> QED
  BY <1>1, <1>2, <1>3, <1>4

\* The worker at its queues: rows, and nothing that is learnt.
LEMMA QueueStep ==
    ASSUME LearningInv,
           Tick \/ (\E due \in BOOLEAN : Fail(due))
           \/ (\E q \in Queues, t \in Turns : FallDue(q, t))
           \/ Stop \/ WorkerCrash
    PROVE  LearningInv'
<1> USE DEF LearningInv
<1>1. /\ RowsKept
      /\ work' \in Claims \cup {Idle}
      /\ next' \in Queues
  <2>1. CASE Tick
    BY <2>1, TickWrites DEF RowsKept
  <2>2. ASSUME NEW due \in BOOLEAN, Fail(due)
        PROVE  RowsKept /\ work' \in Claims \cup {Idle} /\ next' \in Queues
    <3>1. work \in Claims
      BY <2>2 DEF Fail, Busy, LearningTypes
    <3>2. Row(AfterFailure, Attempts, due) /\ Ended
      BY <2>2 DEF Fail
    <3>3. AfterFailure \in {"none", "pending", "running", "ready", "failed"}
      BY DEF AfterFailure
    <3>4. RowsKept
      BY <3>1, <3>2, <3>3, RowWrites, AttemptsOfClaim DEF RowsKept
    <3> QED
      BY <3>2, <3>4 DEF Ended, Other, Queues
  <2>3. ASSUME NEW q \in Queues, NEW t \in Turns, FallDue(q, t)
        PROVE  RowsKept /\ work' \in Claims \cup {Idle} /\ next' \in Queues
    <3>1. queue[q][t] \in Rows /\ queue[q][t] # NoRow
      BY <2>3 DEF FallDue, LearningTypes, NoRow
    <3>2. [queue[q][t] EXCEPT !.due = TRUE] \in Rows
      BY <3>1 DEF Rows
    <3>3. queue' = [queue EXCEPT ![q] =
                      [queue[q] EXCEPT ![t] = [queue[q][t] EXCEPT !.due = TRUE]]]
      BY <2>3 DEF FallDue, LearningTypes
    <3>4. UNCHANGED <<next, work>>
      BY <2>3 DEF FallDue
    <3>5. RowsKept
      BY <3>1, <3>2, <3>3 DEF RowsKept, LearningTypes
    <3> QED
      BY <3>4, <3>5 DEF LearningTypes, Claims, Idle
  <2>4. CASE Stop
    <3>1. work' = Idle /\ next' = "receipts"
      BY <2>4 DEF Stop, Interrupted
    <3>2. CASE Busy
      <4>1. work \in Claims
        BY <3>2 DEF Busy, LearningTypes
      <4>2. Attempts \in 0 .. MaxAttempts
        BY <4>1, AttemptsOfClaim
      <4>3. Max({0, Attempts - 1}) \in 0 .. MaxAttempts
        BY <4>2, AttemptsAssumption DEF Max
      <4>4. Row("pending", Max({0, Attempts - 1}), TRUE)
        BY <2>4, <3>2 DEF Stop
      <4> QED
        BY <3>1, <4>1, <4>3, <4>4, RowWrites DEF RowsKept, Queues
    <3>3. CASE ~Busy
      <4>1. queue' = queue
        BY <2>4, <3>3 DEF Stop
      <4> QED
        BY <3>1, <4>1 DEF RowsKept, Queues, LearningTypes
    <3> QED
      BY <3>2, <3>3
  <2>5. CASE WorkerCrash
    BY <2>5 DEF WorkerCrash, Interrupted, RowsKept, Queues, LearningTypes
  <2> QED
    BY <2>1, <2>2, <2>3, <2>4, <2>5
<1>2. /\ course' \in [Turns -> {"none", "running", "answered", "over"}]
      /\ \A u \in Turns : course'[u] \in {"none", "running"} => course[u] = course'[u]
      /\ bundle' \in [Turns -> SUBSET Turns]
      /\ restarts' \in 0 .. MaxRestarts
      /\ UNCHANGED <<purged, evidence, analysis, learnt>>
  <2>1. CASE Stop \/ WorkerCrash
    <3>1. Interrupted
      BY <2>1 DEF Stop, WorkerCrash
    <3>2. restarts' \in 0 .. MaxRestarts
      BY <3>1, BoundsAssumption DEF Interrupted, LearningTypes
    <3> QED
      BY <3>1, <3>2 DEF Interrupted, LearningTypes
  <2>2. CASE ~(Stop \/ WorkerCrash)
    <3>1. UNCHANGED <<course, bundle, purged, evidence, analysis, learnt, restarts>>
      BY <2>2 DEF Tick, Fail, FallDue
    <3> QED
      BY <3>1 DEF LearningTypes
  <2> QED
    BY <2>1, <2>2
<1>3. LearningTypes'
  BY <1>1, <1>2 DEF LearningTypes, RowsKept, Claims, Idle
<1>4. ReceiptsInv'
  BY <1>1, <1>2 DEF ReceiptsInv, RowsKept, Queues
<1>5. NotesAreAvailable'
  BY <1>2 DEF NotesAreAvailable, Available
<1> QED
  BY <1>3, <1>4, <1>5

\* A step that may learn from a message that is there, and keeps cases.
OnlyAvailable ==
    /\ learnt' \subseteq Learnable \X Turns
    /\ NotesAreAvailable'
    /\ \A l \in learnt' \ learnt : l[1] # "case" => Available(l[2])

\* The provider's answers, and what is kept of them.
LEMMA AnswerStep ==
    ASSUME LearningInv, Answer
    PROVE  LearningInv' /\ OnlyAvailable
<1> USE DEF LearningInv
<1>1. UNCHANGED <<course, bundle, purged, restarts>>
  BY DEF Answer, Reviewed, Correct, KeepCase, Extract
<1>2. work \in Claims
  <2>1. work.doing \in {"receipts", "jobs"}
    BY DEF Answer, Reviewed, Correct, KeepCase, Extract
  <2>2. Idle.doing = "nothing"
    BY DEF Idle
  <2> QED
    BY <2>1, <2>2 DEF LearningTypes
<1>3. work.turn \in Turns /\ work.doing \in Queues /\ work.seen \in SUBSET Turns
  BY <1>2 DEF Claims
<1>4. ASSUME NEW kinds \in SUBSET Learnable, Keep(kinds),
             Available(work.turn) \/ kinds = {"case"}
      PROVE  OnlyAvailable
  BY <1>1, <1>3, <1>4 DEF Keep, LearningTypes, NotesAreAvailable, Available, OnlyAvailable
<1>5. UNCHANGED learnt => OnlyAvailable
  BY <1>1 DEF LearningTypes, NotesAreAvailable, Available, OnlyAvailable
<1>6. Ended => work' \in Claims \cup {Idle} /\ next' \in Queues
  BY DEF Ended, Other, Queues
<1>7. CASE Reviewed
  <2> DEFINE t == work.turn
  <2>1. Ended /\ UNCHANGED learnt
    BY <1>7 DEF Reviewed
  <2>2. CASE StillTheSame(t)
    <3>1. /\ evidence' = [evidence EXCEPT ![t] = work.seen]
          /\ analysis' = [analysis EXCEPT ![t] = work.seen]
          /\ Row("ready", Attempts, TRUE)
      BY <1>7, <2>2 DEF Reviewed
    <3>2. RowsKept
      BY <1>2, <3>1, RowWrites, AttemptsOfClaim DEF RowsKept
    <3>3. queue["receipts"][t] # NoRow
      BY <2>2 DEF StillTheSame, NoRow
    <3>4. evidence' \in [Turns -> SUBSET Turns]
      BY <1>3, <3>1 DEF LearningTypes
    <3>5. analysis' \in [Turns -> (SUBSET Turns) \cup {NoAnalysis}]
      BY <1>3, <3>1 DEF LearningTypes
    <3>6. LearningTypes'
      BY <1>1, <1>5, <1>6, <2>1, <3>2, <3>4, <3>5 DEF LearningTypes, RowsKept, OnlyAvailable
    <3>7. \A u \in Turns \ {t} : evidence'[u] = evidence[u] /\ analysis'[u] = analysis[u]
      BY <3>1 DEF LearningTypes
    <3>8. evidence'[t] = analysis'[t]
      BY <1>3, <3>1 DEF LearningTypes
    <3>9. ReceiptsInv'
      BY <1>1, <3>2, <3>3, <3>7, <3>8 DEF ReceiptsInv, RowsKept, Queues
    <3> QED
      BY <1>5, <2>1, <3>6, <3>9 DEF OnlyAvailable
  <2>3. CASE ~StillTheSame(t)
    <3>1. UNCHANGED <<evidence, analysis, queue>>
      BY <1>7, <2>3 DEF Reviewed
    <3>2. LearningTypes'
      BY <1>1, <1>5, <1>6, <2>1, <3>1 DEF LearningTypes, OnlyAvailable
    <3> QED
      BY <1>1, <1>5, <2>1, <3>1, <3>2 DEF ReceiptsInv, OnlyAvailable
  <2> QED
    BY <2>2, <2>3
<1>8. CASE ~Reviewed
  <2>1. UNCHANGED <<evidence, analysis>>
    BY <1>8 DEF Answer, Correct, KeepCase, Extract
  <2>2. RowsKept /\ work' \in Claims \cup {Idle} /\ next' \in Queues
    <3>1. CASE Correct \/ KeepCase
      <4>1. UNCHANGED <<queue, next>>
        BY <3>1 DEF Correct, KeepCase
      <4>2. work' \in Claims
        BY <1>2, <3>1 DEF Correct, KeepCase, Claims
      <4> QED
        BY <4>1, <4>2 DEF RowsKept, LearningTypes
    <3>2. CASE Extract(TRUE)
      <4>1. Row("ready", Attempts, TRUE) /\ Ended
        BY <3>2 DEF Extract
      <4> QED
        BY <1>2, <1>6, <4>1, RowWrites, AttemptsOfClaim DEF RowsKept
    <3>3. CASE Extract(FALSE)
      <4>1. UNCHANGED <<queue, next>> /\ work' = [work EXCEPT !.step = "rest"]
        BY <3>3 DEF Extract
      <4>2. work' \in Claims
        BY <1>2, <4>1 DEF Claims
      <4> QED
        BY <4>1, <4>2 DEF RowsKept, LearningTypes
    <3> QED
      BY <1>8, <3>1, <3>2, <3>3 DEF Answer
  <2>3. OnlyAvailable
    <3>1. CASE Correct
      <4>1. IF Available(work.turn) THEN Keep({"note"}) \/ Keep({"note", "opinion"})
            ELSE UNCHANGED learnt
        BY <3>1 DEF Correct
      <4>2. {"note"} \in SUBSET Learnable /\ {"note", "opinion"} \in SUBSET Learnable
        BY DEF Learnable
      <4> QED
        BY <1>4, <1>5, <4>1, <4>2
    <3>2. CASE KeepCase
      <4>1. Keep({"case"}) /\ {"case"} \in SUBSET Learnable
        BY <3>2 DEF KeepCase, Learnable
      <4> QED
        BY <1>4, <4>1
    <3>3. ASSUME NEW last \in BOOLEAN, Extract(last)
          PROVE  OnlyAvailable
      <4>1. \/ Available(work.turn) /\ \E kinds \in SUBSET {"note", "opinion"} : Keep(kinds)
            \/ UNCHANGED learnt
        BY <3>3 DEF Extract, Admissible
      <4>2. \A kinds \in SUBSET {"note", "opinion"} : kinds \in SUBSET Learnable
        BY DEF Learnable
      <4> QED
        BY <1>4, <1>5, <4>1, <4>2
    <3> QED
      BY <1>8, <3>1, <3>2, <3>3 DEF Answer
  <2>4. LearningTypes'
    BY <1>1, <2>1, <2>2, <2>3 DEF LearningTypes, RowsKept, OnlyAvailable
  <2>5. ReceiptsInv'
    BY <1>1, <2>1, <2>2 DEF ReceiptsInv, RowsKept, Queues
  <2> QED
    BY <2>3, <2>4, <2>5 DEF OnlyAvailable
<1> QED
  BY <1>7, <1>8

\* Every step of a turn, of the worker and of the process keeps the invariant.
LEMMA LearningStep ==
    ASSUME LearningInv, [LearningNext]_learningVars
    PROVE  LearningInv'
<1>1. CASE UNCHANGED learningVars
  BY <1>1 DEF LearningInv, LearningTypes, ReceiptsInv, NotesAreAvailable, Available,
              learningVars, Claims, Idle
<1>2. CASE LearningNext
  BY <1>2, TurnsStep, QueueStep, AnswerStep DEF LearningNext
<1> QED
  BY <1>1, <1>2

\* What is stored with a receipt is about the evidence that it quotes, whatever the
\* order of turns, purges, retries and crashes.
THEOREM LearningInvariant == LearningSpec => []LearningInv
BY LearningInitInv, LearningStep, PTL DEF LearningSpec

\* No note is left of a message that was purged, and nothing but a case is learnt from
\* it any more, though the purge may come between a job's claim and its answers; the
\* opinions that were kept before stay.
THEOREM LearntSound == LearningSpec => LearntFromAvailable
<1> DEFINE Learns == /\ NotesAreAvailable'
                     /\ \A l \in learnt' \ learnt : l[1] # "case" => Available(l[2])
<1>1. LearningInv /\ [LearningNext]_learningVars => [Learns]_learningVars
  <2> SUFFICES ASSUME LearningInv, LearningNext PROVE Learns
    OBVIOUS
  <2>1. CASE Answer
    BY <2>1, AnswerStep DEF OnlyAvailable
  <2>2. CASE ~Answer
    <3>1. learnt' \subseteq learnt
      BY <2>2 DEF LearningNext, BeginTurn, SaveReceipt, EnqueueJob, Purge, Tick, Fail, FallDue,
                  Stop, WorkerCrash, Interrupted
    <3>2. NotesAreAvailable'
      BY LearningStep DEF LearningInv
    <3> QED
      BY <3>1, <3>2
  <2> QED
    BY <2>1, <2>2
<1> QED
  BY <1>1, LearningInvariant, PTL DEF LearningSpec, LearntFromAvailable

\* What a step does to a receipt.
LEMMA ScrubbedStep ==
    ASSUME LearningInv, [LearningNext]_learningVars
    PROVE  \A t \in Turns :
              queue["receipts"][t] # NoRow =>
                 /\ evidence'[t] \subseteq evidence[t]
                 /\ analysis'[t] \in {NoAnalysis, evidence'[t]}
<1> USE DEF LearningInv
<1>1. \A t \in Turns : analysis'[t] \in {NoAnalysis, evidence'[t]}
  BY LearningStep DEF ReceiptsInv
<1>2. ASSUME NEW t \in Turns, queue["receipts"][t] # NoRow
      PROVE  evidence'[t] \subseteq evidence[t]
  <2>1. CASE UNCHANGED evidence
    BY <2>1
  <2>2. ASSUME NEW u \in Turns, SaveReceipt(u)
        PROVE  evidence'[t] \subseteq evidence[t]
    <3>1. queue["receipts"][u] = NoRow
      BY <2>2 DEF SaveReceipt, ReceiptsInv
    <3> QED
      BY <1>2, <2>2, <3>1 DEF SaveReceipt, LearningTypes
  <2>3. ASSUME NEW u \in Turns, Purge(u)
        PROVE  evidence'[t] \subseteq evidence[t]
    BY <2>3 DEF Purge
  <2>4. CASE Reviewed
    <3>1. CASE StillTheSame(work.turn)
      <4>1. evidence' = [evidence EXCEPT ![work.turn] = work.seen]
            /\ evidence[work.turn] = work.seen
        BY <2>4, <3>1 DEF Reviewed, StillTheSame
      <4> QED
        BY <4>1 DEF LearningTypes
    <3>2. CASE ~StillTheSame(work.turn)
      BY <2>4, <3>2 DEF Reviewed
    <3> QED
      BY <3>1, <3>2
  <2> QED
    BY <2>1, <2>2, <2>3, <2>4
    DEF LearningNext, learningVars, BeginTurn, EnqueueJob, Tick, Answer, Correct,
        KeepCase, Extract, Fail, FallDue, Stop, WorkerCrash, Interrupted
<1> QED
  BY <1>1, <1>2

\* A receipt's evidence only shrinks, and what a purge has scrubbed from it never
\* returns with the answer to a question that was asked before.
THEOREM ScrubbedSound == LearningSpec => ScrubbedStaysScrubbed
<1>1. LearningInv /\ [LearningNext]_learningVars
        => [\A t \in Turns :
               queue["receipts"][t] # NoRow =>
                  /\ evidence'[t] \subseteq evidence[t]
                  /\ analysis'[t] \in {NoAnalysis, evidence'[t]}]_learningVars
  BY ScrubbedStep
<1> QED
  BY <1>1, LearningInvariant, PTL DEF LearningSpec, ScrubbedStaysScrubbed

-----------------------------------------------------------------------------
(***************************************************************************)
(* The local copy of a calendar account.                                   *)
(***************************************************************************)

\* What may be stored of the last scan of a calendar.
Marks == [tag : {None} \cup Nat, token : {None} \cup Nat,
          count : {Cardinality(some) : some \in SUBSET Events}, known : BOOLEAN]

\* No fetch, one to be listed, one to be stored.
Fetches == [step : {"none"}]
      \cup [step : {"listing"}, of : Calendars]
      \cup [step : {"storing"}, of : Calendars, got : SUBSET Events,
            lost : SUBSET Events, version : [Events -> 1 .. MaxRevision], at : 1 .. MaxRevision]

\* The types of the copy and of what a sync has fetched.
CalendarTypes ==
    /\ CalendarTypeOK
    /\ mark \in [Calendars -> Marks]
    /\ fetch \in Fetches

\* No mark and no listing is of a revision that the server has not reached.
RevisionsInv ==
    \A c \in Calendars :
        /\ began[c] <= revision[c]
        /\ mark[c].tag <= revision[c] /\ mark[c].token <= revision[c]
        /\ \A e \in Events : changed[c][e] <= revision[c]

\* What is fetched is a calendar that the sync has not gone through, after the
\* calendars were listed; only what was gone through has been accounted for.
ScanInv ==
    /\ stage = "idle" => todo = {} /\ seen = {}
    /\ \A c \in todo, e \in Events : <<c, e>> \notin seen
    /\ fetch.step # "none" => stage = "scanning" /\ fetch.of \in todo
    /\ fetch.step = "storing" =>
          /\ began[fetch.of] <= fetch.at /\ fetch.at <= revision[fetch.of]
          /\ mark[fetch.of].token <= fetch.at

\* An answer is right of what has not changed since it was given, and could be
\* loaded.
AnswerInv ==
    fetch.step = "storing" =>
        \A e \in Events : changed[fetch.of][e] <= fetch.at =>
            /\ fetch.version[e] = changed[fetch.of][e]
            /\ e \notin fetch.lost => (e \in fetch.got <=> e \in there[fetch.of])

\* The sync has gone through the calendar.
Visited(c) == stage = "scanning" /\ c \notin todo

\* The row of an event, as pruning will leave it.
Copy(c, e) == IF Visited(c) /\ <<c, e>> \notin seen THEN NotHeld ELSE held[c][e]

\* The event has not changed since what the stored tag or token stand for, nor
\* since the listing of a calendar that was gone through.
Unchanged(c, e) ==
    \/ changed[c][e] <= mark[c].tag
    \/ changed[c][e] <= mark[c].token
    \/ Visited(c) /\ changed[c][e] <= began[c]

\* The copy is right of what has not changed, and was not missed.
CopyInv ==
    \A c \in Calendars, e \in Events :
        <<c, e>> \notin stale /\ Unchanged(c, e) => Copy(c, e) = Truth[c][e]

\* The inductive invariant of a calendar.
CalendarInv == CalendarTypes /\ RevisionsInv /\ ScanInv /\ AnswerInv /\ CopyInv

-----------------------------------------------------------------------------

\* What a calendar's mark may be.
LEMMA MarkFacts ==
    /\ NoMark \in Marks
    /\ \A c \in Calendars, token \in {None} \cup Nat, h \in [Calendars -> [Events -> Nat]] :
          began[c] \in Nat =>
              [tag |-> Tag(c), token |-> token, count |-> Cardinality(Held(c, h)), known |-> TRUE]
                  \in Marks
  <1>1. NoMark \in Marks
    <2>1. Cardinality({}) = 0
      BY FS_EmptySet
    <2>2. 0 \in {Cardinality(some) : some \in SUBSET Events}
      BY <2>1
    <2> QED
      BY <2>2 DEF NoMark, Marks, None
  <1>2. ASSUME NEW c \in Calendars, NEW token \in {None} \cup Nat,
               NEW h \in [Calendars -> [Events -> Nat]], began[c] \in Nat
        PROVE  [tag |-> Tag(c), token |-> token, count |-> Cardinality(Held(c, h)),
                known |-> TRUE] \in Marks
    <2>1. Held(c, h) \in SUBSET Events
      BY DEF Held
    <2>2. Cardinality(Held(c, h)) \in {Cardinality(some) : some \in SUBSET Events}
      BY <2>1
    <2>3. Tag(c) \in {None} \cup Nat
      BY <1>2 DEF Tag
    <2> HIDE DEF None
    <2> QED
      BY <2>2, <2>3 DEF Marks
  <1> QED
    BY <1>1, <1>2

\* A calendar's mark, after Save and of the others.
LEMMA SaveFacts ==
    ASSUME CalendarTypes, NEW c \in Calendars, NEW token \in {None} \cup Nat,
           NEW h \in [Calendars -> [Events -> Nat]], Save(c, token, h)
    PROVE  /\ mark' \in [Calendars -> Marks]
           /\ mark'[c].tag = Tag(c) /\ mark'[c].token = token
           /\ \A d \in Calendars \ {c} : mark'[d] = mark[d]
  <1> DEFINE m == [tag |-> Tag(c), token |-> token, count |-> Cardinality(Held(c, h)),
                   known |-> TRUE]
  <1>4. began[c] \in Nat
    BY RevisionAssumption DEF CalendarTypes, CalendarTypeOK
  <1>1. m \in Marks
    BY <1>4, MarkFacts, Zenon
  <1>2. m.tag = Tag(c) /\ m.token = token
    OBVIOUS
  <1>3. mark' = [mark EXCEPT ![c] = m]
    BY DEF Save
  <1> HIDE DEF m
  <1> QED
    BY <1>1, <1>2, <1>3 DEF CalendarTypes

\* Tags and tokens are numbers, revisions too.
LEMMA Numbers ==
    ASSUME CalendarTypes, NEW c \in Calendars
    PROVE  /\ revision[c] \in 1 .. MaxRevision /\ began[c] \in 1 .. MaxRevision
           /\ mark[c].tag \in Int /\ mark[c].token \in {None} \cup Nat
           /\ Tag(c) \in {None, began[c]}
           /\ \A e \in Events :
                 changed[c][e] \in 1 .. MaxRevision /\ held[c][e] \in 0 .. MaxRevision
           /\ MaxRevision \in Nat
  BY RevisionAssumption DEF CalendarTypes, CalendarTypeOK, Marks, None, Tag

\* Before the first sync nothing is held, and no mark stands for anything.
LEMMA CalendarInitInv == CalendarInit => CalendarInv
  <1> SUFFICES ASSUME CalendarInit PROVE CalendarInv
    OBVIOUS
  <1>1. CalendarTypeOK
    <2>1. /\ revision \in [Calendars -> 1 .. MaxRevision]
          /\ changed \in [Calendars -> [Events -> 1 .. MaxRevision]]
          /\ began \in [Calendars -> 1 .. MaxRevision]
          /\ held \in [Calendars -> [Events -> 0 .. MaxRevision]]
      BY RevisionAssumption DEF CalendarInit, NotHeld
    <2>2. there \in [Calendars -> SUBSET Events]
      BY DEF CalendarInit
    <2> QED
      BY <2>1, <2>2 DEF CalendarInit, CalendarTypeOK
  <1>2. mark \in [Calendars -> Marks] /\ fetch \in Fetches /\ fetch.step = "none"
    BY MarkFacts DEF CalendarInit, Fetches, NoFetch
  <1>3. \A c \in Calendars : mark[c].tag = -1 /\ mark[c].token = -1
    BY DEF CalendarInit, NoMark, None
  <1>4. RevisionsInv
    BY <1>3 DEF CalendarInit, RevisionsInv
  <1>5. ScanInv /\ AnswerInv
    BY <1>2 DEF CalendarInit, ScanInv, AnswerInv
  <1>6. CopyInv
    BY <1>3 DEF CalendarInit, CopyInv, Unchanged, Visited
  <1> QED
    BY <1>1, <1>2, <1>4, <1>5, <1>6 DEF CalendarInv, CalendarTypes

-----------------------------------------------------------------------------

\* A step of the sync that is about one calendar.
About(c) ==
    /\ UNCHANGED <<server, stage, began>>
    /\ todo' \in {todo, todo \ {c}}
    /\ \A d \in Calendars \ {c} :
          /\ held'[d] = held[d] /\ mark'[d] = mark[d]
          /\ \A e \in Events :
                /\ <<d, e>> \in seen' <=> <<d, e>> \in seen
                /\ <<d, e>> \in stale' <=> <<d, e>> \in stale

\* Such a step leaves the others as they are.
LEMMA AboutOne ==
    ASSUME CopyInv, NEW c \in Calendars, About(c),
           \A e \in Events :
              <<c, e>> \notin stale' /\ Unchanged(c, e)' => Copy(c, e)' = Truth[c][e]
    PROVE  CopyInv'
  <1>1. Truth' = Truth
    BY DEF About, Truth, server
  <1>2. ASSUME NEW d \in Calendars \ {c}, NEW e \in Events
        PROVE  Copy(d, e)' = Copy(d, e) /\ (Unchanged(d, e)' <=> Unchanged(d, e))
    BY DEF About, Copy, Unchanged, Visited, server
  <1>3. ASSUME NEW d \in Calendars, NEW e \in Events, <<d, e>> \notin stale', Unchanged(d, e)'
        PROVE  Copy(d, e)' = Truth[d][e]
    <2>1. CASE d = c
      BY <1>3, <2>1
    <2>2. CASE d # c
      BY <1>2, <1>3, <2>2 DEF CopyInv, About
    <2> QED
      BY <2>1, <2>2
  <1> QED
    BY <1>1, <1>3 DEF CopyInv

\* A change on the server is later than all that is stored or under way.
LEMMA EditKeeps ==
    ASSUME CalendarInv, NEW c \in Calendars, NEW e \in Events, NEW present \in BOOLEAN,
           Edit(c, e, present)
    PROVE  CalendarInv'
  <1>t. CalendarTypes
    BY DEF CalendarInv
  <1>1. /\ revision' = [revision EXCEPT ![c] = @ + 1]
        /\ changed' = [changed EXCEPT ![c][e] = revision[c] + 1]
        /\ there' = [there EXCEPT ![c] = IF present THEN @ \cup {e} ELSE @ \ {e}]
        /\ revision[c] < MaxRevision
        /\ UNCHANGED <<held, mark, stage, todo, began, seen, fetch, stale>>
    BY DEF Edit
  <1>2. /\ revision'[c] = revision[c] + 1 /\ revision' \in [Calendars -> 1 .. MaxRevision]
        /\ \A d \in Calendars \ {c} : revision'[d] = revision[d]
    BY <1>1, <1>t, RevisionAssumption DEF CalendarTypes, CalendarTypeOK
  <1>3. /\ changed'[c][e] = revision[c] + 1
        /\ changed' \in [Calendars -> [Events -> 1 .. MaxRevision]]
        /\ \A d \in Calendars, x \in Events :
              (d # c \/ x # e) => changed'[d][x] = changed[d][x]
    BY <1>1, <1>t, RevisionAssumption DEF CalendarTypes, CalendarTypeOK
  <1>4. /\ there' \in [Calendars -> SUBSET Events]
        /\ \A d \in Calendars, x \in Events :
              (d # c \/ x # e) => (x \in there'[d] <=> x \in there[d])
    BY <1>1, <1>t DEF CalendarTypes, CalendarTypeOK
  <1>5. CalendarTypes'
    BY <1>1, <1>2, <1>3, <1>4, <1>t DEF CalendarTypes, CalendarTypeOK
  <1>6. RevisionsInv'
    <2>1. ASSUME NEW d \in Calendars
          PROVE  /\ began[d] <= revision'[d]
                 /\ mark[d].tag <= revision'[d] /\ mark[d].token <= revision'[d]
                 /\ \A x \in Events : changed'[d][x] <= revision'[d]
      BY <1>2, <1>3, <1>t, Numbers DEF CalendarInv, RevisionsInv, None
    <2> QED
      BY <1>1, <2>1 DEF RevisionsInv
  <1>7. ScanInv'
    <2>1. ASSUME fetch.step = "storing"
          PROVE  fetch.at <= revision'[fetch.of]
      <3>1. fetch.of \in Calendars /\ fetch.at \in Nat
        BY <1>t, <2>1 DEF CalendarTypes, Fetches
      <3> QED
        BY <1>2, <1>t, <2>1, <3>1, Numbers DEF CalendarInv, ScanInv
    <2> QED
      BY <1>1, <2>1 DEF CalendarInv, ScanInv
  <1>8. AnswerInv'
    <2>1. ASSUME fetch.step = "storing", NEW x \in Events,
                 changed'[fetch.of][x] <= fetch.at
          PROVE  /\ fetch.version[x] = changed'[fetch.of][x]
                 /\ x \notin fetch.lost => (x \in fetch.got <=> x \in there'[fetch.of])
      <3>1. fetch.of \in Calendars /\ fetch.at \in Nat /\ fetch.at <= revision[fetch.of]
        BY <1>t, <2>1 DEF CalendarTypes, Fetches, CalendarInv, ScanInv
      <3>2. fetch.of # c \/ x # e
        BY <1>3, <1>t, <2>1, <3>1, Numbers
      <3>3. /\ changed'[fetch.of][x] = changed[fetch.of][x]
            /\ x \in there'[fetch.of] <=> x \in there[fetch.of]
        BY <1>3, <1>4, <3>1, <3>2
      <3> QED
        BY <2>1, <3>3 DEF CalendarInv, AnswerInv
    <2> QED
      BY <1>1, <2>1 DEF AnswerInv
  <1>9. CopyInv'
    <2>1. ASSUME NEW d \in Calendars, NEW x \in Events, <<d, x>> \notin stale, Unchanged(d, x)'
          PROVE  Copy(d, x)' = Truth'[d][x]
      <3>1. d # c \/ x # e
        BY <1>1, <1>3, <1>t, <2>1, Numbers
           DEF Unchanged, CalendarInv, RevisionsInv, None
      <3>2. /\ changed'[d][x] = changed[d][x]
            /\ x \in there'[d] <=> x \in there[d]
        BY <1>3, <1>4, <3>1
      <3>3. Unchanged(d, x) /\ Copy(d, x)' = Copy(d, x)
        BY <1>1, <2>1, <3>2 DEF Unchanged, Visited, Copy
      <3> QED
        BY <2>1, <3>2, <3>3 DEF CalendarInv, CopyInv, Truth
    <2> QED
      BY <1>1, <2>1 DEF CopyInv
  <1> QED
    BY <1>5, <1>6, <1>7, <1>8, <1>9 DEF CalendarInv

\* A new sync has gone through no calendar.
LEMMA BeginKeeps ==
    ASSUME CalendarInv, Begin
    PROVE  CalendarInv'
  <1>t. CalendarTypes
    BY DEF CalendarInv
  <1>1. /\ stage = "idle" /\ stage' = "scanning" /\ todo' = Calendars /\ began' = revision
        /\ seen' = {} /\ UNCHANGED <<server, held, mark, fetch, stale>>
        /\ fetch.step = "none"
    BY DEF Begin, CalendarInv, ScanInv
  <1>2. CalendarTypes'
    BY <1>1, <1>t DEF CalendarTypes, CalendarTypeOK, server
  <1>3. RevisionsInv' /\ ScanInv' /\ AnswerInv'
    BY <1>1, <1>t, Numbers DEF CalendarInv, RevisionsInv, ScanInv, AnswerInv, server
  <1>4. CopyInv'
    BY <1>1 DEF CalendarInv, CopyInv, Unchanged, Visited, Copy, Truth, server
  <1> QED
    BY <1>2, <1>3, <1>4 DEF CalendarInv

\* An unchanged tag: what the copy holds is accounted for.
LEMMA ReuseKeeps ==
    ASSUME CalendarInv, NEW c \in Calendars, Reuse(c)
    PROVE  CalendarInv'
  <1>t. CalendarTypes
    BY DEF CalendarInv
  <1>1. /\ stage = "scanning" /\ c \in todo /\ fetch.step = "none"
        /\ c \in Tagged /\ mark[c].tag = began[c]
        /\ seen' = seen \cup Ids(c, held) /\ todo' = todo \ {c}
        /\ UNCHANGED <<server, held, mark, stage, began, fetch, stale>>
    BY DEF Reuse, Visiting, Reusable, NoFetch, Tag
  <1>2. \A d \in Calendars, e \in Events :
           <<d, e>> \in seen' <=> <<d, e>> \in seen \/ (d = c /\ held[c][e] # NotHeld)
    BY <1>1 DEF Ids, Held
  <1>3. CalendarTypes'
    <2>1. seen' \subseteq Calendars \X Events
      BY <1>1, <1>t DEF CalendarTypes, CalendarTypeOK, Ids, Held
    <2> QED
      BY <1>1, <1>t, <2>1 DEF CalendarTypes, CalendarTypeOK, server
  <1>4. RevisionsInv' /\ AnswerInv'
    BY <1>1 DEF CalendarInv, RevisionsInv, AnswerInv, server
  <1>5. ScanInv'
    BY <1>1, <1>2, <1>t DEF CalendarInv, ScanInv, server, CalendarTypes, CalendarTypeOK
  <1>6. About(c)
    BY <1>1, <1>2 DEF About
  <1>7. ASSUME NEW e \in Events, <<c, e>> \notin stale', Unchanged(c, e)'
        PROVE  Copy(c, e)' = Truth[c][e]
    <2>1. Unchanged(c, e) /\ Copy(c, e) = held[c][e] /\ Copy(c, e)' = held[c][e]
      BY <1>1, <1>2, <1>7 DEF Unchanged, Visited, Copy, server
    <2> QED
      BY <1>1, <1>7, <2>1 DEF CalendarInv, CopyInv
  <1>8. CopyInv'
    BY <1>6, <1>7, AboutOne DEF CalendarInv
  <1> QED
    BY <1>3, <1>4, <1>5, <1>8 DEF CalendarInv

-----------------------------------------------------------------------------

\* The changes that were loaded are as on the server, the other rows as before.
LEMMA AppliedFacts ==
    ASSUME CalendarTypes, NEW c \in Calendars, NEW some \in SUBSET Events
    PROVE  /\ Applied(c, some) \in [Calendars -> [Events -> 0 .. MaxRevision]]
           /\ \A d \in Calendars \ {c} : Applied(c, some)[d] = held[d]
           /\ \A e \in Events : Applied(c, some)[c][e] = IF e \in some THEN Truth[c][e]
                                                         ELSE held[c][e]
  <1>1. /\ held \in [Calendars -> [Events -> 0 .. MaxRevision]]
        /\ changed \in [Calendars -> [Events -> 1 .. MaxRevision]]
    BY DEF CalendarTypes, CalendarTypeOK
  <1>2. [e \in Events |-> IF e \notin some THEN held[c][e]
                          ELSE IF e \in there[c] THEN changed[c][e] ELSE NotHeld]
           \in [Events -> 0 .. MaxRevision]
    BY <1>1, RevisionAssumption DEF NotHeld
  <1> QED
    BY <1>1, <1>2 DEF Applied, Truth

\* What has changed is loaded, what has not is right: the whole calendar is exact.
LEMMA DeltaKeeps ==
    ASSUME CalendarInv, NEW c \in Calendars, ApplyDelta(c)
    PROVE  CalendarInv'
  <1>t. CalendarTypes
    BY DEF CalendarInv
  <1>1. /\ stage = "scanning" /\ c \in todo /\ fetch = NoFetch /\ fetch.step = "none"
        /\ held' = Applied(c, Delta(c))
        /\ seen' = seen \cup Ids(c, held') /\ todo' = todo \ {c}
        /\ Save(c, revision[c], held')
        /\ stale' = stale \ ({c} \X Delta(c))
        /\ UNCHANGED <<server, stage, began, fetch>>
    BY DEF ApplyDelta, AskForChanges, Visiting, NoFetch
  <1>2. /\ held' \in [Calendars -> [Events -> 0 .. MaxRevision]]
        /\ \A d \in Calendars \ {c} : held'[d] = held[d]
        /\ \A e \in Events : held'[c][e] = IF e \in Delta(c) THEN Truth[c][e] ELSE held[c][e]
    <2>1. Delta(c) \in SUBSET Events
      BY DEF Delta
    <2> QED
      BY <1>1, <1>t, <2>1, AppliedFacts
  <1>3. /\ mark' \in [Calendars -> Marks]
        /\ mark'[c].tag = Tag(c) /\ mark'[c].token = revision[c]
        /\ \A d \in Calendars \ {c} : mark'[d] = mark[d]
    <2>1. revision[c] \in {None} \cup Nat
      BY <1>t, Numbers
    <2>2. held' \in [Calendars -> [Events -> Nat]]
      BY <1>2, RevisionAssumption
    <2> QED
      BY <1>1, <1>t, <2>1, <2>2, SaveFacts
  <1>4. \A d \in Calendars, e \in Events :
           <<d, e>> \in seen' <=> <<d, e>> \in seen \/ (d = c /\ held'[c][e] # NotHeld)
    BY <1>1 DEF Ids, Held
  <1>5. CalendarTypes'
    <2>1. seen' \subseteq Calendars \X Events
      BY <1>1, <1>t DEF CalendarTypes, CalendarTypeOK, Ids, Held
    <2> QED
      BY <1>1, <1>2, <1>3, <1>t, <2>1 DEF CalendarTypes, CalendarTypeOK, server
  <1>6. RevisionsInv'
    BY <1>1, <1>3, <1>t, Numbers DEF CalendarInv, RevisionsInv, server, None
  <1>7. ScanInv' /\ AnswerInv'
    BY <1>1, <1>4, <1>t
       DEF CalendarInv, ScanInv, AnswerInv, server, CalendarTypes, CalendarTypeOK
  <1>8. About(c)
    BY <1>1, <1>2, <1>3, <1>4 DEF About
  <1>9. ASSUME NEW e \in Events, <<c, e>> \notin stale'
        PROVE  Copy(c, e)' = Truth[c][e]
    <2>1. Copy(c, e)' = held'[c][e]
      BY <1>1, <1>4 DEF Copy, Visited
    <2>2. ASSUME e \notin Delta(c)
          PROVE  held[c][e] = Truth[c][e]
      <3>1. changed[c][e] <= mark[c].token
        BY <1>t, <2>2, Numbers DEF Delta, None
      <3>2. <<c, e>> \notin stale
        BY <1>1, <1>9, <2>2
      <3> QED
        BY <1>1, <3>1, <3>2 DEF CalendarInv, CopyInv, Unchanged, Copy, Visited
    <2> QED
      BY <1>2, <2>1, <2>2
  <1>10. CopyInv'
    BY <1>8, <1>9, AboutOne DEF CalendarInv
  <1> QED
    BY <1>5, <1>6, <1>7, <1>10 DEF CalendarInv

\* What was loaded before the changes broke off is right, and is still to be pruned
\* or fetched.
LEMMA BreakKeeps ==
    ASSUME CalendarInv, NEW c \in Calendars, NEW some \in SUBSET Events, DeltaBreaks(c, some)
    PROVE  CalendarInv'
  <1>t. CalendarTypes
    BY DEF CalendarInv
  <1>1. /\ stage = "scanning" /\ c \in todo
        /\ held' = Applied(c, some) /\ fetch' = Listing(c)
        /\ stale' = stale \ ({c} \X some)
        /\ UNCHANGED <<server, mark, stage, todo, began, seen>>
    BY DEF DeltaBreaks, AskForChanges, Visiting
  <1>2. /\ held' \in [Calendars -> [Events -> 0 .. MaxRevision]]
        /\ \A d \in Calendars \ {c} : held'[d] = held[d]
        /\ \A e \in Events : held'[c][e] = IF e \in some THEN Truth[c][e] ELSE held[c][e]
    BY <1>1, <1>t, AppliedFacts
  <1>3. fetch' \in Fetches /\ fetch'.step = "listing" /\ fetch'.of = c
    BY <1>1 DEF Fetches, Listing
  <1>4. CalendarTypes'
    BY <1>1, <1>2, <1>3, <1>t DEF CalendarTypes, CalendarTypeOK, server
  <1>5. RevisionsInv' /\ ScanInv' /\ AnswerInv'
    BY <1>1, <1>3 DEF CalendarInv, RevisionsInv, ScanInv, AnswerInv, server
  <1>6. About(c)
    BY <1>1, <1>2 DEF About
  <1>7. ASSUME NEW e \in Events, <<c, e>> \notin stale', Unchanged(c, e)'
        PROVE  Copy(c, e)' = Truth[c][e]
    <2>1. Unchanged(c, e) /\ Copy(c, e)' = held'[c][e] /\ Copy(c, e) = held[c][e]
      BY <1>1, <1>7 DEF Unchanged, Visited, Copy, server
    <2> QED
      BY <1>1, <1>2, <1>7, <2>1 DEF CalendarInv, CopyInv
  <1>8. CopyInv'
    BY <1>6, <1>7, AboutOne DEF CalendarInv
  <1> QED
    BY <1>4, <1>5, <1>8 DEF CalendarInv

\* An answer is right as it is given, of what could be loaded.
LEMMA FetchKeeps ==
    ASSUME CalendarInv, NEW c \in Calendars, NEW some \in SUBSET Events, FetchAll(c, some)
    PROVE  CalendarInv'
  <1>t. CalendarTypes
    BY DEF CalendarInv
  <1>1. /\ stage = "scanning" /\ c \in todo
        /\ fetch' = Storing(c, some) /\ some \subseteq there[c]
        /\ UNCHANGED <<server, held, mark, stage, todo, began, seen, stale>>
    BY DEF FetchAll, Visiting, Listing, CalendarInv, ScanInv
  <1>2. /\ fetch'.step = "storing" /\ fetch'.of = c /\ fetch'.got = some
        /\ fetch'.lost = there[c] \ some
        /\ fetch'.version = changed[c] /\ fetch'.at = revision[c]
    BY <1>1 DEF Storing
  <1>3. fetch' \in Fetches
    <2>1. /\ changed[c] \in [Events -> 1 .. MaxRevision] /\ revision[c] \in 1 .. MaxRevision
          /\ there[c] \in SUBSET Events
      BY <1>t DEF CalendarTypes, CalendarTypeOK
    <2> QED
      BY <1>1, <2>1 DEF Fetches, Storing
  <1>4. CalendarTypes'
    BY <1>1, <1>3, <1>t DEF CalendarTypes, CalendarTypeOK, server
  <1>5. RevisionsInv'
    BY <1>1 DEF CalendarInv, RevisionsInv, server
  <1>6. ScanInv'
    BY <1>1, <1>2, <1>t, Numbers DEF CalendarInv, ScanInv, RevisionsInv, server
  <1>7. AnswerInv'
    BY <1>1, <1>2 DEF AnswerInv, server
  <1>8. CopyInv'
    <2>1. ASSUME NEW d \in Calendars, NEW e \in Events
          PROVE  /\ Unchanged(d, e)' <=> Unchanged(d, e)
                 /\ Copy(d, e)' = Copy(d, e) /\ Truth' = Truth
      BY <1>1 DEF Unchanged, Visited, Copy, Truth, server
    <2> QED
      BY <1>1, <2>1 DEF CalendarInv, CopyInv
  <1> QED
    BY <1>4, <1>5, <1>6, <1>7, <1>8 DEF CalendarInv

\* What was fetched is stored: of what has not changed since, it is exact once the
\* rest is pruned.
LEMMA StoreKeeps ==
    ASSUME CalendarInv, NEW c \in Calendars, NEW token \in {None} \cup 1 .. MaxRevision,
           Store(c, token)
    PROVE  CalendarInv'
  <1>t. CalendarTypes
    BY DEF CalendarInv
  <1>1. /\ fetch.step = "storing" /\ fetch.of = c
        /\ held' = [held EXCEPT ![c] = [e \in Events |-> IF e \in fetch.got
                                                         THEN fetch.version[e] ELSE @[e]]]
        /\ seen' = seen \cup {<<c, e>> : e \in fetch.got}
        /\ token \in {mark[c].token, None, revision[c]}
        /\ Save(c, token, held')
        /\ todo' = todo \ {c} /\ fetch' = NoFetch
        /\ stale' = (stale \ ({c} \X Events)) \cup Overlooked(c, token)
        /\ UNCHANGED <<server, stage, began>>
    BY DEF Store
  <1>2. /\ fetch.got \in SUBSET Events /\ fetch.version \in [Events -> 1 .. MaxRevision]
        /\ fetch.at \in 1 .. MaxRevision
    BY <1>1, <1>t DEF CalendarTypes, Fetches
  <1>3. /\ stage = "scanning" /\ c \in todo
        /\ began[c] <= fetch.at /\ mark[c].token <= fetch.at
        /\ \A e \in Events : <<c, e>> \notin seen
    BY <1>1 DEF CalendarInv, ScanInv
  <1>4. /\ held' \in [Calendars -> [Events -> 0 .. MaxRevision]]
        /\ \A d \in Calendars \ {c} : held'[d] = held[d]
        /\ \A e \in fetch.got : held'[c][e] = fetch.version[e]
    <2>1. held \in [Calendars -> [Events -> 0 .. MaxRevision]]
      BY <1>t DEF CalendarTypes, CalendarTypeOK
    <2>2. [e \in Events |-> IF e \in fetch.got THEN fetch.version[e] ELSE held[c][e]]
             \in [Events -> 0 .. MaxRevision]
      BY <1>2, <2>1, RevisionAssumption
    <2> QED
      BY <1>1, <1>2, <2>1, <2>2
  <1>5. /\ mark' \in [Calendars -> Marks]
        /\ mark'[c].tag = Tag(c) /\ mark'[c].token = token
        /\ \A d \in Calendars \ {c} : mark'[d] = mark[d]
    <2>1. token \in {None} \cup Nat
      BY RevisionAssumption
    <2>2. held' \in [Calendars -> [Events -> Nat]]
      BY <1>4, RevisionAssumption
    <2> QED
      BY <1>1, <1>t, <2>1, <2>2, SaveFacts
  <1>6. \A d \in Calendars, e \in Events :
           <<d, e>> \in seen' <=> <<d, e>> \in seen \/ (d = c /\ e \in fetch.got)
    BY <1>1
  <1>7. fetch' \in Fetches /\ fetch'.step = "none"
    BY <1>1 DEF Fetches, NoFetch
  <1>8. CalendarTypes'
    <2>1. seen' \subseteq Calendars \X Events
      BY <1>1, <1>2, <1>t DEF CalendarTypes, CalendarTypeOK
    <2>2. Overlooked(c, token) \subseteq Calendars \X Events
      BY <1>1, <1>t DEF Overlooked, CalendarTypes, Fetches
    <2>3. stale' \subseteq Calendars \X Events
      BY <1>1, <1>t, <2>2 DEF CalendarTypes, CalendarTypeOK
    <2> QED
      BY <1>1, <1>4, <1>5, <1>7, <1>t, <2>1, <2>3 DEF CalendarTypes, CalendarTypeOK, server
  <1>9. RevisionsInv'
    BY <1>1, <1>5, <1>t, Numbers DEF CalendarInv, RevisionsInv, server, None
  <1>10. ScanInv' /\ AnswerInv'
    BY <1>1, <1>3, <1>6, <1>7, <1>t
       DEF CalendarInv, ScanInv, AnswerInv, server, CalendarTypes, CalendarTypeOK
  <1>11. About(c)
    BY <1>1, <1>4, <1>5, <1>6 DEF About, Overlooked
  <1>12. ASSUME NEW e \in Events, <<c, e>> \notin stale', Unchanged(c, e)'
         PROVE  Copy(c, e)' = Truth[c][e]
    <2>1. changed[c][e] <= fetch.at
      <3>1. ~(fetch.at < changed[c][e] /\ changed[c][e] <= token)
        BY <1>1, <1>12 DEF Overlooked
      <3>2. \/ changed[c][e] <= Tag(c) \/ changed[c][e] <= token
            \/ changed[c][e] <= began[c]
        BY <1>1, <1>5, <1>12 DEF Unchanged, server
      <3> QED
        BY <1>2, <1>3, <1>t, <3>1, <3>2, Numbers, RevisionAssumption DEF None
    <2>2. fetch.version[e] = changed[c][e] /\ (e \in fetch.got <=> e \in there[c])
      <3>1. e \notin fetch.lost
        BY <1>1, <1>12 DEF Overlooked
      <3> QED
        BY <1>1, <1>12, <2>1, <3>1 DEF CalendarInv, AnswerInv
    <2>3. Copy(c, e)' = IF e \in fetch.got THEN held'[c][e] ELSE NotHeld
      BY <1>1, <1>3, <1>6 DEF Copy, Visited
    <2> QED
      BY <1>4, <2>2, <2>3 DEF Truth
  <1>13. CopyInv'
    BY <1>11, <1>12, AboutOne DEF CalendarInv
  <1> QED
    BY <1>8, <1>9, <1>10, <1>13 DEF CalendarInv

\* Of a calendar that is left out, only events that are neither there nor held are
\* not missed.
LEMMA RaiseKeeps ==
    ASSUME CalendarInv, NEW c \in Calendars, FetchRaises(c)
    PROVE  CalendarInv'
  <1>t. CalendarTypes
    BY DEF CalendarInv
  <1>1. /\ stage = "scanning" /\ todo' = todo \ {c} /\ fetch' = NoFetch
        /\ stale' = stale \cup LeftOut(c)
        /\ UNCHANGED <<server, held, mark, stage, began, seen>>
    BY DEF FetchRaises, Visiting, Listing, CalendarInv, ScanInv
  <1>2. fetch' \in Fetches /\ fetch'.step = "none"
    BY <1>1 DEF Fetches, NoFetch
  <1>3. LeftOut(c) \subseteq Calendars \X Events
    BY <1>t DEF LeftOut, Held, CalendarTypes, CalendarTypeOK
  <1>4. CalendarTypes'
    BY <1>1, <1>2, <1>3, <1>t DEF CalendarTypes, CalendarTypeOK, server
  <1>5. RevisionsInv' /\ AnswerInv' /\ ScanInv'
    BY <1>1, <1>2 DEF CalendarInv, RevisionsInv, AnswerInv, ScanInv, server
  <1>6. About(c)
    BY <1>1 DEF About, LeftOut
  <1>7. ASSUME NEW e \in Events, <<c, e>> \notin stale'
        PROVE  Copy(c, e)' = Truth[c][e]
    <2>1. e \notin there[c] /\ held[c][e] = NotHeld
      BY <1>1, <1>7 DEF LeftOut, Held
    <2> QED
      BY <1>1, <2>1 DEF Copy, Truth
  <1>8. CopyInv'
    BY <1>6, <1>7, AboutOne DEF CalendarInv
  <1> QED
    BY <1>4, <1>5, <1>8 DEF CalendarInv

\* A sync that is stopped: the rows that pruning would have removed are missed.
LEMMA AbandonKeeps ==
    ASSUME CalendarInv, Abandon
    PROVE  /\ CalendarInv'
           /\ \A c \in Calendars, e \in Events :
                 <<c, e>> \notin stale' => held'[c][e] = Copy(c, e)
  <1>t. CalendarTypes
    BY DEF CalendarInv
  <1>1. /\ stage = "scanning" /\ stage' = "idle" /\ todo' = {} /\ seen' = {}
        /\ fetch' = NoFetch /\ stale' = stale \cup Unpruned
        /\ UNCHANGED <<server, held, mark, began>>
    BY DEF Abandon
  <1>2. fetch' \in Fetches /\ fetch'.step = "none"
    BY <1>1 DEF Fetches, NoFetch
  <1>3. CalendarTypes'
    BY <1>1, <1>2, <1>t DEF CalendarTypes, CalendarTypeOK, server, Unpruned
  <1>4. RevisionsInv' /\ AnswerInv' /\ ScanInv'
    BY <1>1, <1>2 DEF CalendarInv, RevisionsInv, AnswerInv, ScanInv, server
  <1>5. ASSUME NEW c \in Calendars, NEW e \in Events, <<c, e>> \notin stale'
        PROVE  held'[c][e] = Copy(c, e)
    <2>1. ~(c \notin todo /\ held[c][e] # NotHeld /\ <<c, e>> \notin seen)
      BY <1>1, <1>5 DEF Unpruned
    <2> QED
      BY <1>1, <2>1 DEF Copy, Visited
  <1>6. CopyInv'
    <2>1. ASSUME NEW c \in Calendars, NEW e \in Events, <<c, e>> \notin stale',
                 Unchanged(c, e)'
          PROVE  Copy(c, e)' = Truth'[c][e]
      <3>1. Unchanged(c, e) /\ Truth' = Truth /\ Copy(c, e)' = held'[c][e]
        BY <1>1, <2>1 DEF Unchanged, Visited, Truth, Copy, server
      <3> QED
        BY <1>1, <1>5, <2>1, <3>1 DEF CalendarInv, CopyInv
    <2> QED
      BY <2>1 DEF CopyInv
  <1> QED
    BY <1>3, <1>4, <1>5, <1>6 DEF CalendarInv

\* Pruning: the rows become what Copy foresaw.
LEMMA PruneKeeps ==
    ASSUME CalendarInv, Prune
    PROVE  /\ CalendarInv'
           /\ \A c \in Calendars, e \in Events :
                 <<c, e>> \notin stale' => held'[c][e] = Copy(c, e)
  <1>t. CalendarTypes
    BY DEF CalendarInv
  <1>1. /\ stage = "scanning" /\ todo = {} /\ stage' = "idle" /\ seen' = {}
        /\ held' = [c \in Calendars |-> [e \in Events |-> IF Kept(c, e) THEN held[c][e]
                                                          ELSE NotHeld]]
        /\ stale' = stale \cup (IF seen = {} THEN Unpruned ELSE {})
        /\ UNCHANGED <<server, mark, todo, began, fetch>>
    BY DEF Prune
  <1>2. held' \in [Calendars -> [Events -> 0 .. MaxRevision]]
    BY <1>1, <1>t, RevisionAssumption DEF CalendarTypes, CalendarTypeOK, NotHeld
  <1>3. fetch.step = "none"
    BY <1>1, <1>t DEF CalendarInv, ScanInv, CalendarTypes, Fetches
  <1>4. CalendarTypes'
    BY <1>1, <1>2, <1>t DEF CalendarTypes, CalendarTypeOK, server, Unpruned
  <1>5. RevisionsInv' /\ ScanInv' /\ AnswerInv'
    BY <1>1, <1>3 DEF CalendarInv, RevisionsInv, ScanInv, AnswerInv, server
  <1>6. ASSUME NEW c \in Calendars, NEW e \in Events, <<c, e>> \notin stale'
        PROVE  held'[c][e] = Copy(c, e)
    <2>1. Visited(c)
      BY <1>1 DEF Visited
    <2>2. CASE seen = {}
      <3>1. held[c][e] = NotHeld
        BY <1>1, <1>6, <2>2 DEF Unpruned
      <3> QED
        BY <1>1, <2>1, <2>2, <3>1 DEF Copy, Kept
    <2>3. CASE seen # {}
      BY <1>1, <2>1, <2>3 DEF Copy, Kept
    <2> QED
      BY <2>2, <2>3
  <1>7. CopyInv'
    <2>1. ASSUME NEW c \in Calendars, NEW e \in Events, <<c, e>> \notin stale',
                 Unchanged(c, e)'
          PROVE  Copy(c, e)' = Truth'[c][e]
      <3>1. Unchanged(c, e) /\ Truth' = Truth /\ Copy(c, e)' = held'[c][e]
        BY <1>1, <2>1 DEF Unchanged, Visited, Truth, Copy, server
      <3> QED
        BY <1>1, <1>6, <2>1, <3>1 DEF CalendarInv, CopyInv
    <2> QED
      BY <2>1 DEF CopyInv
  <1> QED
    BY <1>4, <1>5, <1>6, <1>7 DEF CalendarInv

-----------------------------------------------------------------------------

\* What the copy holds of events that have not changed is right, in every state.
THEOREM CalendarInvariant == CalendarSpec => []CalendarInv
  <1>1. CalendarInv /\ [CalendarNext]_calendarVars => CalendarInv'
    <2> SUFFICES ASSUME CalendarInv, [CalendarNext]_calendarVars
                 PROVE  CalendarInv'
      OBVIOUS
    <2>1. CASE UNCHANGED calendarVars
      BY <2>1 DEF calendarVars, CalendarInv, CalendarTypes, CalendarTypeOK, RevisionsInv,
                  ScanInv, AnswerInv, CopyInv, Unchanged, Visited, Copy, Truth
    <2>2. CASE CalendarNext
      BY <2>2, EditKeeps, BeginKeeps, ReuseKeeps, DeltaKeeps, BreakKeeps, FetchKeeps,
         StoreKeeps, RaiseKeeps, AbandonKeeps, PruneKeeps DEF CalendarNext
    <2> QED
      BY <2>1, <2>2
  <1> QED
    BY <1>1, CalendarInitInv, PTL DEF CalendarSpec

\* For any calendars and events, whichever way each calendar went in any of the
\* syncs: a sync that goes through all of them, and during which the server does not
\* change, leaves the row of every event exact that no sync has missed.
THEOREM SyncSound == CalendarSpec => SyncIsExact
  <1>1. ASSUME CalendarInv, CalendarNext, stage = "scanning", stage' = "idle", todo = {},
               revision = began, NEW c \in Calendars, NEW e \in Events,
               <<c, e>> \notin stale'
        PROVE  held'[c][e] = Truth[c][e]
    <2>1. Prune \/ Abandon
      BY <1>1 DEF CalendarNext, Edit, Begin, Reuse, ApplyDelta, FetchRaises, DeltaBreaks,
                  FetchAll, Store
    <2>2. held'[c][e] = Copy(c, e) /\ <<c, e>> \notin stale
      BY <1>1, <2>1, PruneKeeps, AbandonKeeps DEF Prune, Abandon
    <2>3. Visited(c) /\ changed[c][e] <= began[c]
      BY <1>1 DEF Visited, CalendarInv, RevisionsInv
    <2> QED
      BY <1>1, <2>2, <2>3 DEF CalendarInv, CopyInv, Unchanged
  <1>2. CalendarInv /\ [CalendarNext]_calendarVars =>
          [(/\ stage = "scanning" /\ stage' = "idle"
            /\ todo = {} /\ revision = began)
              => \A c \in Calendars, e \in Events :
                    <<c, e>> \notin stale' => held'[c][e] = Truth[c][e]]_calendarVars
    BY <1>1
  <1> QED
    BY <1>2, CalendarInvariant, PTL DEF CalendarSpec, SyncIsExact

=============================================================================

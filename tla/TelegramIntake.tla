---------------------------- MODULE TelegramIntake ----------------------------
(***************************************************************************)
(* Messages of a chat on their way in: the long poll of the Telegram       *)
(* connector (src/hushclaw/connectors/telegram.py) and the handler of a    *)
(* message (Connector._handle_message in                                   *)
(* src/hushclaw/connectors/base.py), up to the reply that is handed to the *)
(* delivery outbox.                                                        *)
(*                                                                         *)
(* Telegram keeps updates until getUpdates is called with an offset beyond *)
(* them.  The connector keeps its offset in memory only.  Each request     *)
(* runs on a pool thread, which a stopped connector leaves behind, and     *)
(* each message is handled by a task of its own, which outlives the        *)
(* connector but not the process.                                          *)
(*                                                                         *)
(* Updates that the connector passes over (edits, senders that are not on  *)
(* its lists) only move the offset and are left out.                       *)
(***************************************************************************)
EXTENDS Integers, FiniteSets

CONSTANTS
    Files,         \* the updates that are files without a text
    MaxUpdates,    \* bound: messages of the chats
    MaxBuilds,     \* bound: connectors, one after the other
    MaxCrashes     \* bound: crashes of the process

ASSUME FilesAssumption == Files \subseteq Nat
ASSUME UpdatesAssumption == MaxUpdates \in Nat
ASSUME BuildsAssumption == MaxBuilds \in Nat \ {0} /\ MaxCrashes \in Nat

VARIABLES
    arrived,    \* the updates that Telegram has
    confirmed,  \* the first that getUpdates still returns
    build,      \* the number of the connector, 0 before the first
    polling,    \* the connector runs
    offset,     \* the connector's offset, 0 at first
    request,    \* its getUpdates: none, sent, or answered
    updates,    \* the updates of the answer
    left,       \* offsets of requests whose connector was stopped
    handing,    \* the updates whose handlers are at work, by connector
    taken,      \* taken[u]: the connectors that have handed u to a handler
    repeated,   \* some connector has handed an update to handlers twice
    missed,     \* missed[u]: a crash, or a failed download, ended a handler of u
    crashes

pollVars == <<build, polling, offset, request, updates, left>>
intakeVars == <<arrived, confirmed, pollVars, handing, taken, repeated, missed,
                crashes>>

-----------------------------------------------------------------------------

Updates == 1 .. MaxUpdates
Builds == 1 .. MaxBuilds

Greater(i, j) == IF i > j THEN i ELSE j

IntakeInit ==
    /\ arrived = 0 /\ confirmed = 1
    /\ build = 0 /\ polling = FALSE /\ offset = 0
    /\ request = "none" /\ updates = {} /\ left = {}
    /\ handing = {}
    /\ taken = [u \in Updates |-> {}]
    /\ repeated = FALSE
    /\ missed = [u \in Updates |-> FALSE]
    /\ crashes = 0

\* Somebody writes to the bot.
Arrive ==
    /\ arrived < MaxUpdates
    /\ arrived' = arrived + 1
    /\ UNCHANGED <<confirmed, pollVars, handing, taken, repeated, missed, crashes>>

\* A connector is built and started, at the start of the process or at the end
\* of a reload; its offset begins at nothing.
Started ==
    /\ ~polling
    /\ build < MaxBuilds
    /\ build' = build + 1
    /\ polling' = TRUE
    /\ offset' = 0
    /\ request' = "none"
    /\ updates' = {}
    /\ UNCHANGED <<arrived, confirmed, left, handing, taken, repeated, missed,
                   crashes>>

\* The poll loop asks for the updates from its offset on.
Ask ==
    /\ polling
    /\ request = "none"
    /\ request' = "sent"
    /\ UNCHANGED <<arrived, confirmed, build, polling, offset, updates, left, handing,
                   taken, repeated, missed, crashes>>

\* Telegram gets the request, forgets what is before its offset and answers
\* with what it has; without anything new, it answers when the time is over.
GetUpdates ==
    /\ request = "sent"
    /\ confirmed' = Greater(confirmed, offset)
    /\ updates' = {u \in Updates : confirmed' <= u /\ u <= arrived}
    /\ request' = "answered"
    /\ UNCHANGED <<arrived, build, polling, offset, left, handing, taken, repeated,
                   missed, crashes>>

\* The request fails, before it reached Telegram or afterwards.
RequestFails ==
    /\ polling
    /\ request # "none"
    /\ request' = "none"
    /\ updates' = {}
    /\ UNCHANGED <<arrived, confirmed, build, polling, offset, left, handing, taken,
                   repeated, missed, crashes>>

\* Variant: the last update is asked for once more.
OffsetAtLast(us) ==
    IF us = {} THEN offset ELSE CHOOSE u \in us : \A v \in us : v <= u

\* offset = update_id + 1, for each update of the answer.
OffsetAfter(us) ==
    IF us = {} THEN offset
    ELSE 1 + CHOOSE u \in us : \A v \in us : v <= u

\* The poll loop goes through the answer, without an await.
TakeBatch ==
    /\ polling
    /\ request = "answered"
    /\ offset' = OffsetAfter(updates)
    /\ handing' = handing \cup {<<u, build>> : u \in updates}
    /\ taken' = [u \in Updates |->
                    IF u \in updates THEN taken[u] \cup {build} ELSE taken[u]]
    /\ repeated' = (repeated \/ \E u \in updates : build \in taken[u])
    /\ request' = "none"
    /\ updates' = {}
    /\ UNCHANGED <<arrived, confirmed, build, polling, left, missed, crashes>>

\* The handler has its answer, or its error, and hands a reply to the outbox.
HandlerReplies(u, b) ==
    /\ <<u, b>> \in handing
    /\ handing' = handing \ {<<u, b>>}
    /\ UNCHANGED <<arrived, confirmed, pollVars, taken, repeated, missed, crashes>>

\* The file cannot be fetched, and without any text the handler ends silently.
NothingToHandle(u, b) ==
    /\ <<u, b>> \in handing
    /\ u \in Files
    /\ handing' = handing \ {<<u, b>>}
    /\ missed' = [missed EXCEPT ![u] = TRUE]
    /\ UNCHANGED <<arrived, confirmed, pollVars, taken, repeated, crashes>>

\* Variant: the handlers are cancelled with the poll loop.
NoHandlers == {}

\* stop() cancels the poll loop only.
HandlersAfterStop == handing

\* A reload stops the connector.  The thread that waits for Telegram stays, and
\* what it gets is not looked at.
StopPolling ==
    /\ polling
    /\ build < MaxBuilds
    /\ polling' = FALSE
    /\ left' = IF request = "sent" THEN left \cup {offset} ELSE left
    /\ request' = "none"
    /\ updates' = {}
    /\ handing' = HandlersAfterStop
    /\ UNCHANGED <<arrived, confirmed, build, offset, taken, repeated, missed, crashes>>

\* The request of a stopped connector reaches Telegram late.
AnswerNobody(o) ==
    /\ o \in left
    /\ left' = left \ {o}
    /\ confirmed' = Greater(confirmed, o)
    /\ UNCHANGED <<arrived, build, polling, offset, request, updates, handing, taken,
                   repeated, missed, crashes>>

\* The process dies, and with it the handlers.
CrashIntake ==
    /\ build < MaxBuilds
    /\ crashes < MaxCrashes
    /\ crashes' = crashes + 1
    /\ polling' = FALSE
    /\ left' = IF request = "sent" THEN left \cup {offset} ELSE left
    /\ request' = "none"
    /\ updates' = {}
    /\ handing' = {}
    /\ missed' = [u \in Updates |-> missed[u] \/ \E b \in Builds : <<u, b>> \in handing]
    /\ UNCHANGED <<arrived, confirmed, build, offset, taken, repeated>>

-----------------------------------------------------------------------------

HandlerEnds(u, b) == HandlerReplies(u, b) \/ NothingToHandle(u, b)

IntakeNext ==
    \/ Arrive \/ Started \/ Ask \/ GetUpdates \/ RequestFails \/ TakeBatch
    \/ \E u \in Updates, b \in Builds : HandlerEnds(u, b)
    \/ StopPolling \/ \E o \in left : AnswerNobody(o)
    \/ CrashIntake

IntakeSpec == IntakeInit /\ [][IntakeNext]_intakeVars

-----------------------------------------------------------------------------
(***************************************************************************)
(* Properties.                                                             *)
(***************************************************************************)

\* The type invariant.
IntakeTypeOK ==
    /\ arrived \in 0 .. MaxUpdates
    /\ confirmed \in 1 .. MaxUpdates + 1
    /\ build \in 0 .. MaxBuilds
    /\ polling \in BOOLEAN
    /\ offset \in 0 .. MaxUpdates + 1
    /\ request \in {"none", "sent", "answered"}
    /\ updates \subseteq Updates
    /\ left \subseteq 0 .. MaxUpdates + 1
    /\ handing \subseteq Updates \X Builds
    /\ taken \in [Updates -> SUBSET Builds]
    /\ repeated \in BOOLEAN
    /\ missed \in [Updates -> BOOLEAN]
    /\ crashes \in 0 .. MaxCrashes

\* Telegram forgets no update that nobody has handled, whichever requests are
\* answered late or to nobody; and a connector hands an update over once, so
\* that a message is handled a second time only after a reload or a restart.
HandedOver ==
    /\ \A u \in Updates : u < confirmed => taken[u] # {}
    /\ ~repeated

=============================================================================

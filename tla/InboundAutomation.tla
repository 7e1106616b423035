-------------------------- MODULE InboundAutomation --------------------------
(***************************************************************************)
(* Automatic replies to messages from outside (InboundAutomationWorker and *)
(* InboundStrategyEngine in src/hushclaw/app_connectors/inbound.py, the    *)
(* inbox of src/hushclaw/memory/store.py, the stream of                    *)
(* src/hushclaw/app_connectors/x_stream.py).                               *)
(*                                                                         *)
(* A stream stores messages in the inbox, from a thread; when it is opened *)
(* anew the platform may deliver a message again.  A worker polls the      *)
(* unread messages, applies the rules to each, and has an agent write the  *)
(* replies, one at a time.  A cooldown keeps it from replying to the same  *)
(* key again too soon, and is read from the statuses in the inbox, of the  *)
(* rows that changed last.                                                 *)
(*                                                                         *)
(* The messages are those of one connector, as the look back is, and rows  *)
(* that changed within a second are taken in the order of their changes.   *)
(* (update_app_inbox_event_status, which could make a row unread again, is *)
(* called from nowhere.)                                                   *)
(***************************************************************************)
EXTENDS Integers, FiniteSets

CONSTANTS
    Messages,       \* the messages
    Verdict,        \* Verdict[m]: what the rules say of m, the cooldown apart
    Key,            \* Key[m]: its cooldown key
    LookBack,       \* how many rows the cooldown looks at, 200
    MaxDeliveries,  \* bound: deliveries of a message
    MaxStops        \* bound: ends of the process

ASSUME VerdictAssumption == Verdict \in [Messages -> {"reply", "queue", "ignore"}]
ASSUME LookBackAssumption == IsFiniteSet(Messages) /\ LookBack \in Nat \ {0}
ASSUME InboundBoundsAssumption == MaxDeliveries \in Nat /\ MaxStops \in Nat

VARIABLES
    status,      \* status[m]: of its row in the inbox
    keyed,       \* keyed[m]: its payload holds its cooldown key
    recent,      \* recent[m]: its row changed within the cooldown
    newer,       \* newer[m]: the messages whose rows changed after its own
    delivered,   \* delivered[m]: how often the stream has stored it
    posted,      \* posted[m]: the replies to it that the platform has got
    batch,       \* the unread messages that the worker has listed and not seen
    writing,     \* the message that it is replying to, or NoMessage
    stops        \* ends of the process so far

inboundVars == <<status, keyed, recent, newer, delivered, posted, batch, writing, stops>>

-----------------------------------------------------------------------------

NoMessage == "no message"

ASSUME MessagesAssumption == NoMessage \notin Messages

InboundInit ==
    /\ status = [m \in Messages |-> "none"]
    /\ keyed = [m \in Messages |-> FALSE]
    /\ recent = [m \in Messages |-> FALSE]
    /\ newer = [m \in Messages |-> {}]
    /\ delivered = [m \in Messages |-> 0]
    /\ posted = [m \in Messages |-> 0]
    /\ batch = {}
    /\ writing = NoMessage
    /\ stops = 0

\* The row of m gets a status, and the time of the change.
Patch(m, s) ==
    /\ status' = [status EXCEPT ![m] = s]
    /\ recent' = [recent EXCEPT ![m] = TRUE]
    /\ newer' = [o \in Messages |-> IF o = m THEN {} ELSE newer[o] \cup {m}]

\* upsert_app_inbox_event: a message that is stored again is unread again, with
\* the payload of the platform.  (Of the statuses this worker gives, none is
\* among those that the statement keeps.)
Deliver(m) ==
    /\ delivered[m] < MaxDeliveries
    /\ delivered' = [delivered EXCEPT ![m] = @ + 1]
    /\ Patch(m, "unread")
    /\ keyed' = [keyed EXCEPT ![m] = FALSE]
    /\ UNCHANGED <<posted, batch, writing, stops>>

\* The time of the cooldown is over for m, and is for the rows that changed before.
Age(m) ==
    /\ recent[m]
    /\ \A o \in Messages : m \in newer[o] => ~recent[o]
    /\ recent' = [recent EXCEPT ![m] = FALSE]
    /\ UNCHANGED <<status, keyed, newer, delivered, posted, batch, writing, stops>>

-----------------------------------------------------------------------------
(***************************************************************************)
(* The worker.                                                             *)
(***************************************************************************)

Poll ==
    /\ batch = {} /\ writing = NoMessage
    /\ batch' = {m \in Messages : status[m] = "unread"}
    /\ batch' # {}
    /\ UNCHANGED <<status, keyed, recent, newer, delivered, posted, writing, stops>>

\* list_app_inbox_events: the row is one of the last that changed.
Listed(o) == Cardinality(newer[o]) < LookBack

\* Variant: a reply under way counts, a reply that was sent does not.
CoolingPending(m) ==
    \E o \in Messages \ {m} :
       /\ Listed(o) /\ recent[o]
       /\ status[o] = "pending" /\ keyed[o] /\ Key[o] = Key[m]

\* decide: another message with the same key was replied to not long ago.
Cooling(m) ==
    \E o \in Messages \ {m} :
       /\ Listed(o) /\ recent[o]
       /\ status[o] = "auto_replied" /\ keyed[o] /\ Key[o] = Key[m]

\* A message of the batch is ignored, left to the user, or claimed.
Decide(m) ==
    /\ writing = NoMessage
    /\ m \in batch
    /\ batch' = batch \ {m}
    /\ LET claims == Verdict[m] = "reply" /\ ~Cooling(m) IN
       IF claims /\ status[m] \notin {"unread", "classified"}
       THEN UNCHANGED <<status, keyed, recent, newer, writing>>
       ELSE /\ Patch(m, IF claims THEN "pending"
                        ELSE IF Verdict[m] = "ignore" THEN "ignored" ELSE "classified")
            /\ keyed' = [keyed EXCEPT ![m] = TRUE]
            /\ writing' = IF claims THEN m ELSE NoMessage
    /\ UNCHANGED <<delivered, posted, stops>>

\* The agent's text is sent, and the answer of the platform is good.
Reply ==
    /\ writing # NoMessage
    /\ posted' = [posted EXCEPT ![writing] = @ + 1]
    /\ Patch(writing, "auto_replied")
    /\ writing' = NoMessage
    /\ UNCHANGED <<keyed, delivered, batch, stops>>

AfterError == "failed"

\* The agent fails, or the platform does: then it may have got the reply.
ReplyFails(got) ==
    /\ writing # NoMessage
    /\ posted' = IF got THEN [posted EXCEPT ![writing] = @ + 1] ELSE posted
    /\ Patch(writing, AfterError)
    /\ writing' = NoMessage
    /\ UNCHANGED <<keyed, delivered, batch, stops>>

\* The worker is cancelled or the process crashes, perhaps just after a reply
\* has been sent; it starts again with the next poll.
End(got) ==
    /\ stops < MaxStops
    /\ stops' = stops + 1
    /\ got => writing # NoMessage
    /\ posted' = IF got THEN [posted EXCEPT ![writing] = @ + 1] ELSE posted
    /\ batch' = {}
    /\ writing' = NoMessage
    /\ UNCHANGED <<status, keyed, recent, newer, delivered>>

-----------------------------------------------------------------------------

InboundNext ==
    \/ \E m \in Messages : Deliver(m) \/ Age(m) \/ Decide(m)
    \/ Poll \/ Reply
    \/ \E got \in BOOLEAN : ReplyFails(got) \/ End(got)

InboundSpec == InboundInit /\ [][InboundNext]_inboundVars

-----------------------------------------------------------------------------
(***************************************************************************)
(* Properties.                                                             *)
(***************************************************************************)

\* The type invariant.
InboundTypeOK ==
    /\ status \in [Messages -> {"none", "unread", "pending", "classified", "ignored",
                                "auto_replied", "failed"}]
    /\ keyed \in [Messages -> BOOLEAN]
    /\ recent \in [Messages -> BOOLEAN]
    /\ newer \in [Messages -> SUBSET Messages]
    /\ delivered \in [Messages -> 0 .. MaxDeliveries]
    /\ posted \in [Messages -> Nat]
    /\ batch \subseteq Messages
    /\ writing \in Messages \cup {NoMessage}
    /\ stops \in 0 .. MaxStops

\* The public does not get two replies for one delivery of a message, whatever
\* failed, and whenever the process ended: a reply whose outcome is not known is
\* not sent again.  (A message that is delivered again is replied to again.)
OneReplyPerDelivery ==
    \A m \in Messages : posted[m] <= delivered[m]

\* The cooldown holds between messages with the same key, although it is only
\* looked at when a reply is begun: of two that were replied to within it, one
\* is no longer among the LookBack rows that changed last, which is as far as the
\* worker looks: in a busy inbox the cooldown ends early.  (A message that is
\* delivered again while its reply is written loses its key, and the cooldown no
\* longer sees it.)
CooldownHolds ==
    \A m, o \in Messages :
       (/\ m # o /\ Key[m] = Key[o]
        /\ keyed[m] /\ keyed[o]
        /\ status[m] = "auto_replied" /\ status[o] = "auto_replied"
        /\ recent[m] /\ recent[o])
          => ~Listed(m) \/ ~Listed(o)

\* Both: what the public gets is limited by what it wrote, and by the cooldown.
RepliesAreLimited == OneReplyPerDelivery /\ CooldownHolds

=============================================================================

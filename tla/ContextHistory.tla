--------------------------- MODULE ContextHistory ---------------------------
(***************************************************************************)
(* What the model is shown of a thread's past: the loop that the pool      *)
(* caches for the thread, the durable messages a new loop is restored      *)
(* from, and the checkpoints with which a summary stands for a prefix of   *)
(* them.  The user may exclude messages at any time.                       *)
(*                                                                         *)
(* Messages are numbered in their order.  A context is the set of messages *)
(* its summary was made from and the set of those that follow in full; the *)
(* calls of tools belong to the reply they lead to, except those that wait *)
(* for the user to confirm them.  The thread is one of a web session: its  *)
(* turns follow one another.                                               *)
(***************************************************************************)
EXTENDS Naturals, FiniteSets, Sequences

CONSTANTS
    MaxMessages,     \* bound: messages of the thread
    MaxFailedSaves,  \* bound: messages whose event is not saved
    KeepExchanges    \* compact_keep_turns

ASSUME MessagesAssumption == MaxMessages \in Nat /\ MaxFailedSaves \in Nat
ASSUME ExchangesAssumption == KeepExchanges \in Nat \ {0}

VARIABLES
    history,      \* each message's role, where it was saved, if a context took it
    excluded,     \* the messages the user has excluded or deleted
    late,         \* those excluded while a turn was under way
    checkpoint,   \* the thread's row of context_checkpoints
    carried,      \* _context of the thread's loop; if calls wait for the user
    pooled,       \* the pool has the loop
    exchange,     \* the turn: none, opened, running, compacting
    compaction    \* what a compaction holds while the provider summarises

historyVars == <<history, excluded, late, checkpoint, carried, pooled, exchange, compaction>>

Saved == {"event", "turn", "nowhere"}
NoContext == [summary |-> {}, rest |-> {}, asking |-> FALSE]
NoCheckpoint == [resume |-> 0, prefix |-> {}, summary |-> {}]
NoCompaction == [result |-> NoContext, prepared |-> NoCheckpoint]

HistoryInit ==
    /\ history = <<>>
    /\ excluded = {} /\ late = {}
    /\ checkpoint = NoCheckpoint
    /\ carried = NoContext
    /\ pooled = FALSE
    /\ exchange = "none"
    /\ compaction = NoCompaction

-----------------------------------------------------------------------------
(***************************************************************************)
(* The durable history.  A save of a message's event may fail, and then    *)
(* only its turn is left; the save of the turn may fail too.               *)
(***************************************************************************)

Evented == {m \in DOMAIN history : history[m].saved = "event"}
Remaining == {m \in DOMAIN history : history[m].saved # "nowhere"} \ excluded

\* raw_history: turns without an event fill the gaps between events that remain;
\* without any, they are the history of a thread that has never had an event.
Raw == IF Evented \cap Remaining # {} \/ Evented = {} THEN Remaining ELSE {}

RawBefore(m) == {k \in Raw : k < m}

\* Variant: the boundary is taken for the last message that the summary covers.
RawAfter(m) == {k \in Raw : k > m}
RawFrom(m) == {k \in Raw : k >= m}

\* prepare_checkpoint, for the message the context is to resume with.
Prepared(m) ==
    IF m \in Raw /\ RawBefore(m) # {}
    THEN [resume |-> m, prefix |-> RawBefore(m), summary |-> {}]
    ELSE NoCheckpoint

\* Variant: a prefix that has changed invalidates nothing.
MatchesAnyPrefix(c) == c.resume \in Raw

\* The fingerprint of the messages before the boundary is still the same.
Matches(c) == c.resume \in Raw /\ c.prefix = RawBefore(c.resume)

\* restore_history.
RestoredContext ==
    IF Matches(checkpoint)
    THEN [NoContext EXCEPT !.summary = checkpoint.summary,
                           !.rest = RawFrom(checkpoint.resume)]
    ELSE [NoContext EXCEPT !.rest = Raw]

-----------------------------------------------------------------------------
(***************************************************************************)
(* A turn.                                                                 *)
(***************************************************************************)

\* The pool's loop for the thread, or a new one, restored from the history.
BeginTurn ==
    /\ exchange = "none"
    /\ exchange' = "opened"
    /\ carried' = IF pooled THEN carried ELSE RestoredContext
    /\ pooled' = TRUE
    /\ UNCHANGED <<history, excluded, late, checkpoint, compaction>>

\* One more message, saved as far as that succeeded, and taken by the context
\* or not.
Longer(role, saved, taken) ==
    /\ Len(history) < MaxMessages
    /\ saved = "event" \/ Len(history) - Cardinality(Evented) < MaxFailedSaves
    /\ history' = Append(history, [role |-> role, saved |-> saved, taken |-> taken])

With(m) == [carried EXCEPT !.rest = @ \cup {m}, !.asking = FALSE]
Newest == Len(history) + 1

\* A loop that the pool has dropped meanwhile ends with its turn.
Ended(context) == IF pooled THEN context ELSE NoContext

\* The user's message; it confirms the calls that wait, if there are any.
Receive(saved) ==
    /\ exchange = "opened"
    /\ Longer("user", saved, TRUE)
    /\ carried' = With(Newest)
    /\ exchange' = "running"
    /\ UNCHANGED <<excluded, late, checkpoint, pooled, compaction>>

\* The message does not confirm them: it cancels or modifies them, or is unclear,
\* and is answered at once.  It does not enter the context.
NotConfirmed(saved, still) ==
    /\ exchange = "opened" /\ carried.asking
    /\ Longer("user", saved, FALSE)
    /\ carried' = Ended([carried EXCEPT !.asking = still])
    /\ exchange' = "none"
    /\ UNCHANGED <<excluded, late, checkpoint, pooled, compaction>>

UserMessages == {m \in carried.rest : history[m].role = "user"}

\* The context is over its budget.  The messages before the last of the kept
\* user messages go to the provider, with the summary so far, and a checkpoint
\* is prepared: its boundary is fixed before the call.
Summarise(keep) ==
    /\ exchange = "running"
    /\ \E m \in UserMessages :
          /\ Cardinality({k \in UserMessages : k >= m}) = keep
          /\ \E k \in UserMessages : k < m
          /\ compaction' =
                [result |-> [carried EXCEPT !.summary = @ \cup {k \in carried.rest : k < m},
                                            !.rest = {k \in @ : k >= m}],
                 prepared |-> Prepared(m)]
    /\ exchange' = "compacting"
    /\ UNCHANGED <<history, excluded, late, checkpoint, carried, pooled>>

\* The summary replaces the messages, unless the history has changed during the
\* call.  A boundary that has only a turn belongs to no thread, and its row is
\* never found by the thread's loops; without a row, only the context changes.
Summarised ==
    /\ exchange = "compacting"
    /\ LET c == compaction.prepared IN
       IF c # NoCheckpoint /\ Prepared(c.resume) # c
       THEN UNCHANGED <<checkpoint, carried>>
       ELSE /\ carried' = compaction.result
            /\ checkpoint' = IF c.resume \in Evented
                             THEN [c EXCEPT !.summary = compaction.result.summary]
                             ELSE checkpoint
    /\ exchange' = "running"
    /\ compaction' = NoCompaction
    /\ UNCHANGED <<history, excluded, late, pooled>>

\* The provider fails, or gives no summary.
NotSummarised ==
    /\ exchange = "compacting"
    /\ exchange' = "running"
    /\ compaction' = NoCompaction
    /\ UNCHANGED <<history, excluded, late, checkpoint, carried, pooled>>

\* The reply enters the context and is saved.  It may ask the user to confirm.
Reply(saved, asks) ==
    /\ exchange = "running"
    /\ Longer("assistant", saved, TRUE)
    /\ carried' = Ended([With(Newest) EXCEPT !.asking = asks])
    /\ exchange' = "none"
    /\ UNCHANGED <<excluded, late, checkpoint, pooled, compaction>>

\* A turn is cancelled, fails, or has no text.
EndUnanswered ==
    /\ exchange # "none"
    /\ exchange' = "none"
    /\ carried' = Ended(carried)
    /\ compaction' = NoCompaction
    /\ UNCHANGED <<history, excluded, late, checkpoint, pooled>>

-----------------------------------------------------------------------------

\* The pool drops its loops: a turn under way keeps its own.
Dropped ==
    /\ pooled' = FALSE
    /\ carried' = IF exchange = "none" THEN NoContext ELSE carried

\* A message is excluded or deleted, and all cached loops are dropped.
Exclude(m) ==
    /\ m \in Remaining
    /\ excluded' = excluded \cup {m}
    /\ late' = IF exchange = "none" THEN late ELSE late \cup {m}
    /\ Dropped
    /\ UNCHANGED <<history, checkpoint, exchange, compaction>>

\* The loops are dropped after a change of agents, skills or settings, or a day.
Clear ==
    /\ pooled
    /\ Dropped
    /\ UNCHANGED <<history, excluded, late, checkpoint, exchange, compaction>>

\* The process dies.
Restart ==
    /\ pooled \/ exchange # "none"
    /\ pooled' = FALSE
    /\ exchange' = "none"
    /\ carried' = NoContext
    /\ compaction' = NoCompaction
    /\ UNCHANGED <<history, excluded, late, checkpoint>>

HistoryNext ==
    \/ BeginTurn
    \/ \E saved \in Saved :
          \/ Receive(saved)
          \/ \E b \in BOOLEAN : Reply(saved, b) \/ NotConfirmed(saved, b)
    \/ \E keep \in 1..KeepExchanges : Summarise(keep)
    \/ Summarised \/ NotSummarised \/ EndUnanswered
    \/ \E m \in Remaining : Exclude(m)
    \/ Clear \/ Restart

HistorySpec == HistoryInit /\ [][HistoryNext]_historyVars

-----------------------------------------------------------------------------
(***************************************************************************)
(* Properties.                                                             *)
(***************************************************************************)

\* The contexts: of the loop that is cached or at work, and of the loop that
\* would be restored.
Contexts == {RestoredContext} \cup (IF pooled \/ exchange # "none" THEN {carried} ELSE {})
Remembers(c) == c.summary \cup c.rest

\* Every message with an event that some context took and the user has not
\* excluded is in every context, in full or in its summary: through compactions
\* that succeed, fail or are refused, dropped loops, failed saves and restarts.
HistoryIsKept ==
    \A c \in Contexts :
       {m \in Evented \cap Remaining : history[m].taken} \subseteq Remembers(c)

\* A message that was excluded between turns is in no context any more, neither
\* itself nor in a summary that was made before.
ExclusionsHold == \A c \in Contexts : (excluded \ late) \cap Remembers(c) = {}

\* "Edits, exclusions or missing boundaries invalidate it": no context is
\* restored with a summary of an excluded message.  The code breaks this when
\* the message is excluded during a turn that compacts its context afterwards.
ExclusionInvalidates == excluded \cap Remembers(RestoredContext) = {}

=============================================================================

------------------------------ MODULE AgentLoop ------------------------------
(***************************************************************************)
(* The conversation an agent's loop keeps for the model: AgentLoop's       *)
(* event_stream and its helpers in src/hushclaw/loop.py, and the           *)
(* compaction of src/hushclaw/context/compactor.py.                        *)
(*                                                                         *)
(* A turn begins with a message of the user and alternates between the     *)
(* model and tools.  The model's calls are kept with ids in the context,   *)
(* and providers accept a context only when every call is followed by its  *)
(* result.  A turn can end between the two: by an amendment at a safe      *)
(* point, by a pause for the user's confirmation, by an error or a         *)
(* cancellation; a later turn goes on with the context as it was left.     *)
(*                                                                         *)
(* A message is its role and the ids it carries; text is left out, and a   *)
(* call whose result the turn has cached is not told apart from others.    *)
(***************************************************************************)
EXTENDS Integers, Sequences, FiniteSets

CONSTANTS
    MaxTurns,    \* bound: turns of the conversation
    MaxCalls,    \* bound: tool calls the model makes
    MaxToolRounds,   \* _hard_max_tool_rounds
    KeepTurns    \* compact_keep_turns

ASSUME TurnsAssumption == MaxTurns \in Nat
ASSUME CallsAssumption == MaxCalls \in Nat
ASSUME ToolRoundsAssumption == MaxToolRounds \in Nat \ {0}
ASSUME KeepAssumption == KeepTurns \in Nat \ {0}

VARIABLES
    context,    \* _context
    where,      \* where the turn is
    turn,       \* the number of the turn
    rounds,     \* round_num
    kind,       \* kind[c]: what the tool of a call is, "none" of one not made
    together,   \* the parallel calls of this round
    todo,       \* the calls to run one after the other
    pending,    \* _pending_confirmation_tool_calls
    resumed,    \* this turn runs calls of an earlier one
    amended,    \* it stopped for an amendment
    finalize,   \* finalization_required
    spoken,     \* the user has been told something in this turn
    made,       \* the calls of this turn, of _tool_names_this_turn, while they matter
    ran         \* ran[c]: how often call c was executed

turnVars == <<resumed, amended, finalize, spoken, made>>
loopVars == <<context, where, turn, rounds, kind, together, todo, pending, turnVars, ran>>

-----------------------------------------------------------------------------

Calls == 1 .. MaxCalls

\* "publish" is a call that requires confirmation in the chat; "memory" are the
\* tools of _EPHEMERAL_TOOLS, which run one after the other.
ToolKinds == {"parallel", "serial", "memory", "publish"}
Places == {"idle", "resolving", "confirmed", "round", "parallel", "serial", "ending", "forced"}
Roles == {"user", "summary", "assistant", "tool"}

Said(role, ids) == [role |-> role, ids |-> ids]

\* The results that follow the message at i.
ResultsAfter(i) ==
    UNION {context[j].ids : j \in {k \in DOMAIN context :
              k > i /\ \A m \in i + 1 .. k : context[m].role = "tool"}}

\* What a provider accepts: the calls of a message are followed by exactly
\* their results.
Paired ==
    \A i \in DOMAIN context :
       CASE context[i].role = "assistant" -> context[i].ids = ResultsAfter(i)
         [] context[i].role = "tool" -> i > 1 /\ context[i - 1].role \in {"assistant", "tool"}
         [] OTHER -> TRUE

LoopInit ==
    /\ context = <<>>
    /\ where = "idle"
    /\ turn = 0
    /\ rounds = 0
    /\ kind = [c \in Calls |-> "none"]
    /\ together = {}
    /\ todo = <<>>
    /\ pending = <<>>
    /\ resumed = FALSE
    /\ amended = FALSE
    /\ finalize = FALSE
    /\ spoken = FALSE
    /\ made = {}
    /\ ran = [c \in Calls |-> 0]

IdsOf(messages, role) ==
    UNION {messages[i].ids : i \in {j \in DOMAIN messages : messages[j].role = role}}

\* Numbers in their order: number i is the one with i of them up to its own.
Ordered(ids) ==
    [i \in 1 .. Cardinality(ids) |->
        CHOOSE c \in ids : Cardinality({d \in ids : d <= c}) = i]

\* The messages at the given positions.
Selected(messages, positions) ==
    LET order == Ordered(positions) IN
    [i \in 1 .. Cardinality(positions) |-> messages[order[i]]]

\* Results whose call is there, and all that are no results.
Called(messages) ==
    {i \in DOMAIN messages :
        messages[i].role = "tool" => messages[i].ids \subseteq IdsOf(messages, "assistant")}

\* Variant: calls without a result are kept, results without a call dropped.
SanitizedResults(messages) == Selected(messages, Called(messages))

\* _sanitize_context: calls without a result are stripped, and results whose
\* call is not there are dropped.
Sanitized(messages) ==
    LET results == IdsOf(messages, "tool")
        stripped == [i \in DOMAIN messages |->
                       IF messages[i].role = "assistant"
                       THEN Said("assistant", messages[i].ids \cap results)
                       ELSE messages[i]] IN
    Selected(stripped, Called(messages))

\* _prune_ephemeral_tools
Pruned(messages) ==
    LET memory == {c \in Calls : kind[c] = "memory"}
        stripped == [i \in DOMAIN messages |-> Said(messages[i].role, messages[i].ids \ memory)] IN
    Selected(stripped,
             {i \in DOMAIN messages :
                 messages[i].role = "tool" => messages[i].ids \cap memory = {}})

-----------------------------------------------------------------------------
(***************************************************************************)
(* The beginning of a turn.                                                *)
(***************************************************************************)

Begin ==
    /\ where = "idle"
    /\ turn < MaxTurns
    /\ turn' = turn + 1
    /\ rounds' = 0
    /\ amended' = FALSE
    /\ finalize' = FALSE
    /\ spoken' = FALSE
    /\ made' = {}

\* A message of the user while nothing is pending.
UserMessage ==
    /\ pending = <<>>
    /\ Begin
    /\ context' = Append(Sanitized(context), Said("user", {}))
    /\ where' = "round"
    /\ resumed' = FALSE
    /\ UNCHANGED <<kind, together, todo, pending, ran>>

\* Variant: what is confirmed stays pending.
StillPending == pending

\* _resolve_pending_confirmation_tool_calls takes what it returns.
NothingPending == <<>>

\* A message while calls are pending: a model is asked what the user wants done
\* with them, as they are now.
UserAnswers ==
    /\ pending # <<>>
    /\ Begin
    /\ todo' = pending
    /\ where' = "resolving"
    /\ resumed' = FALSE
    /\ UNCHANGED <<context, kind, together, pending, ran>>

\* To confirm: the calls are run, before the user's message joins the context,
\* which is not sanitized.
Confirmed ==
    /\ where = "resolving"
    /\ pending' = NothingPending
    /\ where' = "confirmed"
    /\ resumed' = TRUE
    /\ UNCHANGED <<context, turn, rounds, kind, together, todo, amended, finalize, spoken,
                   made, ran>>

\* To cancel, or a change, or nothing clear: the turn is over at once, without
\* the message, and in the last two cases the calls are pending again.
Declined ==
    /\ where = "resolving"
    /\ pending' \in {<<>>, todo}
    /\ context' = Sanitized(context)
    /\ todo' = <<>>
    /\ where' = "idle"
    /\ UNCHANGED <<turn, rounds, kind, together, turnVars, ran>>

RanOnce(c) == [ran EXCEPT ![c] = IF @ < 2 THEN @ + 1 ELSE @]

\* One of the confirmed calls, and after the last the user's message.
RunConfirmed ==
    /\ where = "confirmed"
    /\ IF todo = <<>>
       THEN /\ context' = Append(context, Said("user", {}))
            /\ where' = "round"
            /\ UNCHANGED <<todo, ran>>
       ELSE /\ context' = Append(context, Said("tool", {Head(todo)}))
            /\ ran' = RanOnce(Head(todo))
            /\ todo' = Tail(todo)
            /\ UNCHANGED where
    /\ UNCHANGED <<turn, rounds, kind, together, pending, turnVars>>

-----------------------------------------------------------------------------
(***************************************************************************)
(* A round: the context is compacted, the model is asked, its calls run.   *)
(***************************************************************************)

\* The messages of the user, which summaries are not.
UserTurns == {i \in DOMAIN context : context[i].role = "user"}

\* _split_at_recent_user_turn: what is kept begins with a user's message, one
\* of the last compact_keep_turns.
Boundaries ==
    {i \in UserTurns : /\ \E j \in UserTurns : j < i
                       /\ Cardinality({j \in UserTurns : j >= i}) <= KeepTurns}

\* CompactionService.compact, before the loop and in each of its rounds.
Compact ==
    /\ where = "round"
    /\ \E i \in Boundaries :
          context' = <<Said("summary", {})>> \o SubSeq(context, i, Len(context))
    /\ UNCHANGED <<where, turn, rounds, kind, together, todo, pending, turnVars, ran>>

\* run_timeout at the top of a round.
RunTimeout ==
    /\ where = "round"
    /\ finalize' = TRUE
    /\ where' = "ending"
    /\ UNCHANGED <<context, turn, rounds, kind, together, todo, pending, resumed,
                   amended, spoken, made, ran>>

\* An amendment before the model is asked.
AmendedBefore ==
    /\ where = "round"
    /\ amended' = TRUE
    /\ where' = "ending"
    /\ UNCHANGED <<context, turn, rounds, kind, together, todo, pending, resumed,
                   finalize, spoken, made, ran>>

\* The model answers without calls; its answer may be empty.
RespondText(text) ==
    /\ where = "round"
    /\ context' = Append(context, Said("assistant", {}))
    /\ spoken' = text
    /\ where' = "ending"
    /\ UNCHANGED <<turn, rounds, kind, together, todo, pending, resumed, amended,
                   finalize, made, ran>>

\* The next calls of the model, in the order of their ids.
FreshReply(ids) ==
    /\ ids # {}
    /\ \A c \in ids : kind[c] = "none"
    /\ \A c \in ids, d \in Calls : d < c /\ kind[d] = "none" => d \in ids

\* The model calls tools, in the order of their ids.  The turn pauses for the
\* confirmation of those that publish, or has no budget left for them, or begins
\* to run them.  (InteractionGate.should_pause_before_tools is never true.)
RespondCalls(ids, kinds) ==
    LET publish == {c \in ids : kinds[c] = "publish"} IN
    /\ where = "round"
    /\ FreshReply(ids)
    /\ kind' = [c \in Calls |-> IF c \in ids THEN kinds[c] ELSE kind[c]]
    /\ \/ \* _tool_calls_requiring_chat_confirmation
          /\ publish # {}
          /\ pending' = Ordered(publish)
          /\ context' = Append(context, Said("assistant", ids))
          /\ spoken' = TRUE
          /\ where' = "ending"
          /\ UNCHANGED <<together, todo, finalize, made>>
       \/ \* max_tool_rounds; the response is not kept
          /\ publish = {}
          /\ rounds >= MaxToolRounds
          /\ finalize' = TRUE
          /\ where' = "ending"
          /\ UNCHANGED <<context, together, todo, pending, spoken, made>>
       \/ /\ publish = {}
          /\ rounds < MaxToolRounds
          /\ context' = Append(context, Said("assistant", ids))
          /\ together' = {c \in ids : kinds[c] = "parallel"}
          /\ todo' = Ordered({c \in ids : kinds[c] # "parallel"})
          /\ made' = made \cup ids
          /\ where' = IF together' = {} THEN "serial" ELSE "parallel"
          /\ UNCHANGED <<pending, finalize, spoken>>
    /\ UNCHANGED <<turn, rounds, resumed, amended, ran>>

\* The parallel calls are all done; then an amendment may end the turn.
RunParallel(stop) ==
    /\ where = "parallel"
    /\ context' = context \o [i \in DOMAIN Ordered(together) |->
                                Said("tool", {Ordered(together)[i]})]
    /\ ran' = [c \in Calls |-> IF c \in together THEN RanOnce(c)[c] ELSE ran[c]]
    /\ together' = {}
    /\ amended' = stop
    /\ where' = IF stop THEN "ending" ELSE "serial"
    /\ UNCHANGED <<turn, rounds, kind, todo, pending, resumed, finalize, spoken, made>>

\* One of the serial calls; then an amendment may end the turn.
RunSerial(stop) ==
    /\ where = "serial"
    /\ todo # <<>>
    /\ context' = Append(context, Said("tool", {Head(todo)}))
    /\ ran' = RanOnce(Head(todo))
    /\ todo' = Tail(todo)
    /\ amended' = stop
    /\ where' = IF stop THEN "ending" ELSE "serial"
    /\ UNCHANGED <<turn, rounds, kind, together, pending, resumed, finalize, spoken, made>>

\* The calls of the round are done.
NextRound ==
    /\ where = "serial"
    /\ todo = <<>>
    /\ rounds' = rounds + 1
    /\ where' = "round"
    /\ UNCHANGED <<context, turn, kind, together, todo, pending, turnVars, ran>>

-----------------------------------------------------------------------------
(***************************************************************************)
(* The end of a turn.                                                      *)
(***************************************************************************)

MemoryOnly == made # {} /\ \A c \in made : kind[c] = "memory"
NeedsAnswer == ~spoken /\ (finalize \/ MemoryOnly)

\* A turn without text, cut short by its budget or with nothing but memory tools:
\* the model is asked for one, with the context as it is.
ForceAnswer ==
    /\ where = "ending"
    /\ NeedsAnswer
    /\ where' = "forced"
    /\ UNCHANGED <<context, turn, rounds, kind, together, todo, pending, turnVars, ran>>

\* _force_user_facing_answer, whose answer may be empty too: asked first because
\* of the budget, and then because of memory tools, once each.  Only the second
\* answer is kept.
Forced(text) ==
    /\ where = "forced"
    /\ context' = IF text /\ ~finalize
                   THEN Append(context, Said("assistant", {})) ELSE context
    /\ spoken' = text
    /\ finalize' = FALSE
    /\ made' = IF finalize THEN made ELSE {}
    /\ where' = "ending"
    /\ UNCHANGED <<turn, rounds, kind, together, todo, pending, resumed, amended, ran>>

\* The done event and what follows it.
EndTurn ==
    /\ where = "ending"
    /\ ~NeedsAnswer
    /\ context' = Pruned(context)
    /\ where' = "idle"
    /\ together' = {}
    /\ todo' = <<>>
    /\ UNCHANGED <<turn, rounds, kind, pending, turnVars, ran>>

\* An error or a cancellation: the context stays as it is.  A call that was
\* under way may have had its effect.
Interrupt ==
    /\ where # "idle"
    /\ where' = "idle"
    /\ together' = {}
    /\ todo' = <<>>
    /\ \/ UNCHANGED ran
       \/ where \in {"confirmed", "serial"} /\ todo # <<>> /\ ran' = RanOnce(Head(todo))
    /\ UNCHANGED <<context, turn, rounds, kind, pending, turnVars>>

-----------------------------------------------------------------------------

LoopNext ==
    \/ UserMessage \/ UserAnswers \/ Confirmed \/ Declined
    \/ RunConfirmed
    \/ Compact \/ RunTimeout \/ AmendedBefore
    \/ \E text \in BOOLEAN : RespondText(text) \/ Forced(text)
    \/ \E ids \in SUBSET Calls : \E kinds \in [ids -> ToolKinds] : RespondCalls(ids, kinds)
    \/ \E stop \in BOOLEAN : RunParallel(stop) \/ RunSerial(stop)
    \/ NextRound
    \/ ForceAnswer \/ EndTurn \/ Interrupt

LoopSpec == LoopInit /\ [][LoopNext]_loopVars

-----------------------------------------------------------------------------
(***************************************************************************)
(* Properties.                                                             *)
(***************************************************************************)

\* The type invariant.
LoopTypeOK ==
    /\ context \in Seq([role : Roles, ids : SUBSET Calls])
    /\ where \in Places
    /\ turn \in 0 .. MaxTurns
    /\ rounds \in 0 .. MaxToolRounds
    /\ kind \in [Calls -> {"none"} \cup ToolKinds]
    /\ together \subseteq Calls
    /\ todo \in Seq(Calls)
    /\ pending \in Seq(Calls)
    /\ resumed \in BOOLEAN /\ amended \in BOOLEAN
    /\ finalize \in BOOLEAN /\ spoken \in BOOLEAN
    /\ made \subseteq Calls
    /\ ran \in [Calls -> 0 .. 2]

\* Whatever earlier turns left behind, the model is asked with a context in
\* which every call has its result, in each round and for a forced answer.
\* Two cases are left out, because the code breaks it there: a turn that runs
\* calls the user confirmed, and a forced answer after an amendment.
RequestsArePaired ==
    /\ where = "round" /\ ~resumed => Paired
    /\ where = "forced" /\ ~resumed /\ ~amended => Paired

\* A call has its effect at most once, and one that publishes only in a turn in
\* which the user confirmed it, though confirmations can be repeated, wait over
\* several turns and be interrupted.
CallsRunOnce ==
    [][\A c \in Calls :
          ran'[c] # ran[c] => ran[c] = 0 /\ (kind[c] = "publish" => resumed)]_loopVars

=============================================================================

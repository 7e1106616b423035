--------------------------- MODULE ConcurrentTurns ---------------------------
(***************************************************************************)
(* Two turns of one conversation at a time.  A connector handles each      *)
(* message of a chat in a task of its own, and the pool gives both the     *)
(* loop it has cached for the conversation's thread                        *)
(* (src/hushclaw/gateway.py): its semaphore bounds the runs of an agent,   *)
(* not those of a conversation, and only web sessions refuse a second      *)
(* request.                                                                *)
(*                                                                         *)
(* The turns share what the loop keeps: the context and the calls that     *)
(* wait for confirmation.  Where a turn is, and what it has to do, is its  *)
(* own.  (The second turn also resets _tool_names_this_turn under the      *)
(* first, which only matters for forced answers and is left out.)          *)
(***************************************************************************)
EXTENDS AgentLoop

VARIABLES   \* of the second turn, as those of AgentLoop
    where2, turn2, rounds2, together2, todo2, resumed2, amended2, finalize2, spoken2, made2

ownVars == <<where, turn, rounds, together, todo, turnVars>>
ownVars2 == <<where2, turn2, rounds2, together2, todo2, resumed2, amended2, finalize2,
              spoken2, made2>>
turnsVars == <<loopVars, ownVars2>>

\* The second turn, on the context, calls and pending calls of the first.
Second == INSTANCE AgentLoop WITH
    where <- where2, turn <- turn2, rounds <- rounds2, together <- together2,
    todo <- todo2, resumed <- resumed2, amended <- amended2, finalize <- finalize2,
    spoken <- spoken2, made <- made2

-----------------------------------------------------------------------------

TurnsInit == LoopInit /\ Second!LoopInit

\* One of the two turns goes on, between two awaits.
TurnsNext ==
    \/ LoopNext /\ UNCHANGED ownVars2
    \/ Second!LoopNext /\ UNCHANGED ownVars

TurnsSpec == TurnsInit /\ [][TurnsNext]_turnsVars

-----------------------------------------------------------------------------

\* What the docstring of _sanitize_context says, of every turn that begins with
\* it: whatever was interrupted, the session "never sends unpaired tool_use ids
\* to the API" (src/hushclaw/loop.py:2215-2216).  A round of either turn begins
\* with a context in which every call has its result.
RoundsArePaired ==
    [][/\ where # "round" /\ where' = "round" /\ ~resumed' => Paired'
       /\ where2 # "round" /\ where2' = "round" /\ ~resumed2' => Paired']_turnsVars

=============================================================================

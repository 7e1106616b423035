------------------------------ MODULE MCRecords ------------------------------
(***************************************************************************)
(* What the server records, for TLC: the work tasks with their runs, the   *)
(* events of a web session, the history of a thread, and the files of the  *)
(* database.  The modules share no variable: a behaviour is one of a       *)
(* single part, chosen at the start, while the others rest in their        *)
(* initial states.                                                         *)
(***************************************************************************)
EXTENDS MCTaskRuns, SessionSink, ContextHistory, DatabaseFiles

VARIABLE part   \* the part that moves

recordsVars == <<part, vars, sinkVars, historyVars, databaseVars>>

RecordsInit ==
    /\ part \in {"tasks", "sink", "history", "database"}
    /\ Init /\ SinkInit /\ HistoryInit /\ DatabaseInit
    /\ part # "database" => mode = "auto"

RecordsNext ==
    \/ part = "tasks" /\ Next /\ UNCHANGED <<part, sinkVars, historyVars, databaseVars>>
    \/ part = "sink" /\ SinkNext /\ UNCHANGED <<part, vars, historyVars, databaseVars>>
    \/ part = "history" /\ HistoryNext /\ UNCHANGED <<part, vars, sinkVars, databaseVars>>
    \/ part = "database" /\ DatabaseNext /\ UNCHANGED <<part, vars, sinkVars, historyVars>>

RecordsSpec == RecordsInit /\ [][RecordsNext]_recordsVars

=============================================================================

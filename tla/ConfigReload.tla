----------------------------- MODULE ConfigReload -----------------------------
(***************************************************************************)
(* The configuration file, and what the server makes of it: settings saved *)
(* by clients (src/hushclaw/server/config_handler.py), the watcher of the  *)
(* file and the startup (src/hushclaw/server/http_mixin.py), the reload of *)
(* the running agent (_apply_config in                                     *)
(* src/hushclaw/server/config_mixin.py), and the connectors, which are     *)
(* stopped, built and started again (src/hushclaw/connectors/manager.py).  *)
(*                                                                         *)
(* All of it runs on the event loop, so an action reaches from one await   *)
(* to the next.  A configuration is abstracted to the platforms that it    *)
(* enables.  The loops of an agent's conversations, which a reload drops,  *)
(* are AgentPool's subject.                                                *)
(***************************************************************************)
EXTENDS Integers, Sequences, FiniteSets, SequencesExt

CONSTANTS
    Platforms,    \* the platforms, in the order of _build
    EnabledFirst, \* the platforms enabled when the process starts
    Fragile,      \* the platforms whose connector may fail to start
    Unstoppable,  \* the platforms whose connector cannot be stopped
    Clients,      \* clients that save settings
    NotLoadable,  \* the contents of a file that cannot be read
    MaxChanges    \* bound on the changes of the file

ASSUME PlatformsAssumption ==
    IsInjective(Platforms) /\ EnabledFirst \subseteq ToSet(Platforms)
ASSUME ChangesAssumption == MaxChanges \in Nat

VARIABLES
    file,      \* what the file enables, or NotLoadable
    mtime,     \* the time of the file's last change
    noticed,   \* the time the watcher has recorded, NotYet before it starts
    config,    \* the configuration of the agent
    saving,    \* the clients whose save is written but not acknowledged
    pending,   \* the connectors-reload tasks that wait for the lock
    built,     \* how often the connectors were built
    conns,     \* the platforms of the manager's connectors, which have number built
    walk,      \* where the startup and the reload with the lock are
    running,   \* the connectors that run, by platform and number
    reported,  \* the last reload has reported an error
    early      \* the configuration changed before the startup was over

managerVars == <<pending, built, conns, walk, running, reported>>
configVars == <<file, mtime, noticed, config, saving, managerVars, early>>

-----------------------------------------------------------------------------

NotYet == -1
Platform == ToSet(Platforms)

\* The manager's dictionary, in the order of its insertion.
Entries == SelectSeq(Platforms, LAMBDA p : p \in conns)

\* A loop over the dictionary: what is done to the connectors, the next one,
\* and the dictionary's size at the start of the loop.
Walk(does, n) == [does |-> does, at |-> 1, size |-> n]
NoWalk == Walk("nothing", 0)

\* What a save can read: nothing, when the file cannot be read.
Existing == IF file = NotLoadable THEN {} ELSE file

\* The sections of the message replace those of the file.
Merged(p, on) == IF on THEN Existing \cup {p} ELSE Existing \ {p}

\* Variant: what a save has written is not new to the watcher.
NoticedBySaver == mtime + 1

\* A save leaves the time that the watcher has recorded.
NoticedAfterSave == noticed

\* _apply_config: a file that cannot be read leaves everything as it is.
Apply ==
    IF file = NotLoadable THEN UNCHANGED <<config, pending>>
    ELSE config' = file /\ pending' = Append(pending, file)

-----------------------------------------------------------------------------

\* The process has read its configuration and built its connectors.
ConfigInit ==
    /\ file = EnabledFirst
    /\ mtime = 0 /\ noticed = NotYet
    /\ config = file
    /\ saving = {} /\ pending = << >>
    /\ built = 1
    /\ conns = file
    /\ walk = [startup |-> Walk("start", Cardinality(file)), reload |-> NoWalk]
    /\ running = {} /\ reported = FALSE /\ early = FALSE

Changes ==
    /\ mtime < MaxChanges
    /\ mtime' = mtime + 1
    /\ early' = (early \/ noticed = NotYet)

\* Somebody edits the file.
EditByHand(f) ==
    /\ Changes
    /\ file' = f
    /\ UNCHANGED <<noticed, config, saving, managerVars>>

\* handle_save_config up to the acknowledgement: read, merge and write.
SaveSettings(c, p, on) ==
    /\ c \notin saving
    /\ Changes
    /\ file' = Merged(p, on)
    /\ noticed' = NoticedAfterSave
    /\ saving' = saving \cup {c}
    /\ UNCHANGED <<config, managerVars>>

\* The acknowledgement is sent, and the configuration applied.
SettingsSaved(c) ==
    /\ c \in saving
    /\ saving' = saving \ {c}
    /\ Apply
    /\ UNCHANGED <<file, mtime, noticed, built, conns, walk, running, reported, early>>

\* The client has gone: the exception of the send passes over apply_config.
SaverLeaves(c) ==
    /\ c \in saving
    /\ saving' = saving \ {c}
    /\ UNCHANGED <<file, mtime, noticed, config, managerVars, early>>

\* The startup ends with the watcher, which records the time of the file.
WatcherStarts ==
    /\ noticed = NotYet
    /\ walk.startup = NoWalk
    /\ noticed' = mtime
    /\ UNCHANGED <<file, mtime, config, saving, managerVars, early>>

\* The watcher finds another time: it records it, and applies the configuration.
Watch ==
    /\ noticed # NotYet
    /\ noticed # mtime
    /\ noticed' = mtime
    /\ Apply
    /\ UNCHANGED <<file, mtime, saving, built, conns, walk, running, reported, early>>

\* A connectors-reload task gets the lock, and begins to stop the connectors.
BeginReload ==
    /\ pending # << >>
    /\ walk.reload = NoWalk
    /\ walk' = [walk EXCEPT !.reload = Walk("stop", Cardinality(conns))]
    /\ UNCHANGED <<file, mtime, noticed, config, saving, pending, built, conns, running,
                   reported, early>>

\* Stops the next connector.
StopNext ==
    LET w == walk.reload IN
    /\ w.does = "stop"
    /\ w.at <= w.size
    /\ running' = IF Entries[w.at] \in Unstoppable THEN running
                  ELSE running \ {<<Entries[w.at], built>>}
    /\ walk' = [walk EXCEPT !.reload.at = @ + 1]
    /\ UNCHANGED <<file, mtime, noticed, config, saving, pending, built, conns, reported,
                   early>>

\* All are stopped: the dictionary is cleared, and the new ones are built.
BuildAnew ==
    /\ walk.reload.does = "stop"
    /\ walk.reload.at > walk.reload.size
    /\ conns' = Head(pending)
    /\ pending' = Tail(pending)
    /\ built' = built + 1
    /\ walk' = [walk EXCEPT !.reload = Walk("start", Cardinality(conns'))]
    /\ UNCHANGED <<file, mtime, noticed, config, saving, running, reported, early>>

\* The loop over the dictionary goes on unless the dictionary has another size.
MayGoOn(w) == w.does = "start" /\ w.size = Cardinality(conns)

\* The startup (who = "startup") or the reload starts the next connector.
StartNext(who) ==
    LET w == walk[who] IN
    /\ MayGoOn(w)
    /\ w.at <= w.size
    /\ running' = running \cup {<<Entries[w.at], built>>}
    /\ walk' = [walk EXCEPT ![who].at = @ + 1]
    /\ UNCHANGED <<file, mtime, noticed, config, saving, pending, built, conns, reported,
                   early>>

\* The end of the loop, of the reload and of its task.
AllStarted(who) ==
    /\ MayGoOn(walk[who])
    /\ walk[who].at > walk[who].size
    /\ walk' = [walk EXCEPT ![who] = NoWalk]
    /\ reported' = (reported /\ who # "reload")
    /\ UNCHANGED <<file, mtime, noticed, config, saving, pending, built, conns, running,
                   early>>

\* A connector raises (its package cannot be installed), or the dictionary has
\* changed its size: the connectors behind it are not started.
StartFails(who) ==
    LET w == walk[who] IN
    /\ w.does = "start"
    /\ \/ ~MayGoOn(w)
       \/ MayGoOn(w) /\ w.at <= w.size /\ Entries[w.at] \in Fragile
    /\ walk' = [walk EXCEPT ![who] = NoWalk]
    /\ reported' = TRUE
    /\ UNCHANGED <<file, mtime, noticed, config, saving, pending, built, conns, running,
                   early>>

-----------------------------------------------------------------------------

\* The server's own steps.
ServerGoesOn ==
    \/ WatcherStarts \/ Watch
    \/ BeginReload \/ StopNext \/ BuildAnew
    \/ \E who \in {"startup", "reload"} :
          StartNext(who) \/ AllStarted(who) \/ StartFails(who)

ConfigNext ==
    \/ \E f \in (SUBSET Platform) \cup {NotLoadable} : EditByHand(f)
    \/ \E c \in Clients, p \in Platform, on \in BOOLEAN : SaveSettings(c, p, on)
    \/ \E c \in Clients : SettingsSaved(c) \/ SaverLeaves(c)
    \/ ServerGoesOn

\* Sends end, the watcher looks, and tasks run.  The file changes only so often,
\* so it is enough that some of the work is done.
ConfigFairness ==
    /\ \A c \in Clients : WF_configVars(SettingsSaved(c) \/ SaverLeaves(c))
    /\ WF_configVars(ServerGoesOn)

ConfigSpec == ConfigInit /\ [][ConfigNext]_configVars /\ ConfigFairness

-----------------------------------------------------------------------------
(***************************************************************************)
(* Properties.                                                             *)
(***************************************************************************)

\* In the end the agent has the file's configuration, and exactly the connectors
\* that it enables run, each of the last build: although saves, edits, the
\* watcher and reloads overlap, and clients leave before their save is applied.
\* Excepted are a file that cannot be read, a last reload that has reported an
\* error, and changes made before the startup was over.
ConfigTakesEffect ==
    <>[](\/ noticed = NotYet \/ early
         \/ reported \/ file = NotLoadable
         \/ /\ config = file
            /\ running = file \X {built})

=============================================================================

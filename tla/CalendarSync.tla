---------------------------- MODULE CalendarSync -----------------------------
(***************************************************************************)
(* The copy of a CalDAV account (CalDAVSyncService in                      *)
(* src/hushclaw/connectors/caldav_sync.py and the calendar tables of       *)
(* src/hushclaw/memory/store.py).                                          *)
(*                                                                         *)
(* A sync goes through the calendars of the account.  One whose tag has    *)
(* not changed is taken as it is; one with a sync token is asked for its   *)
(* changes; any other, or one whose changes could not be had, is fetched   *)
(* whole.  In the end rows that no calendar has accounted for are pruned.  *)
(* The server changes all the while, its answers fail, and a sync stops    *)
(* part way.                                                               *)
(*                                                                         *)
(* A row stands for one event of one calendar.  The code's key of a row,   *)
(* made in _upsert_vevent of the event's UID and start, has no calendar:   *)
(* an event that two calendars hold is a single row there, which belongs   *)
(* to the one that stored it last.  The module takes the calendars' events *)
(* to be different ones.                                                   *)
(***************************************************************************)
EXTENDS Integers, FiniteSets

CONSTANTS
    Calendars,   \* the calendars of the account
    Events,      \* the resources that a calendar may hold
    Tagged,      \* the calendars whose server gives tags
    Tokened,     \* the calendars whose server gives sync tokens
    MaxRevision, \* bound: the revision of a calendar
    MaxTogether  \* bound: the changes of any two calendars together

ASSUME CalendarAssumption == Tagged \subseteq Calendars /\ Tokened \subseteq Calendars
ASSUME RevisionAssumption == MaxRevision \in Nat \ {0} /\ MaxTogether \in Nat

VARIABLES
    revision,  \* revision[c]: the number of changes of c on the server
    changed,   \* changed[c][e]: the last of them that was of e
    there,     \* there[c]: the events that the server has
    held,      \* held[c][e]: the version of e in the local copy, or NotHeld
    mark,      \* mark[c]: what is stored of the last scan of c, or NoMark
    stage,     \* of the sync: "idle", "scanning"
    todo,      \* the calendars that it has not gone through
    began,     \* began[c]: the revision of c as the sync listed the calendars
    seen,      \* the events that it has accounted for
    fetch,     \* the calendar that is fetched whole, or NoFetch
    stale     \* history: the events, by calendar, whose row a sync has left wrong
               \* (see "What a sync misses")

calendarVars ==
    <<revision, changed, there, held, mark, stage, todo, began, seen, fetch, stale>>

server == <<revision, changed, there>>

-----------------------------------------------------------------------------

NotHeld == 0
None == -1
NoMark == [tag |-> None, token |-> None, count |-> 0, known |-> FALSE]

\* No fetch is under way, c is to be fetched, and c's events are to be stored.
NoFetch == [step |-> "none"]
Listing(c) == [step |-> "listing", of |-> c]
Storing(c, some) ==
    [step |-> "storing", of |-> c, got |-> some, lost |-> there[c] \ some,
     version |-> changed[c], at |-> revision[c]]

Held(c, h) == {e \in Events : h[c][e] # NotHeld}
Ids(c, h) == {<<c, e>> : e \in Held(c, h)}

CalendarInit ==
    /\ revision = [c \in Calendars |-> 1]
    /\ changed = [c \in Calendars |-> [e \in Events |-> 1]]
    /\ there \in [Calendars -> {Events}]
    /\ held = [c \in Calendars |-> [e \in Events |-> NotHeld]]
    /\ mark = [c \in Calendars |-> NoMark]
    /\ stage = "idle"
    /\ todo = {}
    /\ began = [c \in Calendars |-> 1]
    /\ seen = {}
    /\ fetch = NoFetch
    /\ stale = {}

\* Somebody adds, changes or deletes an event.
Edit(c, e, present) ==
    /\ revision[c] < MaxRevision
    /\ \A d \in Calendars \ {c} : revision[c] + revision[d] < MaxTogether + 2
    /\ revision' = [revision EXCEPT ![c] = @ + 1]
    /\ changed' = [changed EXCEPT ![c][e] = revision[c] + 1]
    /\ e \in there[c] \/ present
    /\ there' = [there EXCEPT ![c] = IF present THEN @ \cup {e} ELSE @ \ {e}]
    /\ UNCHANGED <<held, mark, stage, todo, began, seen, fetch, stale>>

-----------------------------------------------------------------------------
(***************************************************************************)
(* What a sync misses: the events whose row it leaves wrong, until the     *)
(* event is loaded again.                                                  *)
(***************************************************************************)

\* The calendar could not be fetched: pruning will remove its rows.
LeftOut(c) == {c} \X (there[c] \cup Held(c, held))

\* Of a calendar that was fetched: what could not be loaded; and what changed
\* between the fetch and the bootstrap of the token, of which no delta will tell.
Overlooked(c, token) ==
    {c} \X (fetch.lost \cup {e \in Events : fetch.at < changed[c][e] /\ changed[c][e] <= token})

\* Rows that pruning would have removed and has not.
Unpruned ==
    {row \in (Calendars \ todo) \X Events : held[row[1]][row[2]] # NotHeld /\ row \notin seen}

-----------------------------------------------------------------------------
(***************************************************************************)
(* A sync.                                                                 *)
(***************************************************************************)

\* The lock is got and the calendars are listed, with their tags.
Begin ==
    /\ stage = "idle"
    /\ stage' = "scanning"
    /\ todo' = Calendars
    /\ began' = revision
    /\ seen' = {}
    /\ UNCHANGED <<server, held, mark, fetch, stale>>

Tag(c) == IF c \in Tagged THEN began[c] ELSE None

\* _save_collection_scan_state
Save(c, token, h) ==
    mark' = [mark EXCEPT ![c] = [tag |-> Tag(c), token |-> token,
                                 count |-> Cardinality(Held(c, h)), known |-> TRUE]]

\* _reuse_unchanged_calendar: the tag is the stored one, and there are rows, or
\* there were none.
Reusable(c) ==
    /\ c \in Tagged /\ mark[c].known
    /\ mark[c].tag = Tag(c)
    /\ Held(c, held) # {} \/ mark[c].count = 0

Visiting(c) == stage = "scanning" /\ c \in todo /\ fetch = NoFetch

Reuse(c) ==
    /\ Visiting(c)
    /\ Reusable(c)
    /\ seen' = seen \cup Ids(c, held)
    /\ todo' = todo \ {c}
    /\ UNCHANGED <<server, held, mark, stage, began, fetch, stale>>

Delta(c) == {e \in Events : changed[c][e] > mark[c].token}

\* The changes in some are loaded: rows are deleted, and stored anew if the
\* event is still there.
Applied(c, some) ==
    [held EXCEPT ![c] = [e \in Events |-> IF e \notin some THEN @[e]
                                          ELSE IF e \in there[c] THEN changed[c][e]
                                          ELSE NotHeld]]

AskForChanges(c) == Visiting(c) /\ ~Reusable(c) /\ mark[c].token # None

\* _apply_sync_token_delta
ApplyDelta(c) ==
    /\ AskForChanges(c)
    /\ held' = Applied(c, Delta(c))
    /\ seen' = seen \cup Ids(c, held')
    /\ Save(c, revision[c], held')
    /\ todo' = todo \ {c}
    /\ stale' = stale \ ({c} \X Delta(c))
    /\ UNCHANGED <<server, stage, began, fetch>>

\* The changes cannot be had, or the load of one fails after some others.
DeltaBreaks(c, some) ==
    /\ AskForChanges(c)
    /\ some \subseteq Delta(c)
    /\ held' = Applied(c, some)
    /\ fetch' = Listing(c)
    /\ stale' = stale \ ({c} \X some)
    /\ UNCHANGED <<server, mark, stage, todo, began, seen>>

\* _fetch_events: the whole calendar, or what could be loaded of it; nothing,
\* when it could not even be listed.
FetchAll(c, some) ==
    /\ \/ Visiting(c) /\ ~Reusable(c) /\ mark[c].token = None
       \/ fetch = Listing(c)
    /\ some \subseteq there[c]
    /\ fetch' = Storing(c, some)
    /\ UNCHANGED <<server, held, mark, stage, todo, began, seen, stale>>

\* _fetch_events raises: the calendar is left out of this sync.
FetchRaises(c) ==
    /\ \/ Visiting(c) /\ ~Reusable(c) /\ mark[c].token = None
       \/ fetch = Listing(c)
    /\ todo' = todo \ {c}
    /\ fetch' = NoFetch
    /\ stale' = stale \cup LeftOut(c)
    /\ UNCHANGED <<server, held, mark, stage, began, seen>>

\* The events are stored.  The stored token is kept, or a first one is asked
\* for, which leaves out what has changed since the fetch.
Store(c, token) ==
    /\ fetch.step = "storing"
    /\ fetch.of = c
    /\ held' = [held EXCEPT ![c] = [e \in Events |-> IF e \in fetch.got THEN fetch.version[e]
                                                     ELSE @[e]]]
    /\ seen' = seen \cup {<<c, e>> : e \in fetch.got}
    /\ IF mark[c].token # None THEN token = mark[c].token
       ELSE token \in {None} \cup (IF c \in Tokened THEN {revision[c]} ELSE {})
    /\ Save(c, token, held')
    /\ todo' = todo \ {c}
    /\ fetch' = NoFetch
    /\ stale' = (stale \ ({c} \X Events)) \cup Overlooked(c, token)
    /\ UNCHANGED <<server, stage, began>>

\* Variant: the rows that were not seen are kept.
KeptAll(c, e) == TRUE

\* prune_stale_caldav_events, which does nothing when nothing was seen.
Kept(c, e) == seen = {} \/ <<c, e>> \in seen

Prune ==
    /\ stage = "scanning" /\ todo = {}
    /\ held' = [c \in Calendars |-> [e \in Events |-> IF Kept(c, e) THEN held[c][e]
                                                      ELSE NotHeld]]
    /\ stage' = "idle"
    /\ seen' = {}
    /\ stale' = stale \cup (IF seen = {} THEN Unpruned ELSE {})
    /\ UNCHANGED <<server, mark, todo, began, fetch>>

\* The service is stopped, or the sync fails: what it has stored stays, and
\* nothing is pruned.
Abandon ==
    /\ stage = "scanning"
    /\ stage' = "idle"
    /\ todo' = {}
    /\ seen' = {}
    /\ fetch' = NoFetch
    /\ stale' = stale \cup Unpruned
    /\ UNCHANGED <<server, held, mark, began>>

-----------------------------------------------------------------------------

CalendarNext ==
    \/ \E c \in Calendars, e \in Events, present \in BOOLEAN : Edit(c, e, present)
    \/ Begin \/ Prune \/ Abandon
    \/ \E c \in Calendars :
          \/ Reuse(c) \/ ApplyDelta(c) \/ FetchRaises(c)
          \/ \E some \in SUBSET Events : DeltaBreaks(c, some) \/ FetchAll(c, some)
          \/ \E token \in {None} \cup 1 .. MaxRevision : Store(c, token)

CalendarSpec == CalendarInit /\ [][CalendarNext]_calendarVars

-----------------------------------------------------------------------------
(***************************************************************************)
(* Properties.                                                             *)
(***************************************************************************)

\* The type invariant.
CalendarTypeOK ==
    /\ revision \in [Calendars -> 1 .. MaxRevision]
    /\ changed \in [Calendars -> [Events -> 1 .. MaxRevision]]
    /\ there \in [Calendars -> SUBSET Events]
    /\ held \in [Calendars -> [Events -> 0 .. MaxRevision]]
    /\ stage \in {"idle", "scanning"}
    /\ todo \subseteq Calendars
    /\ began \in [Calendars -> 1 .. MaxRevision]
    /\ seen \subseteq Calendars \X Events
    /\ stale \subseteq Calendars \X Events

\* The server's state in the copy's terms.
Truth == [c \in Calendars |-> [e \in Events |-> IF e \in there[c] THEN changed[c][e] ELSE NotHeld]]

\* A sync that has gone through every calendar while nothing changed leaves the
\* copy exact, event by event, whichever of the three ways each calendar went in
\* this sync and in all those before, and whatever changed while those ran.  Left
\* out are the events that a sync has missed, from then until they are loaded
\* again: those of a calendar that could not be fetched, those that a whole fetch
\* did not load, those that changed between a whole fetch and the bootstrap of the
\* first token (the row is out of date until the event changes once more), those whose
\* rows were not pruned because the sync was stopped, and those that were left when
\* the account was found empty.
SyncIsExact ==
    [][(/\ stage = "scanning" /\ stage' = "idle"
        /\ todo = {} /\ revision = began)
          => \A c \in Calendars, e \in Events :
                <<c, e>> \notin stale' => held'[c][e] = Truth[c][e]]_calendarVars

=============================================================================

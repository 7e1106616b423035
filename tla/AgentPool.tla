------------------------------ MODULE AgentPool ------------------------------
(***************************************************************************)
(* Agents that run in pools and delegate to one another                    *)
(* (AgentPool.event_stream and Gateway.execute in src/hushclaw/gateway.py, *)
(* the tools of src/hushclaw/tools/builtins/agent_tools.py, the table of   *)
(* runs in src/hushclaw/memory/store.py and the child runs of the session  *)
(* entry in src/hushclaw/server/session.py).                               *)
(*                                                                         *)
(* A run waits for its pool's semaphore, first come first served, and      *)
(* holds it until it is over, also while it waits for the runs it          *)
(* delegates to.  A delegated run is produced by a task of its own, and    *)
(* watched by the caller's task through a queue: the watcher marks it      *)
(* stale, gives it up when it stalls, and goes away, without a word to the *)
(* producer, when the caller is cancelled.                                 *)
(***************************************************************************)
EXTENDS Integers, Sequences, FiniteSets, SequencesExt

CONSTANTS
    Agents,      \* the agents, each with a pool of its own
    Delegates,   \* Delegates[a]: the agents that a's tools call
    Places,      \* Places[a]: max_concurrent of a's pool
    MaxRuns      \* bound: runs

ASSUME DelegatesAssumption == Delegates \in [Agents -> SUBSET Agents]
ASSUME PlacesAssumption == Places \in [Agents -> Nat \ {0}]
ASSUME RunsAssumption == MaxRuns \in Nat

VARIABLES
    agent,    \* agent[r]: whose run it is
    parent,   \* parent[r]: the run that delegated it, or NoRun
    at,       \* at[r]: how far it is
    row,      \* row[r]: its status in the table of runs
    shown,    \* shown[r]: its state in the session entry, of a delegated run
    watch,    \* watch[r]: the watcher of a delegated run
    line,     \* line[a]: the runs that wait for a's semaphore, in order
    free      \* free[a]: the value of a's semaphore

poolVars == <<agent, parent, at, row, shown, watch, line, free>>

-----------------------------------------------------------------------------

Runs == 1 .. MaxRuns
NoRun == 0

\* "closing" is after the done event; a cancelled run is over as well.
Holding == {"working", "delegating", "closing"}
Alive == Holding \cup {"queued"}

Known == {r \in Runs : at[r] # "none"}
Children(r) == {c \in Known : parent[c] = r}

\* A watcher has "heard" the done event, and either may have marked the run stale.
Waiting == {"on", "stale"}
Hearing == {"heard", "heard stale"}
Watched(r) == watch[r] \in Waiting \cup Hearing

PoolInit ==
    /\ agent \in [Runs -> {CHOOSE a \in Agents : TRUE}]
    /\ parent = [r \in Runs |-> NoRun]
    /\ at = [r \in Runs |-> "none"]
    /\ row = [r \in Runs |-> "none"]
    /\ shown = [r \in Runs |-> "none"]
    /\ watch = [r \in Runs |-> "none"]
    /\ line = [a \in Agents |-> <<>>]
    /\ free = Places

\* Runs for the agents of a sequence join the lines of their pools; p is NoRun
\* or the run that calls them.  Runs are numbered as they are called.
Join(p, called) ==
    LET n == Cardinality(Known)
        new == {n + i : i \in DOMAIN called} IN
    /\ new \subseteq Runs
    /\ agent' = [r \in Runs |-> IF r \in new THEN called[r - n] ELSE agent[r]]
    /\ parent' = [r \in Runs |-> IF r \in new THEN p ELSE parent[r]]
    /\ at' = [r \in Runs |-> IF r \in new THEN "queued"
                             ELSE IF r = p THEN "delegating" ELSE at[r]]
    /\ watch' = [r \in Runs |-> IF r \in new /\ p # NoRun THEN "on" ELSE watch[r]]
    /\ line' = [a \in Agents |->
                  line[a] \o SelectSeq([i \in DOMAIN called |-> n + i],
                                       LAMBDA r : called[r - n] = a)]
    /\ UNCHANGED <<row, shown, free>>

\* A request of a session, or a step of a pipeline.
Call(a) == Join(NoRun, <<a>>)

\* delegate_to_agent, with one agent, and broadcast_to_agents, with several.
Delegate(r, called) ==
    /\ at[r] = "working"
    /\ Join(r, called)

\* The semaphore is got; a run is opened, and a delegated one registered with
\* the session.
Acquire(r) ==
    /\ at[r] = "queued"
    /\ line[agent[r]] # <<>>
    /\ Head(line[agent[r]]) = r
    /\ free[agent[r]] > 0
    /\ free' = [free EXCEPT ![agent[r]] = @ - 1]
    /\ line' = [line EXCEPT ![agent[r]] = Tail(@)]
    /\ at' = [at EXCEPT ![r] = "working"]
    /\ row' = [row EXCEPT ![r] = "running"]
    /\ shown' = IF parent[r] # NoRun THEN [shown EXCEPT ![r] = "running"] ELSE shown
    /\ UNCHANGED <<agent, parent, watch>>

\* Variant: the place is given back by a run that ends well only.
ReleasedIfCompleted(r) ==
    IF at[r] = "closing" THEN [free EXCEPT ![agent[r]] = @ + 1] ELSE free

\* The end of "async with self._sem", however the run ends.
Released(r) == IF at[r] \in Holding THEN [free EXCEPT ![agent[r]] = @ + 1] ELSE free

-----------------------------------------------------------------------------
(***************************************************************************)
(* The run itself.                                                         *)
(***************************************************************************)

\* The tool has the results, or the errors, of all the runs it called.
CallerResumes(r) ==
    /\ at[r] = "delegating"
    /\ \A c \in Children(r) : watch[c] = "over"
    /\ at' = [at EXCEPT ![r] = "working"]
    /\ UNCHANGED <<agent, parent, row, shown, watch, line, free>>

\* The loop yields its done event.
Answered(r) ==
    /\ at[r] = "working"
    /\ at' = [at EXCEPT ![r] = "closing"]
    /\ UNCHANGED <<agent, parent, row, shown, watch, line, free>>

\* The loop's hooks after it are done.
Complete(r) ==
    /\ at[r] = "closing"
    /\ at' = [at EXCEPT ![r] = "over"]
    /\ row' = [row EXCEPT ![r] = "completed"]
    /\ free' = Released(r)
    /\ UNCHANGED <<agent, parent, shown, watch, line>>

\* The loop raises: before its answer, or in what it does afterwards.
Raise(r) ==
    /\ at[r] \in {"working", "closing"}
    /\ at' = [at EXCEPT ![r] = "over"]
    /\ row' = [row EXCEPT ![r] = "failed"]
    /\ free' = Released(r)
    /\ UNCHANGED <<agent, parent, shown, watch, line>>

\* What is left when the task that produces r is cancelled: the row stays as it
\* is, because a cancellation is no Exception; the watchers of the runs it has
\* called are cancelled with it, and those runs go on.
CancelRun(r) ==
    /\ at' = [at EXCEPT ![r] = "over"]
    /\ free' = Released(r)
    /\ line' = [line EXCEPT ![agent[r]] = SelectSeq(@, LAMBDA x : x # r)]

Left(r, c) == parent[c] = r /\ Watched(c)

\* The task of a request is cancelled.
Stopped(r) ==
    /\ at[r] \in Alive
    /\ parent[r] = NoRun
    /\ CancelRun(r)
    /\ watch' = [c \in Runs |-> IF Left(r, c) THEN "gone" ELSE watch[c]]
    /\ UNCHANGED <<agent, parent, row, shown>>

-----------------------------------------------------------------------------
(***************************************************************************)
(* The watcher of a delegated run.                                         *)
(***************************************************************************)

\* The done event arrives.
SeesDone(r) ==
    /\ watch[r] \in Waiting
    /\ at[r] = "closing" \/ row[r] = "completed"
    /\ shown' = [shown EXCEPT ![r] = "completed"]
    /\ watch' = [watch EXCEPT ![r] = "heard"]
    /\ UNCHANGED <<agent, parent, at, row, line, free>>

\* The stream ended, after its last event.
SeesEnd(r) ==
    /\ watch[r] \in Hearing
    /\ row[r] = "completed"
    /\ watch' = [watch EXCEPT ![r] = "over"]
    /\ UNCHANGED <<agent, parent, at, row, shown, line, free>>

\* Variant: an error after the answer leaves what is shown.
ShownAfterError(r) == IF shown[r] = "completed" THEN shown ELSE [shown EXCEPT ![r] = "failed"]

\* complete_child_run(state="failed"), whatever was shown before.
ShownFailed(r) == [shown EXCEPT ![r] = "failed"]

\* The stream ended with an error, which becomes the tool's result.
SeesError(r) ==
    /\ Watched(r)
    /\ row[r] = "failed"
    /\ shown' = ShownFailed(r)
    /\ watch' = [watch EXCEPT ![r] = "over"]
    /\ UNCHANGED <<agent, parent, at, row, line, free>>

\* No event for the lease of 90 seconds; only a run that has begun is watched,
\* and the hooks after its answer are watched as well.
MarkRunStale(r) ==
    /\ watch[r] \in {"on", "heard"}
    /\ at[r] \in Holding
    /\ watch' = [watch EXCEPT ![r] = IF @ = "on" THEN "stale" ELSE "heard stale"]
    /\ shown' = [shown EXCEPT ![r] = "stale"]
    /\ UNCHANGED <<agent, parent, at, row, line, free>>

\* An event of a run that was taken for stale.
SeesProgress(r) ==
    /\ watch[r] = "stale"
    /\ at[r] \in {"working", "delegating"}
    /\ watch' = [watch EXCEPT ![r] = "on"]
    /\ shown' = [shown EXCEPT ![r] = "running"]
    /\ UNCHANGED <<agent, parent, at, row, line, free>>

\* No event for 900 seconds: the watcher cancels the producer and fails.
Stall(r) ==
    /\ watch[r] \in {"stale", "heard stale"}
    /\ at[r] \in Holding
    /\ CancelRun(r)
    /\ shown' = ShownFailed(r)
    /\ watch' = [c \in Runs |-> IF c = r THEN "over"
                                ELSE IF Left(r, c) THEN "gone" ELSE watch[c]]
    /\ UNCHANGED <<agent, parent, row>>

-----------------------------------------------------------------------------

\* The agents that one call of a's tools names: one, or two at once.
Callees(a) ==
    {<<b>> : b \in Delegates[a]}
    \cup {<<b, c>> : b, c \in Delegates[a]}

\* What a run does when it is its turn, and what its watcher does.
RunGoesOn(r) == Acquire(r) \/ CallerResumes(r) \/ Answered(r) \/ Complete(r) \/ Raise(r)
WatcherGoesOn(r) == SeesDone(r) \/ SeesEnd(r) \/ SeesError(r)

PoolNext ==
    \/ \E a \in Agents : Call(a)
    \/ \E r \in Known :
          \/ \E called \in Callees(agent[r]) : Delegate(r, called)
          \/ RunGoesOn(r) \/ WatcherGoesOn(r)
          \/ Stopped(r) \/ MarkRunStale(r) \/ SeesProgress(r) \/ Stall(r)

\* Tasks that can go on are run, a semaphore is handed on, and a run that is
\* working ends, because event_stream ends at run_timeout.
PoolFairness ==
    \A r \in Runs :
       /\ WF_poolVars(r \in Known /\ RunGoesOn(r))
       /\ WF_poolVars(WatcherGoesOn(r))

PoolSpec == PoolInit /\ [][PoolNext]_poolVars /\ PoolFairness

-----------------------------------------------------------------------------
(***************************************************************************)
(* Properties.                                                             *)
(***************************************************************************)

\* The type invariant.
PoolTypeOK ==
    /\ agent \in [Runs -> Agents]
    /\ parent \in [Runs -> {NoRun} \cup Runs]
    /\ at \in [Runs -> Alive \cup {"none", "over"}]
    /\ row \in [Runs -> {"none", "running", "completed", "failed"}]
    /\ shown \in [Runs -> {"none", "running", "stale", "completed", "failed"}]
    /\ watch \in [Runs -> {"none", "gone", "over"} \cup Waiting \cup Hearing]
    /\ line \in [Agents -> Seq(Runs)]
    /\ free \in [Agents -> Nat]

\* What the session shows of a delegated run that is over and what the table of
\* runs says of it do not contradict each other, though two tasks write them.
\* (They need not be equal: a run whose hooks took long stays shown as stale,
\* and one that was cancelled stays running in the table.)
VerdictsAgree ==
    \A r \in Runs :
       watch[r] = "over" =>
          /\ shown[r] = "completed" => row[r] = "completed"
          /\ row[r] = "completed" => shown[r] # "failed"

\* A run goes on without its watcher only below a run that was cancelled: as
\* long as a run is there, it waits for all it has called.
CallersWait ==
    \A r \in Known :
       (parent[r] # NoRun /\ at[r] \in Alive)
          => IF at[parent[r]] \in Alive
             THEN at[parent[r]] = "delegating" /\ Watched(r)
             ELSE watch[r] = "gone"

\* Both: what is shown of delegated runs can be relied upon.
DelegatesAreWatched == VerdictsAgree /\ CallersWait

UnderWay == \E r \in Runs : at[r] \in Alive

\* When agents delegate downwards only, runs do not wait for one another for
\* ever, however many of them hold places while they wait: whenever some are
\* under way a moment comes when all have ended.  (delegate_to_agent has no time
\* limit of its own: executor.py says the gateway's monitoring of a delegated run
\* stands in for it, and a run that waits for its place is not monitored.)
EveryCallEnds == UnderWay ~> ~UnderWay

=============================================================================

----------------------------- MODULE SessionSink -----------------------------
(***************************************************************************)
(* What a web session tells its clients: the sinks through which requests  *)
(* and background runs publish their events, the batches in which those    *)
(* events reach the database, the one client that is subscribed, and the   *)
(* replay a client gets when it subscribes to a running session            *)
(* (src/hushclaw/server/session.py, the handler of a connection in         *)
(* src/hushclaw/server_impl.py and _subscribe_session in                   *)
(* src/hushclaw/server/chat_mixin.py).                                     *)
(*                                                                         *)
(* A step is what happens between two suspensions of the event loop.  A    *)
(* sink suspends only in the send to the subscriber, and it has read the   *)
(* subscriber before.  Events are numbered in the order in which they are  *)
(* published.  A message given to an open connection arrives.              *)
(***************************************************************************)
EXTENDS Integers, Sequences, SequencesExt

CONSTANTS
    Clients,       \* connections; a browser that comes back is another one
    NoClient,      \* the absence of a subscriber, or of a send
    MaxRequests,   \* bound: requests of the session
    MaxEvents,     \* bound: events published
    Askers,        \* the publishers whose tools need approval
    HardLimit,     \* _WIRE_PENDING_HARD_LIMIT
    ReplayLimit    \* the LIMIT of session_wire_events

ASSUME ClientsAssumption == NoClient \notin Clients
ASSUME RequestsAssumption == MaxRequests \in Nat
ASSUME EventsAssumption == MaxEvents \in Nat
ASSUME AskersAssumption == Askers \subseteq 0 .. MaxRequests
ASSUME HardLimitAssumption == HardLimit \in Nat \ {0}
ASSUME ReplayLimitAssumption == ReplayLimit \in Nat \ {0}

VARIABLES
    generation,   \* the number of the request the entry is prepared for
    running,      \* its task is not over
    subscriber,   \* the entry's subscriber
    published,    \* published[n]: generation and kind of the n-th event
    unflushed,    \* pending_wire_events
    flush,        \* wire_flush_task: "none", "asleep" or "done"
    log,          \* the session's wire events in the database
    buffer,       \* the batches that the database refused
    emitting,     \* emitting[p]: the client publisher p waits for
    connection,   \* connection[c]: "new", "open", "closed", "left"
    replay,       \* replay[c]: what the handler of c has still to send
    received,     \* received[c]: what c was sent since it subscribed
    awaiting,     \* awaiting[p]: the approval_request publisher p waits on
    answer        \* answer[p]: the state of its future, "late" after the time-out

stream == <<published, unflushed, flush, log, buffer>>
clients == <<connection, replay, received>>
approvals == <<awaiting, answer>>
sinkVars == <<generation, running, subscriber, emitting, stream, clients, approvals>>

-----------------------------------------------------------------------------

Events == 1 .. MaxEvents
Requests == 1 .. MaxRequests

\* Publisher 0 is what outlives a request: delegated runs and background jobs.
Background == 0
Publishers == {Background} \cup Requests

\* A "live" event is not of _REPLAY_EVENTS: here, a word on an approval.
Kinds == {"wire", "live"}
NoReplay == <<0>>   \* no replay under way
NoEvent == 0
Open(c) == connection[c] = "open"

EventOf(p, kind) == [generation |-> IF p = Background THEN generation ELSE p,
                     kind |-> kind]

SinkInit ==
    /\ generation = 0
    /\ running = FALSE
    /\ subscriber = NoClient
    /\ emitting = [p \in Publishers |-> NoClient]
    /\ published = <<>>
    /\ unflushed = <<>>
    /\ flush = "none"
    /\ log = <<>>
    /\ buffer = {}
    /\ connection = [c \in Clients |-> "new"]
    /\ replay = [c \in Clients |-> NoReplay]
    /\ received = [c \in Clients |-> <<>>]
    /\ awaiting = [p \in Publishers |-> NoEvent]
    /\ answer = [p \in Publishers |-> "none"]

-----------------------------------------------------------------------------
(***************************************************************************)
(* Connections and requests.                                               *)
(***************************************************************************)

\* The handler of c is at its receive loop: messages of one connection are
\* handled one after the other.
Listening(c) == Open(c) /\ replay[c] = NoReplay

Connect(c) ==
    /\ connection[c] = "new"
    /\ connection' = [connection EXCEPT ![c] = "open"]
    /\ UNCHANGED <<generation, running, subscriber, emitting, stream, replay, received,
                   approvals>>

\* Variant: what the request before has not written yet is kept.
UnflushedKept == unflushed

\* prepare_for_new_request forgets what is not flushed.
UnflushedOfNext == <<>>

\* A message that starts a request: the entry is prepared, the task and the
\* flush of the request before are cancelled, what that task waits for is
\* given up, and the client becomes the subscriber.
NewRequest(c) ==
    /\ Listening(c)
    /\ generation < MaxRequests
    /\ generation' = generation + 1
    /\ running' = TRUE
    /\ subscriber' = c
    /\ unflushed' = UnflushedOfNext
    /\ flush' = "none"
    /\ buffer' = {}
    /\ emitting' = [p \in Publishers |-> IF p = Background THEN emitting[p] ELSE NoClient]
    /\ awaiting' = [p \in Publishers |-> IF p = Background THEN awaiting[p] ELSE NoEvent]
    /\ answer' = [p \in Publishers |-> IF p = Background THEN answer[p] ELSE "none"]
    /\ UNCHANGED <<published, log, clients>>

\* The task of the request is over.
RequestEnds ==
    /\ running
    /\ emitting[generation] = NoClient
    /\ awaiting[generation] = NoEvent
    /\ running' = FALSE
    /\ UNCHANGED <<generation, subscriber, emitting, stream, clients, approvals>>

\* A chat message into a running session makes its client the subscriber;
\* there is no replay.
Amended(c) ==
    /\ Listening(c)
    /\ running
    /\ subscriber' = c
    /\ UNCHANGED <<generation, running, emitting, stream, clients, approvals>>

-----------------------------------------------------------------------------
(***************************************************************************)
(* Sinks.                                                                  *)
(***************************************************************************)

\* is_active_generation, of the sink's own generation; publish_session_event
\* makes its sink with the generation of the moment.
Active(p) == p = Background \/ p = generation

\* _ensure_wire_flush_task: a new task unless one is waiting.
FlushEnsured == IF flush \in {"none", "done"} THEN "asleep" ELSE flush

\* A batch is written, or the database refuses it and it goes to the buffer.
Write ==
    \/ log' = log \o unflushed /\ UNCHANGED buffer
    \/ unflushed # <<>> /\ buffer' = buffer \cup ToSet(unflushed) /\ UNCHANGED log

\* Variant: a full backlog is written after the event that did not fit.
QueueFirst(n) ==
    IF Len(unflushed) >= HardLimit
    THEN /\ unflushed' = unflushed
         /\ log' = Append(log, n)
         /\ UNCHANGED buffer
    ELSE /\ unflushed' = Append(unflushed, n)
         /\ UNCHANGED <<log, buffer>>

\* A full backlog is written before the event n is queued.
Queue(n) ==
    IF Len(unflushed) >= HardLimit
    THEN unflushed' = <<n>> /\ Write
    ELSE unflushed' = Append(unflushed, n) /\ UNCHANGED <<log, buffer>>

\* _SessionSink.send up to its suspension.  A send to a closed connection
\* fails; what an open one is sent arrives.
Publish(p, kind) ==
    LET n == Len(published) + 1 IN
    /\ p = Background \/ p < generation \/ (p = generation /\ running)
    /\ generation > 0
    /\ emitting[p] = NoClient
    /\ Active(p)
    /\ n <= MaxEvents
    /\ published' = Append(published, EventOf(p, kind))
    /\ IF kind = "wire"
       THEN Queue(n) /\ flush' = FlushEnsured
       ELSE UNCHANGED <<unflushed, flush, log, buffer>>
    /\ emitting' = [emitting EXCEPT ![p] = subscriber]
    /\ received' = IF subscriber # NoClient /\ Open(subscriber)
                   THEN [received EXCEPT ![subscriber] = Append(@, n)]
                   ELSE received
    /\ UNCHANGED <<generation, running, subscriber, connection, replay>>

\* An event of the request, or of a run beside it.
Emit(p) ==
    /\ awaiting[p] = NoEvent
    /\ Publish(p, "wire")
    /\ UNCHANGED approvals

Sent(p) ==
    /\ emitting[p] # NoClient
    /\ Open(emitting[p])
    /\ emitting' = [emitting EXCEPT ![p] = NoClient]
    /\ UNCHANGED <<generation, running, subscriber, stream, clients, approvals>>

\* The send raises: the entry has no subscriber any more, whoever it was.
SendFails(p) ==
    /\ emitting[p] # NoClient
    /\ ~Open(emitting[p])
    /\ emitting' = [emitting EXCEPT ![p] = NoClient]
    /\ subscriber' = NoClient
    /\ UNCHANGED <<generation, running, stream, clients, approvals>>

\* The debounce of _flush_wire_events is over.
Flush ==
    /\ flush = "asleep"
    /\ flush' = "done"
    /\ unflushed' = <<>>
    /\ Write
    /\ UNCHANGED <<generation, running, subscriber, emitting, published, clients, approvals>>

-----------------------------------------------------------------------------
(***************************************************************************)
(* Approvals.                                                              *)
(***************************************************************************)

\* request_approval: the future is registered and the request published, to
\* the subscriber of the moment.
Ask(p) ==
    /\ p \in Askers
    /\ awaiting[p] = NoEvent
    /\ Publish(p, "live")
    /\ awaiting' = [awaiting EXCEPT ![p] = Len(published) + 1]
    /\ UNCHANGED answer

\* approval_response, by a client that was shown the request: resolve_approval
\* takes the first answer, whichever it is; one that is late changes nothing.
Respond(c, p) ==
    /\ Listening(c)
    /\ awaiting[p] \in ToSet(received[c])
    /\ answer[p] = "none"
    /\ answer' = [answer EXCEPT ![p] = "given"]
    /\ UNCHANGED <<generation, running, subscriber, emitting, stream, clients, awaiting>>

\* wait_for gives up; the future can still be answered, to no effect.
ApprovalTimesOut(p) ==
    /\ awaiting[p] # NoEvent
    /\ emitting[p] = NoClient
    /\ answer[p] = "none"
    /\ answer' = [answer EXCEPT ![p] = "late"]
    /\ UNCHANGED <<generation, running, subscriber, emitting, stream, clients, awaiting>>

\* The waiter goes on with its verdict, which it announces.
Decide(p) ==
    /\ awaiting[p] # NoEvent
    /\ answer[p] # "none"
    /\ Publish(p, "live")
    /\ awaiting' = [awaiting EXCEPT ![p] = NoEvent]
    /\ answer' = [answer EXCEPT ![p] = "none"]

-----------------------------------------------------------------------------
(***************************************************************************)
(* Subscriptions.                                                          *)
(***************************************************************************)

\* session_wire_events: the oldest rows of the session.
Replayed == SubSeq(log, 1, IF Len(log) < ReplayLimit THEN Len(log) ELSE ReplayLimit)

\* A client subscribes to the running session: it is the subscriber from now on
\* and is sent what the database held at this moment.
Subscribe(c) ==
    /\ Listening(c)
    /\ running
    /\ subscriber' = c
    /\ replay' = [replay EXCEPT ![c] = Replayed]
    /\ received' = [received EXCEPT ![c] = <<>>]
    /\ UNCHANGED <<generation, running, emitting, stream, connection, approvals>>

\* What is left of the rows read when the client subscribed.
Rest(c) == Tail(replay[c])

\* One message of the replay, and its end.
Replay(c) ==
    /\ replay[c] # NoReplay
    /\ Open(c)
    /\ IF replay[c] = <<>>
       THEN replay' = [replay EXCEPT ![c] = NoReplay] /\ UNCHANGED received
       ELSE /\ received' = [received EXCEPT ![c] = Append(@, Head(replay[c]))]
            /\ replay' = [replay EXCEPT ![c] = Rest(c)]
    /\ UNCHANGED <<generation, running, subscriber, emitting, stream, connection, approvals>>

\* The replay meets a closed connection.
ReplayFails(c) ==
    /\ replay[c] # NoReplay
    /\ connection[c] = "closed"
    /\ replay' = [replay EXCEPT ![c] = NoReplay]
    /\ subscriber' = NoClient
    /\ UNCHANGED <<generation, running, emitting, stream, connection, received, approvals>>

Close(c) ==
    /\ Open(c)
    /\ connection' = [connection EXCEPT ![c] = "closed"]
    /\ UNCHANGED <<generation, running, subscriber, emitting, stream, replay, received,
                   approvals>>

\* A connection that goes gives up its own subscription only.
Detached(c) == IF subscriber = c THEN NoClient ELSE subscriber

\* The end of the connection's handler.
Leave(c) ==
    /\ connection[c] = "closed"
    /\ replay[c] = NoReplay
    /\ connection' = [connection EXCEPT ![c] = "left"]
    /\ subscriber' = Detached(c)
    /\ UNCHANGED <<generation, running, emitting, stream, replay, received, approvals>>

-----------------------------------------------------------------------------

SinkNext ==
    \/ Flush
    \/ RequestEnds
    \/ \E c \in Clients :
          \/ Connect(c) \/ NewRequest(c) \/ Amended(c) \/ Subscribe(c)
          \/ Replay(c) \/ ReplayFails(c) \/ Close(c) \/ Leave(c)
          \/ \E p \in Publishers : Respond(c, p)
    \/ \E p \in Publishers :
          \/ Emit(p) \/ Sent(p) \/ SendFails(p)
          \/ Ask(p) \/ ApprovalTimesOut(p) \/ Decide(p)

\* A task that sleeps for 50 ms is woken.
SinkFairness == WF_sinkVars(Flush)

SinkSpec == SinkInit /\ [][SinkNext]_sinkVars /\ SinkFairness

-----------------------------------------------------------------------------
(***************************************************************************)
(* Properties.                                                             *)
(***************************************************************************)

\* The type invariant.
SinkTypeOK ==
    /\ generation \in 0 .. MaxRequests
    /\ running \in BOOLEAN
    /\ subscriber \in Clients \cup {NoClient}
    /\ emitting \in [Publishers -> Clients \cup {NoClient}]
    /\ published \in Seq([generation : Requests, kind : Kinds])
    /\ Len(published) <= MaxEvents
    /\ unflushed \in Seq(Events)
    /\ flush \in {"none", "asleep", "done"}
    /\ log \in Seq(Events)
    /\ buffer \subseteq Events
    /\ connection \in [Clients -> {"new", "open", "closed", "left"}]
    /\ replay \in [Clients -> Seq(Events) \cup {NoReplay}]
    /\ received \in [Clients -> Seq(Events)]
    /\ awaiting \in [Publishers -> {NoEvent} \cup Events]
    /\ answer \in [Publishers -> {"none", "given", "late"}]

Increasing(q) == \A i, j \in DOMAIN q : i < j => q[i] < q[j]

\* The database holds the events of a session in the order in which they were
\* published, each at most once, through forced flushes, batches that were
\* refused and requests that replace one another.
LogInOrder == Increasing(log \o unflushed)

\* A client is sent no event twice between one subscription and its next,
\* though the replay and the running request send to it at the same time.
SentOnce == \A c \in Clients : IsInjective(received[c])

\* As long as an event waits to be written, a flush waits to write it.
BacklogIsDue == unflushed # <<>> => flush = "asleep"

\* The three together: an event of the latest request that is worth a replay is
\* on its way to the database (SinkFairness lets the flush happen) or was refused
\* with its batch, and reaches the database and a client at most once.
EventsOnce == LogInOrder /\ SentOnce /\ BacklogIsDue

\* Nothing of a request that was replaced is written any more: what is added to
\* the database belongs to the request the entry was prepared for last.
SupersededIsSilent ==
    [][\A i \in DOMAIN log' :
          i > Len(log) => published'[log'[i]].generation = generation]_sinkVars

=============================================================================

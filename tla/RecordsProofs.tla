--------------------------- MODULE RecordsProofs ----------------------------
(***************************************************************************)
(* What holds of what is kept, for every number of clients and events,     *)
(* every history, every set of facts and every interruption: the events of *)
(* a web session on their way to the database and to its clients           *)
(* (SessionSink), the contexts made of a conversation's history            *)
(* (ContextHistory) and the files of the database (DatabaseFiles).         *)
(***************************************************************************)
EXTENDS SessionSink, ContextHistory, DatabaseFiles, SequenceTheorems, TLAPS

-----------------------------------------------------------------------------
(***************************************************************************)
(* The events of a web session.                                            *)
(***************************************************************************)

\* The events on their way to the database are those of the latest request, after
\* all that are in it.
WritingInv ==
    /\ Increasing(log) /\ Increasing(unflushed)
    /\ \A i \in DOMAIN log, j \in DOMAIN unflushed : log[i] < unflushed[j]
    /\ \A i \in DOMAIN log : log[i] <= Len(published)
    /\ \A j \in DOMAIN unflushed :
          /\ unflushed[j] <= Len(published)
          /\ published[unflushed[j]].generation = generation
    /\ BacklogIsDue

\* What a client was sent, and what a replay has still to send to it, are events
\* that were published, each of them once.
SendingInv ==
    \A c \in Clients :
       /\ IsInjective(received[c])
       /\ \A i \in DOMAIN received[c] : received[c][i] <= Len(published)
       /\ replay[c] # NoReplay =>
             /\ IsInjective(replay[c])
             /\ \A j \in DOMAIN replay[c] :
                   /\ replay[c][j] <= Len(published)
                   /\ \A i \in DOMAIN received[c] : received[c][i] # replay[c][j]

\* The inductive invariant of a sink.
SinkInv == SinkTypeOK /\ WritingInv /\ SendingInv

\* The bounds are numbers.
LEMMA SinkBounds ==
    /\ MaxRequests \in Nat /\ MaxEvents \in Nat /\ HardLimit \in Nat /\ ReplayLimit \in Nat
    /\ Background \in Publishers /\ NoEvent \notin Events
BY RequestsAssumption, EventsAssumption, HardLimitAssumption, ReplayLimitAssumption
   DEF Background, Publishers, NoEvent, Events

\* Events are numbers.
LEMMA EventNumbers ==
    ASSUME NEW q \in Seq(Events)
    PROVE  \A i \in DOMAIN q : q[i] \in Events /\ q[i] \in Nat /\ q[i] >= 1
<1>1. \A i \in 1 .. Len(q) : q[i] \in Events
  BY ElementOfSeq
<1>2. DOMAIN q = 1 .. Len(q)
  OBVIOUS
<1> QED
  BY <1>1, <1>2, SinkBounds DEF Events

\* What a batch that is appended to the log adds to it.
LEMMA BatchFacts ==
    ASSUME SinkTypeOK, WritingInv
    PROVE  LET whole == log \o unflushed IN
           /\ whole \in Seq(Events) /\ Len(whole) = Len(log) + Len(unflushed)
           /\ Increasing(whole)
           /\ \A i \in DOMAIN whole :
                 \/ i \in DOMAIN log /\ whole[i] = log[i]
                 \/ /\ i > Len(log) /\ i - Len(log) \in DOMAIN unflushed
                    /\ whole[i] = unflushed[i - Len(log)]
<1> DEFINE whole == log \o unflushed
<1>1. /\ log \in Seq(Events) /\ unflushed \in Seq(Events)
      /\ DOMAIN log = 1 .. Len(log) /\ DOMAIN unflushed = 1 .. Len(unflushed)
      /\ Len(log) \in Nat /\ Len(unflushed) \in Nat
  BY DEF SinkTypeOK
<1>2. whole \in Seq(Events) /\ Len(whole) = Len(log) + Len(unflushed)
      /\ DOMAIN whole = 1 .. Len(log) + Len(unflushed)
  BY <1>1
<1>3. \A i \in DOMAIN whole :
         whole[i] = IF i <= Len(log) THEN log[i] ELSE unflushed[i - Len(log)]
  BY <1>1
<1>4. \A i \in DOMAIN whole :
         \/ i \in DOMAIN log /\ whole[i] = log[i]
         \/ /\ i > Len(log) /\ i - Len(log) \in DOMAIN unflushed
            /\ whole[i] = unflushed[i - Len(log)]
  BY <1>1, <1>2, <1>3
<1>5. Increasing(whole)
  <2> SUFFICES ASSUME NEW i \in DOMAIN whole, NEW j \in DOMAIN whole, i < j
               PROVE  whole[i] < whole[j]
    BY DEF Increasing
  <2>1. i \in Nat /\ j \in Nat
    BY <1>1, <1>2
  <2>2. CASE j <= Len(log)
    BY <1>1, <1>3, <2>1, <2>2 DEF WritingInv, Increasing
  <2>3. CASE i > Len(log)
    <3>1. i - Len(log) \in DOMAIN unflushed /\ j - Len(log) \in DOMAIN unflushed
          /\ i - Len(log) < j - Len(log)
      BY <1>1, <1>2, <2>1, <2>3
    <3> QED
      BY <1>1, <1>3, <2>1, <2>3, <3>1 DEF WritingInv, Increasing
  <2>4. CASE i <= Len(log) /\ j > Len(log)
    <3>1. i \in DOMAIN log /\ j - Len(log) \in DOMAIN unflushed
      BY <1>1, <1>2, <2>1, <2>4
    <3> QED
      BY <1>1, <1>3, <2>1, <2>4, <3>1 DEF WritingInv
  <2> QED
    BY <1>1, <2>1, <2>2, <2>3, <2>4
<1> QED
  BY <1>2, <1>4, <1>5

\* Before the first request, nothing is published and nobody is connected.
LEMMA SinkInitInv == SinkInit => SinkInv
<1> SUFFICES ASSUME SinkInit PROVE SinkInv
  OBVIOUS
<1>1. SinkTypeOK
  <2>1. /\ generation \in 0 .. MaxRequests /\ Len(published) <= MaxEvents
        /\ published \in Seq([generation : Requests, kind : Kinds])
    BY SinkBounds DEF SinkInit
  <2>2. unflushed \in Seq(Events) /\ log \in Seq(Events) /\ buffer \subseteq Events
    BY DEF SinkInit
  <2>3. /\ replay \in [Clients -> Seq(Events) \cup {NoReplay}]
        /\ received \in [Clients -> Seq(Events)]
    BY DEF SinkInit
  <2> QED
    BY <2>1, <2>2, <2>3 DEF SinkInit, SinkTypeOK
<1>2. WritingInv
  BY DEF SinkInit, WritingInv, Increasing, BacklogIsDue
<1>3. SendingInv
  BY DEF SinkInit, SendingInv, IsInjective
<1> QED
  BY <1>1, <1>2, <1>3 DEF SinkInv

\* The batch is written, or refused.
LEMMA WriteFacts ==
    ASSUME SinkTypeOK, WritingInv, Write
    PROVE  /\ log' \in {log, log \o unflushed}
           /\ log' \in Seq(Events) /\ buffer' \subseteq Events
           /\ Increasing(log')
           /\ \A i \in DOMAIN log' : log'[i] <= Len(published)
           /\ \A i \in DOMAIN log' :
                 i > Len(log) => published[log'[i]].generation = generation
<1>1. log' \in {log, log \o unflushed}
  BY DEF Write
<1>2. log' \in Seq(Events) /\ Increasing(log')
  BY <1>1, BatchFacts DEF SinkTypeOK, WritingInv
<1>3. ToSet(unflushed) \subseteq Events
  BY DEF SinkTypeOK, ToSet
<1>4. buffer' \subseteq Events
  BY <1>3 DEF Write, SinkTypeOK
<1>5. \A i \in DOMAIN log' : \/ i \in DOMAIN log /\ log'[i] = log[i]
                             \/ /\ i > Len(log) /\ i - Len(log) \in DOMAIN unflushed
                                /\ log'[i] = unflushed[i - Len(log)]
  BY <1>1, BatchFacts
<1>6. \A i \in DOMAIN log' : log'[i] <= Len(published)
  BY <1>5 DEF WritingInv
<1>7. \A i \in DOMAIN log : ~(i > Len(log))
  BY DEF SinkTypeOK
<1>8. \A i \in DOMAIN log' : i > Len(log) => published[log'[i]].generation = generation
  BY <1>5, <1>7 DEF WritingInv
<1> QED
  BY <1>1, <1>2, <1>4, <1>6, <1>8

\* The steps that publish nothing, write nothing and send nothing.
LEMMA QuietSinkStep ==
    ASSUME SinkInv,
           \/ RequestEnds
           \/ \E c \in Clients : \/ Connect(c) \/ Amended(c) \/ Close(c) \/ Leave(c)
                                 \/ \E p \in Publishers : Respond(c, p)
           \/ \E p \in Publishers : Sent(p) \/ SendFails(p) \/ ApprovalTimesOut(p)
    PROVE  SinkInv'
<1> USE DEF SinkInv
<1>1. UNCHANGED <<generation, published, unflushed, flush, log, buffer, replay, received>>
  BY DEF RequestEnds, Connect, Amended, Close, Leave, Respond, Sent, SendFails, ApprovalTimesOut,
         stream, clients, approvals
<1>2. WritingInv' /\ SendingInv'
  BY <1>1 DEF WritingInv, SendingInv, Increasing, IsInjective, BacklogIsDue
<1>3. SinkTypeOK'
  <2> USE DEF stream, clients, approvals
  <2>1. CASE RequestEnds
    BY <2>1 DEF RequestEnds, SinkTypeOK
  <2>2. ASSUME NEW c \in Clients, Connect(c) \/ Amended(c) \/ Close(c) \/ Leave(c)
        PROVE  SinkTypeOK'
    BY <2>2 DEF Connect, Amended, Close, Leave, Detached, SinkTypeOK
  <2>3. ASSUME NEW c \in Clients, NEW p \in Publishers, Respond(c, p)
        PROVE  SinkTypeOK'
    BY <2>3 DEF Respond, SinkTypeOK
  <2>4. ASSUME NEW p \in Publishers, Sent(p) \/ SendFails(p) \/ ApprovalTimesOut(p)
        PROVE  SinkTypeOK'
    BY <2>4 DEF Sent, SendFails, ApprovalTimesOut, SinkTypeOK
  <2> QED
    BY <2>1, <2>2, <2>3, <2>4
<1> QED
  BY <1>2, <1>3

\* A new request forgets what the one before has not written.
LEMMA NewRequestStep ==
    ASSUME SinkInv, NEW c \in Clients, NewRequest(c)
    PROVE  SinkInv'
<1> USE DEF SinkInv
<1>1. /\ generation < MaxRequests /\ generation' = generation + 1 /\ running' = TRUE
      /\ subscriber' = c /\ unflushed' = <<>> /\ flush' = "none" /\ buffer' = {}
      /\ UNCHANGED <<published, log, connection, replay, received>>
  BY DEF NewRequest, UnflushedOfNext, clients
<1>2. /\ emitting' \in [Publishers -> Clients \cup {NoClient}]
      /\ awaiting' \in [Publishers -> {NoEvent} \cup Events]
      /\ answer' \in [Publishers -> {"none", "given", "late"}]
  BY DEF NewRequest, SinkTypeOK
<1>3. generation' \in 0 .. MaxRequests /\ unflushed' \in Seq(Events)
  BY <1>1, SinkBounds DEF SinkTypeOK
<1>4. SinkTypeOK'
  BY <1>1, <1>2, <1>3 DEF SinkTypeOK
<1>5. WritingInv'
  BY <1>1 DEF WritingInv, Increasing, BacklogIsDue
<1>6. SendingInv'
  BY <1>1 DEF SendingInv, IsInjective
<1> QED
  BY <1>4, <1>5, <1>6

\* The debounced flush.
LEMMA FlushStep ==
    ASSUME SinkInv, Flush
    PROVE  SinkInv'
<1> USE DEF SinkInv
<1>1. /\ flush' = "done" /\ unflushed' = <<>> /\ Write
      /\ UNCHANGED <<generation, running, subscriber, emitting, published, clients, approvals>>
  BY DEF Flush
<1>2. SinkTypeOK'
  BY <1>1, WriteFacts DEF SinkTypeOK, clients, approvals
<1>3. WritingInv'
  BY <1>1, WriteFacts DEF WritingInv, Increasing, BacklogIsDue
<1>4. SendingInv'
  BY <1>1 DEF SendingInv, IsInjective, clients
<1> QED
  BY <1>2, <1>3, <1>4

\* An event is published, queued when it is worth a replay, and sent.
LEMMA PublishStep ==
    ASSUME SinkInv, NEW p \in Publishers, NEW kind \in Kinds, Publish(p, kind),
           awaiting' \in [Publishers -> {NoEvent} \cup Events],
           answer' \in [Publishers -> {"none", "given", "late"}]
    PROVE  SinkInv'
<1> USE DEF SinkInv
<1> DEFINE n == Len(published) + 1
           event == EventOf(p, kind)
<1>1. /\ Active(p) /\ generation > 0 /\ n <= MaxEvents
      /\ published' = Append(published, event)
      /\ emitting' = [emitting EXCEPT ![p] = subscriber]
      /\ received' = IF subscriber # NoClient /\ Open(subscriber)
                     THEN [received EXCEPT ![subscriber] = Append(@, n)]
                     ELSE received
      /\ UNCHANGED <<generation, running, subscriber, connection, replay>>
  BY DEF Publish
<1>2. n \in Events /\ n \in Nat /\ Len(published) \in Nat
  BY <1>1, SinkBounds DEF SinkTypeOK, Events
<1>3. event \in [generation : Requests, kind : Kinds] /\ event.generation = generation
  <2>1. (IF p = Background THEN generation ELSE p) = generation
    BY <1>1 DEF Active
  <2>2. generation \in Requests
    BY <1>1, SinkBounds DEF SinkTypeOK, Requests
  <2> QED
    BY <2>1, <2>2 DEF EventOf
<1>4. /\ published' \in Seq([generation : Requests, kind : Kinds])
      /\ Len(published') = n
      /\ \A m \in 1 .. Len(published) : published'[m] = published[m]
      /\ published'[n] = event
  BY <1>1, <1>3 DEF SinkTypeOK
<1>5. /\ received' \in [Clients -> Seq(Events)]
      /\ emitting' \in [Publishers -> Clients \cup {NoClient}]
  BY <1>1, <1>2 DEF SinkTypeOK
<1>6. SendingInv'
  <2> SUFFICES ASSUME NEW c \in Clients
               PROVE  /\ IsInjective(received'[c])
                      /\ \A i \in DOMAIN received'[c] : received'[c][i] <= n
                      /\ replay[c] # NoReplay =>
                            /\ IsInjective(replay[c])
                            /\ \A j \in DOMAIN replay[c] :
                                  /\ replay[c][j] <= n
                                  /\ \A i \in DOMAIN received'[c] :
                                        received'[c][i] # replay[c][j]
    BY <1>1, <1>4 DEF SendingInv
  <2>1. /\ received[c] \in Seq(Events) /\ replay[c] \in Seq(Events) \cup {NoReplay}
        /\ DOMAIN received[c] = 1 .. Len(received[c]) /\ Len(received[c]) \in Nat
    BY DEF SinkTypeOK
  <2>2. \A i \in DOMAIN received[c] : received[c][i] \in Nat /\ received[c][i] < n
    BY <1>2, <2>1, EventNumbers DEF SendingInv
  <2>3. replay[c] # NoReplay => \A j \in DOMAIN replay[c] : replay[c][j] \in Nat /\ replay[c][j] < n
    BY <1>2, <2>1, EventNumbers DEF SendingInv
  <2>4. CASE received'[c] = received[c]
    BY <1>2, <2>2, <2>3, <2>4 DEF SendingInv
  <2>5. CASE received'[c] = Append(received[c], n)
    <3>1. DOMAIN received'[c] = 1 .. Len(received[c]) + 1
      BY <2>1, <2>5, <1>2
    <3>2. \A i \in DOMAIN received'[c] :
             \/ i \in DOMAIN received[c] /\ received'[c][i] = received[c][i]
             \/ i = Len(received[c]) + 1 /\ received'[c][i] = n
      BY <2>1, <2>5, <3>1, <1>2
    <3>3. IsInjective(received'[c])
      BY <1>2, <2>2, <3>2 DEF SendingInv, IsInjective
    <3>4. \A i \in DOMAIN received'[c] : received'[c][i] <= n
      BY <1>2, <2>2, <3>2
    <3>5. replay[c] # NoReplay =>
             \A j \in DOMAIN replay[c] : \A i \in DOMAIN received'[c] :
                received'[c][i] # replay[c][j]
      BY <1>2, <2>2, <2>3, <3>2 DEF SendingInv
    <3> QED
      BY <1>2, <2>3, <3>3, <3>4, <3>5 DEF SendingInv
  <2> QED
    BY <1>1, <2>4, <2>5 DEF SinkTypeOK
<1>7. CASE UNCHANGED <<unflushed, flush, log, buffer>>
  <2>1. SinkTypeOK'
    BY <1>1, <1>2, <1>4, <1>5, <1>7 DEF SinkTypeOK
  <2>2. \A j \in DOMAIN unflushed : unflushed[j] \in 1 .. Len(published)
    BY <1>2, EventNumbers DEF SinkTypeOK, WritingInv
  <2>3. \A i \in DOMAIN log : log[i] \in Nat
    BY EventNumbers DEF SinkTypeOK
  <2>4. WritingInv'
    BY <1>1, <1>2, <1>4, <1>7, <2>2, <2>3 DEF WritingInv, Increasing, BacklogIsDue
  <2> QED
    BY <1>6, <2>1, <2>4
<1>8. CASE Queue(n) /\ flush' = FlushEnsured
  <2>1. flush' = "asleep"
    BY <1>8 DEF FlushEnsured, SinkTypeOK
  <2>2. /\ \A j \in DOMAIN unflushed : unflushed[j] \in 1 .. Len(published)
        /\ \A i \in DOMAIN log : log[i] \in Nat /\ log[i] < n
        /\ unflushed \in Seq(Events) /\ Len(unflushed) \in Nat
    BY <1>2, EventNumbers DEF SinkTypeOK, WritingInv
  <2>3. CASE unflushed' = <<n>> /\ Write
    <3>1. unflushed' \in Seq(Events)
      BY <1>2, <2>3
    <3>2. SinkTypeOK'
      BY <1>1, <1>4, <1>5, <2>1, <3>1, <2>3, WriteFacts DEF SinkTypeOK
    <3>3. DOMAIN unflushed' = {1} /\ unflushed'[1] = n
      BY <2>3
    <3>4. \A i \in DOMAIN log' : log'[i] \in Nat /\ log'[i] < n
      BY <1>2, <2>3, WriteFacts, EventNumbers
    <3>5. Increasing(log') /\ Increasing(unflushed')
      BY <2>3, <3>3, WriteFacts DEF Increasing
    <3>6. /\ \A i \in DOMAIN log', j \in DOMAIN unflushed' : log'[i] < unflushed'[j]
          /\ \A i \in DOMAIN log' : log'[i] <= Len(published')
          /\ \A j \in DOMAIN unflushed' :
                /\ unflushed'[j] <= Len(published')
                /\ published'[unflushed'[j]].generation = generation'
      BY <1>1, <1>2, <1>3, <1>4, <3>3, <3>4
    <3> QED
      BY <1>6, <2>1, <3>2, <3>5, <3>6 DEF WritingInv, BacklogIsDue
  <2>4. CASE unflushed' = Append(unflushed, n) /\ UNCHANGED <<log, buffer>>
    <3>1. unflushed' \in Seq(Events)
      BY <1>2, <2>2, <2>4
    <3>2. SinkTypeOK'
      BY <1>1, <1>4, <1>5, <2>1, <2>4, <3>1 DEF SinkTypeOK
    <3>3. \A j \in DOMAIN unflushed' :
             \/ /\ j \in DOMAIN unflushed /\ unflushed'[j] = unflushed[j]
             \/ j = Len(unflushed) + 1 /\ unflushed'[j] = n
      BY <1>2, <2>2, <2>4
    <3>4. Increasing(unflushed')
      <4> SUFFICES ASSUME NEW i \in DOMAIN unflushed', NEW j \in DOMAIN unflushed', i < j
                   PROVE  unflushed'[i] < unflushed'[j]
        BY DEF Increasing
      <4>1. i \in DOMAIN unflushed /\ unflushed'[i] = unflushed[i]
        BY <2>2, <2>4, <3>3, <1>2
      <4> QED
        BY <1>2, <2>2, <3>3, <4>1 DEF WritingInv, Increasing
    <3>5. /\ \A i \in DOMAIN log, j \in DOMAIN unflushed' : log[i] < unflushed'[j]
          /\ \A i \in DOMAIN log : log[i] <= Len(published')
      BY <1>2, <1>4, <2>2, <3>3 DEF WritingInv
    <3>6. \A j \in DOMAIN unflushed' :
             /\ unflushed'[j] <= Len(published')
             /\ published'[unflushed'[j]].generation = generation
      <4>1. \A j \in DOMAIN unflushed :
               /\ unflushed[j] <= Len(published')
               /\ published'[unflushed[j]].generation = generation
        BY <1>2, <1>4, <2>2 DEF WritingInv
      <4>2. n <= Len(published') /\ published'[n].generation = generation
        BY <1>2, <1>3, <1>4
      <4> HIDE DEF n
      <4> QED
        BY <3>3, <4>1, <4>2
    <3> QED
      BY <1>1, <1>6, <2>1, <2>4, <3>2, <3>4, <3>5, <3>6 DEF WritingInv, BacklogIsDue
  <2> QED
    BY <1>8, <2>3, <2>4 DEF Queue
<1> QED
  BY <1>7, <1>8 DEF Publish

\* The replay of a client begins, goes on or fails.
LEMMA ReplayStep ==
    ASSUME SinkInv, NEW c \in Clients, Subscribe(c) \/ Replay(c) \/ ReplayFails(c)
    PROVE  SinkInv'
<1> USE DEF SinkInv
<1>1. UNCHANGED <<generation, running, emitting, stream, connection, approvals>>
  BY DEF Subscribe, Replay, ReplayFails
<1>2. WritingInv'
  BY <1>1 DEF WritingInv, Increasing, BacklogIsDue, stream
<1>3. /\ received[c] \in Seq(Events) /\ DOMAIN received[c] = 1 .. Len(received[c])
      /\ Len(received[c]) \in Nat
      /\ replay[c] # NoReplay =>
            replay[c] \in Seq(Events) /\ DOMAIN replay[c] = 1 .. Len(replay[c])
            /\ Len(replay[c]) \in Nat
  BY DEF SinkTypeOK
<1>4. ASSUME NEW rest \in Seq(Events) \cup {NoReplay}, NEW got \in Seq(Events),
             replay' = [replay EXCEPT ![c] = rest], received' = [received EXCEPT ![c] = got],
             subscriber' \in Clients \cup {NoClient},
             IsInjective(got), \A i \in DOMAIN got : got[i] <= Len(published),
             rest # NoReplay =>
                /\ IsInjective(rest)
                /\ \A j \in DOMAIN rest :
                      rest[j] <= Len(published) /\ \A i \in DOMAIN got : got[i] # rest[j]
      PROVE  SinkInv'
  <2>1. SinkTypeOK'
    BY <1>1, <1>4 DEF SinkTypeOK, stream, approvals
  <2>2. \A d \in Clients : /\ replay'[d] = IF d = c THEN rest ELSE replay[d]
                           /\ received'[d] = IF d = c THEN got ELSE received[d]
    BY <1>4 DEF SinkTypeOK
  <2>3. published' = published
    BY <1>1 DEF stream
  <2>4. SendingInv'
    BY <1>4, <2>2, <2>3 DEF SendingInv
  <2> QED
    BY <1>2, <2>1, <2>4
<1>5. CASE Subscribe(c)
  <2> DEFINE k == IF Len(log) < ReplayLimit THEN Len(log) ELSE ReplayLimit
  <2>1. log \in Seq(Events) /\ Len(log) \in Nat /\ DOMAIN log = 1 .. Len(log)
        /\ k \in 0 .. Len(log) /\ Replayed = SubSeq(log, 1, k)
    BY SinkBounds DEF SinkTypeOK, Replayed
  <2> HIDE DEF k
  <2>2. /\ Replayed \in Seq(Events) /\ DOMAIN Replayed = 1 .. k
        /\ \A i \in 1 .. k : Replayed[i] = log[i] /\ i \in DOMAIN log
    <3>1. \A i \in 1 .. k : i \in DOMAIN log /\ log[i] \in Events
      BY <2>1
    <3>2. Len(Replayed) = k /\ \A i \in 1 .. k : Replayed[i] = log[i]
      BY <2>1
    <3> QED
      BY <2>1, <3>1, <3>2
  <2>3. \A i \in DOMAIN log : log[i] \in Nat
    BY <2>1, EventNumbers
  <2>4. IsInjective(Replayed)
    <3> SUFFICES ASSUME NEW i \in 1 .. k, NEW j \in 1 .. k, i # j
                 PROVE  Replayed[i] # Replayed[j]
      BY <2>2 DEF IsInjective
    <3>1. i < j \/ j < i
      BY <2>1
    <3> QED
      BY <2>2, <2>3, <3>1 DEF WritingInv, Increasing
  <2>5. \A j \in DOMAIN Replayed : Replayed[j] <= Len(published)
    BY <2>2 DEF WritingInv
  <2>6. /\ replay' = [replay EXCEPT ![c] = Replayed]
        /\ received' = [received EXCEPT ![c] = <<>>] /\ subscriber' = c
    BY <1>5 DEF Subscribe
  <2>7. <<>> \in Seq(Events) /\ IsInjective(<<>>) /\ DOMAIN <<>> = {}
    BY DEF IsInjective
  <2> QED
    BY <1>4, <2>2, <2>4, <2>5, <2>6, <2>7
<1>6. CASE Replay(c)
  <2>1. replay[c] # NoReplay /\ subscriber' = subscriber
    BY <1>6 DEF Replay
  <2>2. CASE replay[c] = <<>>
    <3>1. replay' = [replay EXCEPT ![c] = NoReplay] /\ received' = received
      BY <1>6, <2>2 DEF Replay
    <3>2. received' = [received EXCEPT ![c] = received[c]]
      BY <3>1 DEF SinkTypeOK
    <3> QED
      BY <1>3, <1>4, <2>1, <3>1, <3>2 DEF SendingInv, SinkTypeOK
  <2>3. CASE replay[c] # <<>>
    <3> DEFINE first == Head(replay[c])
               rest == Tail(replay[c])
               got == Append(received[c], first)
    <3>1. /\ replay' = [replay EXCEPT ![c] = rest] /\ received' = [received EXCEPT ![c] = got]
      BY <1>6, <2>3 DEF Replay, Rest, SinkTypeOK
    <3>2. /\ rest \in Seq(Events) /\ Len(rest) = Len(replay[c]) - 1
          /\ DOMAIN rest = 1 .. Len(replay[c]) - 1
          /\ \A j \in DOMAIN rest : rest[j] = replay[c][j + 1] /\ j + 1 \in DOMAIN replay[c]
          /\ first = replay[c][1] /\ 1 \in DOMAIN replay[c] /\ first \in Events
      BY <1>3, <2>1, <2>3
    <3>3. /\ got \in Seq(Events)
          /\ \A i \in DOMAIN got : \/ i \in DOMAIN received[c] /\ got[i] = received[c][i]
                                   \/ i = Len(received[c]) + 1 /\ got[i] = first
      BY <1>3, <3>2
    <3> HIDE DEF rest, got, first
    <3>4. /\ IsInjective(received[c]) /\ IsInjective(replay[c])
          /\ \A i \in DOMAIN received[c] : received[c][i] <= Len(published)
          /\ \A j \in DOMAIN replay[c] :
                /\ replay[c][j] <= Len(published)
                /\ \A i \in DOMAIN received[c] : received[c][i] # replay[c][j]
      BY <2>1 DEF SendingInv
    <3>5. IsInjective(got)
      BY <3>2, <3>3, <3>4 DEF IsInjective
    <3>6. \A i \in DOMAIN got : got[i] <= Len(published)
      BY <3>2, <3>3, <3>4
    <3>7. IsInjective(rest)
      BY <3>2, <3>4 DEF IsInjective
    <3>8. \A j \in DOMAIN rest :
             rest[j] <= Len(published) /\ \A i \in DOMAIN got : got[i] # rest[j]
      <4> SUFFICES ASSUME NEW j \in DOMAIN rest
                   PROVE  rest[j] <= Len(published) /\ \A i \in DOMAIN got : got[i] # rest[j]
        OBVIOUS
      <4>1. j \in Nat /\ j >= 1
        BY <1>3, <2>1, <3>2
      <4>2. rest[j] # first
        BY <3>2, <3>4, <4>1 DEF IsInjective
      <4> QED
        BY <3>2, <3>3, <3>4, <4>2
    <3> QED
      BY <1>4, <2>1, <3>1, <3>2, <3>3, <3>5, <3>6, <3>7, <3>8 DEF SinkTypeOK
  <2> QED
    BY <2>2, <2>3
<1>7. CASE ReplayFails(c)
  <2>1. /\ replay' = [replay EXCEPT ![c] = NoReplay] /\ received' = received
        /\ subscriber' = NoClient
    BY <1>7 DEF ReplayFails
  <2>2. received' = [received EXCEPT ![c] = received[c]]
    BY <2>1 DEF SinkTypeOK
  <2> QED
    BY <1>3, <1>4, <2>1, <2>2 DEF SendingInv
<1> QED
  BY <1>5, <1>6, <1>7

\* Every step of the session, its publishers and its clients keeps the invariant.
LEMMA SinkStep ==
    ASSUME SinkInv, [SinkNext]_sinkVars
    PROVE  SinkInv'
<1>1. CASE UNCHANGED sinkVars
  <2>1. UNCHANGED <<generation, running, subscriber, emitting, published, unflushed, flush, log,
                    buffer, connection, replay, received, awaiting, answer>>
    BY <1>1 DEF sinkVars, stream, clients, approvals
  <2> QED
    BY <2>1 DEF SinkInv, SinkTypeOK, WritingInv, SendingInv, Increasing, IsInjective,
                BacklogIsDue
<1>2. ASSUME NEW p \in Publishers, Emit(p) \/ Ask(p) \/ Decide(p)
      PROVE  SinkInv'
  <2>1. CASE Emit(p)
    BY <2>1, PublishStep DEF Emit, Kinds, approvals, SinkInv, SinkTypeOK
  <2>2. CASE Ask(p)
    <3>1. Len(published) + 1 \in Events
      BY <2>2, SinkBounds DEF Ask, Publish, SinkInv, SinkTypeOK, Events
    <3>2. /\ awaiting' \in [Publishers -> {NoEvent} \cup Events]
          /\ answer' \in [Publishers -> {"none", "given", "late"}]
      BY <2>2, <3>1 DEF Ask, SinkInv, SinkTypeOK
    <3> QED
      BY <2>2, <3>2, PublishStep DEF Ask, Kinds
  <2>3. CASE Decide(p)
    <3>1. /\ awaiting' \in [Publishers -> {NoEvent} \cup Events]
          /\ answer' \in [Publishers -> {"none", "given", "late"}]
      BY <2>3 DEF Decide, SinkInv, SinkTypeOK
    <3> QED
      BY <2>3, <3>1, PublishStep DEF Decide, Kinds
  <2> QED
    BY <1>2, <2>1, <2>2, <2>3
<1> QED
  BY <1>1, <1>2, QuietSinkStep, NewRequestStep, FlushStep, ReplayStep DEF SinkNext

\* The events of a session, on their way to the database and to its clients, through
\* requests that replace one another, refused batches and replays.
THEOREM SinkInvariant == SinkSpec => []SinkInv
BY SinkInitInv, SinkStep, PTL DEF SinkSpec

\* An event reaches the database in its order and at most once, and a client at most
\* once between two subscriptions; and none waits that no flush will write.
THEOREM EventsSound == SinkSpec => []EventsOnce
<1>1. SinkInv => EventsOnce
  BY BatchFacts DEF SinkInv, EventsOnce, LogInOrder, SentOnce, SendingInv, WritingInv
<1> QED
  BY <1>1, SinkInvariant, PTL

\* What a step adds to the database belongs to the latest request.
THEOREM SilenceSound == SinkSpec => SupersededIsSilent
<1> DEFINE Silent == \A i \in DOMAIN log' :
                        i > Len(log) => published'[log'[i]].generation = generation
<1>1. ASSUME SinkInv, [SinkNext]_sinkVars
      PROVE  Silent
  <2> USE <1>1 DEF SinkInv
  <2>1. CASE log' = log
    BY <2>1 DEF SinkTypeOK
  <2>2. ASSUME Write, \A m \in 1 .. Len(published) : published'[m] = published[m]
        PROVE  Silent
    <3>1. \A i \in DOMAIN log' : log'[i] \in 1 .. Len(published)
      BY <2>2, WriteFacts, EventNumbers DEF SinkTypeOK
    <3> QED
      BY <2>2, <3>1, WriteFacts
  <2>3. CASE Flush
    BY <2>2, <2>3 DEF Flush
  <2>4. ASSUME NEW p \in Publishers, Emit(p) \/ Ask(p) \/ Decide(p)
        PROVE  Silent
    <3>1. PICK kind \in Kinds : Publish(p, kind)
      BY <2>4 DEF Emit, Ask, Decide, Kinds
    <3>2. published' = Append(published, EventOf(p, kind))
      BY <3>1 DEF Publish
    <3>3. \A m \in 1 .. Len(published) : published'[m] = published[m]
      BY <3>2 DEF SinkTypeOK
    <3> QED
      BY <2>1, <2>2, <3>1, <3>3 DEF Publish, Queue
  <2>5. ASSUME NEW c \in Clients, \/ Connect(c) \/ NewRequest(c) \/ Amended(c) \/ Subscribe(c)
                                  \/ Replay(c) \/ ReplayFails(c) \/ Close(c) \/ Leave(c)
                                  \/ \E p \in Publishers : Respond(c, p)
        PROVE  Silent
    BY <2>1, <2>5 DEF Connect, NewRequest, Amended, Subscribe, Replay, ReplayFails, Close, Leave,
                      Respond, stream
  <2>6. ASSUME NEW p \in Publishers, Sent(p) \/ SendFails(p) \/ ApprovalTimesOut(p)
        PROVE  Silent
    BY <2>1, <2>6 DEF Sent, SendFails, ApprovalTimesOut, stream
  <2>7. CASE RequestEnds \/ UNCHANGED sinkVars
    BY <2>1, <2>7 DEF RequestEnds, sinkVars, stream
  <2> QED
    BY <2>3, <2>4, <2>5, <2>6, <2>7 DEF SinkNext
<1>2. SinkInv /\ [SinkNext]_sinkVars => [Silent]_sinkVars
  BY <1>1
<1> QED
  BY <1>2, SinkInvariant, PTL DEF SinkSpec, SupersededIsSilent

-----------------------------------------------------------------------------
(***************************************************************************)
(* The contexts of a conversation.                                         *)
(***************************************************************************)

\* The messages of a history.
Messages == [role : {"user", "assistant"}, saved : Saved, taken : BOOLEAN]

\* What every context has to hold, and what none may.
Kept == {m \in Evented \cap Remaining : history[m].taken}
Excluded == excluded \ late

\* A context that is sound: its summary is about what precedes the rest.
Sound(c) ==
    /\ c.summary \subseteq DOMAIN history /\ c.rest \subseteq DOMAIN history
    /\ \A a \in c.summary, b \in c.rest : a < b
    /\ Kept \subseteq Remembers(c)
    /\ Excluded \cap Remembers(c) = {}

\* The summary of a checkpoint is about the messages before its boundary: all that
\* must be kept, and only such as its fingerprint covers, or were excluded late.
Covers(c, summary) ==
    /\ \A m \in summary : m < c.resume
    /\ \A m \in Kept : m < c.resume => m \in summary

\* The checkpoint covers what is before its boundary, and its summary is of messages
\* its fingerprint covers, that are not saved, or that were excluded late.
CheckpointInv ==
    /\ checkpoint.resume \in {0} \cup DOMAIN history
    /\ checkpoint.summary \subseteq DOMAIN history
    /\ Covers(checkpoint, checkpoint.summary)
    /\ \A m \in checkpoint.summary :
          history[m].saved = "nowhere" \/ m \in checkpoint.prefix \/ m \in late

\* The types of the history, and of what is excluded from it.
HistoryTypes ==
    /\ history \in Seq(Messages)
    /\ excluded \subseteq {m \in DOMAIN history : history[m].saved # "nowhere"}

\* The types of what a request carries, and of what a compaction prepares.
ContextRecords == [summary : SUBSET Nat, rest : SUBSET Nat, asking : BOOLEAN]
CheckpointRecords == [resume : Nat, prefix : SUBSET Nat, summary : SUBSET Nat]

RecordTypes ==
    /\ checkpoint \in CheckpointRecords
    /\ carried \in ContextRecords
    /\ compaction \in [result : ContextRecords, prepared : CheckpointRecords]

\* What the loop of a session carries is sound, as long as the loop is used.
CarriedInv == pooled \/ exchange # "none" => Sound(carried)

\* What a compaction has prepared is sound as well, before any of it is stored.
CompactionInv ==
    exchange = "compacting" =>
       /\ Sound(compaction.result)
       /\ compaction.prepared # NoCheckpoint =>
             /\ compaction.prepared.resume \in DOMAIN history
             /\ Covers(compaction.prepared, compaction.result.summary)

\* The inductive invariant of the contexts.
HistoryInv == HistoryTypes /\ RecordTypes /\ CheckpointInv /\ CarriedInv /\ CompactionInv

\* Before the first message, the history, the loop and the checkpoint are empty.
LEMMA HistoryInitInv == HistoryInit => HistoryInv
<1> SUFFICES ASSUME HistoryInit PROVE HistoryInv
  OBVIOUS
<1>1. HistoryTypes
  BY DEF HistoryInit, HistoryTypes
<1>5. RecordTypes
  BY DEF HistoryInit, RecordTypes, ContextRecords, CheckpointRecords, NoContext, NoCheckpoint,
         NoCompaction
<1>2. DOMAIN history = {} /\ Kept = {}
  BY DEF HistoryInit, Kept, Evented
<1>3. CheckpointInv
  BY <1>2 DEF HistoryInit, CheckpointInv, Covers, NoCheckpoint
<1>4. CarriedInv /\ CompactionInv
  BY DEF HistoryInit, CarriedInv, CompactionInv
<1> QED
  BY <1>1, <1>3, <1>4, <1>5 DEF HistoryInv

\* The history is numbered from one.
LEMMA HistoryDomain ==
    ASSUME HistoryTypes
    PROVE  DOMAIN history = 1 .. Len(history) /\ Len(history) \in Nat
BY DEF HistoryTypes

\* What must be kept is in the durable history.
LEMMA KeptIsRaw == Kept \subseteq Raw /\ Raw \subseteq Remaining
BY DEF Kept, Raw

\* A restored context is sound.
LEMMA RestoredSound ==
    ASSUME HistoryTypes, CheckpointInv
    PROVE  Sound(RestoredContext)
<1>1. Raw \subseteq DOMAIN history /\ DOMAIN history \subseteq Nat /\ Raw \cap excluded = {}
  BY HistoryDomain, KeptIsRaw DEF Remaining
<1>2. CASE Matches(checkpoint)
  <2> DEFINE c == checkpoint
             r == RestoredContext
  <2>1. r.summary = c.summary /\ r.rest = RawFrom(c.resume)
    BY <1>2 DEF RestoredContext, NoContext
  <2>2. c.resume \in DOMAIN history /\ c.prefix = RawBefore(c.resume)
    BY <1>1, <1>2 DEF Matches
  <2> HIDE DEF c, r
  <2>3. /\ r.summary \subseteq DOMAIN history /\ r.rest \subseteq DOMAIN history
        /\ \A a \in r.summary, b \in r.rest : a < b
    <3>1. \A a \in c.summary : a < c.resume /\ a \in DOMAIN history
      BY DEF c, CheckpointInv, Covers
    <3>2. \A b \in RawFrom(c.resume) : b >= c.resume /\ b \in DOMAIN history
      BY <1>1 DEF RawFrom
    <3> QED
      BY <1>1, <2>1, <2>2, <3>1, <3>2
  <2>4. Kept \subseteq Remembers(r)
    <3> SUFFICES ASSUME NEW m \in Kept PROVE m \in r.summary \/ m \in r.rest
      BY DEF Remembers
    <3>1. m \in Raw /\ m \in Nat /\ c.resume \in Nat
      BY <1>1, <2>2, KeptIsRaw
    <3>2. CASE m < c.resume
      BY <2>1, <3>2 DEF c, CheckpointInv, Covers
    <3>3. CASE m >= c.resume
      BY <2>1, <3>1, <3>3 DEF RawFrom
    <3> QED
      BY <3>1, <3>2, <3>3
  <2>5. Excluded \cap Remembers(r) = {}
    <3> SUFFICES ASSUME NEW m \in Excluded, m \in r.summary \/ m \in r.rest PROVE FALSE
      BY DEF Remembers
    <3>1. m \in excluded /\ m \notin late
      BY DEF Excluded
    <3>2. m \notin RawFrom(c.resume) /\ m \notin RawBefore(c.resume)
      BY <1>1, <3>1 DEF RawFrom, RawBefore
    <3>3. m \in c.summary
      BY <2>1, <3>2
    <3>4. history[m].saved # "nowhere"
      BY <3>1 DEF HistoryTypes
    <3> QED
      BY <2>2, <3>1, <3>2, <3>3, <3>4 DEF c, CheckpointInv
  <2> QED
    BY <2>3, <2>4, <2>5 DEF r, Sound
<1>3. CASE ~Matches(checkpoint)
  <2>1. RestoredContext.summary = {} /\ RestoredContext.rest = Raw
    BY <1>3 DEF RestoredContext, NoContext
  <2> QED
    BY <1>1, <2>1, KeptIsRaw DEF Sound, Remembers, Excluded
<1> QED
  BY <1>2, <1>3

\* A message more: it has to be kept if a context took it.
LEMMA LongerFacts ==
    ASSUME HistoryTypes, NEW role \in {"user", "assistant"}, NEW saved \in Saved,
           NEW taken \in BOOLEAN, Longer(role, saved, taken), UNCHANGED <<excluded, late>>
    PROVE  /\ HistoryTypes'
           /\ Newest \in DOMAIN history' /\ DOMAIN history' = DOMAIN history \cup {Newest}
           /\ \A m \in DOMAIN history : m < Newest /\ history'[m] = history[m]
           /\ Kept' \subseteq Kept \cup (IF taken THEN {Newest} ELSE {})
           /\ Excluded' = Excluded /\ Newest \notin excluded /\ Newest \notin DOMAIN history
<1> DEFINE msg == [role |-> role, saved |-> saved, taken |-> taken]
<1>1. msg \in Messages /\ history' = Append(history, msg)
  BY DEF Longer, Messages
<1>2. DOMAIN history = 1 .. Len(history) /\ Len(history) \in Nat
  BY HistoryDomain
<1> HIDE DEF msg
<1>3. history' \in Seq(Messages) /\ Len(history') = Len(history) + 1
  BY <1>1 DEF HistoryTypes
<1>4. DOMAIN history' = DOMAIN history \cup {Newest}
  BY <1>2, <1>3 DEF Newest
<1>5. \A m \in DOMAIN history : m < Newest /\ history'[m] = history[m]
  BY <1>1, <1>2 DEF Newest, HistoryTypes
<1>6. history'[Newest] = msg
  BY <1>1, <1>2 DEF Newest, HistoryTypes
<1>7. Newest \notin DOMAIN history
  BY <1>2 DEF Newest
<1>8. HistoryTypes'
  BY <1>3, <1>4, <1>5 DEF HistoryTypes
<1>9. ASSUME NEW m \in Kept'
      PROVE  m \in Kept \cup (IF taken THEN {Newest} ELSE {})
  <2>1. m \in DOMAIN history' /\ history'[m].saved = "event" /\ m \notin excluded
        /\ history'[m].taken
    BY <1>9 DEF Kept, Evented, Remaining
  <2>2. CASE m = Newest
    BY <1>6, <2>1, <2>2 DEF msg
  <2>3. CASE m # Newest
    BY <1>4, <1>5, <2>1, <2>3 DEF Kept, Evented, Remaining
  <2> QED
    BY <2>2, <2>3
<1> QED
  BY <1>4, <1>5, <1>7, <1>8, <1>9 DEF Excluded, HistoryTypes

\* A sound context stays sound without the message, and becomes so with it.
LEMMA LongerSound ==
    ASSUME HistoryTypes, NEW role \in {"user", "assistant"}, NEW saved \in Saved,
           NEW taken \in BOOLEAN, Longer(role, saved, taken), UNCHANGED <<excluded, late>>,
           NEW c, Sound(c), NEW d, d.summary = c.summary,
           d.rest = IF taken THEN c.rest \cup {Newest} ELSE c.rest
    PROVE  Sound(d)'
<1> DEFINE old == DOMAIN history
           long == DOMAIN history'
<1>1. /\ Newest \in long /\ long = old \cup {Newest}
      /\ \A m \in old : m < Newest
      /\ Kept' \subseteq Kept \cup (IF taken THEN {Newest} ELSE {})
      /\ Excluded' = Excluded /\ Newest \notin excluded
  BY LongerFacts
<1>2. /\ c.summary \subseteq old /\ c.rest \subseteq old
      /\ \A a \in c.summary, b \in c.rest : a < b
      /\ Kept \subseteq Remembers(c)
      /\ Excluded \cap Remembers(c) = {}
  BY DEF Sound
<1> HIDE DEF old, long
<1>3. d.summary \subseteq long /\ d.rest \subseteq long
  BY <1>1, <1>2
<1>4. \A a \in d.summary, b \in d.rest : a < b
  BY <1>1, <1>2
<1>5. Kept' \subseteq Remembers(d)
  BY <1>1, <1>2 DEF Remembers
<1>6. Excluded' \cap Remembers(d) = {}
  BY <1>1, <1>2 DEF Remembers, Excluded
<1> QED
  BY <1>3, <1>4, <1>5, <1>6 DEF Sound, Remembers, long

\* A checkpoint is as good after one message more.
LEMMA LongerCheckpoint ==
    ASSUME HistoryTypes, CheckpointInv, NEW role \in {"user", "assistant"},
           NEW saved \in Saved, NEW taken \in BOOLEAN, Longer(role, saved, taken),
           UNCHANGED <<excluded, late, checkpoint>>
    PROVE  CheckpointInv'
<1>1. /\ DOMAIN history' = DOMAIN history \cup {Newest}
      /\ \A m \in DOMAIN history : m < Newest /\ history'[m] = history[m]
      /\ Kept' \subseteq Kept \cup {Newest}
  BY LongerFacts
<1>2. Newest \in Nat /\ checkpoint.resume \in Nat /\ checkpoint.resume < Newest
  BY HistoryDomain DEF CheckpointInv, Newest
<1>3. Covers(checkpoint, checkpoint.summary)'
  BY <1>1, <1>2 DEF CheckpointInv, Covers
<1> QED
  BY <1>1, <1>3 DEF CheckpointInv

\* The messages of a turn.
LEMMA MessageStep ==
    ASSUME HistoryInv, NEW saved \in Saved, NEW b \in BOOLEAN,
           Receive(saved) \/ Reply(saved, b) \/ NotConfirmed(saved, b)
    PROVE  HistoryInv'
<1> USE DEF HistoryInv
<1>1. UNCHANGED <<excluded, late, checkpoint, pooled, compaction>> /\ exchange # "none"
  BY DEF Receive, Reply, NotConfirmed
<1>2. carried \in ContextRecords /\ Newest \in Nat
  BY HistoryDomain DEF RecordTypes, Newest
<1>3. PICK role \in {"user", "assistant"}, taken \in BOOLEAN, context \in ContextRecords :
         /\ Longer(role, saved, taken)
         /\ context.summary = carried.summary
         /\ context.rest = IF taken THEN carried.rest \cup {Newest} ELSE carried.rest
         /\ \/ exchange' = "running" /\ carried' = context
            \/ exchange' = "none" /\ carried' = Ended(context)
  <2>1. /\ With(Newest) \in ContextRecords
        /\ With(Newest).summary = carried.summary
        /\ With(Newest).rest = carried.rest \cup {Newest}
    BY <1>2 DEF With, ContextRecords
  <2>2. CASE Receive(saved)
    BY <2>1, <2>2 DEF Receive
  <2>3. CASE Reply(saved, b)
    <3> DEFINE context == [With(Newest) EXCEPT !.asking = b]
    <3>1. /\ context \in ContextRecords
          /\ context.summary = carried.summary
          /\ context.rest = carried.rest \cup {Newest}
      BY <2>1 DEF ContextRecords
    <3> QED
      BY <2>3, <3>1 DEF Reply
  <2>4. CASE NotConfirmed(saved, b)
    <3> DEFINE context == [carried EXCEPT !.asking = b]
    <3>1. /\ context \in ContextRecords
          /\ context.summary = carried.summary
          /\ context.rest = carried.rest
      BY <1>2 DEF ContextRecords
    <3> QED
      BY <2>4, <3>1 DEF NotConfirmed
  <2> QED
    BY <2>2, <2>3, <2>4
<1>4. HistoryTypes'
  BY <1>1, <1>3, LongerFacts
<1>5. RecordTypes'
  <2>1. NoContext \in ContextRecords
    BY DEF NoContext, ContextRecords
  <2>2. carried' \in ContextRecords
    BY <1>3, <2>1 DEF Ended
  <2> QED
    BY <1>1, <2>2 DEF RecordTypes
<1>6. CheckpointInv'
  BY <1>1, <1>3, LongerCheckpoint
<1>7. CarriedInv'
  <2>1. Sound(carried)
    BY <1>1 DEF CarriedInv
  <2>2. Sound(context)'
    BY <1>1, <1>3, <2>1, LongerSound
  <2>3. CASE pooled' \/ exchange' # "none"
    <3>1. carried' = context
      BY <1>1, <1>3, <2>3 DEF Ended
    <3> QED
      BY <2>2, <3>1 DEF CarriedInv, Sound, Remembers
  <2> QED
    BY <2>3 DEF CarriedInv
<1>8. CompactionInv'
  BY <1>3 DEF CompactionInv
<1> QED
  BY <1>4, <1>5, <1>6, <1>7, <1>8

\* Nothing that is sound is lost as long as the history stays as it is.
LEMMA SameSound ==
    ASSUME NEW c, Sound(c), UNCHANGED history,
           Kept' \subseteq Kept, Excluded' \cap Remembers(c) = {}
    PROVE  Sound(c)'
BY DEF Sound, Remembers

\* A compaction, from the messages that it takes to the summary of them.
LEMMA CompactionStep ==
    ASSUME HistoryInv,
           (\E keep \in 1 .. KeepExchanges : Summarise(keep)) \/ Summarised \/ NotSummarised
    PROVE  HistoryInv'
<1> USE DEF HistoryInv
<1>1. UNCHANGED <<history, excluded, late, pooled>>
  BY DEF Summarise, Summarised, NotSummarised
<1>2. /\ Kept' = Kept /\ Excluded' = Excluded /\ HistoryTypes'
      /\ exchange' \in {"running", "compacting"} /\ exchange # "none"
      /\ \A c : Sound(c) => Sound(c)'
  <2>1. Kept' = Kept /\ Excluded' = Excluded /\ HistoryTypes'
    BY <1>1 DEF Kept, Excluded, Evented, Remaining, HistoryTypes
  <2>2. exchange' \in {"running", "compacting"} /\ exchange # "none"
    BY DEF Summarise, Summarised, NotSummarised
  <2> QED
    BY <1>1, <2>1, <2>2 DEF Sound, Remembers
<1>3. Sound(carried)
  BY <1>2 DEF CarriedInv
<1>4. Raw' = Raw /\ Evented' = Evented
  BY <1>1 DEF Raw, Evented, Remaining
<1>5. ASSUME NEW keep \in 1 .. KeepExchanges, Summarise(keep)
      PROVE  HistoryInv'
  <2>1. PICK m \in UserMessages :
           compaction' =
                [result |-> [carried EXCEPT !.summary = @ \cup {k \in carried.rest : k < m},
                                            !.rest = {k \in @ : k >= m}],
                 prepared |-> Prepared(m)]
    BY <1>5 DEF Summarise
  <2>2. UNCHANGED <<checkpoint, carried>> /\ exchange' = "compacting"
    BY <1>5 DEF Summarise
  <2> DEFINE r == compaction'.result
             p == compaction'.prepared
  <2>3. carried \in ContextRecords /\ m \in carried.rest
    BY DEF RecordTypes, UserMessages
  <2>4. /\ r \in ContextRecords
        /\ r.summary = carried.summary \cup {k \in carried.rest : k < m}
        /\ r.rest = {k \in carried.rest : k >= m}
    BY <2>1, <2>3 DEF ContextRecords
  <2>5. p = Prepared(m) /\ compaction' = [result |-> r, prepared |-> p]
    BY <2>1
  <2>6. carried.rest \subseteq Nat /\ carried.summary \subseteq Nat /\ m \in Nat
    BY <2>3 DEF ContextRecords
  <2>7. Remembers(r) = Remembers(carried)
    <3>1. carried.rest = {k \in carried.rest : k < m} \cup {k \in carried.rest : k >= m}
      BY <2>6
    <3> QED
      BY <2>4, <3>1 DEF Remembers
  <2>8. Sound(r)
    <3>1. r.summary \subseteq DOMAIN history /\ r.rest \subseteq DOMAIN history
      BY <1>3, <2>4 DEF Sound
    <3>2. \A a \in r.summary, b \in r.rest : a < b
      BY <1>3, <2>3, <2>4, <2>6 DEF Sound
    <3> QED
      BY <1>3, <2>7, <3>1, <3>2 DEF Sound
  <2>9. p \in CheckpointRecords /\ (p # NoCheckpoint => p.resume = m)
    <3>1. Raw \subseteq Nat
      BY HistoryDomain, KeptIsRaw DEF Remaining
    <3>2. RawBefore(m) \in SUBSET Nat
      BY <3>1 DEF RawBefore
    <3> QED
      BY <2>5, <2>6, <3>2 DEF Prepared, NoCheckpoint, CheckpointRecords
  <2>10. Covers(p, r.summary) \/ p = NoCheckpoint
    <3> SUFFICES ASSUME p.resume = m PROVE Covers(p, r.summary)
      BY <2>9
    <3>1. \A k \in r.summary : k < m
      BY <1>3, <2>3, <2>4 DEF Sound
    <3>2. \A k \in Kept : k < m => k \in r.summary
      <4>1. \A k \in Kept : k \in carried.summary \/ k \in carried.rest
        BY <1>3 DEF Sound, Remembers
      <4> QED
        BY <2>4, <4>1
    <3> HIDE DEF p, r
    <3> QED
      BY <3>1, <3>2 DEF Covers
  <2>11. m \in DOMAIN history
    BY <1>3, <2>3 DEF Sound
  <2> HIDE DEF p, r
  <2>12. RecordTypes'
    BY <2>2, <2>4, <2>5, <2>9 DEF RecordTypes
  <2>13. compaction'.result = r /\ compaction'.prepared = p
    BY DEF p, r
  <2>14. CompactionInv'
    BY <1>1, <1>2, <2>8, <2>9, <2>10, <2>11, <2>13 DEF CompactionInv, Covers
  <2>15. CheckpointInv'
    BY <1>1, <1>2, <2>2 DEF CheckpointInv, Covers
  <2>16. CarriedInv'
    BY <1>2, <1>3, <2>2 DEF CarriedInv
  <2> QED
    BY <1>2, <2>12, <2>14, <2>15, <2>16
<1>6. CASE NotSummarised
  <2>1. UNCHANGED <<checkpoint, carried>> /\ exchange' = "running" /\ compaction' = NoCompaction
    BY <1>6 DEF NotSummarised
  <2>2. RecordTypes'
    BY <2>1 DEF RecordTypes, NoCompaction, NoContext, NoCheckpoint, ContextRecords,
                CheckpointRecords
  <2>3. CheckpointInv'
    BY <1>1, <1>2, <2>1 DEF CheckpointInv, Covers
  <2>4. CarriedInv' /\ CompactionInv'
    BY <1>2, <1>3, <2>1 DEF CarriedInv, CompactionInv
  <2> QED
    BY <1>2, <2>2, <2>3, <2>4
<1>7. CASE Summarised
  <2> DEFINE c == compaction.prepared
             r == compaction.result
  <2>1. exchange' = "running" /\ compaction' = NoCompaction /\ exchange = "compacting"
    BY <1>7 DEF Summarised
  <2>2. NoCompaction \in [result : ContextRecords, prepared : CheckpointRecords]
    BY DEF NoCompaction, NoContext, NoCheckpoint, ContextRecords, CheckpointRecords
  <2>3. Sound(r) /\ r \in ContextRecords /\ c \in CheckpointRecords
    BY <2>1 DEF CompactionInv, RecordTypes
  <2>4. CASE c # NoCheckpoint /\ Prepared(c.resume) # c
    <3>1. UNCHANGED <<checkpoint, carried>>
      BY <1>7, <2>4 DEF Summarised
    <3>2. RecordTypes'
      BY <2>1, <2>2, <3>1 DEF RecordTypes
    <3>3. CheckpointInv'
      BY <1>1, <1>2, <3>1 DEF CheckpointInv, Covers
    <3>4. CarriedInv' /\ CompactionInv'
      BY <1>2, <1>3, <2>1, <3>1 DEF CarriedInv, CompactionInv
    <3> QED
      BY <1>2, <3>2, <3>3, <3>4
  <2>5. CASE ~(c # NoCheckpoint /\ Prepared(c.resume) # c)
    <3>1. /\ carried' = r
          /\ checkpoint' = IF c.resume \in Evented
                           THEN [c EXCEPT !.summary = r.summary]
                           ELSE checkpoint
      BY <1>7, <2>5 DEF Summarised
    <3>2. CarriedInv' /\ CompactionInv'
      BY <1>2, <2>1, <2>3, <3>1 DEF CarriedInv, CompactionInv
    <3>3. RecordTypes'
      BY <2>1, <2>2, <2>3, <3>1 DEF RecordTypes, ContextRecords, CheckpointRecords
    <3>4. CASE c.resume \notin Evented
      <4>1. checkpoint' = checkpoint
        BY <3>1, <3>4
      <4> QED
        BY <1>1, <1>2, <3>2, <3>3, <4>1 DEF CheckpointInv, Covers
    <3>5. CASE c.resume \in Evented
      <4>1. c # NoCheckpoint
        BY <3>5, HistoryDomain DEF NoCheckpoint, Evented
      <4>2. c = Prepared(c.resume)
        BY <2>5, <4>1
      <4>3. c.resume \in Raw /\ c.prefix = RawBefore(c.resume)
        <5>1. Prepared(c.resume) # NoCheckpoint
          BY <4>1, <4>2
        <5>2. /\ c.resume \in Raw
              /\ Prepared(c.resume) = [resume |-> c.resume, prefix |-> RawBefore(c.resume),
                                       summary |-> {}]
          BY <5>1 DEF Prepared
        <5> HIDE DEF c
        <5> QED
          BY <4>2, <5>2
      <4>4. Raw = Remaining
        BY <3>5, <4>3, KeptIsRaw DEF Raw
      <4>5. /\ checkpoint'.resume = c.resume
            /\ checkpoint'.prefix = c.prefix
            /\ checkpoint'.summary = r.summary
        BY <2>3, <3>1, <3>5 DEF CheckpointRecords
      <4>6. c.resume \in DOMAIN history /\ Covers(c, r.summary)
        BY <2>1, <4>1 DEF CompactionInv
      <4>7. r.summary \subseteq DOMAIN history
        BY <2>3 DEF Sound
      <4> HIDE DEF c, r
      <4>8. ASSUME NEW m \in r.summary
            PROVE  history[m].saved = "nowhere" \/ m \in c.prefix \/ m \in late
        <5>1. m \in DOMAIN history /\ m < c.resume
          BY <4>6, <4>7 DEF Covers
        <5>2. m \in excluded => m \in late
          BY <2>3 DEF Sound, Remembers, Excluded
        <5>3. m \in Remaining => m \in c.prefix
          BY <4>3, <4>4, <5>1 DEF RawBefore
        <5> QED
          BY <5>1, <5>2, <5>3 DEF Remaining
      <4>9. CheckpointInv'
        BY <1>1, <1>2, <4>5, <4>6, <4>7, <4>8 DEF CheckpointInv, Covers
      <4> QED
        BY <1>2, <3>2, <3>3, <4>9
    <3> QED
      BY <3>4, <3>5
  <2> QED
    BY <2>4, <2>5
<1> QED
  BY <1>5, <1>6, <1>7

\* A turn begins, with the loop at hand or a restored one, or ends early.
LEMMA TurnStep ==
    ASSUME HistoryInv, BeginTurn \/ EndUnanswered
    PROVE  HistoryInv'
<1> USE DEF HistoryInv
<1>1. UNCHANGED <<history, excluded, late, checkpoint>>
  BY DEF BeginTurn, EndUnanswered
<1>2. /\ Kept' = Kept /\ Excluded' = Excluded /\ HistoryTypes'
      /\ \A c : Sound(c) => Sound(c)'
  <2>1. Kept' = Kept /\ Excluded' = Excluded /\ HistoryTypes'
    BY <1>1 DEF Kept, Excluded, Evented, Remaining, HistoryTypes
  <2> QED
    BY <1>1, <2>1 DEF Sound, Remembers
<1>3. CheckpointInv'
  BY <1>1, <1>2 DEF CheckpointInv, Covers
<1>4. CASE BeginTurn
  <2>1. /\ carried' = IF pooled THEN carried ELSE RestoredContext
        /\ exchange' = "opened" /\ compaction' = compaction
    BY <1>4 DEF BeginTurn
  <2>2. Sound(carried')
    BY <2>1, RestoredSound DEF CarriedInv
  <2>3. RestoredContext \in ContextRecords
    <3>1. Raw \subseteq Nat
      BY HistoryDomain, KeptIsRaw DEF Remaining
    <3>2. RawFrom(checkpoint.resume) \subseteq Nat
      BY <3>1 DEF RawFrom
    <3>3. checkpoint.summary \subseteq Nat
      BY DEF RecordTypes, CheckpointRecords
    <3> QED
      BY <3>1, <3>2, <3>3 DEF RestoredContext, NoContext, ContextRecords
  <2>4. RecordTypes'
    BY <1>1, <2>1, <2>3 DEF RecordTypes
  <2>5. CarriedInv' /\ CompactionInv'
    BY <1>2, <2>1, <2>2 DEF CarriedInv, CompactionInv
  <2> QED
    BY <1>2, <1>3, <2>4, <2>5
<1>5. CASE EndUnanswered
  <2>1. /\ carried' = Ended(carried) /\ compaction' = NoCompaction
        /\ exchange' = "none" /\ exchange # "none" /\ pooled' = pooled
    BY <1>5 DEF EndUnanswered
  <2>2. NoContext \in ContextRecords /\ NoCheckpoint \in CheckpointRecords
    BY DEF NoContext, NoCheckpoint, ContextRecords, CheckpointRecords
  <2>3. RecordTypes'
    BY <1>1, <2>1, <2>2 DEF RecordTypes, Ended, NoCompaction
  <2>4. Sound(carried)
    BY <2>1 DEF CarriedInv
  <2>5. CarriedInv' /\ CompactionInv'
    BY <1>2, <2>1, <2>4 DEF CarriedInv, CompactionInv, Ended
  <2> QED
    BY <1>2, <1>3, <2>3, <2>5
<1> QED
  BY <1>4, <1>5

\* An exclusion, and what else drops the loops.
LEMMA DropStep ==
    ASSUME HistoryInv, (\E m \in Remaining : Exclude(m)) \/ Clear \/ Restart
    PROVE  HistoryInv'
<1> USE DEF HistoryInv
<1>1. UNCHANGED <<history, checkpoint>> /\ pooled' = FALSE
  BY DEF Exclude, Clear, Restart, Dropped
<1>2. /\ excluded \subseteq excluded' /\ late \subseteq late'
      /\ excluded' \subseteq excluded \cup Remaining
      /\ exchange' # "none" =>
            /\ exchange' = exchange /\ exchange # "none"
            /\ UNCHANGED <<carried, compaction>> /\ Excluded' \subseteq Excluded
  BY DEF Exclude, Clear, Restart, Dropped, Excluded
<1>3. HistoryTypes'
  BY <1>1, <1>2 DEF HistoryTypes, Remaining
<1>4. Kept' \subseteq Kept
  BY <1>1, <1>2 DEF Kept, Evented, Remaining
<1>5. CheckpointInv'
  BY <1>1, <1>2, <1>4 DEF CheckpointInv, Covers
<1>6. RecordTypes'
  <2>1. NoContext \in ContextRecords /\ NoCheckpoint \in CheckpointRecords
    BY DEF NoContext, NoCheckpoint, ContextRecords, CheckpointRecords
  <2>2. carried' \in {carried, NoContext} /\ compaction' \in {compaction, NoCompaction}
    BY DEF Exclude, Clear, Restart, Dropped
  <2> QED
    BY <1>1, <2>1, <2>2 DEF RecordTypes, NoCompaction
<1>7. ASSUME exchange' # "none", NEW c, Sound(c)
      PROVE  Sound(c)'
  BY <1>1, <1>2, <1>4, <1>7 DEF Sound, Remembers
<1>8. CarriedInv'
  BY <1>1, <1>2, <1>7 DEF CarriedInv
<1>9. CompactionInv'
  BY <1>1, <1>2, <1>4, <1>7 DEF CompactionInv, Covers
<1> QED
  BY <1>3, <1>5, <1>6, <1>8, <1>9

\* The checkpoint and the loop at hand are about the durable history, through turns,
\* compactions, exclusions, failed writes and restarts.
THEOREM HistoryInvariant == HistorySpec => []HistoryInv
<1>1. HistoryInv /\ UNCHANGED historyVars => HistoryInv'
  BY DEF HistoryInv, HistoryTypes, RecordTypes, CheckpointInv, Covers, CarriedInv,
         CompactionInv, Sound, Kept, Excluded, Evented, Remaining, Remembers, historyVars
<1>2. HistoryInv /\ [HistoryNext]_historyVars => HistoryInv'
  BY <1>1, MessageStep, CompactionStep, TurnStep, DropStep DEF HistoryNext
<1> QED
  BY <1>2, HistoryInitInv, PTL DEF HistorySpec

\* Each context that a turn can begin with, at hand or restored, is sound.
LEMMA ContextsSound ==
    ASSUME HistoryInv, NEW c \in Contexts
    PROVE  Sound(c)
BY RestoredSound DEF HistoryInv, CarriedInv, Contexts

\* No message that a context took and that is not excluded is lost to the contexts:
\* compaction and checkpoint together leave out nothing of the durable history.
THEOREM HistorySound == HistorySpec => []HistoryIsKept
<1>1. HistoryInv => HistoryIsKept
  BY ContextsSound DEF HistoryIsKept, Sound, Kept
<1> QED
  BY <1>1, HistoryInvariant, PTL

\* No context holds a message that was excluded between turns, neither itself nor in
\* a summary that was made before.
THEOREM ExclusionsSound == HistorySpec => []ExclusionsHold
<1>1. HistoryInv => ExclusionsHold
  BY ContextsSound DEF ExclusionsHold, Sound, Excluded
<1> QED
  BY <1>1, HistoryInvariant, PTL

-----------------------------------------------------------------------------
(***************************************************************************)
(* The files of the database.                                              *)
(***************************************************************************)

\* The types of the files, and of what a command does to them.
Files == [version : {-1} \cup Nat, facts : SUBSET Facts, seal : Nat]
Pairs == [db : Files, rollback : Files]
Doings == [cmd : {"none", "serve", "encrypt", "restore"},
           at : {"", "copy", "migrate", "run", "key", "choose", "aside", "replace", "verify",
                 "remove", "copy back"},
           path : Paths, seal : Nat]

\* The types of the paths, the keys and the command that runs.
DatabaseTypes ==
    /\ dir \in [Paths -> Pairs]
    /\ key \in Nat /\ keys \in Nat
    /\ doing \in Doings
    /\ archive.dir \in [Paths -> Pairs]
    /\ recorded \subseteq Facts
    /\ strayed \in BOOLEAN

\* A snapshot's plaintext is under the hidden name while its conversion is between the
\* renames, and when the process has ended there.
HiddenInv ==
    \A p \in Snapshots :
       /\ IsPlain(dir[p].rollback) =>
             p \in cut \/ (doing.at \in {"replace", "verify"} /\ doing.path = p)
       /\ IsPlain(archive.dir[p].rollback) => p \in cut

\* What a command relies on, from one of its steps to the next.
OpeningInv ==
    /\ doing.at \in {"copy", "migrate", "run"} =>
          Opens(LiveFile) /\ doing.seal \in {Unsealed, key}
    /\ doing.cmd = "encrypt" => doing.seal = Unsealed

\* Between the renames of an encryption the plain file is there, set aside or still in
\* its place, and the live database comes after all its snapshots.
SealingInv ==
    /\ doing.at = "aside" => IsPlain(dir[doing.path].db)
    /\ doing.at = "replace" =>
          dir[doing.path].db = NoFile /\ IsPlain(dir[doing.path].rollback)
    /\ doing.at = "verify" =>
          /\ IsPlain(dir[doing.path].rollback)
          /\ dir[doing.path].db = [dir[doing.path].rollback EXCEPT !.seal = key]
    /\ doing.at \in {"aside", "replace", "verify"} /\ doing.path = Live
          => PlainSnapshots = {}

\* While a restore copies the archive back, what was recorded counts as set aside.
RestoringInv == doing.at = "copy back" => strayed \/ recorded = {}

\* The inductive invariant of the files.
DatabaseInv == DatabaseTypes /\ OpeningInv /\ SealingInv /\ RestoringInv /\ RecordsAreKept

\* The paths, and the empty values of the records.
LEMMA FileFacts ==
    /\ Live \in Paths /\ Snapshots \subseteq Paths /\ Live \notin Snapshots
    /\ NoFile \in Files /\ Blank \in Files /\ NoPair \in Pairs /\ Idle \in Doings
    /\ NoArchive.dir = [p \in Paths |-> NoPair]
<1>1. Live \in Paths /\ Snapshots \subseteq Paths /\ Live \notin Snapshots
  BY DEF Live, Paths, Snapshots
<1>2. NoFile \in Files /\ Blank \in Files
  BY DEF NoFile, Blank, Files, Unsealed
<1>3. NoPair \in Pairs
  BY <1>2 DEF NoPair, Pairs
<1>4. Idle \in Doings
  BY <1>1 DEF Idle, Doings, Unsealed
<1> QED
  BY <1>1, <1>2, <1>3, <1>4 DEF NoArchive

\* Before the first command, there is no file.
LEMMA DatabaseInitInv == DatabaseInit => DatabaseInv
<1> SUFFICES ASSUME DatabaseInit PROVE DatabaseInv
  OBVIOUS
<1>1. DatabaseTypes
  BY FileFacts DEF DatabaseInit, DatabaseTypes, Unsealed
<1>2. OpeningInv /\ SealingInv /\ RestoringInv /\ RecordsAreKept
  BY DEF DatabaseInit, OpeningInv, SealingInv, RestoringInv, RecordsAreKept, Idle
<1> QED
  BY <1>1, <1>2 DEF DatabaseInv

\* What opens the database is not lost when a key is created.
LEMMA KeyCreatedFacts ==
    ASSUME DatabaseTypes, KeyCreated
    PROVE  key' \in Nat /\ keys' \in Nat /\ (key # Unsealed => key' = key)
BY DEF KeyCreated, DatabaseTypes

\* The server, or the encryption, opens the database.
LEMMA OpenStep ==
    ASSUME DatabaseInv, StartDatabase \/ BeginEncryption
    PROVE  DatabaseInv'
<1> USE DEF DatabaseInv
<1>1. LiveFile \in Files
  BY FileFacts DEF DatabaseTypes, Pairs, LiveFile
<1>2. ASSUME NEW m \in {"auto", "off", "sqlcipher"} \cup {mode}, NEW cmd \in {"serve", "encrypt"},
             cmd = "encrypt" => m = "off", OpenDatabase(m, cmd)
      PROVE  DatabaseInv'
  <2> DEFINE fresh == LiveFile.version <= 0
             seals == fresh /\ m = "sqlcipher"
  <2>1. /\ IF seals THEN KeyCreated ELSE UNCHANGED <<key, keys>>
        /\ dir' = IF fresh THEN [dir EXCEPT ![Live].db = Blank] ELSE dir
        /\ strayed' = (strayed \/ (fresh /\ recorded # {}))
        /\ doing' = [Idle EXCEPT
                      !.cmd = cmd, !.seal = IF seals THEN key' ELSE Unsealed,
                      !.at = IF /\ LiveFile # NoFile \/ cmd = "encrypt"
                                /\ LiveFile.version < release
                             THEN "copy" ELSE "migrate"]
        /\ UNCHANGED <<mode, release, archive, recorded>>
    BY <1>2 DEF OpenDatabase
  <2>2. key' \in Nat /\ keys' \in Nat /\ (key # Unsealed => key' = key)
    BY <2>1, KeyCreatedFacts DEF DatabaseTypes
  <2>3. dir' \in [Paths -> Pairs]
    BY <2>1, FileFacts DEF DatabaseTypes, Pairs
  <2>4. /\ doing'.cmd = cmd /\ doing'.at \in {"copy", "migrate"} /\ doing'.path = Live
        /\ doing'.seal = IF seals THEN key' ELSE Unsealed
        /\ doing' \in Doings
    BY <2>1, <2>2, FileFacts DEF Idle, Doings, Unsealed
  <2>5. DatabaseTypes'
    BY <2>1, <2>2, <2>3, <2>4 DEF DatabaseTypes
  <2>6. LiveFile' = IF fresh THEN Blank ELSE LiveFile
    BY <2>1, FileFacts DEF DatabaseTypes, Pairs, LiveFile
  <2>7. Opens(LiveFile)'
    <3>1. CASE fresh
      <4>1. Blank # NoFile /\ Blank.seal = Unsealed
        BY DEF Blank, NoFile
      <4> QED
        BY <2>6, <3>1, <4>1 DEF Opens
    <3>2. CASE ~fresh
      <4>1. MayConnect(m) /\ key' = key /\ LiveFile' = LiveFile
        BY <1>2, <2>1, <2>6, <3>2 DEF OpenDatabase
      <4>2. LiveFile # NoFile
        BY <3>2 DEF NoFile
      <4>3. Opens(LiveFile)
        BY <4>1, <4>2 DEF MayConnect, IsSealed, Opens
      <4> QED
        BY <4>1, <4>3 DEF Opens
    <3> QED
      BY <3>1, <3>2
  <2>8. OpeningInv'
    <3>1. doing'.seal \in {Unsealed, key'}
      BY <2>4
    <3>2. cmd = "encrypt" => ~seals
      BY <1>2
    <3> QED
      BY <2>4, <2>7, <3>1, <3>2 DEF OpeningInv
  <2>9. SealingInv' /\ RestoringInv'
    BY <2>4 DEF SealingInv, RestoringInv
  <2>10. RecordsAreKept'
    <3>1. CASE fresh
      BY <2>1, <3>1 DEF RecordsAreKept
    <3>2. CASE ~fresh
      <4>1. UNCHANGED <<dir, key, recorded, strayed>>
        BY <2>1, <3>2 DEF DatabaseTypes
      <4> QED
        BY <4>1 DEF RecordsAreKept, Holds, Opens, LiveFile
    <3> QED
      BY <3>1, <3>2
  <2> QED
    BY <2>5, <2>8, <2>9, <2>10
<1>3. CASE StartDatabase
  BY <1>2, <1>3 DEF StartDatabase
<1>4. CASE BeginEncryption
  <2>1. CASE IsSealed(LiveFile)
    <3>1. /\ doing' = [Idle EXCEPT !.cmd = "encrypt", !.at = "choose"]
          /\ UNCHANGED <<dir, key, keys, archive, recorded, strayed>>
      BY <1>4, <2>1 DEF BeginEncryption
    <3>2. doing' \in Doings /\ doing'.at = "choose" /\ doing'.seal = Unsealed
      BY <3>1, FileFacts DEF Idle, Doings
    <3> QED
      BY <3>1, <3>2 DEF DatabaseTypes, OpeningInv, SealingInv, RestoringInv, RecordsAreKept,
                        Holds, Opens, LiveFile
  <2>2. CASE ~IsSealed(LiveFile)
    BY <1>2, <1>4, <2>2 DEF BeginEncryption
  <2> QED
    BY <2>1, <2>2
<1> QED
  BY <1>3, <1>4

\* A step that leaves the files, the key and the record alone leaves the files' facts.
LEMMA SameFiles ==
    ASSUME UNCHANGED <<dir, key, recorded, strayed>>
    PROVE  /\ RecordsAreKept' = RecordsAreKept
           /\ Opens(LiveFile)' = Opens(LiveFile)
           /\ PlainSnapshots' = PlainSnapshots
BY DEF RecordsAreKept, Holds, Opens, LiveFile, PlainSnapshots, IsPlain

\* The steps that leave the files alone.
LEMMA QuietStep ==
    ASSUME DatabaseInv,
           \/ InstallRelease \/ Opened \/ OpenFails \/ StopDatabase \/ ExportSealed \/ Encrypted
           \/ ExportArchive \/ BeginRestore \/ Removed \/ Interrupt \/ UNCHANGED databaseVars
    PROVE  DatabaseInv'
<1> USE DEF DatabaseInv
<1>1. UNCHANGED <<dir, key, keys, recorded, strayed>>
  BY DEF InstallRelease, Opened, OpenFails, StopDatabase, ExportSealed, Encrypted, ExportArchive,
         BeginRestore, Removed, Interrupt, databaseVars
<1>2. RecordsAreKept'
  BY <1>1, SameFiles
<1>3. Idle \in Doings /\ Idle.at = "" /\ Idle.cmd = "none" /\ Idle.seal = Unsealed
  BY FileFacts DEF Idle
<1>4. ASSUME doing' \in {doing, Idle}, archive'.dir \in {archive.dir, dir}
      PROVE  DatabaseInv'
  <2>1. DatabaseTypes'
    BY <1>1, <1>3, <1>4 DEF DatabaseTypes
  <2>2. CASE doing' = doing
    BY <1>1, <1>2, <2>1, <2>2, SameFiles DEF OpeningInv, SealingInv, RestoringInv
  <2>3. CASE doing' = Idle
    BY <1>2, <1>3, <2>1, <2>3 DEF OpeningInv, SealingInv, RestoringInv
  <2> QED
    BY <1>4, <2>2, <2>3
<1>5. CASE \/ InstallRelease \/ OpenFails \/ StopDatabase \/ Encrypted \/ ExportArchive
           \/ Interrupt \/ UNCHANGED databaseVars
  <2>1. doing' \in {doing, Idle}
    BY <1>5 DEF InstallRelease, OpenFails, StopDatabase, Encrypted, ExportArchive, Interrupt,
                databaseVars
  <2>2. archive'.dir \in {archive.dir, dir}
    BY <1>5 DEF InstallRelease, OpenFails, StopDatabase, Encrypted, ExportArchive, Interrupt,
                databaseVars
  <2> QED
    BY <1>4, <2>1, <2>2
<1>6. CASE Opened
  <2>1. /\ doing.at = "migrate" /\ archive' = archive
        /\ doing' = [doing EXCEPT !.at = IF doing.cmd = "serve" THEN "run" ELSE "key",
                                  !.seal = Unsealed]
    BY <1>6 DEF Opened
  <2>2. doing' \in Doings /\ doing'.at \in {"run", "key"} /\ doing'.seal = Unsealed
    BY <2>1 DEF DatabaseTypes, Doings, Unsealed
  <2>3. DatabaseTypes'
    BY <1>1, <2>1, <2>2 DEF DatabaseTypes
  <2>4. Opens(LiveFile)'
    BY <1>1, <2>1, SameFiles DEF OpeningInv
  <2> QED
    BY <1>2, <2>2, <2>3, <2>4 DEF OpeningInv, SealingInv, RestoringInv
<1>7. CASE ExportSealed
  <2>1. PICK p \in NextToSeal : doing' = [doing EXCEPT !.at = "aside", !.path = p]
    BY <1>7 DEF ExportSealed
  <2>2. /\ doing.cmd = "encrypt" /\ archive' = archive
    BY <1>7 DEF ExportSealed, At
  <2>3. p \in Paths /\ IsPlain(dir[p].db) /\ (p = Live => PlainSnapshots = {})
    BY <2>1, FileFacts DEF NextToSeal, PlainSnapshots, LiveFile
  <2>4. /\ doing' \in Doings /\ doing'.at = "aside" /\ doing'.path = p
        /\ doing'.seal = Unsealed
    BY <2>1, <2>2, <2>3 DEF DatabaseTypes, Doings, OpeningInv
  <2>5. DatabaseTypes'
    BY <1>1, <2>2, <2>4 DEF DatabaseTypes
  <2>6. SealingInv'
    <3>1. dir' = dir
      BY <1>1
    <3>2. IsPlain(dir[p].db)' /\ (p = Live => (PlainSnapshots = {})')
      BY <2>3, <3>1 DEF IsPlain, PlainSnapshots
    <3> QED
      BY <2>4, <3>2 DEF SealingInv
  <2> QED
    BY <1>2, <2>4, <2>5, <2>6 DEF OpeningInv, RestoringInv
<1>8. CASE BeginRestore
  <2>1. doing' = [Idle EXCEPT !.cmd = "restore", !.at = "remove"] /\ archive' = archive
    BY <1>8 DEF BeginRestore
  <2>2. doing' \in Doings /\ doing'.at = "remove" /\ doing'.cmd = "restore"
    BY <2>1, FileFacts DEF Idle, Doings, Unsealed
  <2> QED
    BY <1>1, <1>2, <2>1, <2>2 DEF DatabaseTypes, OpeningInv, SealingInv, RestoringInv
<1>9. CASE Removed
  <2>1. /\ doing.cmd = "restore" /\ dir = NoArchive.dir /\ doing' = Step("copy back")
        /\ archive' = archive
    BY <1>9 DEF Removed, At
  <2>2. doing' \in Doings /\ doing'.at = "copy back" /\ doing'.cmd = "restore"
    BY <2>1 DEF Step, DatabaseTypes, Doings
  <2>3. dir[Live] = NoPair
    BY <2>1, FileFacts
  <2>4. strayed \/ recorded = {}
    BY <2>3 DEF RecordsAreKept, Holds, Opens, LiveFile, NoPair
  <2> QED
    BY <1>1, <1>2, <2>1, <2>2, <2>4 DEF DatabaseTypes, OpeningInv, SealingInv, RestoringInv
<1> QED
  BY <1>5, <1>6, <1>7, <1>8, <1>9

\* The server's steps on its database, and the key that the encryption takes.
LEMMA ServeStep ==
    ASSUME DatabaseInv,
           TakeSnapshot \/ MigrateOne \/ (\E f \in Facts : RecordFact(f)) \/ TakeKey
    PROVE  DatabaseInv'
<1> USE DEF DatabaseInv
<1>1. CASE TakeSnapshot
  <2>1. PICK p \in FreeSnapshots : dir' = [dir EXCEPT ![p].db = LiveFile]
    BY <1>1 DEF TakeSnapshot
  <2>2. /\ doing.at = "copy" /\ doing' = Step("migrate")
        /\ UNCHANGED <<key, keys, archive, recorded, strayed>>
    BY <1>1 DEF TakeSnapshot
  <2>3. p \in Paths /\ p # Live
    BY FileFacts DEF FreeSnapshots
  <2>4. LiveFile \in Files
    BY FileFacts DEF DatabaseTypes, Pairs, LiveFile
  <2>5. dir' \in [Paths -> Pairs] /\ dir'[Live] = dir[Live]
    BY <2>1, <2>3, <2>4, FileFacts DEF DatabaseTypes, Pairs
  <2>6. doing' \in Doings /\ doing'.at = "migrate" /\ doing'.cmd = doing.cmd
        /\ doing'.seal = doing.seal
    BY <2>2 DEF Step, DatabaseTypes, Doings
  <2>7. DatabaseTypes'
    BY <2>2, <2>5, <2>6 DEF DatabaseTypes
  <2>8. OpeningInv' /\ RecordsAreKept'
    BY <2>2, <2>5, <2>6 DEF OpeningInv, RecordsAreKept, Holds, Opens, LiveFile
  <2> QED
    BY <2>6, <2>7, <2>8 DEF SealingInv, RestoringInv
<1>2. CASE MigrateOne
  <2> DEFINE file == [version |-> LiveFile.version + 1, facts |-> LiveFile.facts,
                      seal |-> IF LiveFile = Blank THEN doing.seal ELSE LiveFile.seal]
  <2>1. /\ doing.at = "migrate"
        /\ dir' = [dir EXCEPT ![Live].db.version = @ + 1,
                              ![Live].db.seal = IF LiveFile = Blank THEN doing.seal ELSE @]
        /\ UNCHANGED <<key, keys, doing, archive, recorded, strayed>>
    BY <1>2 DEF MigrateOne
  <2>2. LiveFile \in Files /\ doing.seal \in Nat
    BY FileFacts DEF DatabaseTypes, Pairs, LiveFile, Doings
  <2>3. file \in Files /\ file.facts = LiveFile.facts /\ file.version # -1
        /\ file.seal = IF LiveFile = Blank THEN doing.seal ELSE LiveFile.seal
    <3>1. LiveFile.version + 1 \in Nat
      BY <2>2 DEF Files
    <3>2. (IF LiveFile = Blank THEN doing.seal ELSE LiveFile.seal) \in Nat
      BY <2>2 DEF Files
    <3> QED
      BY <2>2, <3>1, <3>2 DEF Files
  <2>4. /\ LiveFile'.version = file.version
        /\ LiveFile'.facts = file.facts
        /\ LiveFile'.seal = file.seal
    BY <2>1, <2>2, FileFacts DEF DatabaseTypes, Pairs, LiveFile, Files
  <2>5. dir' \in [Paths -> Pairs] /\ LiveFile' = file
    <3>1. dir' \in [Paths -> Pairs]
      <4> DEFINE half == [dir EXCEPT ![Live].db.version = @ + 1]
                 sealing == IF LiveFile = Blank THEN doing.seal ELSE half[Live].db.seal
      <4>1. half \in [Paths -> Pairs]
        BY <2>2, <2>3, FileFacts DEF DatabaseTypes, Pairs, LiveFile, Files
      <4>2. sealing \in Nat
        BY <2>2, <4>1, FileFacts DEF Pairs, Files
      <4>3. dir' = [half EXCEPT ![Live].db.seal = sealing]
        BY <2>1
      <4> HIDE DEF half, sealing
      <4> QED
        BY <4>1, <4>2, <4>3, FileFacts DEF Pairs, Files
    <3>2. LiveFile' \in Files
      BY <3>1, FileFacts DEF LiveFile, Pairs
    <3> QED
      BY <2>3, <2>4, <3>1, <3>2 DEF Files
  <2>6. file # NoFile
    BY <2>3 DEF NoFile
  <2>7. Opens(LiveFile) /\ doing.seal \in {Unsealed, key}
    BY <2>1 DEF OpeningInv
  <2>8. Opens(LiveFile)'
    BY <2>1, <2>3, <2>5, <2>6, <2>7 DEF Opens
  <2>9. DatabaseTypes'
    BY <2>1, <2>5 DEF DatabaseTypes
  <2>10. OpeningInv' /\ SealingInv' /\ RestoringInv'
    BY <2>1, <2>8 DEF OpeningInv, SealingInv, RestoringInv
  <2>11. RecordsAreKept'
    <3>1. CASE strayed \/ recorded = {}
      BY <2>1, <3>1 DEF RecordsAreKept
    <3>2. CASE recorded \subseteq LiveFile.facts
      BY <2>1, <2>3, <2>5, <2>8, <3>2 DEF RecordsAreKept, Holds
    <3> QED
      BY <2>7, <3>1, <3>2 DEF RecordsAreKept, Holds, Opens
  <2> QED
    BY <2>9, <2>10, <2>11
<1>3. CASE \E f \in Facts : RecordFact(f)
  <2>1. PICK f \in Facts : RecordFact(f)
    BY <1>3
  <2>2. /\ doing.at = "run"
        /\ dir' = [dir EXCEPT ![Live].db.facts = @ \cup {f}]
        /\ recorded' = recorded \cup {f}
        /\ UNCHANGED <<key, keys, doing, archive, strayed>>
    BY <2>1 DEF RecordFact, At
  <2> DEFINE file == [LiveFile EXCEPT !.facts = @ \cup {f}]
  <2>3. LiveFile \in Files
    BY FileFacts DEF DatabaseTypes, Pairs, LiveFile
  <2>4. file \in Files /\ file.facts = LiveFile.facts \cup {f} /\ file.seal = LiveFile.seal
    BY <2>3 DEF Files
  <2>5. dir' = [dir EXCEPT ![Live].db = file]
    BY <2>2, FileFacts DEF DatabaseTypes, Pairs, LiveFile, Files
  <2>6. dir' \in [Paths -> Pairs] /\ LiveFile' = file
    BY <2>4, <2>5, FileFacts DEF DatabaseTypes, Pairs, LiveFile
  <2>7. Opens(LiveFile) /\ file # NoFile
    BY <2>2, <2>4 DEF OpeningInv, NoFile
  <2>8. Opens(LiveFile)'
    BY <2>2, <2>4, <2>6, <2>7 DEF Opens
  <2>9. DatabaseTypes'
    BY <2>2, <2>6 DEF DatabaseTypes
  <2>10. OpeningInv' /\ SealingInv' /\ RestoringInv'
    BY <2>2, <2>8 DEF OpeningInv, SealingInv, RestoringInv
  <2>11. RecordsAreKept'
    <3>1. CASE strayed
      BY <2>2, <3>1 DEF RecordsAreKept
    <3>2. CASE recorded \subseteq LiveFile.facts
      BY <2>2, <2>4, <2>6, <2>8, <3>2 DEF RecordsAreKept, Holds
    <3> QED
      BY <2>7, <3>1, <3>2 DEF RecordsAreKept, Holds, Opens
  <2> QED
    BY <2>9, <2>10, <2>11
<1>4. CASE TakeKey
  <2>1. /\ doing.at = "key" /\ doing.cmd = "encrypt" /\ KeyCreated /\ doing' = Step("choose")
        /\ UNCHANGED <<dir, archive, recorded, strayed>>
    BY <1>4 DEF TakeKey, At
  <2>2. key' \in Nat /\ keys' \in Nat /\ (key # Unsealed => key' = key)
    BY <2>1, KeyCreatedFacts
  <2>3. doing' \in Doings /\ doing'.at = "choose" /\ doing'.seal = doing.seal
    BY <2>1 DEF Step, DatabaseTypes, Doings
  <2>4. DatabaseTypes'
    BY <2>1, <2>2, <2>3 DEF DatabaseTypes
  <2>5. \A file : Opens(file) => Opens(file)'
    BY <2>2 DEF Opens
  <2>6. RecordsAreKept'
    BY <2>1, <2>5 DEF RecordsAreKept, Holds, LiveFile, Opens
  <2> QED
    BY <2>1, <2>3, <2>4, <2>6 DEF OpeningInv, SealingInv, RestoringInv
<1> QED
  BY <1>1, <1>2, <1>3, <1>4

\* What a step makes of the database and of its rollback at one path.
LEMMA PairEdits ==
    ASSUME dir \in [Paths -> Pairs], NEW p \in Paths, NEW x \in Files, NEW y \in Files
    PROVE  /\ [dir EXCEPT ![p].db = x]
              = [dir EXCEPT ![p] = [db |-> x, rollback |-> dir[p].rollback]]
           /\ [dir EXCEPT ![p].rollback = y]
              = [dir EXCEPT ![p] = [db |-> dir[p].db, rollback |-> y]]
           /\ PutBack(dir[p]) = [db |-> dir[p].rollback, rollback |-> NoFile]
<1> DEFINE pair == dir[p]
<1>1. pair \in Pairs /\ pair = [db |-> pair.db, rollback |-> pair.rollback]
  BY DEF Pairs
<1>2. /\ [pair EXCEPT !.db = x] = [db |-> x, rollback |-> pair.rollback]
      /\ [pair EXCEPT !.rollback = y] = [db |-> pair.db, rollback |-> y]
  <2> HIDE DEF pair
  <2>1. [pair EXCEPT !.db = x] = [db |-> x, rollback |-> pair.rollback]
    BY <1>1 DEF Pairs
  <2>2. [pair EXCEPT !.rollback = y] = [db |-> pair.db, rollback |-> y]
    BY <1>1 DEF Pairs
  <2> QED
    BY <2>1, <2>2
<1>3. PutBack(dir[p]) = [db |-> dir[p].rollback, rollback |-> NoFile]
  <2>1. [pair EXCEPT !.db = pair.rollback] = [db |-> pair.rollback, rollback |-> pair.rollback]
    <3> HIDE DEF pair
    <3> QED
      BY <1>1 DEF Pairs
  <2>2. [[db |-> pair.rollback, rollback |-> pair.rollback] EXCEPT !.rollback = NoFile]
        = [db |-> pair.rollback, rollback |-> NoFile]
    OBVIOUS
  <2> QED
    BY <2>1, <2>2 DEF PutBack
<1> QED
  BY <1>2, <1>3

\* The steps that encrypt a file: aside, replaced, verified, or put back.
LEMMA SealStep ==
    ASSUME DatabaseInv, SetAside \/ PutSealed \/ EncryptionFails \/ DropRollback
    PROVE  DatabaseInv'
<1> USE DEF DatabaseInv
<1> DEFINE pair == dir[doing.path]
<1>1. /\ doing.cmd = "encrypt" /\ doing.path \in Paths /\ doing.seal = Unsealed
      /\ pair \in Pairs /\ pair.db \in Files /\ pair.rollback \in Files
      /\ UNCHANGED <<key, keys, archive, recorded, strayed>>
  BY DEF SetAside, PutSealed, EncryptionFails, DropRollback, At, DatabaseTypes, Doings, Pairs,
         OpeningInv
<1>2. \A file : IsPlain(file) => Opens(file) /\ file # NoFile
  BY DEF IsPlain, Opens, NoFile
<1>3. ASSUME NEW new \in Pairs, dir' = [dir EXCEPT ![doing.path] = new]
      PROVE  /\ dir' \in [Paths -> Pairs] /\ dir'[doing.path] = new
             /\ doing.path = Live => PlainSnapshots' = PlainSnapshots
             /\ doing.path # Live => RecordsAreKept'
             /\ LiveFile' = IF doing.path = Live THEN new.db ELSE LiveFile
  <2>1. dir' \in [Paths -> Pairs] /\ dir'[doing.path] = new
        /\ \A p \in Paths : p # doing.path => dir'[p] = dir[p]
    BY <1>1, <1>3 DEF DatabaseTypes
  <2>2. doing.path = Live => PlainSnapshots' = PlainSnapshots
    BY <2>1, FileFacts DEF PlainSnapshots, IsPlain
  <2>3. doing.path # Live => RecordsAreKept'
    BY <1>1, <2>1, FileFacts DEF RecordsAreKept, Holds, Opens, LiveFile
  <2>4. LiveFile' = IF doing.path = Live THEN new.db ELSE LiveFile
    BY <2>1, FileFacts DEF LiveFile
  <2> QED
    BY <2>1, <2>2, <2>3, <2>4
<1>4. CASE SetAside
  <2> DEFINE new == [db |-> NoFile, rollback |-> pair.db]
  <2>1. /\ doing.at = "aside" /\ doing' = Step("replace")
        /\ dir' = [dir EXCEPT ![doing.path].rollback = dir[doing.path].db,
                              ![doing.path].db = NoFile]
    BY <1>4 DEF SetAside, At
  <2>2. new \in Pairs /\ IsPlain(pair.db)
    BY <1>1, <2>1, FileFacts DEF Pairs, SealingInv
  <2>3. dir' = [dir EXCEPT ![doing.path] = new]
    <3>1. dir \in [Paths -> Pairs] /\ NoFile \in Files
      BY FileFacts DEF DatabaseTypes
    <3>2. PICK p \in Paths : p = doing.path
      BY <1>1
    <3>3. dir[p].db \in Files /\ dir[p] \in Pairs
      BY <1>1, <3>2
    <3>4. dir' = [dir EXCEPT ![p].rollback = dir[p].db, ![p].db = NoFile]
      BY <2>1, <3>2
    <3>5. dir' = [dir EXCEPT ![p] = [db |-> NoFile, rollback |-> dir[p].db]]
      <4> DEFINE old == dir[p]
      <4>1. [[old EXCEPT !.rollback = old.db] EXCEPT !.db = NoFile]
            = [db |-> NoFile, rollback |-> old.db]
        <5>1. old \in Pairs /\ old.db \in Files
          BY <3>3
        <5> HIDE DEF old
        <5>2. [old EXCEPT !.rollback = old.db] = [db |-> old.db, rollback |-> old.db]
          BY <5>1 DEF Pairs
        <5>3. [[db |-> old.db, rollback |-> old.db] EXCEPT !.db = NoFile]
              = [db |-> NoFile, rollback |-> old.db]
          OBVIOUS
        <5> QED
          BY <5>2, <5>3
      <4> QED
        BY <3>1, <3>4, <4>1
    <3> QED
      BY <3>2, <3>5
  <2>4. doing' \in Doings /\ doing'.at = "replace" /\ doing'.cmd = "encrypt"
        /\ doing'.path = doing.path /\ doing'.seal = Unsealed
    BY <1>1, <2>1 DEF Step, DatabaseTypes, Doings
  <2>5. DatabaseTypes'
    BY <1>1, <1>3, <2>2, <2>3, <2>4 DEF DatabaseTypes
  <2>6. SealingInv'
    <3>1. dir'[doing'.path] = new /\ (doing'.path = Live => PlainSnapshots' = PlainSnapshots)
      BY <1>3, <2>2, <2>3, <2>4
    <3>2. doing.path = Live => PlainSnapshots = {}
      BY <2>1 DEF SealingInv
    <3> QED
      BY <2>2, <2>4, <3>1, <3>2 DEF SealingInv, IsPlain
  <2>7. RecordsAreKept'
    <3>1. CASE doing.path = Live
      <4>1. dir'[doing.path] = new
        BY <1>3, <2>2, <2>3
      <4>2. LiveFile = pair.db /\ LiveFile' = NoFile /\ dir'[Live].rollback = pair.db
        BY <3>1, <4>1 DEF LiveFile
      <4> QED
        BY <1>1, <1>2, <2>2, <4>2 DEF RecordsAreKept, Holds, Opens
    <3> QED
      BY <1>3, <2>2, <2>3, <3>1
  <2> QED
    BY <2>4, <2>5, <2>6, <2>7 DEF OpeningInv, RestoringInv
<1>5. CASE PutSealed
  <2> DEFINE sealed == [pair.rollback EXCEPT !.seal = key]
             new == [db |-> sealed, rollback |-> pair.rollback]
  <2>1. /\ doing.at = "replace" /\ doing' = Step("verify")
        /\ dir' = [dir EXCEPT ![doing.path].db = sealed]
    BY <1>5 DEF PutSealed, At
  <2>2. sealed \in Files /\ new \in Pairs /\ IsPlain(pair.rollback) /\ pair.db = NoFile
        /\ sealed.seal = key /\ sealed.facts = pair.rollback.facts
        /\ sealed.version = pair.rollback.version
    BY <1>1, <2>1 DEF Files, Pairs, SealingInv, DatabaseTypes
  <2>3. dir' = [dir EXCEPT ![doing.path] = new]
    BY <1>1, <2>1, <2>2, FileFacts, PairEdits DEF DatabaseTypes
  <2>4. doing' \in Doings /\ doing'.at = "verify" /\ doing'.cmd = "encrypt"
        /\ doing'.path = doing.path /\ doing'.seal = Unsealed
    BY <1>1, <2>1 DEF Step, DatabaseTypes, Doings
  <2>5. DatabaseTypes'
    BY <1>1, <1>3, <2>2, <2>3, <2>4 DEF DatabaseTypes
  <2>6. SealingInv'
    <3>1. dir'[doing'.path] = new /\ (doing'.path = Live => PlainSnapshots' = PlainSnapshots)
      BY <1>3, <2>2, <2>3, <2>4
    <3>2. doing.path = Live => PlainSnapshots = {}
      BY <2>1 DEF SealingInv
    <3> QED
      BY <1>1, <2>2, <2>4, <3>1, <3>2 DEF SealingInv, IsPlain
  <2>7. RecordsAreKept'
    <3>1. CASE doing.path = Live
      <4>0. dir'[doing.path] = new
        BY <1>3, <2>2, <2>3
      <4>1. LiveFile = NoFile /\ dir[Live].rollback = pair.rollback /\ LiveFile' = sealed
        BY <2>2, <3>1, <4>0 DEF LiveFile
      <4>2. sealed # NoFile
        BY <2>2 DEF IsPlain, NoFile
      <4>3. Holds(dir[Live].rollback) => Holds(LiveFile)'
        BY <1>1, <2>2, <4>1, <4>2 DEF Holds, Opens
      <4> QED
        BY <1>1, <4>1, <4>3 DEF RecordsAreKept, Holds, Opens
    <3> QED
      BY <1>3, <2>2, <2>3, <3>1
  <2> QED
    BY <2>4, <2>5, <2>6, <2>7 DEF OpeningInv, RestoringInv
<1>6. CASE EncryptionFails
  <2>1. doing' = Idle
    BY <1>6 DEF EncryptionFails
  <2>2. OpeningInv' /\ SealingInv' /\ RestoringInv' /\ doing' \in Doings
    BY <2>1, FileFacts DEF OpeningInv, SealingInv, RestoringInv, Idle
  <2>3. CASE UNCHANGED dir
    BY <1>1, <2>2, <2>3, SameFiles DEF DatabaseTypes
  <2>4. CASE doing.at \in {"replace", "verify"} /\ dir' = [dir EXCEPT ![doing.path] = PutBack(@)]
    <3> DEFINE new == [db |-> pair.rollback, rollback |-> NoFile]
    <3>1. new \in Pairs /\ PutBack(pair) = new
      <4>1. PutBack(pair) = new
        BY <1>1, PairEdits DEF DatabaseTypes
      <4>2. new \in Pairs
        BY <1>1, FileFacts DEF Pairs
      <4> QED
        BY <4>1, <4>2
    <3>2. dir' = [dir EXCEPT ![doing.path] = new]
      BY <2>4, <3>1
    <3>3. DatabaseTypes'
      BY <1>1, <1>3, <2>2, <3>1, <3>2 DEF DatabaseTypes
    <3>4. RecordsAreKept'
      <4>1. CASE doing.path = Live
        <5>1. /\ LiveFile = pair.db /\ dir[Live].rollback = pair.rollback
              /\ LiveFile' = pair.rollback
          <6>1. dir'[doing.path] = new
            BY <1>3, <3>1, <3>2
          <6> QED
            BY <4>1, <6>1 DEF LiveFile
        <5>2. IsPlain(pair.rollback)
              /\ (pair.db = NoFile \/ pair.db = [pair.rollback EXCEPT !.seal = key])
          BY <2>4 DEF SealingInv
        <5>3. Opens(LiveFile)' /\ ~Opens(NoFile)
          BY <1>1, <5>1, <5>2 DEF IsPlain, Opens, NoFile
        <5>4. pair.db # NoFile => pair.db.facts = pair.rollback.facts
          BY <1>1, <5>2 DEF Files
        <5> QED
          BY <1>1, <5>1, <5>3, <5>4 DEF RecordsAreKept, Holds, Opens
      <4> QED
        BY <1>3, <3>1, <3>2, <4>1
    <3> QED
      BY <2>2, <3>3, <3>4
  <2> QED
    BY <1>6, <2>3, <2>4 DEF EncryptionFails
<1>7. CASE DropRollback
  <2> DEFINE new == [db |-> pair.db, rollback |-> NoFile]
  <2>1. /\ doing.at = "verify" /\ doing' = [doing EXCEPT !.at = "choose", !.path = Live]
        /\ dir' = [dir EXCEPT ![doing.path].rollback = NoFile]
    BY <1>7 DEF DropRollback, At
  <2>2. new \in Pairs /\ IsPlain(pair.rollback)
        /\ pair.db = [pair.rollback EXCEPT !.seal = key]
    BY <1>1, <2>1, FileFacts DEF Pairs, SealingInv
  <2>3. dir' = [dir EXCEPT ![doing.path] = new]
    <3>1. dir \in [Paths -> Pairs] /\ NoFile \in Files
      BY FileFacts DEF DatabaseTypes
    <3>2. [dir EXCEPT ![doing.path].rollback = NoFile]
          = [dir EXCEPT ![doing.path] = [db |-> pair.db, rollback |-> NoFile]]
      BY <1>1, <3>1, PairEdits, Zenon
    <3> QED
      BY <2>1, <3>2, Zenon
  <2>4. doing' \in Doings /\ doing'.at = "choose" /\ doing'.cmd = "encrypt"
        /\ doing'.seal = Unsealed
    BY <1>1, <2>1, FileFacts DEF DatabaseTypes, Doings
  <2>5. DatabaseTypes'
    BY <1>1, <1>3, <2>2, <2>3, <2>4 DEF DatabaseTypes
  <2>6. RecordsAreKept'
    <3>1. CASE doing.path = Live
      <4>1. LiveFile = pair.db /\ LiveFile' = pair.db
        BY <1>3, <2>2, <2>3, <3>1 DEF LiveFile
      <4>2. pair.db.version = pair.rollback.version
        BY <1>1, <2>2 DEF Files
      <4>3. LiveFile # NoFile
        BY <2>2, <4>1, <4>2 DEF IsPlain, NoFile
      <4> QED
        BY <1>1, <4>1, <4>3 DEF RecordsAreKept, Holds, Opens
    <3> QED
      BY <1>3, <2>2, <2>3, <3>1
  <2> QED
    BY <2>4, <2>5, <2>6 DEF OpeningInv, SealingInv, RestoringInv
<1> QED
  BY <1>4, <1>5, <1>6, <1>7

\* The steps of a restore on the files.
LEMMA RestoreStep ==
    ASSUME DatabaseInv, RemoveOne \/ CopyBack \/ Restored
    PROVE  DatabaseInv'
<1> USE DEF DatabaseInv
<1>1. CASE RemoveOne
  <2>1. /\ doing.at = "remove" /\ doing.cmd = "restore" /\ strayed' = TRUE
        /\ UNCHANGED <<keys, doing, archive, recorded>>
    BY <1>1 DEF RemoveOne, At
  <2>2. dir' \in [Paths -> Pairs] /\ key' \in Nat
    BY <1>1, FileFacts DEF RemoveOne, DatabaseTypes, Unsealed
  <2> QED
    BY <2>1, <2>2 DEF DatabaseTypes, OpeningInv, SealingInv, RestoringInv, RecordsAreKept
<1>2. CASE CopyBack
  <2>1. /\ doing.at = "copy back" /\ doing.cmd = "restore"
        /\ UNCHANGED <<key, keys, doing, archive, recorded, strayed>>
    BY <1>2 DEF CopyBack, At
  <2>2. dir' \in [Paths -> Pairs]
    BY <1>2 DEF CopyBack, DatabaseTypes
  <2> QED
    BY <2>1, <2>2 DEF DatabaseTypes, OpeningInv, SealingInv, RestoringInv, RecordsAreKept
<1>3. CASE Restored
  <2>1. /\ doing.at = "copy back" /\ doing' = Idle /\ UNCHANGED <<dir, keys, archive>>
        /\ key' = IF IsSealed(LiveFile) THEN LiveFile.seal ELSE key
    BY <1>3 DEF Restored, At
  <2>2. IF LiveFile = NoFile THEN UNCHANGED <<recorded, strayed>>
        ELSE recorded' = LiveFile.facts /\ strayed' = FALSE
    BY <1>3 DEF Restored
  <2>3. LiveFile \in Files /\ LiveFile.facts \subseteq Facts /\ LiveFile.seal \in Nat
    BY FileFacts DEF DatabaseTypes, Pairs, LiveFile, Files
  <2>4. DatabaseTypes'
    BY <2>1, <2>2, <2>3, FileFacts DEF DatabaseTypes
  <2>5. RecordsAreKept'
    <3>1. CASE LiveFile = NoFile
      BY <2>1, <2>2, <3>1 DEF RecordsAreKept, RestoringInv
    <3>2. CASE LiveFile # NoFile
      BY <2>1, <2>2, <3>2 DEF RecordsAreKept, Holds, Opens, IsSealed, LiveFile
    <3> QED
      BY <3>1, <3>2
  <2> QED
    BY <2>1, <2>4, <2>5 DEF OpeningInv, SealingInv, RestoringInv, Idle
<1> QED
  BY <1>1, <1>2, <1>3

\* What a command relies on from one of its steps to the next holds although the
\* process may end between any two changes of the directory.
THEOREM DatabaseInvariant == DatabaseSpec => []DatabaseInv
<1>1. ASSUME DatabaseInv, [DatabaseNext]_databaseVars PROVE DatabaseInv'
  BY <1>1, OpenStep, QuietStep, ServeStep, SealStep, RestoreStep DEF DatabaseNext
<1> QED
  BY <1>1, DatabaseInitInv, PTL DEF DatabaseSpec

\* What was recorded is in the database, or in the rollback beside it, and the stored
\* key opens it, through migrations, encryptions and interruptions; until a new
\* database is begun beside one set aside, or a restore removes the old one.
THEOREM RecordsSound == DatabaseSpec => []RecordsAreKept
BY DatabaseInvariant, PTL DEF DatabaseInv

\* Only the steps of an encryption change a rollback, and a process that ends between
\* the renames is noted.
LEMMA HiddenStep ==
    ASSUME DatabaseInv, HiddenInv, [DatabaseNext]_databaseVars
    PROVE  HiddenInv'
<1>1. /\ dir \in [Paths -> Pairs] /\ archive.dir \in [Paths -> Pairs]
      /\ Live \in Paths /\ Snapshots \subseteq Paths /\ Live \notin Snapshots
      /\ doing \in Doings /\ doing.path \in Paths
      /\ \A p \in Paths : dir[p] = [db |-> dir[p].db, rollback |-> dir[p].rollback]
  BY FileFacts DEF DatabaseInv, DatabaseTypes, Doings, Pairs
<1>2. Idle.at = "" /\ ~IsPlain(NoFile) /\ NoPair.rollback = NoFile
  BY DEF Idle, IsPlain, NoFile, NoPair
<1>3. ASSUME \A p \in Snapshots : dir'[p].rollback = dir[p].rollback,
             archive' = archive, cut' = cut, doing.at \notin {"replace", "verify"}
      PROVE  HiddenInv'
  BY <1>3 DEF HiddenInv, IsPlain
<1>4. CASE UNCHANGED databaseVars
  BY <1>4 DEF databaseVars, HiddenInv, IsPlain
<1>5. CASE \/ InstallRelease \/ Opened \/ OpenFails \/ StopDatabase \/ ExportSealed \/ Encrypted
           \/ BeginRestore \/ Removed \/ TakeKey \/ Restored
  <2>1. doing.at \notin {"replace", "verify"}
    BY <1>2, <1>5 DEF InstallRelease, Opened, OpenFails, StopDatabase, ExportSealed, Encrypted,
       BeginRestore, Removed, TakeKey, Restored, At
  <2>2. UNCHANGED <<dir, archive, cut>>
    BY <1>5 DEF InstallRelease, Opened, OpenFails, StopDatabase, ExportSealed, Encrypted,
       BeginRestore, Removed, TakeKey, Restored
  <2> QED
    BY <1>3, <2>1, <2>2
<1>6. CASE StartDatabase \/ BeginEncryption
  <2>1. doing.at \notin {"replace", "verify"} /\ UNCHANGED <<archive, cut>>
    BY <1>2, <1>6 DEF StartDatabase, BeginEncryption, OpenDatabase
  <2>2. dir' \in {dir, [dir EXCEPT ![Live].db = Blank]}
    BY <1>6 DEF StartDatabase, BeginEncryption, OpenDatabase
  <2>3. \A p \in Snapshots : dir'[p].rollback = dir[p].rollback
    BY <1>1, <2>2
  <2> QED
    BY <1>3, <2>1, <2>3
<1>7. CASE TakeSnapshot
  <2>1. PICK p \in FreeSnapshots : dir' = [dir EXCEPT ![p].db = LiveFile]
    BY <1>7 DEF TakeSnapshot
  <2>2. \A q \in Snapshots : dir'[q].rollback = dir[q].rollback
    BY <1>1, <2>1
  <2> QED
    BY <1>3, <1>7, <2>2 DEF TakeSnapshot
<1>8. CASE MigrateOne \/ \E f \in Facts : RecordFact(f)
  <2>1. doing.at \notin {"replace", "verify"} /\ UNCHANGED <<archive, cut>>
    BY <1>8 DEF MigrateOne, RecordFact, At
  <2>2. \A p \in Snapshots : dir'[p].rollback = dir[p].rollback
    BY <1>1, <1>8 DEF MigrateOne, RecordFact
  <2> QED
    BY <1>3, <2>1, <2>2
<1>9. CASE SetAside
  <2>1. /\ doing.at = "aside" /\ doing'.at = "replace" /\ doing'.path = doing.path
        /\ UNCHANGED <<archive, cut>>
    BY <1>1, <1>9 DEF SetAside, At, Step, Doings
  <2>2. \A p \in Snapshots : p # doing.path => dir'[p] = dir[p]
    BY <1>1, <1>9 DEF SetAside
  <2> QED
    BY <2>1, <2>2 DEF HiddenInv, IsPlain
<1>10. CASE PutSealed
  <2>1. /\ doing.at = "replace" /\ doing'.at = "verify" /\ doing'.path = doing.path
        /\ UNCHANGED <<archive, cut>>
    BY <1>1, <1>10 DEF PutSealed, At, Step, Doings
  <2>2. \A p \in Snapshots : dir'[p].rollback = dir[p].rollback
    BY <1>1, <1>10 DEF PutSealed
  <2> QED
    BY <2>1, <2>2 DEF HiddenInv, IsPlain
<1>11. CASE EncryptionFails
  <2>1. doing' = Idle /\ UNCHANGED <<archive, cut>>
    BY <1>11 DEF EncryptionFails
  <2>2. CASE doing.at = "aside" /\ UNCHANGED dir
    BY <1>3, <2>1, <2>2
  <2>3. CASE dir' = [dir EXCEPT ![doing.path] = PutBack(@)]
    <3>1. PutBack(dir[doing.path]).rollback = NoFile
      BY <1>1 DEF PutBack
    <3>2. \A p \in Snapshots : dir'[p] = IF p = doing.path THEN PutBack(dir[p]) ELSE dir[p]
      BY <1>1, <2>3
    <3> QED
      BY <1>2, <2>1, <3>1, <3>2 DEF HiddenInv, IsPlain
  <2> QED
    BY <1>11, <2>2, <2>3 DEF EncryptionFails
<1>12. CASE DropRollback
  <2>1. UNCHANGED <<archive, cut>>
    BY <1>12 DEF DropRollback
  <2>2. \A p \in Snapshots : dir'[p].rollback = IF p = doing.path THEN NoFile ELSE dir[p].rollback
    BY <1>1, <1>12 DEF DropRollback
  <2> QED
    BY <1>2, <2>1, <2>2 DEF HiddenInv, IsPlain
<1>13. CASE ExportArchive
  <2>1. doing = Idle /\ archive'.dir = dir /\ UNCHANGED <<dir, doing, cut>>
    BY <1>13 DEF ExportArchive
  <2> QED
    BY <1>2, <2>1 DEF HiddenInv, IsPlain
<1>14. CASE RemoveOne
  <2>1. doing.at = "remove" /\ UNCHANGED <<doing, archive, cut>>
    BY <1>14 DEF RemoveOne, At
  <2>2. \A p \in Snapshots : dir'[p] \in {dir[p], NoPair}
    BY <1>1, <1>14 DEF RemoveOne
  <2> QED
    BY <1>2, <2>1, <2>2 DEF HiddenInv, IsPlain
<1>15. CASE CopyBack
  <2>1. doing.at = "copy back" /\ UNCHANGED <<doing, archive, cut>>
    BY <1>15 DEF CopyBack, At
  <2>2. \A p \in Snapshots : dir'[p] \in {dir[p], archive.dir[p]}
    BY <1>1, <1>15 DEF CopyBack
  <2> QED
    BY <2>1, <2>2 DEF HiddenInv, IsPlain
<1>16. CASE Interrupt
  <2>1. /\ UNCHANGED <<dir, archive>>
        /\ cut' = IF doing.at \in {"replace", "verify"} THEN cut \cup ({doing.path} \ {Live})
                  ELSE cut
    BY <1>16 DEF Interrupt
  <2> QED
    BY <1>1, <2>1 DEF HiddenInv, IsPlain
<1> QED
  BY <1>4, <1>5, <1>6, <1>7, <1>8, <1>9, <1>10, <1>11, <1>12, <1>13, <1>14, <1>15, <1>16
     DEF DatabaseNext

\* The hidden plaintext of a snapshot is that of a conversion under way, or cut.
THEOREM HiddenInvariant == DatabaseSpec => [](DatabaseInv /\ HiddenInv)
<1>1. DatabaseInit => HiddenInv
  BY FileFacts DEF DatabaseInit, HiddenInv, NoArchive, NoPair, IsPlain, NoFile
<1>2. DatabaseInv /\ HiddenInv /\ [DatabaseNext]_databaseVars => HiddenInv'
  BY HiddenStep
<1> QED
  BY <1>1, <1>2, DatabaseInvariant, PTL DEF DatabaseSpec

\* The encryption seals the live database after all of its snapshots, under either of
\* their names; but for the hidden rollbacks of conversions that were cut.
THEOREM CopiesSound == DatabaseSpec => CopiesBeforeLive
<1> DEFINE Begun == ~IsSealed(LiveFile) /\ IsSealed(LiveFile')
<1>1. ASSUME DatabaseInv, HiddenInv, [DatabaseNext]_databaseVars, doing.cmd = "encrypt", Begun
      PROVE  PlainSnapshots = {} /\ HiddenSnapshots \subseteq cut
  <2> USE DEF DatabaseInv
  <2>1. LiveFile' # LiveFile
    BY <1>1 DEF IsSealed
  <2>2. dir' # dir
    BY <2>1 DEF LiveFile
  <2>3. doing # Idle
    <3>1. Idle.cmd = "none"
      BY DEF Idle
    <3> QED
      BY <1>1, <3>1
  <2>4. \/ TakeSnapshot \/ MigrateOne \/ SetAside \/ PutSealed \/ EncryptionFails \/ DropRollback
    BY <1>1, <2>2, <2>3 DEF DatabaseNext, databaseVars, InstallRelease, StartDatabase, Opened,
       OpenFails, RecordFact, StopDatabase, BeginEncryption, TakeKey, ExportSealed, Encrypted,
       ExportArchive, BeginRestore, RemoveOne, Removed, CopyBack, Restored, Interrupt, At
  <2>5. doing.path \in Paths /\ Live \in Paths /\ dir \in [Paths -> Pairs]
        /\ \A p \in Paths : dir[p] = [db |-> dir[p].db, rollback |-> dir[p].rollback]
    BY FileFacts, <1>1 DEF DatabaseTypes, Doings, Pairs
  <2>6. ~TakeSnapshot
    <3>1. ASSUME NEW p \in FreeSnapshots, dir' = [dir EXCEPT ![p].db = LiveFile]
          PROVE  FALSE
      BY <2>1, <2>5, <3>1, FileFacts DEF LiveFile, FreeSnapshots
    <3> QED
      BY <3>1 DEF TakeSnapshot
  <2>7. ~MigrateOne
    <3>1. ASSUME MigrateOne PROVE FALSE
      <4>1. doing.seal = Unsealed
            /\ dir' = [dir EXCEPT ![Live].db.version = @ + 1,
                                  ![Live].db.seal = IF LiveFile = Blank THEN doing.seal ELSE @]
        BY <1>1, <3>1 DEF MigrateOne, OpeningInv
      <4>2. LiveFile \in Files
        BY <1>1, <2>5 DEF Pairs, LiveFile
      <4>3. LiveFile'.seal \in {Unsealed, LiveFile.seal}
        BY <2>5, <4>1, <4>2 DEF LiveFile, Files
      <4> QED
        BY <1>1, <4>3 DEF IsSealed
    <3> QED
      BY <3>1
  <2>8. ~SetAside /\ ~DropRollback
    <3>1. ASSUME SetAside PROVE FALSE
      <4>1. dir' = [dir EXCEPT ![doing.path].rollback = dir[doing.path].db,
                               ![doing.path].db = NoFile]
        BY <3>1 DEF SetAside
      <4>2. LiveFile' \in {LiveFile, NoFile}
        BY <2>5, <4>1 DEF LiveFile
      <4> QED
        BY <1>1, <2>1, <4>2 DEF IsSealed, NoFile
    <3>2. ASSUME DropRollback PROVE FALSE
      BY <2>1, <2>5, <3>2 DEF DropRollback, LiveFile
    <3> QED
      BY <3>1, <3>2
  <2>9. ~EncryptionFails
    <3>1. ASSUME EncryptionFails PROVE FALSE
      <4>1. /\ doing.at \in {"replace", "verify"}
            /\ dir' = [dir EXCEPT ![doing.path] = PutBack(@)]
        BY <2>2, <3>1 DEF EncryptionFails
      <4>2. LiveFile' = dir[doing.path].rollback
        BY <2>1, <2>5, <4>1 DEF LiveFile, PutBack
      <4> QED
        BY <1>1, <4>1, <4>2 DEF SealingInv, IsPlain, IsSealed
    <3> QED
      BY <3>1
  <2>10. CASE PutSealed
    <3>1. doing.path = Live /\ doing.at = "replace"
      BY <2>1, <2>5, <2>10 DEF PutSealed, At, LiveFile
    <3>2. HiddenSnapshots \subseteq cut
      BY <1>1, <3>1, FileFacts DEF HiddenInv, HiddenSnapshots
    <3> QED
      BY <1>1, <3>1, <3>2 DEF SealingInv
  <2> QED
    BY <2>4, <2>6, <2>7, <2>8, <2>9, <2>10
<1>2. DatabaseInv /\ HiddenInv /\ [DatabaseNext]_databaseVars
      => [doing.cmd = "encrypt" /\ Begun
            => PlainSnapshots = {} /\ HiddenSnapshots \subseteq cut]_databaseVars
  BY <1>1
<1> QED
  BY <1>2, HiddenInvariant, PTL DEF DatabaseSpec, CopiesBeforeLive

=============================================================================

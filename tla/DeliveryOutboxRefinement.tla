---------------------- MODULE DeliveryOutboxRefinement ----------------------
(***************************************************************************)
(* DeliveryOutbox seen as a ReplyDelivery: of a row, what is left is       *)
(* whether its verdict is open, and its attempts; who sends, when, and     *)
(* with which connector is not seen.  The replies that were being sent     *)
(* when a delivery worker started are disclaimed.                          *)
(***************************************************************************)
EXTENDS DeliveryOutbox

FateOf(s) == IF s \in {"pending", "in_flight", "retry"} THEN "open"
             ELSE IF s = "dead_letter" THEN "given_up" ELSE s

Fate(m) == IF m \in caught THEN "disclaimed" ELSE FateOf(rows[m].status)

\* Somebody's send of m was accepted, and its verdict is open.
Unsure(m) == m \notin caught /\ \E a \in Actors : sending[a] = m /\ accepted[a]

\* A count of m, of which the promise sees nothing any more once m is disclaimed.
Count(m, n) == IF m \in caught THEN 0 ELSE n

Promise == INSTANCE ReplyDelivery WITH
              fate <- [m \in Messages |-> Fate(m)],
              tries <- [m \in Messages |-> Count(m, rows[m].attempts)],
              unsure <- [m \in Messages |-> Unsure(m)],
              seen <- [m \in Messages |-> Count(m, posted[m])],
              lost <- [m \in Messages |-> Count(m, lost[m])],
              behind <- phase # "running"

\* The outbox keeps its promise: a reply is attempted by one party at a time, judged
\* only by an attempt that is over, and settled for good, through batches, retries,
\* senders that go, crashes, and messages that come while the server starts.  The
\* replies it disclaims are those in the middle of a send when the worker starts.
ImplementsDelivery == Promise!DeliverySpec

=============================================================================

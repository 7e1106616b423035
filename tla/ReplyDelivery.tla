---------------------------- MODULE ReplyDelivery ----------------------------
(***************************************************************************)
(* What the delivery outbox promises to those who hand it a reply: it is   *)
(* posted, one attempt after another, until an attempt is known to have    *)
(* been accepted or there were too many; a verdict is final; and the       *)
(* recipient sees a reply again only because an attempt was thought to     *)
(* have failed, or was forgotten in a crash.  Once after each crash,       *)
(* before it goes on, it may disclaim the open replies it has lost track   *)
(* of: of these nothing more is promised here.                             *)
(*                                                                         *)
(* DeliveryOutbox implements this, and disclaims the replies that are      *)
(* being sent when the delivery worker starts; the refinement mapping is   *)
(* in DeliveryOutboxRefinement.                                            *)
(***************************************************************************)
EXTENDS Naturals

CONSTANTS Messages, MaxAttempts

VARIABLES
    fate,     \* fate[m]: absent, open, delivered, given_up, or disclaimed
    tries,    \* tries[m]: the attempts that are known to be over
    unsure,   \* unsure[m]: an attempt that is not over was accepted
    seen,     \* seen[m]: how often the recipient got m
    lost,     \* lost[m]: the accepted attempts that were forgotten
    behind    \* what a crash left has not been looked at yet

deliveryVars == <<fate, tries, unsure, seen, lost, behind>>

DeliveryInit ==
    /\ fate = [m \in Messages |-> "absent"]
    /\ tries = [m \in Messages |-> 0]
    /\ unsure = [m \in Messages |-> FALSE]
    /\ seen = [m \in Messages |-> 0]
    /\ lost = [m \in Messages |-> 0]
    /\ behind = TRUE

\* The replies in R are recorded.
FateAfter(R) == [m \in Messages |-> IF m \in R THEN "open" ELSE fate[m]]

Record(m) ==
    /\ fate[m] = "absent"
    /\ fate' = FateAfter({m})
    /\ UNCHANGED <<tries, unsure, seen, lost, behind>>

\* The platform accepts an attempt.
Post(m) ==
    /\ fate[m] = "open" /\ ~unsure[m]
    /\ unsure' = [unsure EXCEPT ![m] = TRUE]
    /\ seen' = [seen EXCEPT ![m] = @ + 1]
    /\ UNCHANGED <<fate, tries, lost, behind>>

\* The attempts on the replies in S are over; those in D are known to be accepted.
Judge(S, D) ==
    /\ \A m \in S : fate[m] = "open"
    /\ \A m \in D : unsure[m]
    /\ fate' = [m \in Messages |->
                 IF m \in D THEN "delivered"
                 ELSE IF m \in S /\ tries[m] + 1 >= MaxAttempts THEN "given_up"
                 ELSE fate[m]]
    /\ tries' = [m \in Messages |-> IF m \in S THEN tries[m] + 1 ELSE tries[m]]
    /\ unsure' = [m \in Messages |-> m \notin S /\ unsure[m]]
    /\ UNCHANGED <<seen, lost, behind>>

\* A crash forgets the attempts that are not over; it may follow the recording of
\* the replies in R at once.
Forget(R) ==
    /\ \A m \in R : fate[m] = "absent"
    /\ fate' = FateAfter(R)
    /\ unsure' = [m \in Messages |-> FALSE]
    /\ lost' = [m \in Messages |-> IF unsure[m] THEN lost[m] + 1 ELSE lost[m]]
    /\ behind' = TRUE
    /\ UNCHANGED <<tries, seen>>

\* The open replies in S are disclaimed, and their accounts closed.
Disclaim(S) ==
    /\ behind
    /\ \A m \in S : fate[m] = "open"
    /\ fate' = [m \in Messages |-> IF m \in S THEN "disclaimed" ELSE fate[m]]
    /\ tries' = [m \in Messages |-> IF m \in S THEN 0 ELSE tries[m]]
    /\ unsure' = [m \in Messages |-> m \notin S /\ unsure[m]]
    /\ seen' = [m \in Messages |-> IF m \in S THEN 0 ELSE seen[m]]
    /\ lost' = [m \in Messages |-> IF m \in S THEN 0 ELSE lost[m]]
    /\ behind' = FALSE

DeliveryNext ==
    \/ \E m \in Messages : Record(m) \/ Post(m)
    \/ \E S \in SUBSET Messages :
          Forget(S) \/ Disclaim(S) \/ \E D \in SUBSET S : Judge(S, D)

DeliverySpec == DeliveryInit /\ [][DeliveryNext]_deliveryVars

=============================================================================

----------------------------- MODULE TaskLease -----------------------------
(***************************************************************************)
(* What the work-task store promises to those who work on tasks: an        *)
(* exclusive lease per task with a fencing number, taken only when the     *)
(* task's prerequisites have been delivered, and given up once, either     *)
(* with the task delivered or with the task free again.  There is one way  *)
(* out of the promise: a lease that is held may become void, by a retry    *)
(* that overtakes the claim.  From then on until no run of the task is     *)
(* left, more leases on it may be granted, and any of them may deliver.    *)
(*                                                                         *)
(* TaskRuns implements this, whoever calls the store; the refinement       *)
(* mapping is in TaskRunsRefinement.                                       *)
(***************************************************************************)
EXTENDS Naturals

CONSTANTS Tasks, Deps

VARIABLES
    phase,      \* phase[t]: absent, free, held by somebody, done, or void
    fence,      \* fence[t]: how many leases on t were granted so far
    delivered   \* delivered[t]: t has been done at least once

leaseVars == <<phase, fence, delivered>>

Phases == {"absent", "free", "held", "done", "void"}

LeaseInit ==
    /\ phase = [t \in Tasks |-> "absent"]
    /\ fence = [t \in Tasks |-> 0]
    /\ delivered = [t \in Tasks |-> FALSE]

Offer(t) ==
    /\ phase[t] = "absent"
    /\ phase' = [phase EXCEPT ![t] = "free"]
    /\ UNCHANGED <<fence, delivered>>

\* d was delivered and not reopened since.
Satisfied(d) == phase[d] = "done" \/ (phase[d] = "void" /\ delivered[d])

Acquire(t) ==
    /\ phase[t] \in {"free", "void"}
    /\ \A d \in Deps[t] : Satisfied(d)
    /\ phase' = [phase EXCEPT ![t] = IF @ = "free" THEN "held" ELSE @]
    /\ fence' = [fence EXCEPT ![t] = @ + 1]
    /\ UNCHANGED delivered

Void(t) ==
    /\ phase[t] = "held"
    /\ phase' = [phase EXCEPT ![t] = "void"]
    /\ UNCHANGED <<fence, delivered>>

\* The tasks somebody may be working on.
Lent == {t \in Tasks : phase[t] \in {"held", "void"}}

\* Leases run out together, S free and D done, when nobody looked for a while.
Release(S, D) ==
    /\ \A t \in D : phase[t] = "void" /\ delivered[t]
    /\ phase' = [t \in Tasks |->
                  IF t \in S THEN "free" ELSE IF t \in D THEN "done" ELSE phase[t]]
    /\ UNCHANGED <<fence, delivered>>

Deliver(t) ==
    /\ \/ /\ phase[t] \in {"held", "void"}
          /\ phase' = [phase EXCEPT ![t] = "done"]
       \/ /\ phase[t] = "void"
          /\ UNCHANGED phase
    /\ delivered' = [delivered EXCEPT ![t] = TRUE]
    /\ UNCHANGED fence

Reopen(t) ==
    /\ phase[t] = "done"
    /\ phase' = [phase EXCEPT ![t] = "free"]
    /\ UNCHANGED <<fence, delivered>>

LeaseNext ==
    \/ \E t \in Tasks : Offer(t) \/ Acquire(t) \/ Void(t) \/ Deliver(t) \/ Reopen(t)
    \/ \E S \in SUBSET Lent : \E D \in SUBSET (Lent \ S) : Release(S, D)

LeaseSpec == LeaseInit /\ [][LeaseNext]_leaseVars

=============================================================================

------------------------- MODULE TaskRunsRefinement -------------------------
(***************************************************************************)
(* TaskRuns seen as a TaskLease: who may work on a task is all that is     *)
(* left of its status, the fencing number is the number of its runs, and   *)
(* it is delivered once one of them succeeded.  The lease is void while    *)
(* the claim is not exclusive.                                             *)
(***************************************************************************)
EXTENDS TaskRuns

PhaseOf == [s \in TaskStatus |->
              CASE s = "absent"  -> "absent"
                [] s = "running" -> "held"
                [] s = "done"    -> "done"
                [] OTHER         -> "free"]

PhaseSeen(t) == IF Exclusive(t) THEN PhaseOf[status[t]] ELSE "void"

Lease == INSTANCE TaskLease WITH
            phase <- [t \in Tasks |-> PhaseSeen(t)],
            fence <- [t \in Tasks |-> Len(runs[t])],
            delivered <- [t \in Tasks |-> Delivered(t)]

\* The store is a lease per task: every operation, of any thread, is a grant, a
\* release, a delivery or a reopening, or invisible to the lease, but for the
\* UPDATE of a retry that a claim has overtaken, which makes the lease void.
ImplementsTaskLease == Lease!LeaseSpec

=============================================================================

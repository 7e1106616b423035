----------------------------- MODULE MCTaskRuns -----------------------------
(***************************************************************************)
(* Instances of TaskRuns for TLC: a task that needs a response and a task  *)
(* that depends on it and needs an artifact.  The threads are              *)
(* interchangeable.                                                        *)
(***************************************************************************)
EXTENDS TaskRunsRefinement, TLC

CONSTANTS build, report

MCTasks == {build, report}
MCDeps == [t \in MCTasks |-> IF t = report THEN {build} ELSE {}]
MCProof == [t \in MCTasks |-> IF t = report THEN "artifact" ELSE "response"]

\* Callers bring an artifact, and a response or none.
MCSomeEvidence == {{"artifact"}}

MCThreadSymmetry == Permutations(Threads)

=============================================================================

-------------------------- MODULE MCWorkScheduler --------------------------
(***************************************************************************)
(* Instances of WorkScheduler for TLC: two tasks that need a response,     *)
(* independent or the second one depending on the first.                   *)
(***************************************************************************)
EXTENDS WorkScheduler

CONSTANTS first, second

MCTasks == {first, second}
MCNoDeps == [t \in MCTasks |-> {}]
MCChain == [t \in MCTasks |-> IF t = second THEN {first} ELSE {}]
MCProof == [t \in MCTasks |-> "response"]
MCEvidence == {{}}

=============================================================================

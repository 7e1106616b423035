--------------------------- MODULE MCScheduledJobs ---------------------------
(***************************************************************************)
(* Instances of ScheduledJobs for TLC: a job that runs once, due in every  *)
(* minute, and others that are due in the last one.                        *)
(***************************************************************************)
EXTENDS ScheduledJobs

CONSTANT once

MCDue == [j \in Jobs |-> IF j = once THEN 1 .. MaxMinute ELSE {MaxMinute}]

=============================================================================

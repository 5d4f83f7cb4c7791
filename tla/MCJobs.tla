------------------------------- MODULE MCJobs -------------------------------
(* Instances of Jobs for TLC: durations in units of LEASE_RENEWAL (30 s), so  *)
(* the lease of 90 s is 3 and the two silent periods of keep_lease are 2.     *)
EXTENDS Jobs

\* 5 * 2^attempts seconds capped at an hour is one unit or less early on.
MCBackoff == [a \in 1 .. MaxAttempts |-> 1]

MCPriorities == {0}
=============================================================================

---------------------------- MODULE JobContract ----------------------------
(***************************************************************************)
(* What the queue of oxidt-jobs promises its host, without leases, tokens,  *)
(* clocks or statements: an accepted job is worked on by one worker at a    *)
(* time, any number of times, until it is settled; it is settled while       *)
(* nobody works on it and never worked on again.                             *)
(***************************************************************************)
CONSTANTS JobIds, Workers

VARIABLES
    state,    \* where each job stands
    holder    \* the workers whose handler is at the job

vars == <<state, holder>>

Init ==
    /\ state = [j \in JobIds |-> "absent"]
    /\ holder = [j \in JobIds |-> {}]

Accept(j) ==
    /\ state[j] = "absent"
    /\ state' = [state EXCEPT ![j] = "waiting"]
    /\ UNCHANGED holder

Begin(w, j) ==
    /\ state[j] = "waiting"
    /\ holder[j] = {}
    /\ holder' = [holder EXCEPT ![j] = {w}]
    /\ UNCHANGED state

\* The handler returned, was dropped, or died with its process.
End(j) ==
    /\ holder[j] # {}
    /\ holder' = [holder EXCEPT ![j] = {}]
    /\ UNCHANGED state

\* Every job of a non-empty set that nobody works on is settled: a sweep fails
\* all the jobs out of attempts together.
Settle(J, final) ==
    /\ \A j \in J : state[j] = "waiting" /\ holder[j] = {}
    /\ state' = [j \in JobIds |-> IF j \in J THEN final ELSE state[j]]
    /\ UNCHANGED holder

Forget(J) ==
    /\ \A j \in J : state[j] = "completed" /\ holder[j] = {}
    /\ state' = [j \in JobIds |-> IF j \in J THEN "pruned" ELSE state[j]]
    /\ UNCHANGED holder

Next ==
    \/ \E j \in JobIds : Accept(j) \/ End(j)
    \/ \E j \in JobIds, w \in Workers : Begin(w, j)
    \/ \E J \in SUBSET JobIds :
         Settle(J, "completed") \/ Settle(J, "failed") \/ Forget(J)

Spec == Init /\ [][Next]_vars
=============================================================================

---------------------------- MODULE MutatingLock ----------------------------
(***************************************************************************)
(* What the one-mutating-job lock promises, whatever implements it: it is  *)
(* granted to one job at a time, only the job it was granted to starts,    *)
(* and it is not granted again while that job runs.                        *)
(***************************************************************************)
CONSTANTS Job, NoJob

VARIABLES
    holder,   \* the job the lock was granted to, or NoJob
    running   \* the jobs that run

vars == <<holder, running>>

Init ==
    /\ holder = NoJob
    /\ running = {}

Grant(j) ==
    /\ holder = NoJob
    /\ holder' = j
    /\ UNCHANGED running

Start(j) ==
    /\ holder = j
    /\ running = {}
    /\ running' = {j}
    /\ UNCHANGED holder

\* The job ends; the lock may stay granted for a while (the server's copy).
End(j) ==
    /\ running = {j}
    /\ running' = {}
    /\ holder' \in {holder, NoJob}

\* The lock is given back: never under a running job.
Release ==
    /\ running = {}
    /\ holder' = NoJob
    /\ UNCHANGED running

Next == Release \/ \E j \in Job : Grant(j) \/ Start(j) \/ End(j)

Spec == Init /\ [][Next]_vars
=============================================================================

------------------------------- MODULE MCJobs -------------------------------
(* Jobs for TLC: model values, and the permutations that are symmetries. *)
EXTENDS Jobs, TLC

CONSTANTS m1, m2, r1, t1, t2

JobsMutating == {m1, m2}
JobsMixed == {m1, r1}
Threads == {t1, t2}
OneThread == {t1}

SymmetryMutating == Permutations(JobsMutating) \cup Permutations(Threads)
=============================================================================

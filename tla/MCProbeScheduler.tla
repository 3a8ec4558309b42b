-------------------------- MODULE MCProbeScheduler --------------------------
(***************************************************************************)
(* ProbeScheduler for TLC: jobs, workers and closers are model values.     *)
(***************************************************************************)
EXTENDS ProbeScheduler, TLC

CONSTANTS j1, j2, j3, w1, w2, w3, w4, c1, c2

\* ProbePriority.HEALTH and ProbePriority.DISCOVERY: two classes show every
\* way two jobs can compare.
TwoPriorities == {10, 20}

OnePriority == {20}

Symmetric == Permutations(Job) \cup Permutations(Worker)

============================================================================

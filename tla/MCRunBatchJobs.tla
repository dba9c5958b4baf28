--------------------------- MODULE MCRunBatchJobs ---------------------------
(* RunBatchJobs on a small instance: the graphs of JobPool's instance, run    *)
(* with fewer coroutines than jobs.                                           *)
EXTENDS RunBatchJobs

Symmetry == Permutations(Jobs \ HighPriority)
=============================================================================

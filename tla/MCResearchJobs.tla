--------------------------- MODULE MCResearchJobs ---------------------------
(* ResearchJobs on small instances; the cfgs choose processes and faults.  *)
EXTENDS ResearchJobs, TLC

\* Processes are interchangeable (safety runs only).
Symmetry == Permutations(Process)
=============================================================================

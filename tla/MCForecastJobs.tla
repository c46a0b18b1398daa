--------------------------- MODULE MCForecastJobs ---------------------------
(* Small instances of ForecastJobs for TLC.                                *)
EXTENDS ForecastJobs, TLC

\* Handlers and the slots of runs differ in nothing but their name.
Symmetry == Permutations(Runs) \cup Permutations(Requests)
=============================================================================

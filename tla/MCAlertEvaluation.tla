------------------------- MODULE MCAlertEvaluation -------------------------
(* Small instances of AlertEvaluation for TLC.                             *)
EXTENDS AlertEvaluation, TLC

\* Batches that run side by side differ in nothing but their name.
Symmetry == Permutations(Evaluators)
=============================================================================

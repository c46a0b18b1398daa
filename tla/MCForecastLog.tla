--------------------------- MODULE MCForecastLog ---------------------------
(***************************************************************************)
(* Small instances of the serving of forecasts and of their log.  They     *)
(* share no variable: part says which of the two moves.                    *)
(***************************************************************************)
EXTENDS ForecastLog, ForecastServing, TLC

CONSTANTS k1, k2

VARIABLE part

\* Two requests, or two background tasks.
Actors == {k1, k2}

Symmetry == Permutations(Actors)

PartInit ==
  /\ part \in {"log", "serving"}
  /\ LogInit /\ ServingInit

PartNext ==
  /\ UNCHANGED part
  /\ \/ part = "log" /\ LogNext /\ UNCHANGED servingVars
     \/ part = "serving" /\ ServingNext /\ UNCHANGED logVars

PartSpec == PartInit /\ [][PartNext]_<<part, logVars, servingVars>>
=============================================================================

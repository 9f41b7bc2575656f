----------------------- MODULE MC_LinearColorSmoothing -----------------------
(* Constants for model checking LinearColorSmoothing.                      *)
EXTENDS LinearColorSmoothing

BothOutputs   == {TRUE, FALSE}
AnyClockSteps == {-3, 1}

==============================================================================

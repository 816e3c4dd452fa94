----------------------------- MODULE MCMatrixRun -----------------------------
(* One tick of the model stands for 2.5 s, the limits for 10, 5, 5, 10, 2, 5, *)
(* 0.12 and 10 s, the two short ones rounded up to one tick.                  *)
EXTENDS MatrixRun

MCLevels == {"quiet", "busy"}
MCReadings == {"low", "high"}
=============================================================================

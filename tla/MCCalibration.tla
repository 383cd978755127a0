--------------------------- MODULE MCCalibration ---------------------------
(***************************************************************************)
(* Instances of Calibration: rows are interchangeable.                     *)
(***************************************************************************)
EXTENDS Calibration, TLC

MCSymmetry == Permutations(Rows)
=============================================================================

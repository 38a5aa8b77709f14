-------------------------- MODULE MCThresholdSweep --------------------------
(***************************************************************************)
(* A small instance of ThresholdSweep: four windows in a row, of which     *)
(* neighbours clash; two truth boxes that share a window in the middle.    *)
(***************************************************************************)
EXTENDS ThresholdSweep

RowClash == {<<1, 2>>, <<2, 1>>, <<2, 3>>, <<3, 2>>, <<3, 4>>, <<4, 3>>}
SharedMarks == {<<1, 1>>, <<1, 2>>, <<2, 2>>, <<2, 4>>}
=============================================================================

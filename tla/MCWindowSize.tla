---------------------------- MODULE MCWindowSize ----------------------------
(***************************************************************************)
(* Three folds with boxes of up to 5 x 5 in every order, and windows that  *)
(* are at least as high as wide, of up to 9 x 9, to start from.            *)
(***************************************************************************)
EXTENDS WindowSize

MCBoxes == [width : {1, 2, 5}, height : {2, 3, 5}]
MCMeans == [1..Folded -> MCBoxes]
MCSizes == {w \in [width : {1, 3, 5, 7}, height : 1..9] : w.width <= w.height}
=============================================================================

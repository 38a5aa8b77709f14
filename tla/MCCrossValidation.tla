------------------------- MODULE MCCrossValidation -------------------------
(***************************************************************************)
(* Small instances of CrossValidation.  Widths are in units of 100 columns *)
(* (the limit 1000 is 10): images of 300, 600 and 1200 columns are doubled *)
(* twice, once and never.  Epsilons are in units of 10^-8.                 *)
(***************************************************************************)
EXTENDS CrossValidation

\* Six images: three folds of two; or five folds of one, one image discarded; or
\* too few for seven folds.
SixWidths == <<3, 3, 12, 6, 6, 3>>
\* Three images of 300 columns.
NarrowWidths == <<3, 3, 3>>

OneC == <<1>>
TwoCs == <<1, 10>>
\* 10^-6 and 10^-5: the smallest epsilons that keep their own file names.
ApartEpsilons == <<100, 1000>>
\* 10^-8 and 10^-7, the first two epsilons of the program's grid.
CloseEpsilons == <<1, 10>>
=============================================================================

--------------------------- MODULE MCCuttingPlanes ---------------------------
(***************************************************************************)
(* Small training sets: every two of the images below.  Weights are one   *)
(* weight for a feature of the windows and the threshold, to which the     *)
(* nuclear norm does not apply; that of one number is its absolute value.  *)
(***************************************************************************)
EXTENDS DetectorTraining

\* A hit, a false alarm, a second hit or a window to ignore; features in order.
Pair == {<<1, 2>>, <<2, 1>>}
Row == {<<1, 2>>, <<2, 1>>, <<2, 3>>, <<3, 2>>}
Image(hits, truth, feature, ignored, overlaps) ==
  [hits |-> hits, truth |-> truth, ignored |-> ignored, overlaps |-> overlaps,
   feature |-> feature]
Examples == <<
  Image(<<1, 0>>, <<1>>, <<2, -1>>, {}, {}),
  Image(<<1, 0>>, <<1>>, <<1, 2>>, {}, {}),
  Image(<<1, 1, 0>>, <<1>>, <<2, 1, -2>>, {}, {}),
  Image(<<1, 1, 0>>, <<1>>, <<-1, 2, 1>>, {}, {}),
  Image(<<1, 1>>, <<1>>, <<2, 1>>, {}, Pair),
  Image(<<1, 0, 0>>, <<1>>, <<1, 2, 1>>, {}, Row),
  Image(<<1, 0, 1>>, <<1>>, <<2, 3, 2>>, {}, Row),
  Image(<<1, 0, 2>>, <<1, 3>>, <<3, 4, 3>>, {}, Row),
  Image(<<1, 0, 0>>, <<1>>, <<2, 1, -1>>, {2}, {}),
  Image(<<1, 0, 0>>, <<1>>, <<1, -1, 0>>, {}, {}),
  Image(<<1, 2, 0>>, <<1, 2>>, <<-1, 1, 2>>, {}, {}),
  Image(<<1, 2, 1>>, <<1, 2>>, <<2, 1, 1>>, {}, {<<2, 3>>, <<3, 2>>}) >>

MCSamples == {1, 2}
MCLabellings == SUBSET (1..3)
Grid == (-3..3) \X (-2..2)
MCZero == <<0, 0>>
MCNorm == [v \in Grid |-> v[1] * v[1] + v[2] * v[2]]
MCGradient == [u \in Grid |-> [v \in Grid |-> IF u[1] < 0 THEN -v[1] ELSE v[1]]]

MCImages == ToSet(Examples)
MCScores ==
  [image \in MCImages |-> [v \in Grid |->
     [b \in DOMAIN image.hits |-> v[1] * image.feature[b] - v[2]]]]

\* Every two of the images, without and with --nnr, with few rounds and with many.
Selections ==
  {n \in (DOMAIN Examples) \X (DOMAIN Examples) \X {0, 1} \X {3, MostRounds} :
     n[1] <= n[2]}
MCTrainingSets == [n \in Selections |-> <<Examples[n[1]], Examples[n[2]]>>]
MCProblems == [n \in Selections |-> ProblemOf(MCTrainingSets[n], n[3], n[4])]
=============================================================================

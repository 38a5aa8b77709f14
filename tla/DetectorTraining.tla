-------------------------- MODULE DetectorTraining --------------------------
(***************************************************************************)
(* Training of the detector: the cutting planes on images, with the        *)
(* detector's own separation oracle and the labellings being sets of       *)
(* windows.                                                                *)
(***************************************************************************)
EXTENDS CuttingPlanes, SeparationOracle

CONSTANTS
  Images,       \* the images there are
  TrainingSets, \* by the number of the problem, its images
  Scores        \* for each image the scores of its windows at given weights

TruthOf(image) == {image.truth[t] : t \in Truths(image)}
Margin(image, psi, v) ==
  IF psi \subseteq WindowsOf(image)
    THEN ScoreOf(Scores[image][v], psi) - ScoreOf(Scores[image][v], TruthOf(image))
    ELSE 0

\* What the optimisation sees of an image.
Seen ==
  [image \in Images |->
     [truth |-> TruthOf(image),
      margin |-> [psi \in Labellings |-> [v \in Weights |-> Margin(image, psi, v)]],
      oracle |-> [v \in Weights |-> {Oracle(image, Scores[image][v])}],
      worst |-> [v \in Weights |->
                   WorstCase(image, Scores[image][v])
                     - ScoreOf(Scores[image][v], TruthOf(image))]]]

ProblemOf(images, strength, rounds) ==
  [truth |-> [s \in Samples |-> Seen[images[s]].truth],
   margin |-> [s \in Samples |-> Seen[images[s]].margin],
   oracle |-> [s \in Samples |-> Seen[images[s]].oracle],
   worst |-> [s \in Samples |-> Seen[images[s]].worst],
   strength |-> strength,
   max_iterations |-> rounds]

ASSUME ImagesAssumption ==
  \A image \in Images :
    /\ IsImage(image) /\ PossibleLabels(image)
    /\ SUBSET WindowsOf(image) \subseteq Labellings
    /\ Scores[image] \in [Weights -> [WindowsOf(image) -> Int]]

ASSUME DetectorAssumption ==
  /\ TrainingSets \in [DOMAIN Problems -> [Samples -> Images]]
  /\ \A n \in DOMAIN Problems :
       Problems[n] =
         ProblemOf(TrainingSets[n], Problems[n].strength, Problems[n].max_iterations)

-----------------------------------------------------------------------------
(* What the oracle answers at w: a labelling that is permitted, with the loss it
   says, so that it is never worse than the worst one, at no other weights
   either; and the worst one wherever no windows overlap and the passes need not
   stop at max_num_dets. *)
GreedyIsExact ==
  pc = "risk" =>
    \A s \in Samples :
      LET image == TrainingSets[problem][s]
          score == Scores[image][w]
          found == Oracle(image, score)
      IN  /\ found.psi \in Permitted(image)
          /\ found.loss = LossOf(image, found.psi)
          /\ \A v \in Weights :
               found.loss + ScoreOf(Scores[image][v], found.psi)
                 <= WorstCase(image, Scores[image][v])
          /\ Unhindered(image, score) =>
               found.loss + ScoreOf(score, found.psi) = WorstCase(image, score)
=============================================================================

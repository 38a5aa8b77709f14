-------------------------- MODULE SeparationOracle --------------------------
(***************************************************************************)
(* The separation oracle of the detector's structural SVM                  *)
(* (dlib/svm/structural_svm_object_detection_problem.h): for an image and  *)
(* a weight vector it looks for the set of detections that is worst, i.e.  *)
(* whose loss and score together are highest, by two greedy passes over    *)
(* the detections.                                                         *)
(*                                                                         *)
(* An image is the record of                                               *)
(*   hits      for each window the truth box it matches by more than       *)
(*             match_eps, 0 if there is none                               *)
(*   truth     a window for each truth box, its best match                 *)
(*   ignored   windows that overlap a box to ignore                        *)
(*   overlaps  pairs of windows that boxes_overlap joins                   *)
(* The score of a window is what it exceeds the threshold by.              *)
(***************************************************************************)
EXTENDS Integers, Sequences, FiniteSets, FiniteSetsExt

CONSTANTS
  LossPerMissed, LossPerFalse, \* loss_per_missed_target, ..false_alarm
  MaxNumDets                   \* max_num_dets

ASSUME OracleAssumption ==
  /\ LossPerMissed \in Nat \ {0} /\ LossPerFalse \in Nat \ {0}
  /\ MaxNumDets \in Nat \ {0}

Truths(image) == DOMAIN image.truth
WindowsOf(image) == DOMAIN image.hits

IsImage(image) ==
  /\ image.truth \in Seq(WindowsOf(image))
  /\ image.hits \in Seq(0..Len(image.truth))
  /\ \A a, b \in WindowsOf(image) :
       <<a, b>> \in image.overlaps => <<b, a>> \in image.overlaps

(* get_truth_joint_feature_vector throws impossible_labeling_error on all others.
   max_num_dets is above the number of the truth boxes of any image. *)
PossibleLabels(image) ==
  /\ Len(image.truth) <= MaxNumDets
  /\ \A t \in Truths(image) : image.hits[image.truth[t]] # 0
  /\ \A t, u \in Truths(image) :
       t # u => <<image.truth[t], image.truth[u]>> \notin image.overlaps

\* scanner.detect(current_solution, dets, thresh - loss_per_false_alarm), best
\* first: the n-th is the one with n - 1 ahead of it.  Equal scores come in
\* either order; the order of the windows is taken.
Reported(image, score) == {b \in WindowsOf(image) : score[b] >= -LossPerFalse}
Ahead(score, a, b) == score[a] > score[b] \/ (score[a] = score[b] /\ a < b)
Dets(image, score) ==
  LET reported == Reported(image, score)
  IN  [n \in 1..Cardinality(reported) |->
         CHOOSE b \in reported :
           Cardinality({a \in reported : Ahead(score, a, b)}) = n - 1]

OverlapsAny(image, final, b) == \E a \in final : <<a, b>> \in image.overlaps

Passed(image, final, b) ==
  Cardinality(final) < MaxNumDets /\ ~OverlapsAny(image, final, b)

(* The first pass: what each truth box would gain by its detections, when all
   but the first count as false alarms. *)
NoGain(image) == [final |-> {}, gain |-> [t \in Truths(image) |-> 0], hit |-> {}]
Gain(image, score, p, b) ==
  LET t == image.hits[b]
      more == score[b] + (IF t \in p.hit THEN LossPerFalse ELSE 0)
  IN  CASE ~Passed(image, p.final, b) -> p
        [] Passed(image, p.final, b) /\ t = 0 -> [p EXCEPT !.final = @ \cup {b}]
        [] OTHER -> [final |-> p.final \cup {b},
                     gain |-> [p.gain EXCEPT ![t] = @ + more],
                     hit |-> p.hit \cup {t}]

TruthScoreHits(image, score) ==
  LET dets == Dets(image, score)
      pass[n \in 0..Len(dets)] ==
        IF n = 0 THEN NoGain(image) ELSE Gain(image, score, pass[n - 1], dets[n])
  IN  pass[Len(dets)].gain

\* A truth box is detected where that gains more than missing it.
WorthwhileUnaware(gain) == gain >= 0
Worthwhile(gain) == gain > LossPerMissed

(* The second pass: the detections that jointly maximise loss and score. *)
NothingFound(image) ==
  [psi |-> {}, hit |-> {}, loss |-> LossPerMissed * Len(image.truth)]
Find(image, gain, p, b) ==
  LET t == image.hits[b]
      add(loss) == [psi |-> p.psi \cup {b}, hit |-> p.hit \cup {t}, loss |-> p.loss + loss]
      wanted == IF t = 0 THEN b \notin image.ignored ELSE Worthwhile(gain[t])
  IN  CASE ~(Passed(image, p.psi, b) /\ wanted) -> p
        [] Passed(image, p.psi, b) /\ wanted /\ t \notin p.hit \cup {0} -> add(-LossPerMissed)
        [] OTHER -> add(LossPerFalse)

Oracle(image, score) ==
  LET dets == Dets(image, score)
      gain == TruthScoreHits(image, score)
      pass[n \in 0..Len(dets)] ==
        IF n = 0 THEN NothingFound(image) ELSE Find(image, gain, pass[n - 1], dets[n])
  IN  [psi |-> pass[Len(dets)].psi, loss |-> pass[Len(dets)].loss]

-----------------------------------------------------------------------------
(* What the passes approximate. *)

\* Sets of detections that non-max suppression and the boxes to ignore allow.
Permitted(image) ==
  {S \in SUBSET WindowsOf(image) :
     /\ Cardinality(S) <= MaxNumDets
     /\ \A b \in S : image.hits[b] # 0 \/ b \notin image.ignored
     /\ \A a, b \in S : a # b => <<a, b>> \notin image.overlaps}

\* The number of truth boxes missed and of detections that are false alarms,
\* duplicates among them, each with its weight.
LossOf(image, S) ==
  LET found == {image.hits[b] : b \in S} \ {0}
  IN  LossPerMissed * (Len(image.truth) - Cardinality(found))
        + LossPerFalse * (Cardinality(S) - Cardinality(found))

ScoreOf(score, S) == MapThenSumSet(LAMBDA b : score[b], S)

\* The highest sum of loss and score.
WorstCase(image, score) ==
  Max({LossOf(image, S) + ScoreOf(score, S) : S \in Permitted(image)})

\* Neither overlaps nor max_num_dets keep the passes from a detection.
Unhindered(image, score) ==
  image.overlaps = {} /\ Cardinality(Reported(image, score)) <= MaxNumDets
=============================================================================

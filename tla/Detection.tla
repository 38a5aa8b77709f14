----------------------------- MODULE Detection -----------------------------
(***************************************************************************)
(* What a detector reports on the evaluation images and how the report is  *)
(* rated: the greedy non-maximum suppression of object_detector and the    *)
(* matching of detections with truth boxes of                              *)
(* test_object_detection_function, as pure operators.                      *)
(*                                                                         *)
(* A window is a place at which the scanner can report an object, in any   *)
(* of the images; windows of different images never clash and never mark   *)
(* each other's truth boxes, so one set of windows stands for all images.  *)
(***************************************************************************)
EXTENDS Integers, Sequences, FiniteSets, SequencesExt, FiniteSetsExt

CONSTANTS
  Windows,   \* a set
  Clash,     \* pairs of windows that the detector's overlap tester joins
  NumTruths, \* how many truth boxes there are
  Marks      \* pairs <<truth, window>> that test_box_overlap joins

ASSUME DetectionAssumption ==
  /\ IsFiniteSet(Windows)
  /\ Clash \subseteq Windows \X Windows
  /\ \A a, b \in Windows : <<a, b>> \in Clash => <<b, a>> \in Clash
  /\ NumTruths \in Nat
  /\ Marks \subseteq (1..NumTruths) \X Windows

(* scan_fhog_pyramid::detect: the windows that reach the threshold, best first:
   the n-th is the one with n - 1 better ones. *)
Reaching(score, thresh) == {w \in Windows : score[w] >= thresh}

RankedWorstFirst(score, thresh) ==
  LET reach == Reaching(score, thresh)
  IN  [n \in 1..Cardinality(reach) |->
         CHOOSE w \in reach :
           Cardinality({v \in reach : score[v] < score[w]}) = n - 1]
Ranked(score, thresh) ==
  LET reach == Reaching(score, thresh)
  IN  [n \in 1..Cardinality(reach) |->
         CHOOSE w \in reach :
           Cardinality({v \in reach : score[v] > score[w]}) = n - 1]

(* Non-max suppression: a detection goes unless it clashes with none of those
   that are already final. *)
OverlapsFirst(final, w) == final # <<>> /\ <<final[1], w>> \in Clash
OverlapsAny(final, w) == \E a \in DOMAIN final : <<final[a], w>> \in Clash

NonMax(dets) ==
  LET final[n \in 0..Len(dets)] ==
        IF n = 0 THEN <<>>
        ELSE LET before == final[n - 1] IN
               IF OverlapsAny(before, dets[n]) THEN before
                                               ELSE Append(before, dets[n])
  IN  final[Len(dets)]

Detections(score, thresh) == NonMax(Ranked(score, thresh))

(* number_of_truth_hits: each truth box in turn takes the best detection that
   overlaps it and is not used yet. *)
Used(boxes) ==
  LET used[t \in 0..NumTruths] ==
        IF t = 0 THEN {}
        ELSE LET before == used[t - 1]
                 free == {a \in DOMAIN boxes \ before : <<t, boxes[a]>> \in Marks}
             IN  IF free = {} THEN before ELSE before \cup {Min(free)}
  IN  used[NumTruths]

\* In percent; a quotient by nothing counts as perfect.
Percent(part, whole) == IF whole = 0 THEN 100 ELSE (100 * part) \div whole

(* average_precision: from the last hit to the first, the best precision so
   far is summed up.  The all_dets of the code are in order already: one
   detector, best first.  from[n] is the result after the last n places. *)
PrecisionSum(used) ==
  LET last == Cardinality(Windows)
      precision(a) == Percent(Cardinality({b \in used : b <= a}), a)
      from[n \in 0..last] ==
        IF n = 0 THEN [max_val |-> 0, sum |-> 0]
        ELSE LET later == from[n - 1]
                 a == last - n + 1
                 best == Max({later.max_val, precision(a)})
             IN  IF a \in used
                   THEN [max_val |-> best, sum |-> later.sum + best]
                   ELSE later
  IN  from[last].sum

\* The truths that were missed count like hits of precision 0.
AveragePrecision(used) ==
  IF NumTruths = 0 THEN 100 ELSE PrecisionSum(used) \div NumTruths

Evaluation(score, thresh) ==
  LET boxes == Detections(score, thresh)
      used == Used(boxes)
      hits == Cardinality(used)
  IN  [precision |-> Percent(hits, Len(boxes)),
       recall |-> Percent(hits, NumTruths),
       average |-> AveragePrecision(used)]
=============================================================================

--------------------------- MODULE ThresholdSweep ---------------------------
(***************************************************************************)
(* The evaluation mode with the threshold option                           *)
(* (src/examples/fHOG_FullNaoDetector.cpp:861-933): every .svm file of a   *)
(* directory is evaluated at every threshold of a range, and a row for     *)
(* each goes to the log.  Once an evaluation found nothing, the sweep      *)
(* reuses its result instead of evaluating again.                          *)
(*                                                                         *)
(* A trained detector is the score that it gives to each window.  Scores   *)
(* are real numbers: no two windows of one detector have the same.         *)
(* Thresholds are whole numbers of a unit, so their sums are exact.  All   *)
(* files can be read; deserialize would throw at one that cannot, and the  *)
(* program would end there.                                                *)
(***************************************************************************)
EXTENDS Detection

CONSTANTS
  MaxFiles,       \* bound on the .svm files in the directory
  Scores,         \* the scores a detector can give
  StartThreshold, EndThreshold, ThresholdStep

ASSUME SweepAssumption ==
  /\ MaxFiles \in Nat
  /\ Scores \subseteq Int
  /\ StartThreshold \in Int /\ EndThreshold \in Int
  /\ ThresholdStep \in Int

VARIABLES
  pc,          \* what the program does next
  files,       \* the detectors in the directory, sorted by file name
  i,           \* the file that is evaluated
  dThreshold,
  matrix,      \* tempevaluationmatrix
  rows         \* the rows logged so far for each file

vars == <<pc, files, i, dThreshold, matrix, rows>>

Detectors == { s \in [Windows -> Scores] :
                 \A a, b \in Windows : s[a] = s[b] => a = b }

Init ==
  /\ pc = "open"
  /\ files \in UNION {[1..n -> Detectors] : n \in 0..MaxFiles}
  /\ i = 1
  /\ dThreshold = StartThreshold
  /\ matrix = [precision |-> 0, recall |-> 0, average |-> 0]
  /\ rows = [f \in DOMAIN files |-> <<>>]

\* Without detectors the program returns at once.
NoneFound ==
  /\ pc = "open"
  /\ files = <<>>
  /\ pc' = "done"
  /\ UNCHANGED <<files, i, dThreshold, matrix, rows>>

OpenFileKeepsMatrix ==
  /\ pc = "open"
  /\ i <= Len(files)
  /\ dThreshold' = StartThreshold
  /\ pc' = "sweep"
  /\ UNCHANGED <<files, i, matrix, rows>>
OpenFile ==
  /\ pc = "open"
  /\ i <= Len(files)
  /\ matrix' = [precision |-> 0, recall |-> 0, average |-> 0]
  /\ dThreshold' = StartThreshold
  /\ pc' = "sweep"
  /\ UNCHANGED <<files, i, rows>>

(* Helper::matIs100: precision 1, recall and average precision 0, the result
   of an evaluation without detections.  Percentages are rounded down, the code
   compares with an exact 0. *)
matIs100(mat) == mat.precision = 100 /\ mat.recall = 0 /\ mat.average = 0

InRange == dThreshold <= EndThreshold

NextThreshold == dThreshold + ThresholdStep

LogRow ==
  /\ pc = "sweep"
  /\ InRange
  /\ matrix' = IF matIs100(matrix) THEN matrix
                                   ELSE Evaluation(files[i], dThreshold)
  /\ rows' = [rows EXCEPT ![i] =
                Append(@, [threshold |-> dThreshold, matrix |-> matrix'])]
  /\ dThreshold' = NextThreshold
  /\ UNCHANGED <<pc, files, i>>

CloseFile ==
  /\ pc = "sweep"
  /\ ~InRange
  /\ i' = i + 1
  /\ pc' = IF i < Len(files) THEN "open" ELSE "done"
  /\ UNCHANGED <<files, dThreshold, matrix, rows>>

Next == NoneFound \/ OpenFile \/ LogRow \/ CloseFile

Spec == Init /\ [][Next]_vars
-----------------------------------------------------------------------------
Matrices == [precision : 0..100, recall : 0..100, average : 0..100]

(* A row shows, in percent, what the detector of its file does at the threshold
   of the row, also when the evaluation was skipped because an earlier one
   found nothing; in the end each file has a row for every threshold of the range, the last
   included, in ascending order. *)
LogRight ==
  /\ \A f \in DOMAIN files : \A r \in DOMAIN rows[f] :
       /\ rows[f][r].matrix = Evaluation(files[f], rows[f][r].threshold)
       /\ rows[f][r].matrix \in Matrices
  /\ pc = "done" /\ StartThreshold <= EndThreshold =>
       \A f \in DOMAIN files :
         /\ Len(rows[f]) =
              (EndThreshold - StartThreshold) \div ThresholdStep + 1
         /\ \A r \in DOMAIN rows[f] :
              rows[f][r].threshold = StartThreshold + (r - 1) * ThresholdStep

(* "increase precision while decreasing recall"
   (fHOG_FullNaoDetector.cpp:913): in the log of a file the recall never rises
   with the threshold, although raising it changes which detections the
   suppression keeps and which truth boxes they are matched with. *)
RecallFalls ==
  \A f \in DOMAIN files : \A a, b \in DOMAIN rows[f] :
    a < b => rows[f][a].matrix.recall >= rows[f][b].matrix.recall

(* No two detections that are reported clash, and a window that is not
   reported clashes with a better one that is. *)
SuppressionRight ==
  pc = "sweep" =>
    LET score == files[i]
        final == Range(Detections(score, dThreshold))
    IN  \A w \in Windows :
          w \in final <=> /\ score[w] >= dThreshold
                          /\ ~\E b \in final : /\ score[b] > score[w]
                                               /\ <<b, w>> \in Clash
=============================================================================

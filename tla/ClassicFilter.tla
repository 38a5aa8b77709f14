--------------------------- MODULE ClassicFilter ---------------------------
(***************************************************************************)
(* The evaluation mode with the classic option                             *)
(* (src/examples/fHOG_FullNaoDetector.cpp:861-976): every .svm file of a   *)
(* directory is loaded, reduced to fewer separable filters, evaluated and  *)
(* written back over the file.  The test mode (390-413) reduces one        *)
(* detector by a similar loop and keeps the result in memory.              *)
(*                                                                         *)
(* A detector is the singular values of its planes, in units of 10^-4.     *)
(* Thresholds d are in hundredths.  The code sums them up in a double that *)
(* starts at -10 and always ends a little short of the hundredth it stands *)
(* for, so `d < limit' still holds where both are the same hundredth.      *)
(***************************************************************************)
EXTENDS Integers, Sequences, FiniteSets, FiniteSetsExt

CONSTANTS
  Planes,     \* the planes of the filter, 31 in the code
  Ranks,      \* indices of the singular values of a plane
  MaxValue,   \* bound on the singular values
  Trained,    \* the detectors that training can produce
  NumFiles,   \* how many .svm files the directory holds
  TestMode,   \* whether the program tests (or evaluates)
  Strength,   \* fMaximumFilterStrength, 40 in the test mode
  Start,      \* bound on the thresholds from below, -1000 in the code
  Retained,   \* values of 1 - fClassicness in millionths
  Broken,     \* a file that was not written to its end
  MaxRuns, MaxCrashes  \* bounds: runs of the program, how many of them die

ASSUME ClassicAssumption ==
  /\ IsFiniteSet(Planes) /\ IsFiniteSet(Ranks)
  /\ MaxValue \in Nat
  /\ Trained \subseteq [Planes -> [Ranks -> 0..MaxValue]]
  /\ NumFiles \in Nat /\ TestMode \in BOOLEAN
  /\ Strength \in Int /\ Start \in Int /\ Retained \subseteq Nat
  /\ Broken \notin [Planes -> [Ranks -> 0..MaxValue]]
  /\ MaxRuns \in Nat /\ MaxCrashes \in Nat

VARIABLES
  pc,
  retained,   \* what the configuration asks for, one of Retained
  trained,    \* the detectors as they were trained
  disk,       \* what the files hold
  i,          \* the file that is evaluated
  detectorForEvaluation, detectorClassicHOG,
  d, iNumberOfFilters, iStartNumberOfFilters,
  bClassicness, \* bAtLeastOneFilter in the test mode
  run, crashes

given == <<retained, trained>>
files == <<given, disk>>
loop == <<detectorForEvaluation, detectorClassicHOG, d, iNumberOfFilters,
          iStartNumberOfFilters, bClassicness>>
vars == <<pc, files, i, loop, run, crashes>>

Detectors == [Planes -> [Ranks -> 0..MaxValue]]
None == [p \in Planes |-> [r \in Ranks |-> 0]]

\* build_fhog_filterbank ignores values below 10^-4 or a thousandth of the
\* largest one of the plane.
Counts(plane, r) ==
  /\ plane[r] >= 1
  /\ \A q \in Ranks : 1000 * plane[r] >= plane[q]
num_separable_filters(det) ==
  Cardinality({s \in Planes \X Ranks : Counts(det[s[1]], s[2])})

(* threshold_filter_singular_values: in each plane, values below 10^-3 and
   below the given part of the largest one become zero. *)
SurvivesSum(plane, r, thresh) ==
  /\ plane[r] >= 10
  /\ 100 * plane[r] >= thresh * MapThenSumSet(LAMBDA q : plane[q], Ranks)
Survives(plane, r, thresh) ==
  /\ plane[r] >= 10
  /\ \A q \in Ranks : 100 * plane[r] >= thresh * plane[q]
threshold_filter_singular_values(det, thresh) ==
  [p \in Planes |-> [r \in Ranks |->
     IF Survives(det[p], r, thresh) THEN det[p][r] ELSE 0]]

Init ==
  /\ pc = "load"
  /\ retained \in Retained
  /\ trained \in [1..NumFiles -> Trained]
  /\ disk = trained
  /\ i = 1
  /\ detectorForEvaluation = None /\ detectorClassicHOG = None
  /\ d = Start
  /\ iNumberOfFilters = 0 /\ iStartNumberOfFilters = 0
  /\ bClassicness = TRUE
  /\ run = 1 /\ crashes = 0
-----------------------------------------------------------------------------
Load ==
  /\ pc = "load"
  /\ i <= NumFiles
  /\ disk[i] # Broken
  /\ detectorForEvaluation' = disk[i]
  /\ detectorClassicHOG' = disk[i]
  /\ d' = Start
  /\ iNumberOfFilters' = num_separable_filters(disk[i])
  /\ iStartNumberOfFilters' = iNumberOfFilters'
  /\ bClassicness' = TRUE
  /\ pc' = "reduce"
  /\ UNCHANGED <<files, i, run, crashes>>

\* deserialize throws, main prints the exception and returns.
LoadFails ==
  /\ pc = "load"
  /\ i <= NumFiles
  /\ disk[i] = Broken
  /\ pc' = "ended"
  /\ UNCHANGED <<files, i, loop, run, crashes>>

AllLoaded ==
  /\ pc = "load"
  /\ i > NumFiles
  /\ pc' = "ended"
  /\ UNCHANGED <<files, i, loop, run, crashes>>

LoopGoesOn == iNumberOfFilters > 1 /\ d <= Strength /\ bClassicness

TooFew(n) == \/ n <= 0
             \/ ~TestMode /\ 1000000 * n <= retained * iStartNumberOfFilters

SameD == d
NextD == d + 1

Reduce ==
  /\ pc = "reduce"
  /\ LoopGoesOn
  /\ LET next == threshold_filter_singular_values(detectorClassicHOG, d)
         n == num_separable_filters(next)
     IN  /\ ~TooFew(n)
         /\ detectorClassicHOG' = next
         /\ iNumberOfFilters' = n
  /\ d' = NextD
  /\ UNCHANGED <<pc, files, i, detectorForEvaluation, iStartNumberOfFilters,
                 bClassicness, run, crashes>>

(* The reduction went too far: one step back, from the detector as it was
   loaded (the evaluation mode loads it again). *)
NoStepBack == d
StepBack == d - 1
BackToAlways(det, thresh) == threshold_filter_singular_values(det, thresh)
BackTo(det, thresh) ==
  IF TestMode \/ thresh > Start + 1
    THEN threshold_filter_singular_values(det, thresh)
    ELSE det

Overshoot ==
  /\ pc = "reduce"
  /\ LoopGoesOn
  /\ LET next == threshold_filter_singular_values(detectorClassicHOG, d)
         n == num_separable_filters(next)
     IN  /\ TooFew(n)
         /\ iNumberOfFilters' = n
  /\ d' = StepBack
  /\ bClassicness' = FALSE
  /\ detectorForEvaluation' = IF TestMode THEN detectorForEvaluation
                                          ELSE disk[i]
  /\ detectorClassicHOG' = BackTo(detectorForEvaluation', d')
  /\ UNCHANGED <<pc, files, i, iStartNumberOfFilters, run, crashes>>

EndLoop ==
  /\ pc = "reduce"
  /\ ~LoopGoesOn
  /\ pc' = "evaluate"
  /\ UNCHANGED <<files, i, loop, run, crashes>>

(* The evaluation itself changes nothing; the test mode ends with it. *)
Evaluate ==
  /\ pc = "evaluate"
  /\ pc' = IF TestMode THEN "ended" ELSE "serialize"
  /\ UNCHANGED <<files, i, loop, run, crashes>>

\* serialize opens the file, which empties it, and then writes it.
OpenFile ==
  /\ pc = "serialize"
  /\ disk' = [disk EXCEPT ![i] = Broken]
  /\ pc' = "write"
  /\ UNCHANGED <<given, i, loop, run, crashes>>

WriteLost ==
  /\ pc = "write"
  /\ i' = i + 1
  /\ pc' = "load"
  /\ UNCHANGED <<files, loop, run, crashes>>
WriteOriginal ==
  /\ pc = "write"
  /\ disk' = [disk EXCEPT ![i] = detectorForEvaluation]
  /\ i' = i + 1
  /\ pc' = "load"
  /\ UNCHANGED <<given, loop, run, crashes>>
Write ==
  /\ pc = "write"
  /\ disk' = [disk EXCEPT ![i] = detectorClassicHOG]
  /\ i' = i + 1
  /\ pc' = "load"
  /\ UNCHANGED <<given, loop, run, crashes>>

Forgotten ==
  /\ i' = 1
  /\ detectorForEvaluation' = None /\ detectorClassicHOG' = None
  /\ d' = Start
  /\ iNumberOfFilters' = 0 /\ iStartNumberOfFilters' = 0
  /\ bClassicness' = TRUE

(* The process dies: everything but the files is lost. *)
Crash ==
  /\ pc # "ended"
  /\ crashes < MaxCrashes
  /\ crashes' = crashes + 1
  /\ pc' = "ended"
  /\ Forgotten
  /\ UNCHANGED <<files, run>>

\* The user runs the program again on the same directory.
RunAgain ==
  /\ pc = "ended"
  /\ run < MaxRuns
  /\ run' = run + 1
  /\ pc' = "load"
  /\ Forgotten
  /\ UNCHANGED <<files, crashes>>

ProgramStep ==
  \/ Load \/ LoadFails \/ AllLoaded
  \/ Reduce \/ Overshoot \/ EndLoop
  \/ Evaluate \/ OpenFile \/ Write

Next == ProgramStep \/ Crash \/ RunAgain

\* The program runs on; nobody has to crash it or to run it again.
Spec == Init /\ [][Next]_vars
FairSpec == Spec /\ WF_vars(ProgramStep)
-----------------------------------------------------------------------------
TypeOK ==
  /\ pc \in {"load", "reduce", "evaluate", "serialize", "write", "ended"}
  /\ retained \in Retained
  /\ trained \in [1..NumFiles -> Detectors]
  /\ disk \in [1..NumFiles -> Detectors \cup {Broken}]
  /\ i \in 1..(NumFiles + 1)
  /\ detectorForEvaluation \in Detectors /\ detectorClassicHOG \in Detectors
  /\ d \in Int /\ (d = Start \/ d \in (Start - 1)..(Strength + 1))
  /\ iNumberOfFilters \in Nat /\ iStartNumberOfFilters \in Nat
  /\ bClassicness \in BOOLEAN
  /\ run \in 1..(MaxRuns + 1) /\ crashes \in 0..MaxCrashes

(* "use the last value with any filters" (fHOG_FullNaoDetector.cpp:402 and
   951): the reduction never leaves a detector without filters. *)
NotEmptied ==
  pc = "evaluate" /\ iStartNumberOfFilters > 0 =>
    num_separable_filters(detectorClassicHOG) > 0

(* The thresholds of all rounds together, each applied to the result of the
   one before, do what the last one alone does to the detector as it was
   loaded.  The step back relies on it: it applies one threshold only. *)
CompoundIsFresh ==
  pc = "reduce" /\ bClassicness /\ d > Start =>
    detectorClassicHOG =
      threshold_filter_singular_values(detectorForEvaluation, d - 1)

(* After stepping back, one hundredth more would leave too few filters, and
   what is kept has enough of them or is the detector as it was loaded. *)
LastGood ==
  pc = "evaluate" /\ ~bClassicness =>
    /\ TooFew(num_separable_filters(
                threshold_filter_singular_values(detectorForEvaluation, d + 1)))
    /\ \/ ~TooFew(num_separable_filters(detectorClassicHOG))
       \/ detectorClassicHOG = detectorForEvaluation

(* With full classicness the limit of the filter strength is all that counts:
   evaluating a directory again reduces no detector further. *)
SecondRunKeeps ==
  retained = 0 /\ run > 1 /\ crashes = 0 /\ pc = "evaluate" =>
    detectorClassicHOG = detectorForEvaluation

(* Only a crash leaves a file that cannot be read, one each, and what can be
   read is the trained detector without some of its filters; without none of
   them at classicness 0: "0.0 leaves it untouched" (HOGconfig.txt:53). *)
FilesSurvive ==
  /\ Cardinality({f \in 1..NumFiles : disk[f] = Broken})
       <= crashes + (IF pc = "write" THEN 1 ELSE 0)
  /\ \A f \in 1..NumFiles :
       disk[f] # Broken =>
         /\ \A p \in Planes, r \in Ranks : disk[f][p][r] \in {0, trained[f][p][r]}
         /\ retained >= 1000000 => disk[f] = trained[f]

\* Every run ends, by itself or by a crash.
RunEnds == pc # "ended" ~> pc = "ended"
=============================================================================

# A verification model of the Nao HOG detector tools

The repository trains, cross-validates, evaluates and shows detectors for Nao
robots. A detector is a linear SVM over HOG features, trained by dlib's
structural SVM on images whose robots are marked with boxes. The authors' own
code is about 3,000 lines in `src/examples` and `src/extern`; it drives a copy
of dlib in `src/dlib`.

This directory holds TLA+ models of the parts in which something other than
arithmetic can go wrong, TLC instances of them, and proofs checked by TLAPS.

## The system

| Part | State it keeps | Operations | Modelled in |
| --- | --- | --- | --- |
| Cross validation, `extern/CrossValidation.cpp` | two copies of the data set, the folds, the training data of the session, the window size, one file per detector | `addImages`, `splitImagesIntoFolds`, `shuffleImages`, `executeCrossValidation`, `combineFoldsIntoTrainingData`, `runTrainingSession` | `CrossValidation` |
| Evaluation mode, `fHOG_FullNaoDetector.cpp:861-981` | the `.svm` files of a directory, the detector being reduced, the loop variables | threshold sweep, reduction to a classic detector | `ThresholdSweep`, `ClassicFilter` |
| Trainer threads, `dlib/threads/thread_pool_extension.cpp` | task slots, one mutex, two conditions | `add_task`, `wait_for_task`, `wait_for_all_tasks`, the worker loop, shutdown | `ThreadPool`, against `TaskPool` |
| A round of oracle calls, `dlib/svm/structural_svm_problem_threaded.h`, `dlib/threads/parallel_for_extension.h` | the blocks of samples, the sum so far, a mutex of its own | `parallel_for_blocked`, `call_oracle` | `ParallelRisk`, on top of `TaskPool` |
| Structural SVM, `dlib/svm/structural_svm_problem.h`, `dlib/svm/structural_svm_object_detection_problem.h`, `dlib/optimization/optimization_oca.h` | a cache of oracle results for each sample, the planes, the weights | `separation_oracle`, `separation_oracle_cached`, `get_risk`, `optimization_status`, the cutting plane loop | `SeparationOracle`, `OracleCache`, `CuttingPlanes`, `DetectorTraining`, against `CuttingPlaneMethod` |
| Detection, `dlib/image_processing/object_detector.h` | none | non-maximum suppression, matching of detections with truth boxes | `Detection` |
| Image windows, `dlib/gui_widgets/widgets.cpp`, `dlib/gui_core/gui_core_kernel_1.cpp` | the size, the last click, whether the window is closed, the size asked for | `set_image`, `set_size`, `get_size`, `is_closed`, `get_next_double_click`, the handlers of the event thread | `ImageWindow` |
| Video detector, `fHOG_FullNaoVideoDetector.cpp` | the size of the window before the frame | the loop over frames, with `prepareToWindowScaling` and `completeToWindowScaling` | `VideoLoop` |
| Tracker, `fHOG_SimpleTrackerExample.cpp` | the corners clicked, the boxes tracked | the loop over images | `SimpleTracker` |
| Window size of the detector, `extern/Helper.cpp`, `extern/CrossValidation.cpp` | `ulWinSizeWidth`, `ulWinSizeHeight` | `pickBestHogWindowSize`, once in each session | `WindowSize` |
| Pose and video filters, `extern/Video/Helper.cpp` | filter switches | `filterDetections`, `filterPoseDetections`, key handling | not modelled |
| Modes and configuration, `fHOG_FullNaoDetector.cpp:48-204` | parsed options, configuration values | which blocks run and on which files | not modelled |

The command line decides which blocks of `main` run, one after another on one
thread. `--cross` and `--ball` build a `CrossValidation` object, load images
into it, split it once and execute the grid of all C, epsilon and fold
combinations. Every session of the grid makes a trainer with four worker
threads, waits for it, and writes an `.svm` file. `--eval` reads the `.svm`
files of a directory, in alphabetical order, and evaluates each of them; with
`--classic` it also writes each of them back. `--test`, `--pose` and `--track`
read `.svm` files and show windows. The parts therefore meet in three places:
the files on disk, the detector object, and the four threads of the trainer.

## What is hard about each part

*Cross validation.* Images and boxes are held in separate arrays. The arrays
are swapped, moved, copied, upsampled and mirrored at different places, and the
folds live through the whole grid. What can go wrong takes many steps to show:
boxes on the wrong image, a validation image in the training data, a fold left
empty by a move, a session scored on other images than the one before, a
detector file that a later session replaces. The window size chosen in one
session is the target of the next, so roundings are fed back.

*Evaluation.* Floating point loop variables, a reduction that overshoots and
backs up, and a result written over its own input.

*Trainer threads.* Workers, submitters and waiters on one table of slots,
nested submission, shutdown during work. Above it, workers that read a sum
under one mutex and use caches that have none.

*Structural SVM.* A cache with a bounded number of entries for each sample,
whose answers decide whether the optimisation may stop; an oracle that is
approximate; planes that are dropped and must come again.

*Windows.* The second place with concurrency. The main thread blocks for a
click that the event thread delivers, for a size that the event thread sets
while the main thread holds the recursive mutex of the window twice, and the
user may close or resize the window between any two of its steps.

The full list, at its lines, is under `hazards` in `PROJECT.json`.

## Module `CrossValidation`

One program run of `--cross` or `--ball`. The program is one thread, so a step
is one statement or one loop iteration; `pc` names what runs next.

| Variables | In the code |
| --- | --- |
| `allImages`, `allBoxes`, `shuffledImages`, `shuffledBoxes` | the members of the same names |
| `foldedImages`, `foldedBoxes` | `foldedImagesVector`, `foldedBoxesVector`; element 1 is fold 0, the test fold |
| `currentImages`, `currentBoxes` | the training data of the session |
| `i`, `j`, `iC`, `iEpsilon`, `skippedFold` | the loop counters of `shuffleImages`, `splitImagesIntoFolds`, `combineFoldsIntoTrainingData` and the three loops of `executeCrossValidation`, from 1 |
| `randomIndex` | the local vector of that name, any permutation |
| `removed` | how many boxes the local `removed` of a session holds |
| `sessions`, `files` | the detectors trained so far; what each `.svm` file holds |
| `progress` | the last number printed after "progress:" |

An image is a record of where it came from, how often it was doubled and
whether it is mirrored. `Blank` is the default constructed image that dlib's
`array::push_back` leaves behind in its argument: it swaps, where
`std::vector::push_back` copies. `PushImage` and `CopyBack` are therefore two
steps, and between them a fold has a hole.

| Actions | Code |
| --- | --- |
| `AddImage` | one round of `addImages`, lines 16-29 |
| `BeginSplit`, `ShuffleStep`, `EndShuffle` | `splitImagesIntoFolds` up to `shuffleImages`, 58-66 and 185-210 |
| `FoldStep`, `EndSplit`, `DivideByZero` | the loop of `splitImagesIntoFolds`, 70-86; `i % imagesPerFold` kills the process when there are fewer images than folds |
| `BeginSession`, `NextEpsilon`, `NextC`, `EndGrid` | `executeCrossValidation`, 156-182 |
| `NextFold`, `PushImage`, `CopyBack`, `EndCombine` | `combineFoldsIntoTrainingData`, 220-255 |
| `Upsample`, `Flip`, `RemoveFromTraining`, `RemoveFromTest`, `TrainAndEvaluate`, `Save` | `runTrainingSession`, 257-350 |

Abstracted: pixels; the number and geometry of the boxes of an image (all of an
image's boxes are kept or lost together); which boxes a scanner can obtain (any
subset of the constant `Doubtful`); what the trainer learns; log and console
text other than the progress number; the windows of `--visualize`.

Not modelled are exceptions: `trainer.train` may throw (line 316), `serialize`
and `save_png` fail when the disk does (348-349), and `main` then ends with the
message of the exception. `Finishes` and `GridComplete` therefore speak of runs
in which none is thrown.

### Runs

| Run | Instance | Shows |
| --- | --- | --- |
| `folds` | six images of three widths, all 720 shuffles, two Cs and two epsilons; three folds of two, five folds of one with an image discarded, or seven folds, for which the images are too few | `Paired`, `NoLeak`, `FoldsBalanced`, `TrainingComplete`, `GridComplete`, `DetectorsKept`, and `Finishes` under fairness |
| `folds_names` | the grid's own two smallest epsilons | `DetectorsKept` is violated |
| `folds_doubling` | three narrow images | `AtMostDoubled` is violated |

`GridComplete` also says that the progress printed is the number of the
session. `Finishes` says that the program is through in the end when there are
enough images for the folds asked for, and that it has died in the split
otherwise.

The bounds. A shuffle of six images has swaps of a slot with itself, before
and after its source was overwritten, and cycles of every length. Three folds
are the test fold, a skipped and a used one, so every role of a fold occurs;
two images in a fold are needed for a move within a partly emptied fold. Two
epsilons let a second session run on the folds a first has used, and a third
one ask what is left of both. `FlipBelow` (150 in the code) and `UpsampleBelow`
(1000 columns) are constants so that small instances lie on both sides of them:
with three folds a session has two images, which are mirrored, with five it has
three, which are not; the widths 300, 600 and 1200 are doubled twice, once and
never.

`WF_vars(Next)` is the only fairness, in `folds`: the program is a single
thread that runs until it returns. Deadlock is not checked because the program
stops, in `done` or `crashed`.

### What disagrees

* `DetectorsKept` (`folds_names`). The file name of a detector holds
  `std::to_string(fEpsilon)`, six decimals. The grid of `--cross` begins at
  10^-8 (`fHOG_FullNaoDetector.cpp:793`); 10^-8 and 10^-7 both print as
  0.000000, and the second detector replaces the first. In `folds` the
  epsilons are 10^-6 and 10^-5 and the property holds.
* `AtMostDoubled` (`folds_doubling`). "Double size of images" is right for the
  training data, a fresh copy in each session. The test fold is doubled in
  place, each session again until 1000 columns are reached.

The message at `CrossValidation.cpp:305` about "training data" counts the boxes
of the test fold, since the second call replaces the local `removed`. It is
wording, and has no run.

### Proofs

`CrossValidation_proofs` proves for every number of images, widths, folds, Cs
and epsilons allowed by `ConstantsAssumption`:

* `TypeCorrect`, `Spec => []TypeOK`;
* `BoxesStayWithImages`, `Spec => []Paired`;
* `NoImageLeaks`, `Spec => []NoLeak`.

None of them is inductive. `Paired` treats a blank image as matched by any
boxes, so it forgets what the hole left by `PushImage` must be filled with;
`NoLeak` speaks of sessions and says nothing of where the images came from. The
inductive invariant `IInv` adds to `TypeOK`

* `Lengths`: parallel arrays have equal lengths, `randomIndex` is a permutation;
* `Control`: what `pc` implies for the counters;
* `Agreement`: an image and its boxes agree exactly, except for the slots of
  `shuffledImages` already dealt and the one slot under copy;
* `Dealing`: in the middle of the shuffle slot a below `i` holds image
  `randomIndex[a]` and every slot that no swap has read still holds its own
  image, from which after the shuffle all sources are distinct and the folds
  disjoint;
* `Provenance`: each training box comes from a fold that is neither the test
  fold nor the skipped one.

`IInv` was first checked by TLC on the instance of
`folds`. The proof has a lemma for each action (`AddImageStep`, ...),
lemmas for the operations on whole arrays (`UpsampledBoxes`, `MirroredImages`,
...), `NextIInv` that collects them, and the three theorems that follow from it.

Its second half builds on `IInv` for what the split and the loops do, again for
any number of images, folds, Cs and epsilons:

* `FoldsOfOneSize`, `Spec => []FoldsBalanced`. `BInv` adds to `IInv` that
  `FoldStep` after `i - 1` images has k full folds and one of n, with
  `i - 1 = k * imagesPerFold + n` (`FoldsSoFar`). By the lemma `FoldFull` the
  test `i % imagesPerFold` holds just when n is `imagesPerFold`, and since
  `imagesPerFold` is the quotient the loop ends with the last fold full.
* `EveryPointTrained`, `Spec => []GridComplete`, assuming `NumImages > 0`:
  without images the folds are empty and there is nothing to skip. `GInv` adds to
  `BInv` that an inner loop that has ended is set back (`Counters`), that the
  number of sessions and the progress printed are the rank of the counters
  (`SessionsCounted`), and that the sessions are just the points of the grid
  before them (`SessionsOfGrid`, `GridVisited`).
* `AllDetectorsKept`, `Spec => []DetectorsKept`, assuming `NamesApart`: no two
  epsilons agree in their first six decimals. The run `folds_names` shows that
  the assumption is needed, `folds` is an instance of it.

* `SessionsTrainOnAll`, `Spec => []TrainingComplete`: the converse of
  `NoImageLeaks`, that no image is lost on the way to the training data. `TInv`
  adds to `BInv`
  - `DealtInOrder`: which shuffled slot each slot of a fold was dealt from, so
    that the sources in a fold are known, not only apart from those of others;
  - `AsLoaded`: only the test fold is ever scaled, so a session finds the other
    folds as the split left them;
  - `Gathering`: the images gathered so far come from the folds that are used
    (`FromUsed`), from no slot twice (`Once`), and from every slot passed
    (`AllGathered`); afterwards they may be doubled, and mirrored once more.

  The code counts images, the property sources: a bijection between the two
  (`Once`) turns one count into the other. TLC checked `TInv` on the instance
  of `folds` first.

Only model-checked: `Finishes`, since liveness under fairness is beyond the
prover.

## Module `WindowSize`

`runTrainingSession` gives `pickBestHogWindowSize` the area of the members
`ulWinSizeWidth` and `ulWinSizeHeight` as its target, and the members themselves
for its result (`CrossValidation.cpp:282`). Each session thus starts from the
size that the last one chose and rounded, not from the one configured.

| Variables | In the code |
| --- | --- |
| `window` | `ulWinSizeWidth`, `ulWinSizeHeight` |
| `mean` | the mean width and height of the session's boxes, by the fold it skips |
| `pair`, `skippedFold` | the C and epsilon, and the fold, of the session |
| `start`, `chosen` | known to the properties: the size configured, the windows of all sessions |

| Actions | Code |
| --- | --- |
| `runTrainingSession` | `CrossValidation.cpp:280-283` with `pickBestHogWindowSize`, `Helper.cpp:64-90` |
| `NextPair` | the loops over C and epsilon, `CrossValidation.cpp:163-181` |

`Round` is a conversion modelled by what it does: the whole number next to a root,
determined by two squares, without real numbers. Abstracted: the boxes are
their means, whole numbers of some unit, and roots are exact. A double may round the other
way when a root is half a pixel from a whole number; all operations on doubles
here are monotone, and the drift depends on nothing else. There is at
least one box; without one the mean is not a number. That the means depend only on
the skipped fold is the code's: training boxes are fresh copies in every session,
mirroring keeps sizes, and whether they are doubled depends on the first image of
the training data alone. `CrossValidation` models those copies.

The run `window_sizes` (`MCWindowSize`) has three folds, of boxes of any of nine
shapes each, four pairs of C and epsilon, and every start of width 1, 3, 5 or 7 and
height up to 9 that is not wider than high. Three folds of different shapes let a
size pass through two others before it comes back to a fold; four pairs show a
drift that goes on, and one that has come to rest. Boxes of
1 x 5 and windows of one pixel make sides that would round to zero. Deadlock is not
checked because the grid ends.

| Property | Says |
| --- | --- |
| `WindowsFit` | a window has the area of the one before it and the aspect ratio of its boxes, as `Helper.h:16-18` promises, to within half a pixel on each side, unless its boxes are so thin that a side would round to zero |
| `DriftsOneWay` | from one pair of C and epsilon to the next the windows of all folds grow, or all of them shrink, to the end of the grid |

### Proofs

`WindowSize_proofs` proves both, `EveryWindowFits` and `SizesDriftOneWay`, and
`WindowsTyped`, that no session is given a window without width or height, for any folds, boxes, grid and size asked for
(`WindowAssumption`). The lemmas are about `Round`: the number exists, because a set of naturals has a
least element (`RoundIs`), and a larger quotient has no smaller one
(`RoundGrows`). `WindowsFit` is arithmetic on these bounds: multiplied they bound
the area (`AreaFits`) and compare the sides (`ShapeFits`), and a comparison of
squares is one of their roots (`RootGrows`, `RootIncreases`). The inductive
invariant is needed for the drift. `Chained` says that each window is the best one for
the area of the one before it, and `Growing`, `Shrinking` that there is one direction:
that in which the first pair of C and epsilon has moved the size, and which `NextPair`
decides once. A session then compares with the same session of the pair
before it as the windows compare from which the two started (`BeforeIsLater`), and
these are the pair compared one session earlier. TLC checked the invariant on
`window_sizes` first.

## Modules `Detection` and `ThresholdSweep`

`Detection` holds pure operators. A detector is the score it gives to each
window; `Ranked`, `NonMax` and `Detections` are `object_detector::operator()`
with the scanner's `detect`, `Used` is `number_of_truth_hits`, `Evaluation` and
`AveragePrecision` are `test_object_detection_function`. Windows of different
images never meet, so one set of windows stands for all images, and the pairs
`Clash` and `Marks` stand for the geometry that the two overlap testers look
at. Percentages are rounded down.

`ThresholdSweep` is `--eval --threshold`, one thread:

| Variables, actions | Code (`fHOG_FullNaoDetector.cpp`) |
| --- | --- |
| `files`, `i` | the sorted `.svm` files and the loop over them, 880-905 |
| `dThreshold`, `matrix` | `dThreshold`, `tempevaluationmatrix`, 915-918 |
| `rows` | the lines of the log, per file |
| `NoneFound` | the early return, 882-886 |
| `OpenFile`, `LogRow`, `CloseFile` | 905-918, 918-932 and the end of the inner loop |

Abstracted. Thresholds, start, end and step are whole numbers of a unit, so a sum
of steps is exact; the code adds doubles (918), where a step that is no binary
fraction could miss the last row of the range (the default step, 0.25, is one).
`matIs100` compares percentages that are rounded down, so it also holds of a
recall and average precision below one percent, where `Helper.cpp:229` asks for an exact 0;
the instance has too few truth boxes for such a recall. Every file can be read:
`deserialize` (911) throws at one that cannot, and the program ends with the
rows logged so far. Files that a crash has truncated are in `ClassicFilter`.

The code skips the evaluation when `Helper::matIs100` holds. The name promises
a perfect result; the test is for precision 1, recall 0 and average precision
0, which is what an evaluation without any detection returns. `LogRight` shows
that the skipped evaluations would have given the same result, that the result
does not reach the next file, and that each file has a row for every threshold
of the range.

| Run | Instance | Shows |
| --- | --- | --- |
| `sweep_rows` | every directory of up to two detectors with different scores for four windows; neighbours clash, two truth boxes share a window | `LogRight`, `RecallFalls`, `SuppressionRight` |

Four windows in a row are the shortest chain in which suppressing a window
frees another one, and that one a third; the five scores let one window fall
between two thresholds, on one, and below or above all others. Two files are
enough for a result to survive from one to the next. `SuppressionRight` is the
reference definition of the greedy loop: it says which windows are reported
without saying in which order they are tried.

Deadlock is not checked: the program stops in `done`. That it gets there is not
stated as a property; the threshold rises with every row as long as the step is
positive, and with a step of zero or below, which nothing excludes, it would not.

### Proofs

`ThresholdSweep_proofs` proves for any windows, overlaps, truth boxes, scores,
files and thresholds:

* `SuppressionKeepsUndominated`, `Spec => []SuppressionRight`;
* `RecallNeverRises`, `Spec => []RecallFalls`, if `ThresholdStep > 0`;
* `RowsAreEvaluations`, `Spec => []LogRight`, if `ThresholdStep > 0`.

The default step is 0.25; with a negative one the loop does not end and the
recall rises, and `matIs100` would keep the result of a higher threshold for
lower ones.

The operators of `Detection` are loops, that is recursive functions. `Upwards`
is induction up to a bound over a set of numbers and `Recursion` the existence
of the function a loop defines; with them `NonMaxSteps`, `UsedSteps` and
`PrecisionSumBounded` give each loop by its rounds. The rest follows from two
facts. What is reported at a higher threshold is the beginning of what is
reported at a lower one (`DetectionsBegin`), since the windows that reach it
are the best ones (`RankedIs`) and suppression looks back only
(`NonMaxBegins`). And a truth box takes the best detection left to it, so the
ones that come after take nothing from those before (`UsedBegins`): hits are
lost with the detections that made them, never by another matching.

`StaysAt100` is why the skipping is right. `matIs100` holds if nothing was
found, and also if all detections are hits but so few that recall and average
are 0 percent. Both stay so at higher thresholds.

The invariant for the sweep, `SInv`, says that the rows so far are those of the
thresholds from the first on (`RowsRight`), that files before `i` have no
threshold left and files after it no row (`Swept`), and that `matrix` is the
result in the last row of this file or the one it is reset to (`LastKept`), so
no result reaches the next file. `SuppressionRight` needs of it only `TInv`,
without the assumption on the step. TLC checked `SInv` on the instance of
`sweep_rows` first. Nothing here is only model-checked.

## Module `ClassicFilter`

`--eval --classic`, and with `TestMode` the loop of `--test --classic`. A
detector is a matrix of singular values, one row for each plane of the filter.

| Variables | In the code |
| --- | --- |
| `disk`, `trained` | the `.svm` files; what they held before the first run |
| `detectorForEvaluation`, `detectorClassicHOG`, `d`, `iNumberOfFilters`, `iStartNumberOfFilters`, `bClassicness` | the locals of the same names |
| `i`, `run`, `crashes` | the file; how often the program was started and died |

| Actions | Code (`fHOG_FullNaoDetector.cpp`) |
| --- | --- |
| `Load`, `LoadFails`, `AllLoaded` | 905-942; `deserialize` throws on a truncated file and `main` ends |
| `Reduce` | a round of the loop that leaves enough filters, 943-950 |
| `Overshoot` | the round that leaves too few, with its step back, 943-960 |
| `EndLoop`, `Evaluate` | 943, 962-971 |
| `OpenFile`, `Write` | 972: the stream truncates the file, then the detector is written |
| `Crash`, `RunAgain` | the process dies at any step; the user starts it again on what is left |

Abstracted. Singular values are integers in units of 10^-4, the smallest value
`build_fhog_filterbank` counts. The singular vectors are left out: zeroing a
value leaves the others. Rounding of the recomputed values in the next `svd3`
is left out too. `d` is counted in hundredths. The double that the code sums up
from -10 in steps of 0.01 stays a little below its nominal value, so `d < 0.5`
is still true in the round named 0.50, which is why `LoopGoesOn` has `<=`.
`retained` is `1 - fClassicness` in millionths, chosen with the first run and
kept by the user from run to run. The evaluation changes no state.

| Run | Instance | Shows |
| --- | --- | --- |
| `classic_files` | two files with any of five detectors; classicness 0, 0.4 or 1; three runs, two crashes | `NotEmptied`, `CompoundIsFresh`, `LastGood`, `SecondRunKeeps`, `FilesSurvive`, and `RunEnds` under fairness |
| `classic_test` | the test mode, one file | `NotEmptied` is violated |

Two planes of three values are enough for one plane to lose values while the
other one keeps its own, for a plane to be lost whole, and for the count to
jump by two. Among the detectors are values below 10^-3 (lost to every
threshold), a value that is not counted at all, equal values, one that would be
emptied at once and one that would be reduced below 0.6 of its filters by the
first threshold. 0.4 is the classicness of `HOGconfig.txt` (as 599999 millionths
retained, because `1 - 0.4f` is rounded), 0.5 its filter strength. `Start`,
-1000 in the code, is -10 in `classic_files`: all thresholds up to 0 act alike,
and with two files, three runs and their crashes a thousand rounds more of them
show nothing new. `classic_test` has the thousand rounds. Three runs and two
crashes let a run start on a truncated file, and a crash hit two files.

`WF_vars(ProgramStep)` is the fairness of `classic_files`: the program is one
thread; nobody has to crash it or start it again. Deadlock is not checked
because it ends.

### What disagrees

* `NotEmptied` in the test mode. If the first threshold removes every filter,
  the step back applies a threshold again (line 406). The evaluation mode has
  the guard `d > -9.99`, the test mode has not.

Two more that need no run. The option is described as "one single filter", but
a threshold is relative to the largest value of its plane and stays below 1, so
each of the 31 planes keeps its largest value. And dlib asserts `thresh >= 0`
(`scan_fhog_pyramid.h:1110`), while the loop starts at -10.

Repeating `--eval --classic` on a directory with a classicness between 0 and 1
reduces the detectors again, since the filters are counted anew; nothing in the
repository promises otherwise, and only classicness 0 and 1 have a property.

### Proofs

`ClassicFilter_proofs` proves for all planes, ranks, singular values, limits,
numbers of files, runs and crashes:

* `ReductionTypeCorrect`, `Spec => []TypeOK`;
* `RoundsCompose`, `Spec => []CompoundIsFresh`;
* `EvaluationKeepsAFilter`, `Spec => []NotEmptied`, unless in the test mode;
* `EvaluationStopsInTime`, `Spec => []LastGood`, unless in the test mode.

`NotEmptied` and `LastGood` speak of the moment of evaluation only. The
inductive invariant `IInv` adds to `TypeOK`

* `Rounds`: `detectorClassicHOG` is the loaded detector, thresholded once with
  the last `d` if there was a round, which left enough filters, and
  `iNumberOfFilters` counts them;
* `FromFile`: while a file is reduced, `detectorForEvaluation` is what the file
  holds, so that loading it again changes nothing;
* `GoodReduction`: what `LastGood` and `NotEmptied` say, from the first round to
  the evaluation.

The heart is `ThresholdTwice`: a higher threshold after a lower one does what
the higher one does alone, whether or not the lower one is negative. It holds
because whenever any value of a plane survives a threshold, the largest one
does, and it is the largest one that the next threshold is relative to. That each plane has
a largest value (`LargestValue`) comes from the well-founded order of the
natural numbers.

The second part of the module is about what is left on the disk:

* `FilesOutliveCrashes`, `Spec => []FilesSurvive`;
* `SecondRunChangesNothing`, `Spec => []SecondRunKeeps`, unless in the test mode.

For the first, `FInv` counts the broken files (`Counted`: one for each crash,
and the one under `write`) and carries `PartOf` from the file into memory and
back (`Stored`, `InMemory`). That classicness 0 leaves a detector alone needs
`ThresholdCount`: a threshold never adds a filter, though fewer values of a
plane can make others count, since it keeps the largest value of each plane it
does not empty.

`SecondRunKeeps` says that the loop is idempotent on its own results. `SInv`
names what such a result is (`Settled`): a detector with at most one filter, one
that every threshold of the loop either leaves alone or empties (`Untouched`:
the step back took one hundredth less than what emptied it, or the loop reached
its limit), or one emptied within the first three rounds, which the step back
leaves as it was loaded (`EmptiedAt`). `History` remembers that each round so
far has left more than one filter, `SettledFiles` follows the results into the
files and through the next run. The three facts about thresholds are
`ThresholdTwice`, `ThresholdLower` (a lower threshold after a higher one takes
nothing) and `ThresholdCount`. TLC checked `History`, `Reduced` and
`SettledFiles` on the instance of
`classic_files` first.

Only model-checked: `RunEnds`, which is liveness.

## Modules `TaskPool` and `ThreadPool`

Every training session hands its separation oracle calls to a dlib
`thread_pool` of four workers. `TaskPool` is what the header promises
(`thread_pool_extension_abstract.h:205-403`): a job runs once, on a free worker
or inside the call of a thread of the pool; who waits goes on when the jobs are
done. It knows no slots, locks or signals. `ThreadPool` is the implementation,
and `IsTaskPool` says that it is a `TaskPool`.

A step of `ThreadPool` is what a thread does between taking the mutex `m` and
releasing it or going to sleep; a condition is the set of threads asleep on it.

| Variables | In the code |
| --- | --- |
| `tasks` | the slots; `job` stands for the function and its arguments |
| `ready_signaler`, `done_signaler` | the sleepers of `task_ready_signaler`, `task_done_signaler` |
| `we_are_destructing` | the member |
| `idx`, `pc`, `stack`, `arg` | the worker's `idx`; where each thread is, the jobs it is inside of, the argument of the call it is in |
| `caller`, `id`, `unwaited` | known to the users: who added a job and inside which job, the id returned, whether anybody has waited for it |
| `runs` | how often a job was started |

| Actions | Code (`thread_pool_extension.cpp`) |
| --- | --- |
| `CallAddTask`, `FillSlot`, `RunHere`, `WaitForSlot` | `add_task_internal`, 261-302, and the `add_task` overloads of the header, which do the same with other arguments |
| `CallWaitForTask`, `StayForTask`, `ReturnFromTask` | `wait_for_task`, 86-98 |
| `CallWaitForAllTasks`, `StayForAll`, `ReturnFromAll` | `wait_for_all_tasks`, 102-127 |
| `Register`, `CheckDestructing`, `SleepUntilReady`, `Leave`, `TakeJob`, `ClearSlot` | `thread`, 152-205; line 164 reads `we_are_destructing` without the mutex |
| `EndJob` | the job returns, 180-188 or 279 |
| `CallShutdown`, `StayForPending`, `Destruct`, `Join` | `shutdown_pool`, 32-64 |
| `EndClient`, `SpuriousWakeup` | the environment |

The users are more general than this program, whose main thread alone adds jobs
(`parallel_for_blocked`) and whose jobs add none: here several clients and jobs
inside jobs do. Two rules bind them. A job waits for the jobs it has added
before it ends, as `parallel_for` does. Otherwise a worker could take from a slot a
job that it had added itself, and `wait_for_all_tasks` inside that job would
wait for the job. And the pool is destroyed when its other users have ended.

Abstracted: the kind of function a job is; exceptions (an uncaught one ends the
program); the width of task ids, `next_task_id` being 64 bits; futures, which
are `wait_for_task`.

| Run | Instance | Shows |
| --- | --- | --- |
| `pool_workers` | two workers, one client, three jobs | `EnoughAwake`, `SleepersWaitRightly`, `IsTaskPool`, `AllEnd` |
| `pool_clients` | one worker, two clients, three jobs | `DestroyedIdle`, `AllEnd` |

`EnoughAwake` is why `signal` is
enough in `add_task` although a woken worker may come late. `SleepersWaitRightly`
is why one `broadcast` serves four kinds of waits. `AllEnd` is freedom from
deadlock: workers that wait inside jobs cannot all wait for slots that nobody
empties.

The bounds. Two workers and three jobs fill all slots and leave one job over,
for the client to wait with and for a job to run inside `add_task`; two workers
can be asleep when one signal comes, or one asleep and one on its way. A slot is
used again, with a waiter for its former job still asleep. With one worker, jobs
nest three deep, so `wait_for_all_tasks` is called inside a job that its own
thread runs inside `add_task`; `TaskPool` excludes the jobs a thread is itself
inside of from what it waits for, since no thread can wait for these. `MaxJobs`
bounds the calls of `add_task`.

Fairness: weak fairness of every thread's own steps, for the scheduler lets each
runnable thread run and the mutex, held only for short sections, is handed on.
A thread asleep on a condition is not runnable; spurious wakeups happen or not.
A job ends by itself, so `AllEnd` assumes jobs that terminate. Deadlock is not
checked because the system stops when all threads have ended.

### Proofs

`ThreadPool_proofs` proves for any finite sets of workers and clients and any
number of jobs, under `PoolAssumption`:

* `PoolTypeCorrect`, `[]TypeOK`;
* `SlotsHaveOneWorker`, `[]SlotsOwned`: two workers never share a slot;
* `NobodySleepsOn`, `[]SleepersWaitRightly`;
* `DestroyedWhenDone`, `[]DestroyedIdle`.

The inductive invariant `IInv` is `SleepersWaitRightly` with `Core`:

* `Control`: a worker is inside a job exactly when it is not at a place of its
  loop; a client that closes is inside none;
* `Calls`: a job on its way into `add_task` belongs to one caller and has no id
  yet; one that is waited for has an id;
* `SlotsFilled`: a slot that is not empty holds a job with an id, and ids of
  slots begin above 1, so that the id 1 of a job run inside `add_task` is never
  that of a slot;
* `Closing`: the owner closes last, and `we_are_destructing` is set only when
  all slots are empty;
* `Kept`: a job that somebody has called `add_task` for was started once, is
  still in that call, or is in one slot that no worker has taken. No job is lost and
  none starts twice, which is what `DestroyedIdle` comes down to.

`SlotsOwned` and `SleepersWaitRightly` need these: clearing a slot is right only
if no other worker owns it, and a slot filled with a new id must not wake or
keep asleep those who wait for its former job.

The second part of the module proves, from the same assumption:

* `PoolIsTaskPool`, `IsTaskPool`: every step of `ThreadPool` is one of
  `TaskPool` or changes nothing that its users see;
* `SignalsSuffice`, `[]EnoughAwake`.

`IInv` says nothing of how jobs lie inside each other, which is what a wait
depends on: `wait_for_task` returns when no slot has the id, and the job of
such an id is done only if it is not on a stack either. `RInv` adds `Nested`
and `Vacated`:

* `Framed`: who is in a call made it from the job it is still in;
* `Started`: a job on a stack was started, and is at one place of one stack;
* `Chained`: the first job of a worker is the one in its slot and was added by
  another thread; any other job on a stack was added by the one below it;
* `SlotsNamed`: the id in a slot is that of its job and leads back to the slot,
  and the job's caller is `thread_id`;
* `CallersStay`: a job that nobody has waited for was added from a job that has
  not ended, or by a client outside of all jobs. A worker therefore never takes
  a job it has added itself;
* `Vacated`: an empty slot names no job.

So a job that a thread added from where it is now is not among those it is
inside of (`NotBelow`), a returning waiter finds each of its jobs in no slot and
on no stack (`ReturnMaps`), and a slot is filled only when a worker is free,
because the workers inside jobs own different slots (`RoomForJob`). The same
count gives `EnoughAwake`: when no worker sleeps, those outside of jobs are more
than the jobs in slots; when one does, the signal adds it to those awake
(`FillSlotWakes`, with `Looking`: who sleeps on `task_ready_signaler` is
looking for a job).

## Module `ParallelRisk`

One call of `call_separation_oracle_on_all_samples`: the samples are cut into
blocks, the blocks are jobs of the pool, and the workers add up what the oracle
says. The pool is the abstract one: `ParallelRisk` uses `TaskPool`'s actions,
which `ThreadPool` implements (theorem `PoolIsTaskPool`). What a sample contributes is the
sample itself, so the sum shows how often each one is in it.

| Variables | In the code |
| --- | --- |
| `status`, `runner`, `adder`, `waits` | the pool |
| `num`, `buffer` | `get_num_samples()`, `buffer_subgradients_locally` |
| `call` | where the caller of `parallel_for_blocked` is |
| `step`, `at`, `faccum`, `seen` | each worker's place in `call_oracle`, its loop variable, what it has to add (`faccum`, `ftemp`), the sum as it has read it |
| `sum`, `accum_mutex` | `subgradient` and `total_loss`, the mutex of the binder |

| Actions | Code |
| --- | --- |
| `AddTask`, `WaitForAllTasks`, `Return` | `parallel_for_blocked`, `parallel_for_extension.h:97-106` |
| `Start`, `OracleReturns`, `Lock`, `AddTo`, `Finish` | `binder::call_oracle`, `structural_svm_problem_threaded.h:57-102` |

`AddTo` is a step of its own after `Lock`, for the addition reads the sum and
writes it. Abstracted: whether the workers buffer is decided by the code from
its clock, here it is either; the statistics behind that decision are left out.

The run `round` has two workers, up to five samples, one chunk for each worker
(eight in the code) and both values of `buffer`; it shows `OneCallerPerSample`,
`EverySampleOnce` and `RoundEnds`. Five samples for two workers make blocks of
one and of two, a last block that is cut, and more blocks than workers.
Fairness: weak fairness of each worker and of each of the caller's three steps,
as in `ThreadPool`. `accum_mutex` needs no fairness beyond that, since a worker
leaves the race for it when its block is done. Deadlock is not checked because
the round ends.

`ParallelRisk_proofs` proves `OracleCallsApart` (`OneCallerPerSample`) and
`RoundsAddUp` (`EverySampleOnce`) for any number of workers, samples and chunks.
`BlockSize`, `BlockEnd`, `Disjoint` and `Covered` are the arithmetic: the blocks are
apart and together all samples, although the division truncates. The inductive
invariant is `Position` and `Counted`. `Position` says that a running block has
one worker, and that the worker's sample is in it. `Counted` says where each
sample is: in no sum while its block is new or added, in the sum when the block
is done, and in between in the sum or in what its worker has yet to add
(`Pending`), exactly if the worker has passed it; and a worker that adds holds
the mutex and has read the sum as it still is. `RoundEnds` is liveness and
stays with TLC.

## Modules `SeparationOracle`, `OracleCache`, `CuttingPlanes`, `DetectorTraining` and `CuttingPlaneMethod`

`SeparationOracle` holds the oracle of the detector as pure operators: the two
greedy passes over the detections (`TruthScoreHits`, `Oracle`;
`structural_svm_object_detection_problem.h:313-430`), and beside them what they
approximate, the worst labelling among all permitted ones (`WorstCase`).

`OracleCache` holds the cache of one sample (`structural_svm_problem.h:86-193`):
`Best`, `Keep` with its replacement of the least recently used entry,
`CacheAnswers`, and `separation_oracle_cached`, which yields the labelling used
and the new cache.

`CuttingPlanes` is the training that uses them:

| Variables | In the code |
| --- | --- |
| `problem` | the training images, `max_iterations`, the strength of the nuclear norm regularizer |
| `w`, `cp_obj` | the weights and the lower bound of `oca_impl` |
| `planes` | `planes`, `bs` and `miss_count`, as a set of records |
| `cache` | `cache`, one for each sample |
| `chosen` | the labellings that the last plane is made of |
| `saved_current_risk_gap`, `skip_cache`, `count_below_eps`, `converged`, `counter` | the members of the same names; the iterations so far |

| Actions | Code |
| --- | --- |
| `get_risk` | `get_risk`, `call_separation_oracle_on_all_samples` and `compute_nuclear_norm_parts`, `structural_svm_problem.h:508-606`; the plane is added, `optimization_oca.h:220-262` |
| `OutOfIterations`, `Converge`, `CountBelow`, `GapTooBig` | the four outcomes of `optimization_status`, `structural_svm_problem.h:460-505` |
| `Solve` | the quadratic program and the removal of inactive planes, `optimization_oca.h:268-338` |

Abstracted. The weights stand on a finite grid, on which the quadratic program
is solved exactly; `w` is one minimum, and the planes with positive `alpha` are any smallest set
that has the same minimum by itself. A plane is the value it has at each weight. Scores
are integers; `Unit` makes all of risk, gap and objective integers.

The nuclear norm. With `--nnr` the scanner has a strength of 10
(`CrossValidation.cpp:288-291`, `fHOG_FullNaoDetector.cpp:243-247`), and `get_risk`
adds the norm at `w` to the risk and its gradient to the subgradient
(`structural_svm_problem.h:543-550`). A problem has a `strength`, 0 without the
option; `NuclearPart` is what `compute_nuclear_norm_parts` adds to a plane. Of the
norm the model knows its value and its gradient at each weight, `Gradient`, and
that it is convex (`GradientAssumption`). The singular value decomposition that
computes them is left out.

Also left out are the numerical solver, and the regularisation prior, nonnegative
and forced weights, none of which the program sets. It does not set
`cache_based_eps` either, which is infinite: once `converged` is set any gap
stops the optimisation, so `Converge` ends it.

`DetectorTraining` puts the oracle into the training: labellings are sets of
windows, `Seen` is what the optimisation sees of an image, and `ProblemOf` makes
a training problem of images. They must have labels that are possible
(`PossibleLabels`); of all others `get_truth_joint_feature_vector` throws
`impossible_labeling_error` and nothing is trained.

`CuttingPlaneMethod` is the abstract specification, what dlib's `_abstract.h`
headers promise of `oca` and `structural_svm_problem`: a risk and a penalty for
each of the weights, and no samples, labellings or caches. `Cut` adds a plane that is
nowhere above the risk, nor below zero at `w`; `Solve` moves to a minimum over the planes and may drop any as
long as the rest have the same minimum, and what the newest plane was matters no
more; `Stop` is for a plane that touches the
risk and leaves a gap below epsilon, `GoOn` for any other, `GiveUp` for training
that ends without such a promise. `CuttingPlanes` implements it
(`IsCuttingPlaneMethod`): `risk` is that of the worst labellings and the nuclear norm, `lower` is
`cp_obj`, `touches` holds after a round that skipped the cache and whose oracle
was exact. `get_risk` is a `Cut`; `Converge` a `Stop` where the oracle
was exact and a `GiveUp` elsewhere, as is `OutOfIterations`.

The run `train` (`MCCuttingPlanes`) trains on every two of twelve small images,
with 3 or 11 iterations at most, without the nuclear norm and with it at a
strength of 1. Between them the images have hits, false
alarms, duplicates, a second truth box, a window to ignore and rows of
overlapping windows, some of them separable by the one feature and some not. The nuclear norm of one weight is its
absolute value; the threshold is not regularised. Weights are in -3..3, the
threshold in -2..2, C is 3, all losses and epsilon are 1. The
cache has 2 entries (5 in the trainer) and planes go after 3 solutions (20 in
the code), so that both are full within a training of eleven rounds.

| Property | Says |
| --- | --- |
| `TypeOK` | the two arrays of a cache stay parallel, within the bound, and its use counts distinct; at most one small gap in a row is counted |
| `ChosenIsWorst` | no labelling of a plane is better than a kept one or than the truth, however badly the oracle searched |
| `LowerBoundRises` | no step lowers the planes' minimum, dropped planes notwithstanding, nor takes it above the problem's (`LowerBound`) |
| `NearOptimal` | training that stops by its gap has weights within epsilon of the best, if the oracle is exact where it stops |
| `GreedyIsExact` | the oracle's labelling is permitted, has the loss it says and is nowhere worse than the worst one; at the weights it was asked for it is the worst one, where no windows overlap and `max_num_dets` is not reached |
| `ConvergesInTime` | training given eleven rounds stops by its gap |
| `GapIsGain` | a positive gap is just what the newest plane adds at `w` to all others that are left, so a round that goes on for its gap never makes a plane again |
| `LatestStay` | a full cache replaces what was not needed for longest: the labelling taken last is still kept after the next round, if the cache holds two |
| `IsCuttingPlaneMethod` | training is the method of `CuttingPlaneMethod` |

Eleven rounds is the smallest bound for which `ConvergesInTime` holds of these
images; it would be violated by ten. With overlapping windows the greedy
passes may miss the worst labelling, which is why `NearOptimal` has its
condition. No fairness is stated, since training is bounded by its iterations,
and deadlock is not checked because it ends.

### What disagrees

* The risk of a round, which needs no run. `optimization_oca_abstract.h:110` says of `get_risk`
  that `#risk_value == R(#current_solution)`. As long as a kept labelling looks bad
  enough, `separation_oracle_cached` answers with it
  (`structural_svm_problem.h:119-132`), and the sum is then less than R, even where
  the oracle is exact. Training may go on for such a risk but does not stop for it: that takes a
  round without the cache, which is what `NearOptimal` rests on.

### Proofs

`CuttingPlanes_proofs` proves for any samples, labellings, grid of weights,
margins, images and scores, with `--nnr` and without, and for any C, epsilon,
losses, `max_num_dets`,
cache size and patience with planes:

* `TypeCorrect`, `Spec => []TypeOK`;
* `TheWorstIsTaken`, `Spec => []ChosenIsWorst`;
* `MinimumIsBelow`, `Spec => []LowerBound`;
* `BoundNeverFalls`, `Spec => LowerBoundRises`;
* `StopsNearOptimum`, `Spec => []NearOptimal`;
* `GapsAreGains`, `Spec => []GapIsGain`;
* `LatestAreKept`, `Spec => LatestStay`;
* `TrainingIsCuttingPlaneMethod`, `Spec => IsCuttingPlaneMethod`;
* `GreedyFindsWorst`, `Spec => []GreedyIsExact`;
* `ImagesMakeProblems`: `ProblemOf` any images is one of `TrainingProblems` and
  has the `WorstBounds` that the planes assume of it.

All but the last two are about any oracle and rest on `CacheAssumption`,
`CuttingPlanesAssumption`, `GradientAssumption` (a plane may take the nuclear norm's gradient for the
norm, since it is nowhere above it) and `WorstAssumption`, which is what the words mean:
the truth outscores and misses nothing, and no labelling the oracle finds
is worse than the worst one. `ImagesMakeProblems` proves just this for the
oracle of the detector, from `OracleAssumption` (losses and `max_num_dets` are
positive) and `ImagesAssumption` (labels are possible, boxes overlap each other
both ways, scores are integers). TLC evaluates all of them on the instance of
`train`.

The inductive invariant `IInv` adds to these

* `KeptIsKnown`: every labelling in a cache was found by the oracle at some
  weights, so at no weights it is worse than the worst one; caches outlive the
  weights they were filled at;
* `PlanesBelow`: therefore, and because the norm is convex (`NuclearParts`), no plane is above the worst risk, and the minimum
  over the planes bounds that of the problem;
* `PlanesSupport`: the planes alone have the minimum `cp_obj`. It survives the
  removal of planes, because those with positive `alpha` are never removed and
  have it by themselves;
* `TakenIsWorst`, `OracleHeard`: the labelling taken is no better than the truth
  or any kept one; and if the cache was skipped, than what the oracle found. So
  a small gap there bounds the true one, and `NearOptimal` holds for an oracle
  that is exact;
* `Rounds`: `converged` is set only at the end, and the weights move only
  before the last iteration.

For gaps and what the caches remember `GInv` adds to it `OldPlanes` and
`NewPlane`: once solved, every older plane is at most the lower bound at `w`, and
one that is left meets it there while the gap is positive, although planes may have gone
since; and `ChosenIsNewest`: the labelling taken last is the truth or has the
highest use count, so it is not what a full cache replaces (`LeastRecentIsKept`).
`GapIs` turns the first two into `GapIsGain`, and `CallRemembers` the third into
`LatestStay`.

The refinement rests on them too, one lemma for each group of steps:
`MethodStarts`, `CutMaps`, `DecisionMaps`, `SolveMaps`, and `StepMaps`, which collects
them. The risk of the worst labellings is above every plane by `PlanesBelow`, a
round that skips the cache touches it by `OracleHeard`, and the planes that stay
keep the minimum by `PlanesSupport`.

Sums and minima over sets are proved by induction in the form of a least
counterexample: a set of subsets of a finite set has one that contains no other
(`SmallestSubset`). From it come that finite sets of integers have a least
element, that `MapThenSumSet` is a sum in any order, and that a sum of larger
terms is larger. For the cache, `UseKeeps` and `KeepKeeps` follow the
replacement through the parallel arrays.

The passes of the oracle are followed by invariants of their own. The detections
are the reported windows, each once (`Dets` is a permutation of `Reported`).
In the first pass the gain of a truth box is the sum of the scores of its
detections so far and of the losses of all but one of them (`AddedUp`,
`GainsAddUp`); in the second, the labelling so far is permitted and its loss is
`LossOf` it (`OracleIsSound`). Where nothing hinders the passes, the second one
takes just the windows that are wanted (`WantedAreFound`): the false alarms that
are reported, and all detections of the truth boxes that gain more than missing
them. No permitted labelling is worse: it is changed to that one by exchanging
what it has of the background, then of one truth box after the other
(`Exchanged`), and no exchange lowers the sum of loss and score (`GroupWorth`,
`GroupBest`, `NoneIsWorthMore`).

Only model-checked: `ConvergesInTime`, which is about the twelve images of the
instance and eleven rounds. Of other images it need not hold, so there is nothing
to prove for all constants.

## Modules `ImageWindow`, `VideoLoop` and `SimpleTracker`

`ImageWindow` is dlib's window as two threads use it, on Windows: the main
thread of a program and the event thread. `wm` is a recursive mutex; a step of
the main thread is what it does between two points at which it has released it.

| Variables | In the code |
| --- | --- |
| `pc`, `ret` | the main thread, and where it goes on after a call |
| `wm`, `sleeping` | how many locks of `wm` it holds, and the signaler it waits for |
| `size`, `window_has_closed`, `move_window` | the window; the size asked of the event thread |
| `previous_image_size` | the size of `img` |
| `have_last_click`, `last_clicked_point` | the members of the same names; clicks are numbered, the number stands for the point |
| `p`, `handed`, `chosen` | the point returned; for the properties, the clicks handed out so far, and the sizes that the user or the program chose |
| `lWin`, `lWinOld` (`VideoLoop`) | `lWinWidth` ... `lWinHeightOld` |
| `i`, `p1`, `boxes` (`SimpleTracker`) | the image, the first corner, the boxes that trackers were started with |

| Actions | Code |
| --- | --- |
| `CallMoveWindow`, `UserResizes` | `WndProc`, `gui_core_kernel_1.cpp:705-718` and `895-909` |
| `OnWindowClose`, `OnImageClicked`, `OnKeydown` | the handlers in `widgets.cpp`, 7036, 7167, 7084 |
| `set_size`, `WindowMoved` | `base_window::set_size`, `gui_core_kernel_1.cpp:1785-1864`; the request, and the return |
| `set_image` | `widgets.h:3915-3943`, which calls `set_size` when the image has another size |
| `WaitForClick`, `TakeClick`, `NoClick` | `get_next_double_click`, `widgets.cpp:7132-7158` |
| `OpenWindow` ... `AskForClick` | `fHOG_FullNaoVideoDetector.cpp:32-255`, `Video/Helper.cpp:441-479` |
| `ShowImage` ... `Letter` | `fHOG_SimpleTrackerExample.cpp:58-106` |

A wait on a signaler gives up all locks the thread holds (`HeldAsleep`), which
is what lets the event thread set the size that `set_image` asked for with two
locks held. `Fitted` cuts off the fraction where the code computes with floats.

The run `windows` (`MCWindows`) lets either program use the window: three sizes
(a wide one, a high one, the program's own), frames of 4 x 3, a padding of 1, up
to two resizes by the user, three clicks and two images of the tracker. Two
resizes are one before and one within a frame; three clicks are the two of a box and one
that comes too early or is overwritten.

| Property | Says |
| --- | --- |
| `WindowKeepsSize` | each frame of the video starts with a size of the window that the user or the program chose, never with one that showing a frame has left |
| `BoxesAreDrawn` | the corners of a tracked box are two clicks, in their order, that serve no other box, or the window was closed |
| `CallsReturn` | a call that waits comes back once its reason is gone: the size is set, there is a click, or the window was closed |
| `ClosingFrees` | after the window was closed the program comes to its end, or to where it reads the console |

Fairness: weak fairness of the steps of the main thread and of
`CallMoveWindow`. The console input of the tracker and all the user does have
none: a user need not answer. Deadlock is not checked: programs end, and one
whose user does not click waits.

What the model shows besides. A click that is made before the program asks
answers the question, and a second one overwrites it. A resize between
`prepareToWindowScaling` and `completeToWindowScaling` is undone. After the last frame
`cv_image` asserts and the program ends. `get_next_double_click` returns false
and leaves a point of (-1,-1) when the window was closed; the tracker does not
ask and starts a tracker there. The header says (-1,1)
(`widgets_abstract.h:3109`).

Not modelled: the X11 version, in which `set_size` returns at once and the size
follows in an event; overlays, tied events, key presses and the zoom inside the
window, which neither program reads. Without zoom an image of another size has
another display rectangle, so the second test of `set_image`, `image_rect != r`
(`widgets.h:3931`), is always true after the first and is left out; a window that
the user has zoomed is not modelled. `PostMessage` always succeeds; where it fails
`set_size` throws `gui_error` (`gui_core_kernel_1.cpp:1854-1857`) and the program
ends. `MoveWindow` gives the window exactly the size it is asked for, that is,
sizes are within the limits of the system; `WindowKeepsSize` speaks of such sizes.

### Proofs

`Windows_proofs` proves `WindowSizeKept` (`WindowKeepsSize`) and
`BoxesHaveTwoClicks` (`BoxesAreDrawn`) for any sizes and any number of frames,
clicks and resizes. The first rests on `SizeComesBack`: while a frame is shown,
`lWinOld` is a chosen size, and while it is restored it is asked for or there
already. The second rests on `ClicksInOrder`, clicks are handed out in order and
one that waits is later than all of them, and `CornersInOrder`, what `p` and
`p1` are at each place of the tracker. `CallsReturn` and `ClosingFrees` are
liveness and stay with TLC.

## What is only model-checked

* Liveness: `Finishes`, `RunEnds`, `AllEnd`, `RoundEnds`, `CallsReturn`,
  `ClosingFrees`.
* `ConvergesInTime`, which holds of the images of its instance.

Every other property of a passing run is a theorem. Conversely the runs leave to
the theorems what these state for every instance: type correctness (`TypeOK` of each module, a run's property only in
`train`, where it bounds the caches), `SlotsOwned` of the pool, and `LowerBound`,
which `LowerBoundRises` contains.

## Not modelled

* The test fold over the whole grid (`CrossValidation.cpp:302`): boxes that one
  session's window cannot obtain are missing in all later ones. `CrossValidation`
  lets each session lose any such boxes; nothing in the code says which should
  be there, so there is no property.
* Pose and video filters (`Video/Helper.cpp`): counts of coloured pixels and
  overlaps of boxes, compared with constants, one frame at a time, with nothing
  kept.
* Modes, options and configuration (`fHOG_FullNaoDetector.cpp:48-204`). The
  blocks of `main` are independent `if` statements in a fixed order over values
  that are read once.
* `fHOG_SimpleDetectorExample.cpp`, straight-line code, and `Timer`, which reads
  the clock for the log.
* The rest of dlib, by far the most of the source: feature extraction, linear
  algebra and optimisers that the program does not call, image and XML formats,
  and widgets other than the image window. Numerics, input and output, with no
  state that outlives a call of this program.

## Plan

The modules of the plan are done, and so are the theorems for all safety
properties that do not depend on an instance. What is left is out of the prover's
reach (liveness), true only of an instance (`ConvergesInTime`), or has no
statement in the code to check against: the boxes that the test fold loses.

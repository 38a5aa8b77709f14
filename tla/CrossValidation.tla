-------------------------- MODULE CrossValidation --------------------------
(***************************************************************************)
(* The class CrossValidation (src/extern/CrossValidation.cpp) driven the   *)
(* way the --cross and --ball modes of the detector program drive it: load *)
(* the images, shuffle them, split them once into folds, then train and    *)
(* evaluate one detector for every C, every epsilon and every skipped fold.*)
(*                                                                         *)
(* An image is what the properties tell apart of it: the image file it was *)
(* loaded from, how often it has been upsampled and whether it is mirrored.*)
(* The truth boxes of an image are kept in a separate array, as in the     *)
(* code, so that the two can get out of step.  dlib::array::push_back      *)
(* swaps its argument into the array and leaves a default constructed      *)
(* image (Blank) behind, while std::vector::push_back copies.              *)
(*                                                                         *)
(* Arrays are sequences: element i of the code is element i + 1 here, so   *)
(* foldedImages[1] is the fold 0 that is kept for testing.                 *)
(***************************************************************************)
EXTENDS Integers, Sequences, FiniteSets

CONSTANTS
  NumImages,     \* how many images the xml files list
  Width,         \* Width[s]: columns of image s as it is loaded
  Doubtful,      \* images whose boxes some scanner windows cannot obtain
  FoldsAsked,    \* arguments of splitImagesIntoFolds
  Cs,            \* vecC, a sequence of whole numbers
  Epsilons,      \* vecEpsilon, in units of 10^-8
  UpsampleBelow, \* 1000 columns in the code
  FlipBelow      \* 150 training images in the code

ASSUME ConstantsAssumption ==
  /\ NumImages \in Nat
  /\ Width \in [1..NumImages -> Nat]
  /\ Doubtful \subseteq 1..NumImages
  /\ FoldsAsked \subseteq Int
  /\ Cs \in Seq(Nat) /\ Epsilons \in Seq(Nat)
  /\ UpsampleBelow \in Nat /\ FlipBelow \in Nat

VARIABLES
  pc,             \* the statement that runs next
  allImages, allBoxes,
  shuffledImages, shuffledBoxes,
  foldedImages, foldedBoxes,
  currentImages, currentBoxes,
  randomIndex,    \* the permutation drawn by shuffleImages
  iNumberOfFolds,
  i, j,           \* the loop counters of the method that runs
  iC, iEpsilon, skippedFold,  \* loop counters of executeCrossValidation
  progress,       \* the last progress number printed
  removed,        \* how many boxes the last removal took away
  sessions,       \* <<C, epsilon, fold>> of every detector trained so far
  files           \* what each .svm file written so far holds

dataset == <<allImages, allBoxes, shuffledImages, shuffledBoxes, randomIndex,
             iNumberOfFolds>>
folds == <<foldedImages, foldedBoxes>>
current == <<currentImages, currentBoxes>>
grid == <<iC, iEpsilon, skippedFold, progress>>
results == <<removed, sessions, files>>
vars == <<pc, dataset, folds, current, i, j, grid, results>>

Image == [src : 0..NumImages, up : Nat, flip : BOOLEAN]
Boxes == [src : 0..NumImages, up : Nat, flip : BOOLEAN, lost : BOOLEAN]

Blank == [src |-> 0, up |-> 0, flip |-> FALSE]
Loaded(s) == [src |-> s, up |-> 0, flip |-> FALSE]
TruthOf(s) == [src |-> s, up |-> 0, flip |-> FALSE, lost |-> FALSE]

\* array2d::nc(): a blank image has no columns, upsampling doubles them.
nc(img) == IF img.src = 0 THEN 0 ELSE Width[img.src] * 2^img.up

Permutations(n) == { p \in [1..n -> 1..n] :
                       \A a, b \in 1..n : p[a] = p[b] => a = b }

imagesPerFoldWithoutTest == Len(shuffledImages) \div iNumberOfFolds
imagesPerFold == Len(shuffledImages) \div (iNumberOfFolds + 1)

Init ==
  /\ pc = "load"
  /\ allImages = <<>> /\ allBoxes = <<>>
  /\ shuffledImages = <<>> /\ shuffledBoxes = <<>>
  /\ foldedImages = <<>> /\ foldedBoxes = <<>>
  /\ currentImages = <<>> /\ currentBoxes = <<>>
  /\ randomIndex = <<>>
  /\ iNumberOfFolds = 2
  /\ i = 1 /\ j = 1
  /\ iC = 1 /\ iEpsilon = 1 /\ skippedFold = 1
  /\ progress = 0
  /\ removed = 0
  /\ sessions = <<>>
  /\ files = <<>>
-----------------------------------------------------------------------------
(* addImages: the dataset is read twice, one copy for each array. *)
MoreToLoad == Len(allImages) < NumImages

AddImage ==
  /\ pc = "load"
  /\ MoreToLoad
  /\ LET s == Len(allImages) + 1 IN
       /\ allImages' = Append(allImages, Loaded(s))
       /\ shuffledImages' = Append(shuffledImages, Loaded(s))
       /\ allBoxes' = Append(allBoxes, TruthOf(s))
       /\ shuffledBoxes' = Append(shuffledBoxes, TruthOf(s))
  /\ UNCHANGED <<pc, randomIndex, iNumberOfFolds, folds, current, i, j, grid,
                 results>>

(* splitImagesIntoFolds up to the swaps: at least two folds and the shuffled
   indices. *)
BeginSplit ==
  /\ pc = "load"
  /\ Len(allImages) = NumImages
  /\ \E asked \in FoldsAsked :
       iNumberOfFolds' = IF asked < 2 THEN 2 ELSE asked
  /\ randomIndex' \in Permutations(Len(allImages))
  /\ i' = 1
  /\ pc' = "shuffle"
  /\ UNCHANGED <<allImages, allBoxes, shuffledImages, shuffledBoxes, folds,
                 current, j, grid, results>>

(* One swap of shuffleImages: images and boxes, each with the other array. *)
SwapImages ==
  /\ shuffledImages' = [shuffledImages EXCEPT ![i] = allImages[randomIndex[i]]]
  /\ allImages' = [allImages EXCEPT ![randomIndex[i]] = shuffledImages[i]]

SwapBoxesInPlace ==
  /\ shuffledBoxes' = [shuffledBoxes EXCEPT ![i] = allBoxes[i]]
  /\ allBoxes' = [allBoxes EXCEPT ![i] = shuffledBoxes[i]]
SwapBoxes ==
  /\ shuffledBoxes' = [shuffledBoxes EXCEPT ![i] = allBoxes[randomIndex[i]]]
  /\ allBoxes' = [allBoxes EXCEPT ![randomIndex[i]] = shuffledBoxes[i]]

ShuffleStep ==
  /\ pc = "shuffle"
  /\ i <= Len(shuffledImages)
  /\ SwapImages
  /\ SwapBoxes
  /\ i' = i + 1
  /\ UNCHANGED <<pc, randomIndex, iNumberOfFolds, folds, current, j, grid,
                 results>>

EndShuffle ==
  /\ pc = "shuffle"
  /\ i > Len(shuffledImages)
  /\ i' = 1
  /\ pc' = "fold"
  /\ UNCHANGED <<dataset, folds, current, j, grid, results>>

(* An image opens a new fold when the folds so far are full.  No fold is ever
   removed before the split, so currentFold is Len(foldedImages) - 1. *)
OpensFold == (i - 1) % imagesPerFold = 0
AllFoldsFull == Len(foldedImages) - 1 = iNumberOfFolds

(* `i % imagesPerFold` divides by zero when there are fewer images than folds:
   the program is killed. *)
DivideByZero ==
  /\ pc = "fold"
  /\ i <= Len(shuffledImages)
  /\ imagesPerFold = 0
  /\ pc' = "crashed"
  /\ UNCHANGED <<dataset, folds, current, i, j, grid, results>>

FoldsWithRoom(f) == IF OpensFold THEN Append(f, <<>>) ELSE f
PushLast(f, x) == [f EXCEPT ![Len(f)] = Append(f[Len(f)], x)]

(* The image moves into the last fold, its boxes are copied. *)
FoldStep ==
  /\ pc = "fold"
  /\ i <= Len(shuffledImages)
  /\ imagesPerFold > 0
  /\ ~(OpensFold /\ AllFoldsFull)
  /\ foldedImages' = PushLast(FoldsWithRoom(foldedImages), shuffledImages[i])
  /\ shuffledImages' = [shuffledImages EXCEPT ![i] = Blank]
  /\ foldedBoxes' = PushLast(FoldsWithRoom(foldedBoxes), shuffledBoxes[i])
  /\ i' = i + 1
  /\ UNCHANGED <<pc, allImages, allBoxes, shuffledBoxes, randomIndex,
                 iNumberOfFolds, current, j, grid, results>>

(* The split ends when the images are used up, or the rest is discarded when
   the next one would open a fold too many. *)
EndSplit ==
  /\ pc = "fold"
  /\ \/ i > Len(shuffledImages)
     \/ imagesPerFold > 0 /\ OpensFold /\ AllFoldsFull
  /\ pc' = "grid"
  /\ UNCHANGED <<dataset, folds, current, i, j, grid, results>>
-----------------------------------------------------------------------------
(* executeCrossValidation: three nested loops. *)
NextC ==
  /\ pc = "grid"
  /\ iC <= Len(Cs)
  /\ iEpsilon > Len(Epsilons)
  /\ iC' = iC + 1 /\ iEpsilon' = 1 /\ skippedFold' = 1
  /\ UNCHANGED <<pc, dataset, folds, current, i, j, progress, results>>

NextEpsilonKeepsFold ==
  /\ pc = "grid"
  /\ iC <= Len(Cs)
  /\ iEpsilon <= Len(Epsilons)
  /\ skippedFold >= Len(foldedImages)
  /\ iEpsilon' = iEpsilon + 1
  /\ UNCHANGED <<pc, dataset, folds, current, i, j, iC, skippedFold, progress,
                 results>>
NextEpsilon ==
  /\ pc = "grid"
  /\ iC <= Len(Cs)
  /\ iEpsilon <= Len(Epsilons)
  /\ skippedFold >= Len(foldedImages)
  /\ iEpsilon' = iEpsilon + 1 /\ skippedFold' = 1
  /\ UNCHANGED <<pc, dataset, folds, current, i, j, iC, progress, results>>

EndGrid ==
  /\ pc = "grid"
  /\ iC > Len(Cs)
  /\ pc' = "done"
  /\ UNCHANGED <<dataset, folds, current, i, j, grid, results>>

(* One round of the inner loop: the progress is printed and the training data
   of the last round is cleared. *)
Folded == Len(foldedImages) - 1
ProgressNow == (iC - 1) * (Len(Epsilons) * Folded) + (iEpsilon - 1) * Folded
               + skippedFold

BeginSession ==
  /\ pc = "grid"
  /\ iC <= Len(Cs)
  /\ iEpsilon <= Len(Epsilons)
  /\ skippedFold < Len(foldedImages)
  /\ progress' = ProgressNow
  /\ currentImages' = <<>> /\ currentBoxes' = <<>>
  /\ i' = 1 /\ j' = 1
  /\ pc' = "combine"
  /\ UNCHANGED <<dataset, folds, iC, iEpsilon, skippedFold, results>>

(* combineFoldsIntoTrainingData: fold i is left out or used up. *)
SkipsFromZero == i = skippedFold - 1
Skips == i = skippedFold

NextFoldStays ==
  /\ pc = "combine"
  /\ i <= Folded
  /\ Skips \/ j > Len(foldedImages[i + 1])
  /\ j' = 1
  /\ UNCHANGED <<pc, dataset, folds, current, i, grid, results>>
NextFold ==
  /\ pc = "combine"
  /\ i <= Folded
  /\ Skips \/ j > Len(foldedImages[i + 1])
  /\ i' = i + 1 /\ j' = 1
  /\ UNCHANGED <<pc, dataset, folds, current, grid, results>>

(* push_back moves the image out of its fold ... *)
PushImage ==
  /\ pc = "combine"
  /\ i <= Folded
  /\ ~Skips
  /\ j <= Len(foldedImages[i + 1])
  /\ currentImages' = Append(currentImages, foldedImages[i + 1][j])
  /\ foldedImages' = [foldedImages EXCEPT ![i + 1][j] = Blank]
  /\ pc' = "copyback"
  /\ UNCHANGED <<dataset, foldedBoxes, currentBoxes, i, j, grid, results>>

(* ... so copyImage restores it from the copy, and the boxes follow. *)
NotRestored == foldedImages
Restored ==
  [foldedImages EXCEPT ![i + 1][j] = currentImages[Len(currentImages)]]

CopyBack ==
  /\ pc = "copyback"
  /\ foldedImages' = Restored
  /\ currentBoxes' = Append(currentBoxes, foldedBoxes[i + 1][j])
  /\ j' = j + 1
  /\ pc' = "combine"
  /\ UNCHANGED <<dataset, foldedBoxes, currentImages, i, grid, results>>

EndCombine ==
  /\ pc = "combine"
  /\ i > Folded
  /\ pc' = "upsample"
  /\ UNCHANGED <<dataset, folds, current, i, j, grid, results>>
-----------------------------------------------------------------------------
(* runTrainingSession *)

(* upsample_image_dataset: every image and every box of an array. *)
Upsampled(seq) == [a \in DOMAIN seq |-> [seq[a] EXCEPT !.up = @ + 1]]

(* The first image decides for its whole array; the test fold is only looked
   at when the training data was small. *)
UpsampleTraining == nc(currentImages[1]) < UpsampleBelow
UpsampleTest == UpsampleTraining /\ nc(foldedImages[1][1]) < UpsampleBelow

Upsample ==
  /\ pc = "upsample"
  /\ currentImages' = IF UpsampleTraining THEN Upsampled(currentImages)
                                          ELSE currentImages
  /\ currentBoxes' = IF UpsampleTraining THEN Upsampled(currentBoxes)
                                         ELSE currentBoxes
  /\ foldedImages' = IF UpsampleTest
                       THEN [foldedImages EXCEPT ![1] = Upsampled(@)]
                       ELSE foldedImages
  /\ foldedBoxes' = IF UpsampleTest
                      THEN [foldedBoxes EXCEPT ![1] = Upsampled(@)]
                      ELSE foldedBoxes
  /\ pc' = "flip"
  /\ UNCHANGED <<dataset, i, j, grid, results>>

(* add_image_left_right_flips appends the mirror image of every image. *)
Mirrored(seq) == [a \in DOMAIN seq |-> [seq[a] EXCEPT !.flip = ~@]]

Flip ==
  /\ pc = "flip"
  /\ IF Len(currentImages) < FlipBelow
       THEN /\ currentImages' = currentImages \o Mirrored(currentImages)
            /\ currentBoxes' = currentBoxes \o Mirrored(currentBoxes)
       ELSE UNCHANGED current
  /\ pc' = "removeTraining"
  /\ UNCHANGED <<dataset, folds, i, j, grid, results>>

(* remove_unobtainable_rectangles: which boxes the scanner cannot obtain
   depends on the window size that the boxes themselves have determined; here
   any set U of doubtful images may lose theirs. *)
Without(seq, U) ==
  [a \in DOMAIN seq |-> [seq[a] EXCEPT !.lost = @ \/ seq[a].src \in U]]
Removed(seq, U) ==
  Cardinality({a \in DOMAIN seq : ~seq[a].lost /\ seq[a].src \in U})

RemoveFromTraining ==
  /\ pc = "removeTraining"
  /\ \E U \in SUBSET Doubtful :
       /\ currentBoxes' = Without(currentBoxes, U)
       /\ removed' = Removed(currentBoxes, U)
  /\ pc' = "removeTest"
  /\ UNCHANGED <<dataset, folds, currentImages, i, j, grid, sessions, files>>

(* The second call works on the test fold itself, not on a copy, and its
   result replaces that of the first. *)
RemoveFromTest ==
  /\ pc = "removeTest"
  /\ \E U \in SUBSET Doubtful :
       /\ foldedBoxes' = [foldedBoxes EXCEPT ![1] = Without(@, U)]
       /\ removed' = Removed(foldedBoxes[1], U)
  /\ pc' = "train"
  /\ UNCHANGED <<dataset, foldedImages, current, i, j, grid, sessions, files>>

(* Train, evaluate on the three sets, write a row to the log.  Exceptions of the
   trainer, and below of serialize and save_png, would end the program and are
   left out. *)
Session == <<Cs[iC], Epsilons[iEpsilon], skippedFold>>

TrainAndEvaluate ==
  /\ pc = "train"
  /\ sessions' = Append(sessions, Session)
  /\ pc' = "save"
  /\ UNCHANGED <<dataset, folds, current, i, j, grid, removed, files>>

(* std::to_string prints six decimals, so epsilon is rounded to 10^-6; every C
   is a whole number. *)
Fixed4(units) == (units + 5000) \div 10000
Fixed6(units) == (units + 50) \div 100
FileName(s) == <<s[1], Fixed6(s[2]), s[3]>>

(* serialize replaces a file that is there. *)
Save ==
  /\ pc = "save"
  /\ LET name == FileName(Session) IN
       files' = [x \in DOMAIN files \cup {name} |->
                   IF x = name THEN Session ELSE files[x]]
  /\ skippedFold' = skippedFold + 1
  /\ pc' = "grid"
  /\ UNCHANGED <<dataset, folds, current, i, j, iC, iEpsilon, progress,
                 removed, sessions>>
-----------------------------------------------------------------------------
Next ==
  \/ AddImage \/ BeginSplit \/ ShuffleStep \/ EndShuffle
  \/ DivideByZero \/ FoldStep \/ EndSplit
  \/ NextC \/ NextEpsilon \/ EndGrid \/ BeginSession
  \/ NextFold \/ PushImage \/ CopyBack \/ EndCombine
  \/ Upsample \/ Flip \/ RemoveFromTraining \/ RemoveFromTest
  \/ TrainAndEvaluate \/ Save

(* The program is one thread that never waits for anyone but its user. *)
Spec == Init /\ [][Next]_vars
FairSpec == Spec /\ WF_vars(Next)
-----------------------------------------------------------------------------
TypeOK ==
  /\ pc \in {"load", "shuffle", "fold", "crashed", "grid", "combine",
             "copyback", "upsample", "flip", "removeTraining", "removeTest",
             "train", "save", "done"}
  /\ allImages \in Seq(Image) /\ allBoxes \in Seq(Boxes)
  /\ shuffledImages \in Seq(Image) /\ shuffledBoxes \in Seq(Boxes)
  /\ foldedImages \in Seq(Seq(Image)) /\ foldedBoxes \in Seq(Seq(Boxes))
  /\ currentImages \in Seq(Image) /\ currentBoxes \in Seq(Boxes)
  /\ randomIndex \in Seq(1..NumImages)
  /\ iNumberOfFolds \in Nat \ {0, 1}
  /\ i \in Nat \ {0} /\ j \in Nat \ {0}
  /\ iC \in 1..(Len(Cs) + 1) /\ iEpsilon \in 1..(Len(Epsilons) + 1)
  /\ skippedFold \in Nat \ {0}
  /\ progress \in Nat /\ removed \in Nat
  /\ sessions \in Seq(Nat \X Nat \X Nat)
  /\ DOMAIN files \subseteq Nat \X Nat \X Nat

(* The boxes at an index always belong to the image at that index, at its
   scale and orientation, in every pair of arrays: through the swaps of
   shuffleImages, the moves of the split, the copies of
   combineFoldsIntoTrainingData, upsampling and mirroring. *)
BelongTo(box, img) ==
  img = Blank \/ (box.src = img.src /\ box.up = img.up /\ box.flip = img.flip)
Matches(imgs, boxes) ==
  /\ Len(imgs) = Len(boxes)
  /\ \A a \in 1..Len(imgs) : BelongTo(boxes[a], imgs[a])
Paired ==
  /\ Matches(allImages, allBoxes)
  /\ Matches(shuffledImages, shuffledBoxes)
  /\ Len(foldedImages) = Len(foldedBoxes)
  /\ \A f \in 1..Len(foldedImages) : Matches(foldedImages[f], foldedBoxes[f])
  /\ pc # "copyback" => Matches(currentImages, currentBoxes)

InSession == pc \in {"upsample", "flip", "removeTraining", "removeTest",
                     "train", "save"}

(* No detector is trained on an image that it is evaluated on: neither on the
   skipped fold nor on the test fold. *)
SourcesOf(imgs) == {imgs[a].src : a \in 1..Len(imgs)}
NoLeak ==
  InSession => /\ SourcesOf(currentImages)
                    \cap SourcesOf(foldedImages[skippedFold + 1]) = {}
               /\ SourcesOf(currentImages) \cap SourcesOf(foldedImages[1]) = {}

(* Once the split is over there are iNumberOfFolds + 1 folds of the same size
   and fewer images are discarded than there are folds ("balanced folds",
   CrossValidation.cpp:75). *)
SplitOver == pc \notin {"load", "shuffle", "fold", "crashed"}
FoldsBalanced ==
  SplitOver /\ NumImages > 0 =>
    /\ Len(foldedImages) = iNumberOfFolds + 1
    /\ \A f \in 1..Len(foldedImages) : Len(foldedImages[f]) = imagesPerFold
    /\ NumImages - Len(foldedImages) * imagesPerFold < Len(foldedImages)

(* A session trains on each image that the shuffle dealt to the folds it does
   not skip exactly once, and on the mirror image of each exactly once when
   there are few: every image moved out of a fold has come back, and no session
   before it has lost, added or scaled one.  (shuffledBoxes, from which nothing
   is ever moved, tells what was dealt.) *)
Copies(s, mirrored) ==
  Cardinality({a \in 1..Len(currentImages) :
                 currentImages[a].src = s /\ currentImages[a].flip = mirrored})
TrainingComplete ==
  pc = "train" =>
    LET used == (1..iNumberOfFolds) \ {skippedFold}
        dealt == {shuffledBoxes[f * imagesPerFold + a].src :
                    f \in used, a \in 1..imagesPerFold}
        few == Cardinality(dealt) < FlipBelow
    IN  /\ SourcesOf(currentImages) = dealt
        /\ \A s \in dealt : /\ Copies(s, FALSE) = 1
                            /\ Copies(s, TRUE) = IF few THEN 1 ELSE 0
        /\ \A a \in 1..Len(currentImages) : currentImages[a].up <= 1

(* When the program is through, it has trained one detector for every C, every
   epsilon and every fold that can be skipped, and none twice; the progress it
   prints on the way is the number of the session that runs. *)
GridComplete ==
  /\ InSession /\ pc # "save" => progress = Len(sessions) + 1
  /\ pc = "done" =>
       /\ Len(sessions) = Len(Cs) * Len(Epsilons) * iNumberOfFolds
       /\ {sessions[a] : a \in 1..Len(sessions)} =
            { <<Cs[c], Epsilons[e], f>> :
                c \in 1..Len(Cs), e \in 1..Len(Epsilons), f \in 1..iNumberOfFolds }

(* "Saved detector to: ..." (CrossValidation.cpp:350) is printed for every
   session: in the end every detector is in the file named after it. *)
DetectorsKept ==
  pc = "done" =>
    \A a \in 1..Len(sessions) :
      LET s == sessions[a] IN
        FileName(s) \in DOMAIN files /\ files[FileName(s)] = s

(* "Double size of images and markup boxes" (CrossValidation.cpp:262): a
   session works on images of at most twice their size. *)
AtMostDoubled ==
  \A f \in 1..Len(foldedImages) : \A a \in 1..Len(foldedImages[f]) :
    foldedImages[f][a].up <= 1

(* Unless an exception ends it, the program works through the whole grid with
   enough images; with fewer images than
   folds the division by zero kills the program, before an image is in a
   fold, and never otherwise. *)
EnoughImages == NumImages = 0 \/ NumImages >= iNumberOfFolds + 1
Finishes ==
  <>(\/ pc = "done" /\ EnoughImages
     \/ pc = "crashed" /\ ~EnoughImages /\ foldedImages = <<>>)
=============================================================================

----------------------- MODULE CrossValidation_proofs -----------------------
(***************************************************************************)
(* CrossValidation for any number of images, folds, Cs and epsilons: first *)
(* type correctness, that boxes stay with their images (Paired) and that   *)
(* no detector sees its evaluation images while it is trained (NoLeak).    *)
(* Then the split, the loops and the sessions: the folds are of one size   *)
(* (FoldsBalanced), each point of the grid is trained (GridComplete) and,  *)
(* when the names of the files tell the epsilons apart, kept               *)
(* (DetectorsKept), and each session trains on all images of the folds it  *)
(* uses (TrainingComplete).                                                *)
(***************************************************************************)
EXTENDS CrossValidation, FiniteSetTheorems, TLAPS

Same(box, img) == box.src = img.src /\ box.up = img.up /\ box.flip = img.flip

InRound == pc \in {"combine", "copyback", "upsample", "flip", "removeTraining",
                   "removeTest", "train", "save"}

Moved(f, a) == pc = "copyback" /\ f = i + 1 /\ a = j

(* The four arrays of the dataset have one length; the permutation is one. *)
Lengths ==
  /\ Len(allImages) <= NumImages
  /\ Len(allBoxes) = Len(allImages)
  /\ Len(shuffledImages) = Len(allImages)
  /\ Len(shuffledBoxes) = Len(allImages)
  /\ pc # "load" => randomIndex \in Permutations(Len(allImages))
  /\ Len(foldedBoxes) = Len(foldedImages)
  /\ \A f \in 1..Len(foldedImages) : Len(foldedBoxes[f]) = Len(foldedImages[f])

(* Where the program is restricts the counters and what has been filled. *)
Control ==
  /\ pc \in {"load", "shuffle"} => Len(foldedImages) = 0
  /\ pc = "fold" /\ i > 1 => Len(foldedImages) > 0
  /\ pc = "fold" => i <= Len(allImages) + 1
  /\ InRound => /\ skippedFold < Len(foldedImages)
                /\ iC <= Len(Cs) /\ iEpsilon <= Len(Epsilons)
  /\ pc = "copyback" =>
       /\ i + 1 <= Len(foldedImages) /\ i # skippedFold
       /\ j <= Len(foldedImages[i + 1])
       /\ Len(currentImages) = Len(currentBoxes) + 1
       /\ Same(foldedBoxes[i + 1][j], currentImages[Len(currentImages)])

(* Except for the slots that have just been moved out, an image and its boxes
   agree exactly. *)
Agreement ==
  /\ \A a \in 1..Len(allImages) : Same(allBoxes[a], allImages[a])
  /\ \A a \in 1..Len(shuffledImages) :
       \/ Same(shuffledBoxes[a], shuffledImages[a])
       \/ shuffledImages[a] = Blank /\ (pc = "fold" => a < i)
                                    /\ pc \notin {"load", "shuffle"}
  /\ \A f \in 1..Len(foldedImages) : \A a \in 1..Len(foldedImages[f]) :
       IF Moved(f, a) THEN foldedImages[f][a] = Blank
                      ELSE Same(foldedBoxes[f][a], foldedImages[f][a])
  /\ pc # "copyback" => Len(currentBoxes) = Len(currentImages)
  /\ \A a \in 1..Len(currentBoxes) : Same(currentBoxes[a], currentImages[a])

(* Sources are never duplicated: not by the swaps, not by the dealing. *)
InFileOrder ==
  \A a \in 1..Len(allImages) : allBoxes[a].src = a /\ shuffledBoxes[a].src = a
HalfShuffled ==
  /\ \A a \in 1..Len(allImages) :
       shuffledBoxes[a].src = IF a < i THEN randomIndex[a] ELSE a
  /\ \A p \in 1..Len(allImages) :
       (\A a \in 1..Len(allImages) : a < i => randomIndex[a] # p)
         => allBoxes[p].src = p
Shuffled ==
  \A a, b \in 1..Len(shuffledBoxes) :
    a # b => shuffledBoxes[a].src # shuffledBoxes[b].src
NotDealtYet ==
  \A a \in 1..Len(shuffledBoxes) : a >= i =>
    \A f \in 1..Len(foldedBoxes) : \A b \in 1..Len(foldedBoxes[f]) :
      foldedBoxes[f][b].src # shuffledBoxes[a].src
FoldsDisjoint ==
  \A f, g \in 1..Len(foldedBoxes) : f # g =>
    \A a \in 1..Len(foldedBoxes[f]), b \in 1..Len(foldedBoxes[g]) :
      foldedBoxes[f][a].src # foldedBoxes[g][b].src
Dealing ==
  /\ pc = "load" => InFileOrder
  /\ pc = "shuffle" => HalfShuffled
  /\ pc \notin {"load", "shuffle"} => Shuffled
  /\ pc = "fold" => NotDealtYet
  /\ FoldsDisjoint

(* Training boxes come from a fold that is neither the test fold nor the one
   that is skipped. *)
Provenance ==
  InRound =>
    \A a \in 1..Len(currentBoxes) :
      \E f \in 2..Len(foldedBoxes) : \E b \in 1..Len(foldedBoxes[f]) :
        f # skippedFold + 1 /\ currentBoxes[a].src = foldedBoxes[f][b].src

IInv == TypeOK /\ Lengths /\ Control /\ Agreement /\ Dealing /\ Provenance
-----------------------------------------------------------------------------
(* What the operators on arrays return. *)

(* Appending to an array adds one element at its end and changes no other. *)
LEMMA AppendFacts ==
  ASSUME NEW S, NEW s \in Seq(S), NEW x \in S
  PROVE  /\ Append(s, x) \in Seq(S)
         /\ Len(Append(s, x)) = Len(s) + 1
         /\ \A a \in 1..Len(s) : Append(s, x)[a] = s[a]
         /\ Append(s, x)[Len(s) + 1] = x
  OBVIOUS

LEMMA ConcatFacts ==
  ASSUME NEW S, NEW s \in Seq(S), NEW t \in Seq(S)
  PROVE  s \o t \in Seq(S) /\ Len(s \o t) = Len(s) + Len(t)
  OBVIOUS

(* An array built element by element has the elements it was built from. *)
LEMMA MapIsSeq ==
  ASSUME NEW S, NEW n \in Nat, NEW t, t = [a \in 1..n |-> t[a]],
         \A a \in 1..n : t[a] \in S
  PROVE  t \in Seq(S) /\ Len(t) = n
<1>1. t \in [1..n -> S]
  OBVIOUS
<1> QED
  BY <1>1

(* Replacing one element keeps an array an array of the same kind. *)
LEMMA ReplaceOne ==
  ASSUME NEW S, NEW s \in Seq(S), NEW x \in S, NEW a
  PROVE  /\ [s EXCEPT ![a] = x] \in Seq(S)
         /\ Len([s EXCEPT ![a] = x]) = Len(s)
<1> DEFINE t == [s EXCEPT ![a] = x]
<1>1. t = [b \in 1..Len(s) |-> IF b = a THEN x ELSE s[b]]
  OBVIOUS
<1>2. t = [b \in 1..Len(s) |-> t[b]] /\ \A b \in 1..Len(s) : t[b] \in S
  BY <1>1
<1> HIDE DEF t
<1>3. t \in Seq(S) /\ Len(t) = Len(s)
  BY <1>2, MapIsSeq
<1> QED
  BY <1>3 DEF t

(* Upsampling keeps the length of an array and the source of every element. *)
LEMMA UpsampledImages ==
  ASSUME NEW s \in Seq(Image)
  PROVE  /\ Upsampled(s) \in Seq(Image)
         /\ Len(Upsampled(s)) = Len(s)
         /\ \A a \in 1..Len(s) :
              /\ Upsampled(s)[a].src = s[a].src
              /\ Upsampled(s)[a].up = s[a].up + 1
              /\ Upsampled(s)[a].flip = s[a].flip
<1> DEFINE t == Upsampled(s)
<1>1. t = [a \in 1..Len(s) |-> [s[a] EXCEPT !.up = @ + 1]]
  BY DEF Upsampled
<1>2. ASSUME NEW a \in 1..Len(s)
      PROVE  /\ t[a] \in Image
             /\ t[a].src = s[a].src
             /\ t[a].up = s[a].up + 1
             /\ t[a].flip = s[a].flip
  <2>1. s[a] \in Image /\ t[a] = [s[a] EXCEPT !.up = @ + 1]
    BY <1>1
  <2> HIDE DEF t
  <2> QED
    BY <2>1 DEF Image
<1>3. t \in Seq(Image) /\ Len(t) = Len(s)
  <2>1. t = [a \in 1..Len(s) |-> t[a]]
    BY <1>1
  <2> HIDE DEF t
  <2> QED
    BY <1>2, <2>1, MapIsSeq
<1> QED
  BY <1>2, <1>3

LEMMA UpsampledBoxes ==
  ASSUME NEW s \in Seq(Boxes)
  PROVE  /\ Upsampled(s) \in Seq(Boxes)
         /\ Len(Upsampled(s)) = Len(s)
         /\ \A a \in 1..Len(s) :
              /\ Upsampled(s)[a].src = s[a].src
              /\ Upsampled(s)[a].up = s[a].up + 1
              /\ Upsampled(s)[a].flip = s[a].flip
<1> DEFINE t == Upsampled(s)
<1>1. t = [a \in 1..Len(s) |-> [s[a] EXCEPT !.up = @ + 1]]
  BY DEF Upsampled
<1>2. ASSUME NEW a \in 1..Len(s)
      PROVE  /\ t[a] \in Boxes
             /\ t[a].src = s[a].src
             /\ t[a].up = s[a].up + 1
             /\ t[a].flip = s[a].flip
  <2>1. s[a] \in Boxes /\ t[a] = [s[a] EXCEPT !.up = @ + 1]
    BY <1>1
  <2> HIDE DEF t
  <2>2. t[a].src = s[a].src /\ t[a].flip = s[a].flip /\ t[a].up = s[a].up + 1
    BY <2>1 DEF Boxes
  <2>3. t[a] \in Boxes
    <3>1. s[a].up + 1 \in Nat
      BY <2>1 DEF Boxes
    <3> QED
      BY <2>1, <3>1 DEF Boxes
  <2> QED
    BY <2>2, <2>3
<1>3. t \in Seq(Boxes) /\ Len(t) = Len(s)
  <2>1. t = [a \in 1..Len(s) |-> t[a]]
    BY <1>1
  <2> HIDE DEF t
  <2> QED
    BY <1>2, <2>1, MapIsSeq
<1> QED
  BY <1>2, <1>3

(* So does mirroring, *)
LEMMA MirroredImages ==
  ASSUME NEW s \in Seq(Image)
  PROVE  /\ Mirrored(s) \in Seq(Image)
         /\ Len(Mirrored(s)) = Len(s)
         /\ \A a \in 1..Len(s) :
              /\ Mirrored(s)[a].src = s[a].src
              /\ Mirrored(s)[a].up = s[a].up
              /\ Mirrored(s)[a].flip = ~ s[a].flip
<1> DEFINE t == Mirrored(s)
<1>1. t = [a \in 1..Len(s) |-> [s[a] EXCEPT !.flip = ~ @]]
  BY DEF Mirrored
<1>2. ASSUME NEW a \in 1..Len(s)
      PROVE  /\ t[a] \in Image
             /\ t[a].src = s[a].src
             /\ t[a].up = s[a].up
             /\ t[a].flip = ~ s[a].flip
  <2>1. s[a] \in Image /\ t[a] = [s[a] EXCEPT !.flip = ~ @]
    BY <1>1
  <2> HIDE DEF t
  <2> QED
    BY <2>1 DEF Image
<1>3. t \in Seq(Image) /\ Len(t) = Len(s)
  <2>1. t = [a \in 1..Len(s) |-> t[a]]
    BY <1>1
  <2> HIDE DEF t
  <2> QED
    BY <1>2, <2>1, MapIsSeq
<1> QED
  BY <1>2, <1>3

LEMMA MirroredBoxes ==
  ASSUME NEW s \in Seq(Boxes)
  PROVE  /\ Mirrored(s) \in Seq(Boxes)
         /\ Len(Mirrored(s)) = Len(s)
         /\ \A a \in 1..Len(s) :
              /\ Mirrored(s)[a].src = s[a].src
              /\ Mirrored(s)[a].up = s[a].up
              /\ Mirrored(s)[a].flip = ~ s[a].flip
<1> DEFINE t == Mirrored(s)
<1>1. t = [a \in 1..Len(s) |-> [s[a] EXCEPT !.flip = ~ @]]
  BY DEF Mirrored
<1>2. ASSUME NEW a \in 1..Len(s)
      PROVE  /\ t[a] \in Boxes
             /\ t[a].src = s[a].src
             /\ t[a].up = s[a].up
             /\ t[a].flip = ~ s[a].flip
  <2>1. s[a] \in Boxes /\ t[a] = [s[a] EXCEPT !.flip = ~ @]
    BY <1>1
  <2> HIDE DEF t
  <2> QED
    BY <2>1 DEF Boxes
<1>3. t \in Seq(Boxes) /\ Len(t) = Len(s)
  <2>1. t = [a \in 1..Len(s) |-> t[a]]
    BY <1>1
  <2> HIDE DEF t
  <2> QED
    BY <1>2, <2>1, MapIsSeq
<1> QED
  BY <1>2, <1>3

(* and the removal of boxes. *)
LEMMA WithoutBoxes ==
  ASSUME NEW s \in Seq(Boxes), NEW U
  PROVE  /\ Without(s, U) \in Seq(Boxes)
         /\ Len(Without(s, U)) = Len(s)
         /\ \A a \in 1..Len(s) :
              /\ Without(s, U)[a].src = s[a].src
              /\ Without(s, U)[a].up = s[a].up
              /\ Without(s, U)[a].flip = s[a].flip
<1> DEFINE t == Without(s, U)
<1>1. t = [a \in 1..Len(s) |-> [s[a] EXCEPT !.lost = @ \/ s[a].src \in U]]
  BY DEF Without
<1>2. ASSUME NEW a \in 1..Len(s)
      PROVE  /\ t[a] \in Boxes
             /\ t[a].src = s[a].src
             /\ t[a].up = s[a].up
             /\ t[a].flip = s[a].flip
  <2>1. s[a] \in Boxes /\ t[a] = [s[a] EXCEPT !.lost = @ \/ s[a].src \in U]
    BY <1>1
  <2> HIDE DEF t
  <2> QED
    BY <2>1 DEF Boxes
<1>3. t \in Seq(Boxes) /\ Len(t) = Len(s)
  <2>1. t = [a \in 1..Len(s) |-> t[a]]
    BY <1>1
  <2> HIDE DEF t
  <2> QED
    BY <1>2, <2>1, MapIsSeq
<1> QED
  BY <1>2, <1>3

LEMMA RemovedCounts ==
  ASSUME NEW s \in Seq(Boxes), NEW U
  PROVE  Removed(s, U) \in Nat
<1>1. IsFiniteSet(1..Len(s))
  BY FS_Interval
<1>2. {a \in DOMAIN s : ~s[a].lost /\ s[a].src \in U} \subseteq 1..Len(s)
  OBVIOUS
<1> QED
  BY <1>1, <1>2, FS_Subset, FS_CardinalityType DEF Removed

(* A dealt element goes to the end of the last fold, which may be new. *)
Pushed(t, s, x, S) ==
  /\ t \in Seq(Seq(S))
  /\ Len(t) = Len(s)
  /\ \A f \in 1..Len(s) : f < Len(s) => t[f] = s[f]
  /\ Len(t[Len(s)]) = Len(s[Len(s)]) + 1
  /\ \A a \in 1..Len(s[Len(s)]) : t[Len(s)][a] = s[Len(s)][a]
  /\ t[Len(s)][Len(s[Len(s)]) + 1] = x

LEMMA PushLastFacts ==
  ASSUME NEW S, NEW s \in Seq(Seq(S)), NEW x \in S, Len(s) > 0
  PROVE  Pushed(PushLast(s, x), s, x, S)
<1> DEFINE n == Len(s)
           t == PushLast(s, x)
<1>1. n \in 1..n /\ s[n] \in Seq(S)
  OBVIOUS
<1>2. /\ Append(s[n], x) \in Seq(S)
      /\ Len(Append(s[n], x)) = Len(s[n]) + 1
      /\ \A a \in 1..Len(s[n]) : Append(s[n], x)[a] = s[n][a]
      /\ Append(s[n], x)[Len(s[n]) + 1] = x
  BY <1>1, AppendFacts
<1>3. t = [s EXCEPT ![n] = Append(s[n], x)]
  BY DEF PushLast
<1>4. t \in Seq(Seq(S)) /\ Len(t) = n /\ t[n] = Append(s[n], x)
  BY <1>1, <1>2, <1>3
<1>5. \A f \in 1..n : f < n => t[f] = s[f]
  BY <1>1, <1>3
<1> QED
  BY <1>2, <1>4, <1>5 DEF Pushed

(* Replacing one element of one fold. *)
Replaced(t, s, f, a, x, S) ==
  /\ t \in Seq(Seq(S))
  /\ Len(t) = Len(s)
  /\ \A g \in 1..Len(s) : Len(t[g]) = Len(s[g])
  /\ \A g \in 1..Len(s) : \A b \in 1..Len(s[g]) :
       t[g][b] = IF g = f /\ b = a THEN x ELSE s[g][b]

LEMMA ReplacedFacts ==
  ASSUME NEW S, NEW s \in Seq(Seq(S)), NEW f \in 1..Len(s),
         NEW a \in 1..Len(s[f]), NEW x \in S
  PROVE  Replaced([s EXCEPT ![f][a] = x], s, f, a, x, S)
<1> DEFINE t == [s EXCEPT ![f][a] = x]
           u == [s[f] EXCEPT ![a] = x]
<1>1. s[f] \in Seq(S)
  OBVIOUS
<1>2. u \in Seq(S) /\ Len(u) = Len(s[f])
  BY <1>1, ReplaceOne
<1>3. t = [s EXCEPT ![f] = u]
  OBVIOUS
<1>4. \A b \in 1..Len(s[f]) : u[b] = IF b = a THEN x ELSE s[f][b]
  BY <1>1
<1> HIDE DEF u
<1>5. t \in Seq(Seq(S)) /\ Len(t) = Len(s)
  BY <1>2, <1>3, ReplaceOne
<1>6. t[f] = u /\ \A g \in 1..Len(s) : g # f => t[g] = s[g]
  BY <1>3
<1> HIDE DEF t
<1>7. \A g \in 1..Len(s) : Len(t[g]) = Len(s[g])
  BY <1>2, <1>6
<1>8. \A g \in 1..Len(s) : \A b \in 1..Len(s[g]) :
        t[g][b] = IF g = f /\ b = a THEN x ELSE s[g][b]
  BY <1>4, <1>6
<1>9. Replaced(t, s, f, a, x, S)
  BY <1>5, <1>7, <1>8 DEF Replaced
<1> QED
  BY <1>9 DEF t

LEMMA RoomFacts ==
  ASSUME NEW S, NEW s \in Seq(Seq(S))
  PROVE  LET t == FoldsWithRoom(s) IN
           /\ t \in Seq(Seq(S))
           /\ OpensFold => /\ Len(t) = Len(s) + 1
                           /\ t[Len(s) + 1] = <<>>
                           /\ \A f \in 1..Len(s) : t[f] = s[f]
           /\ ~OpensFold => t = s
<1>1. <<>> \in Seq(S)
  OBVIOUS
<1> QED
  BY <1>1, AppendFacts DEF FoldsWithRoom
-----------------------------------------------------------------------------
LEMMA SessionType ==
  ASSUME TypeOK, Control, InRound
  PROVE  Session \in Nat \X Nat \X Nat
<1> DEFINE m == Len(Cs)
           n == Len(Epsilons)
<1>1. /\ Cs \in Seq(Nat) /\ Epsilons \in Seq(Nat)
      /\ m \in Nat /\ n \in Nat
  BY ConstantsAssumption
<1>2. /\ iC \in 1..(m + 1) /\ iC <= m
      /\ iEpsilon \in 1..(n + 1) /\ iEpsilon <= n
      /\ skippedFold \in Nat
  BY DEF TypeOK, Control
<1>3. iC \in 1..m /\ iEpsilon \in 1..n
  <2> HIDE DEF m, n
  <2> QED
    BY <1>1, <1>2
<1>4. Cs[iC] \in Nat /\ Epsilons[iEpsilon] \in Nat
  BY <1>1, <1>3
<1> QED
  BY <1>2, <1>4 DEF Session

(* A step after the split that leaves the boxes of the folds alone. *)
LEMMA QuietDealing ==
  ASSUME Dealing, pc \notin {"load", "shuffle"},
         pc' \notin {"load", "shuffle", "fold"},
         UNCHANGED <<shuffledBoxes, foldedBoxes>>
  PROVE  Dealing'
<1>1. Shuffled' /\ FoldsDisjoint'
  BY DEF Dealing, Shuffled, FoldsDisjoint
<1> QED
  BY <1>1 DEF Dealing

(* The initial state, then one lemma for every action. *)
LEMMA InitIInv == Init => IInv
<1> SUFFICES ASSUME Init PROVE IInv
  OBVIOUS
<1> USE DEF Init
<1>1. TypeOK
  BY ConstantsAssumption DEF TypeOK
<1>2. Lengths /\ Control
  BY ConstantsAssumption DEF Lengths, Control, InRound
<1>3. Agreement /\ Dealing /\ Provenance
  BY DEF Agreement, Moved, Dealing, InFileOrder, FoldsDisjoint,
         Provenance, InRound
<1> QED
  BY <1>1, <1>2, <1>3 DEF IInv

LEMMA EndShuffleStep == IInv /\ EndShuffle => IInv'
<1> SUFFICES ASSUME IInv, EndShuffle PROVE IInv'
  OBVIOUS
<1> USE DEF IInv, EndShuffle, dataset, folds, current, grid, results
<1>1. TypeOK'
  BY ConstantsAssumption DEF TypeOK
<1>2. Lengths'
  BY DEF TypeOK, Lengths
<1>3. Control'
  BY DEF TypeOK, Lengths, Control, InRound
<1>4. Agreement'
  BY DEF TypeOK, Agreement, Moved, Control
<1>5. Dealing'
  <2>1. Shuffled'
    BY DEF TypeOK, Lengths, Permutations, Dealing, HalfShuffled, Shuffled
  <2>2. FoldsDisjoint' /\ NotDealtYet'
    BY DEF Lengths, Control, FoldsDisjoint, NotDealtYet
  <2> QED
    BY <2>1, <2>2 DEF Dealing
<1>6. Provenance'
  BY DEF Provenance, InRound
<1> QED
  BY <1>1, <1>2, <1>3, <1>4, <1>5, <1>6

LEMMA DivideByZeroStep == IInv /\ DivideByZero => IInv'
<1> SUFFICES ASSUME IInv, DivideByZero PROVE IInv'
  OBVIOUS
<1> USE DEF IInv, DivideByZero, dataset, folds, current, grid, results
<1>1. TypeOK'
  BY ConstantsAssumption DEF TypeOK
<1>2. Lengths'
  BY DEF TypeOK, Lengths
<1>3. Control'
  BY DEF TypeOK, Lengths, Control, InRound
<1>4. Agreement'
  BY DEF TypeOK, Agreement, Moved, Control
<1>5. Dealing'
  BY QuietDealing
<1>6. Provenance'
  BY DEF Provenance, InRound
<1> QED
  BY <1>1, <1>2, <1>3, <1>4, <1>5, <1>6

LEMMA EndSplitStep == IInv /\ EndSplit => IInv'
<1> SUFFICES ASSUME IInv, EndSplit PROVE IInv'
  OBVIOUS
<1> USE DEF IInv, EndSplit, dataset, folds, current, grid, results
<1>1. TypeOK'
  BY ConstantsAssumption DEF TypeOK
<1>2. Lengths'
  BY DEF TypeOK, Lengths
<1>3. Control'
  BY DEF TypeOK, Lengths, Control, InRound
<1>4. Agreement'
  BY DEF TypeOK, Agreement, Moved, Control
<1>5. Dealing'
  BY QuietDealing
<1>6. Provenance'
  BY DEF Provenance, InRound
<1> QED
  BY <1>1, <1>2, <1>3, <1>4, <1>5, <1>6

LEMMA NextCStep == IInv /\ NextC => IInv'
<1> SUFFICES ASSUME IInv, NextC PROVE IInv'
  OBVIOUS
<1> USE DEF IInv, NextC, dataset, folds, current, grid, results
<1>1. TypeOK'
  <2>1. Len(Cs) \in Nat /\ Len(Epsilons) \in Nat
    BY ConstantsAssumption
  <2>2. iC' \in 1..(Len(Cs) + 1) /\ iEpsilon' \in 1..(Len(Epsilons) + 1)
    BY <2>1 DEF TypeOK
  <2> QED
    BY <2>2 DEF TypeOK
<1>2. Lengths'
  BY DEF TypeOK, Lengths
<1>3. Control'
  BY DEF TypeOK, Lengths, Control, InRound
<1>4. Agreement'
  BY DEF TypeOK, Agreement, Moved, Control
<1>5. Dealing'
  BY QuietDealing
<1>6. Provenance'
  BY DEF Provenance, InRound
<1> QED
  BY <1>1, <1>2, <1>3, <1>4, <1>5, <1>6

LEMMA NextEpsilonStep == IInv /\ NextEpsilon => IInv'
<1> SUFFICES ASSUME IInv, NextEpsilon PROVE IInv'
  OBVIOUS
<1> USE DEF IInv, NextEpsilon, dataset, folds, current, grid, results
<1>1. TypeOK'
  BY ConstantsAssumption DEF TypeOK
<1>2. Lengths'
  BY DEF TypeOK, Lengths
<1>3. Control'
  BY DEF TypeOK, Lengths, Control, InRound
<1>4. Agreement'
  BY DEF TypeOK, Agreement, Moved, Control
<1>5. Dealing'
  BY QuietDealing
<1>6. Provenance'
  BY DEF Provenance, InRound
<1> QED
  BY <1>1, <1>2, <1>3, <1>4, <1>5, <1>6

LEMMA EndGridStep == IInv /\ EndGrid => IInv'
<1> SUFFICES ASSUME IInv, EndGrid PROVE IInv'
  OBVIOUS
<1> USE DEF IInv, EndGrid, dataset, folds, current, grid, results
<1>1. TypeOK'
  BY ConstantsAssumption DEF TypeOK
<1>2. Lengths'
  BY DEF TypeOK, Lengths
<1>3. Control'
  BY DEF TypeOK, Lengths, Control, InRound
<1>4. Agreement'
  BY DEF TypeOK, Agreement, Moved, Control
<1>5. Dealing'
  BY QuietDealing
<1>6. Provenance'
  BY DEF Provenance, InRound
<1> QED
  BY <1>1, <1>2, <1>3, <1>4, <1>5, <1>6

LEMMA NextFoldStep == IInv /\ NextFold => IInv'
<1> SUFFICES ASSUME IInv, NextFold PROVE IInv'
  OBVIOUS
<1> USE DEF IInv, NextFold, dataset, folds, current, grid, results
<1>1. TypeOK'
  BY ConstantsAssumption DEF TypeOK
<1>2. Lengths'
  BY DEF TypeOK, Lengths
<1>3. Control'
  BY DEF TypeOK, Lengths, Control, InRound
<1>4. Agreement'
  BY DEF TypeOK, Agreement, Moved, Control
<1>5. Dealing'
  BY QuietDealing
<1>6. Provenance'
  BY DEF Provenance, InRound
<1> QED
  BY <1>1, <1>2, <1>3, <1>4, <1>5, <1>6

LEMMA EndCombineStep == IInv /\ EndCombine => IInv'
<1> SUFFICES ASSUME IInv, EndCombine PROVE IInv'
  OBVIOUS
<1> USE DEF IInv, EndCombine, dataset, folds, current, grid, results
<1>1. TypeOK'
  BY ConstantsAssumption DEF TypeOK
<1>2. Lengths'
  BY DEF TypeOK, Lengths
<1>3. Control'
  BY DEF TypeOK, Lengths, Control, InRound
<1>4. Agreement'
  BY DEF TypeOK, Agreement, Moved, Control
<1>5. Dealing'
  BY QuietDealing
<1>6. Provenance'
  BY DEF Provenance, InRound
<1> QED
  BY <1>1, <1>2, <1>3, <1>4, <1>5, <1>6

LEMMA BeginSessionStep == IInv /\ BeginSession => IInv'
<1> SUFFICES ASSUME IInv, BeginSession PROVE IInv'
  OBVIOUS
<1> USE DEF IInv, BeginSession, dataset, folds, current, grid, results
<1>1. TypeOK'
  <2>1. /\ Len(Epsilons) \in Nat /\ Folded \in Nat
        /\ iC - 1 \in Nat /\ iEpsilon - 1 \in Nat
    <3>1. Len(Cs) \in Nat /\ Len(Epsilons) \in Nat
      BY ConstantsAssumption
    <3>2. Len(foldedImages) \in Nat /\ skippedFold \in Nat \ {0}
      BY DEF TypeOK
    <3> QED
      BY <3>1, <3>2 DEF TypeOK, Folded
  <2>2. \A m, n \in Nat : m * n \in Nat /\ m + n \in Nat
    OBVIOUS
  <2>3. ProgressNow \in Nat
    <3>1. (iC - 1) * (Len(Epsilons) * Folded) \in Nat
      BY <2>1, <2>2
    <3>2. (iEpsilon - 1) * Folded \in Nat
      BY <2>1, <2>2
    <3> QED
      BY <2>2, <3>1, <3>2 DEF ProgressNow, TypeOK
  <2> QED
    BY <2>3 DEF TypeOK
<1>2. Lengths'
  BY DEF TypeOK, Lengths
<1>3. Control'
  BY DEF TypeOK, Lengths, Control, InRound
<1>4. Agreement'
  BY DEF TypeOK, Agreement, Moved, Control
<1>5. Dealing'
  BY QuietDealing
<1>6. Provenance'
  BY DEF Provenance, InRound
<1> QED
  BY <1>1, <1>2, <1>3, <1>4, <1>5, <1>6

LEMMA TrainAndEvaluateStep == IInv /\ TrainAndEvaluate => IInv'
<1> SUFFICES ASSUME IInv, TrainAndEvaluate PROVE IInv'
  OBVIOUS
<1> USE DEF IInv, TrainAndEvaluate, dataset, folds, current, grid, results
<1>1. TypeOK'
  <2>1. Session \in Nat \X Nat \X Nat
    BY SessionType DEF InRound
  <2>2. sessions' \in Seq(Nat \X Nat \X Nat)
    BY <2>1, AppendFacts DEF TypeOK
  <2> QED
    BY <2>2 DEF TypeOK
<1>2. Lengths'
  BY DEF TypeOK, Lengths
<1>3. Control'
  BY DEF TypeOK, Lengths, Control, InRound
<1>4. Agreement'
  BY DEF TypeOK, Agreement, Moved, Control
<1>5. Dealing'
  BY QuietDealing
<1>6. Provenance'
  BY DEF Provenance, InRound
<1> QED
  BY <1>1, <1>2, <1>3, <1>4, <1>5, <1>6

LEMMA SaveStep == IInv /\ Save => IInv'
<1> SUFFICES ASSUME IInv, Save PROVE IInv'
  OBVIOUS
<1> USE DEF IInv, Save, dataset, folds, current, grid, results
<1>1. TypeOK'
  <2>1. Session \in Nat \X Nat \X Nat
    BY SessionType DEF InRound
  <2>2. Fixed6(Session[2]) \in Nat
    <3>1. \A n \in Nat : (n + 50) \div 100 \in Nat
      OBVIOUS
    <3> QED
      BY <2>1, <3>1 DEF Fixed6
  <2>3. FileName(Session) \in Nat \X Nat \X Nat
    BY <2>1, <2>2 DEF FileName
  <2>4. DOMAIN files' = DOMAIN files \cup {FileName(Session)}
    OBVIOUS
  <2>5. DOMAIN files' \subseteq Nat \X Nat \X Nat
    BY <2>3, <2>4 DEF TypeOK
  <2> QED
    BY <2>5 DEF TypeOK
<1>2. Lengths'
  BY DEF TypeOK, Lengths
<1>3. Control'
  BY DEF TypeOK, Lengths, Control, InRound
<1>4. Agreement'
  BY DEF TypeOK, Agreement, Moved, Control
<1>5. Dealing'
  BY QuietDealing
<1>6. Provenance'
  BY DEF Provenance, InRound
<1> QED
  BY <1>1, <1>2, <1>3, <1>4, <1>5, <1>6

LEMMA AddImageStep == IInv /\ AddImage => IInv'
<1> SUFFICES ASSUME IInv, AddImage PROVE IInv'
  OBVIOUS
<1> DEFINE s == Len(allImages) + 1
<1> USE DEF IInv, AddImage, folds, current, grid, results
<1>1. s \in 1..NumImages
  BY ConstantsAssumption DEF TypeOK, MoreToLoad
<1>2. /\ Loaded(s) \in Image /\ TruthOf(s) \in Boxes
      /\ Same(TruthOf(s), Loaded(s)) /\ TruthOf(s).src = s
  BY <1>1, ConstantsAssumption DEF Loaded, TruthOf, Image, Boxes, Same
<1>3. /\ allImages' = Append(allImages, Loaded(s))
      /\ shuffledImages' = Append(shuffledImages, Loaded(s))
      /\ allBoxes' = Append(allBoxes, TruthOf(s))
      /\ shuffledBoxes' = Append(shuffledBoxes, TruthOf(s))
  OBVIOUS
<1>4. /\ allImages' \in Seq(Image) /\ shuffledImages' \in Seq(Image)
      /\ allBoxes' \in Seq(Boxes) /\ shuffledBoxes' \in Seq(Boxes)
  BY <1>2, <1>3, AppendFacts DEF TypeOK
<1>5. /\ Len(allImages') = s /\ Len(shuffledImages') = s
      /\ Len(allBoxes') = s /\ Len(shuffledBoxes') = s
  BY <1>2, <1>3, AppendFacts DEF TypeOK, Lengths
<1>6. /\ \A a \in 1..s : Same(allBoxes'[a], allImages'[a])
      /\ \A a \in 1..s : Same(shuffledBoxes'[a], shuffledImages'[a])
      /\ \A a \in 1..s : allBoxes'[a].src = a /\ shuffledBoxes'[a].src = a
  <2> SUFFICES ASSUME NEW a \in 1..s
               PROVE  /\ Same(allBoxes'[a], allImages'[a])
                      /\ Same(shuffledBoxes'[a], shuffledImages'[a])
                      /\ allBoxes'[a].src = a /\ shuffledBoxes'[a].src = a
    OBVIOUS
  <2>1. CASE a = s
    <3>1. /\ allImages'[s] = Loaded(s) /\ allBoxes'[s] = TruthOf(s)
          /\ shuffledImages'[s] = Loaded(s) /\ shuffledBoxes'[s] = TruthOf(s)
      <4>1. /\ allImages'[Len(allImages) + 1] = Loaded(s)
            /\ shuffledImages'[Len(shuffledImages) + 1] = Loaded(s)
        <5> DEFINE m == Loaded(s)
        <5>1. /\ allImages \in Seq(Image) /\ shuffledImages \in Seq(Image)
              /\ m \in Image
              /\ allImages' = Append(allImages, m)
              /\ shuffledImages' = Append(shuffledImages, m)
          BY <1>2, <1>3 DEF TypeOK
        <5> HIDE DEF m
        <5>2. /\ allImages'[Len(allImages) + 1] = m
              /\ shuffledImages'[Len(shuffledImages) + 1] = m
          BY ONLY <5>1, AppendFacts
        <5> QED
          BY <5>2 DEF m
      <4>2. /\ allBoxes'[Len(allBoxes) + 1] = TruthOf(s)
            /\ shuffledBoxes'[Len(shuffledBoxes) + 1] = TruthOf(s)
        <5> DEFINE b == TruthOf(s)
        <5>1. /\ allBoxes \in Seq(Boxes) /\ shuffledBoxes \in Seq(Boxes)
              /\ b \in Boxes
              /\ allBoxes' = Append(allBoxes, b)
              /\ shuffledBoxes' = Append(shuffledBoxes, b)
          BY <1>2, <1>3 DEF TypeOK
        <5> HIDE DEF b
        <5>2. /\ allBoxes'[Len(allBoxes) + 1] = b
              /\ shuffledBoxes'[Len(shuffledBoxes) + 1] = b
          BY ONLY <5>1, AppendFacts
        <5> QED
          BY <5>2 DEF b
      <4> QED
        BY <4>1, <4>2 DEF Lengths
    <3> HIDE DEF s
    <3> QED
      BY <2>1, <3>1, <1>2
  <2>2. CASE a # s
    <3>1. a \in 1..Len(allImages)
      <4>1. Len(allImages) \in Nat
        BY DEF TypeOK
      <4> QED
        BY <2>2, <4>1
    <3>2. /\ allImages'[a] = allImages[a] /\ allBoxes'[a] = allBoxes[a]
          /\ shuffledImages'[a] = shuffledImages[a]
          /\ shuffledBoxes'[a] = shuffledBoxes[a]
      BY <1>3, <3>1 DEF TypeOK, Lengths
    <3> HIDE DEF s
    <3> QED
      BY <3>1, <3>2 DEF Lengths, Agreement, Dealing, InFileOrder
  <2> QED
    BY <2>1, <2>2
<1> HIDE DEF s
<1>7. TypeOK'
  BY <1>4 DEF TypeOK
<1>8. Lengths'
  BY <1>1, <1>5 DEF Lengths
<1>9. Control'
  BY DEF Control, InRound
<1>10. Agreement'
  BY <1>5, <1>6 DEF Agreement, Moved
<1>11. Dealing'
  <2>1. InFileOrder' /\ FoldsDisjoint'
    BY <1>5, <1>6 DEF Dealing, InFileOrder, FoldsDisjoint
  <2> QED
    BY <2>1 DEF Dealing
<1>12. Provenance'
  BY DEF Provenance, InRound
<1> QED
  BY <1>7, <1>8, <1>9, <1>10, <1>11, <1>12

LEMMA BeginSplitStep == IInv /\ BeginSplit => IInv'
<1> SUFFICES ASSUME IInv, BeginSplit PROVE IInv'
  OBVIOUS
<1> USE DEF IInv, BeginSplit, folds, current, grid, results
<1>1. TypeOK'
  <2>1. iNumberOfFolds' \in Nat \ {0, 1}
    BY ConstantsAssumption
  <2>2. randomIndex' \in Seq(1..NumImages)
    <3>1. /\ Len(allImages) \in Nat
          /\ randomIndex' \in [1..Len(allImages) -> 1..Len(allImages)]
      BY DEF TypeOK, Permutations
    <3>2. randomIndex' \in [1..Len(allImages) -> 1..NumImages]
      BY <3>1, ConstantsAssumption
    <3> QED
      BY <3>1, <3>2
  <2> QED
    BY <2>1, <2>2 DEF TypeOK
<1>2. Lengths'
  BY DEF Lengths
<1>3. Control'
  BY DEF Control, InRound
<1>4. Agreement'
  BY DEF Agreement, Moved
<1>5. Dealing'
  <2>1. InFileOrder /\ FoldsDisjoint
    BY DEF Dealing
  <2>2. HalfShuffled'
    <3>1. \A a \in 1..Len(allImages) : ~(a < i')
      BY DEF TypeOK
    <3> QED
      BY <2>1, <3>1 DEF InFileOrder, HalfShuffled
  <2>3. FoldsDisjoint'
    BY <2>1 DEF FoldsDisjoint
  <2> QED
    BY <2>2, <2>3 DEF Dealing
<1>6. Provenance'
  BY DEF Provenance, InRound
<1> QED
  BY <1>1, <1>2, <1>3, <1>4, <1>5, <1>6

LEMMA ShuffleStepStep == IInv /\ ShuffleStep => IInv'
<1> SUFFICES ASSUME IInv, ShuffleStep PROVE IInv'
  OBVIOUS
<1> DEFINE r == randomIndex[i]
           N == Len(allImages)
<1> USE DEF IInv, ShuffleStep, folds, current, grid, results
<1>1. /\ i \in 1..N /\ randomIndex \in [1..N -> 1..N] /\ r \in 1..N
      /\ \A a, b \in 1..N : randomIndex[a] = randomIndex[b] => a = b
  <2>1. N \in Nat /\ i \in Nat \ {0} /\ i <= N
    BY DEF TypeOK, Lengths
  <2>2. randomIndex \in Permutations(N)
    BY DEF Lengths
  <2> HIDE DEF N
  <2> QED
    BY <2>1, <2>2 DEF Permutations
<1>2. /\ allImages \in Seq(Image) /\ shuffledImages \in Seq(Image)
      /\ allBoxes \in Seq(Boxes) /\ shuffledBoxes \in Seq(Boxes)
      /\ Len(allBoxes) = N /\ Len(shuffledImages) = N /\ Len(shuffledBoxes) = N
      /\ N \in Nat
  BY DEF TypeOK, Lengths
<1>3. /\ shuffledImages' = [shuffledImages EXCEPT ![i] = allImages[r]]
      /\ allImages' = [allImages EXCEPT ![r] = shuffledImages[i]]
      /\ shuffledBoxes' = [shuffledBoxes EXCEPT ![i] = allBoxes[r]]
      /\ allBoxes' = [allBoxes EXCEPT ![r] = shuffledBoxes[i]]
  BY DEF SwapImages, SwapBoxes
<1> HIDE DEF r, N
<1>4. /\ allImages[r] \in Image /\ shuffledImages[i] \in Image
      /\ allBoxes[r] \in Boxes /\ shuffledBoxes[i] \in Boxes
  BY <1>1, <1>2 DEF N
<1>5. /\ allImages' \in Seq(Image) /\ shuffledImages' \in Seq(Image)
      /\ allBoxes' \in Seq(Boxes) /\ shuffledBoxes' \in Seq(Boxes)
  BY <1>2, <1>3, <1>4, ReplaceOne
<1>6. /\ Len(allImages') = N /\ Len(allBoxes') = N
      /\ Len(shuffledImages') = N /\ Len(shuffledBoxes') = N
  BY <1>1, <1>2, <1>3 DEF N
<1>7. TypeOK'
  BY <1>5 DEF TypeOK
<1>8. Lengths'
  BY <1>6 DEF Lengths, N
<1>9. Control'
  BY DEF Control, InRound
<1>10. Agreement'
  <2>1. /\ \A a \in 1..N : Same(allBoxes[a], allImages[a])
        /\ \A a \in 1..N : Same(shuffledBoxes[a], shuffledImages[a])
    BY <1>2 DEF Agreement, N
  <2>2. \A a \in 1..N : Same(allBoxes'[a], allImages'[a])
    BY <1>1, <1>2, <1>3, <2>1 DEF N
  <2>3. \A a \in 1..N : Same(shuffledBoxes'[a], shuffledImages'[a])
    BY <1>1, <1>2, <1>3, <2>1 DEF N
  <2> QED
    BY <1>6, <2>2, <2>3 DEF Agreement, Moved
<1>11. Dealing'
  <2>1. HalfShuffled'
    <3>1. \A a \in 1..N : shuffledBoxes'[a].src = IF a < i' THEN randomIndex[a] ELSE a
      <4> SUFFICES ASSUME NEW a \in 1..N
                   PROVE  shuffledBoxes'[a].src = IF a < i + 1 THEN randomIndex[a] ELSE a
        OBVIOUS
      <4>1. CASE a = i
        <5>1. allBoxes[r].src = r
          BY <1>1 DEF Dealing, HalfShuffled, N, r
        <5> QED
          BY <4>1, <5>1, <1>1, <1>2, <1>3 DEF N, r
      <4>2. CASE a # i
        <5>1. shuffledBoxes'[a] = shuffledBoxes[a]
          BY <4>2, <1>2, <1>3 DEF N
        <5> QED
          BY <4>2, <5>1, <1>1 DEF Dealing, HalfShuffled, N
      <4> QED
        BY <4>1, <4>2
    <3>2. ASSUME NEW p \in 1..N, \A a \in 1..N : a < i' => randomIndex[a] # p
          PROVE  allBoxes'[p].src = p
      <4>1. r # p
        BY <1>1, <3>2 DEF r
      <4>2. allBoxes'[p] = allBoxes[p]
        BY <4>1, <1>2, <1>3 DEF N
      <4>3. \A a \in 1..N : a < i => randomIndex[a] # p
        BY <1>1, <3>2
      <4> QED
        BY <4>2, <4>3 DEF Dealing, HalfShuffled, N
    <3> QED
      BY <1>6, <3>1, <3>2 DEF HalfShuffled
  <2>2. FoldsDisjoint'
    BY DEF Dealing, FoldsDisjoint
  <2> QED
    BY <2>1, <2>2 DEF Dealing
<1>12. Provenance'
  BY DEF Provenance, InRound
<1> QED
  BY <1>7, <1>8, <1>9, <1>10, <1>11, <1>12

LEMMA FoldStepStep == IInv /\ FoldStep => IInv'
<1> SUFFICES ASSUME IInv, FoldStep PROVE IInv'
  OBVIOUS
<1> DEFINE room == FoldsWithRoom(foldedImages)
           roomB == FoldsWithRoom(foldedBoxes)
           n == Len(room)
<1> USE DEF IInv, FoldStep, current, grid, results
<1>1. /\ pc = "fold" /\ pc' = "fold" /\ i' = i + 1
      /\ i \in 1..Len(shuffledImages) /\ i \in 1..Len(shuffledBoxes)
      /\ Len(shuffledImages) = Len(shuffledBoxes)
      /\ shuffledImages \in Seq(Image) /\ shuffledBoxes \in Seq(Boxes)
  BY DEF TypeOK, Lengths
<1>2. shuffledImages[i] \in Image /\ shuffledBoxes[i] \in Boxes
  BY <1>1
<1>3. Same(shuffledBoxes[i], shuffledImages[i])
  BY <1>1 DEF Agreement
<1>4. /\ foldedImages' = PushLast(room, shuffledImages[i])
      /\ foldedBoxes' = PushLast(roomB, shuffledBoxes[i])
      /\ shuffledImages' = [shuffledImages EXCEPT ![i] = Blank]
      /\ UNCHANGED <<allImages, allBoxes, shuffledBoxes, randomIndex, iNumberOfFolds,
                     currentImages, currentBoxes, j, iC, iEpsilon, skippedFold,
                     progress, removed, sessions, files>>
  OBVIOUS
<1>5. ~OpensFold => Len(foldedImages) > 0
  <2>1. imagesPerFold \in Nat \ {0}
    <3>1. \A m \in Nat, k \in Nat \ {0} : m \div k \in Nat
      OBVIOUS
    <3>2. Len(shuffledImages) \in Nat /\ iNumberOfFolds + 1 \in Nat \ {0}
      BY DEF TypeOK
    <3>3. imagesPerFold \in Nat
      BY <3>1, <3>2 DEF imagesPerFold
    <3> QED
      BY <3>3
  <2>2. \A m \in Nat \ {0} : 0 % m = 0
    OBVIOUS
  <2>3. i = 1 => OpensFold
    BY <2>1, <2>2 DEF OpensFold
  <2> QED
    BY <2>3, <1>1 DEF Control, TypeOK
<1>6. foldedImages \in Seq(Seq(Image)) /\ foldedBoxes \in Seq(Seq(Boxes))
  BY DEF TypeOK
<1>7. /\ room \in Seq(Seq(Image))
      /\ OpensFold => /\ Len(room) = Len(foldedImages) + 1
                      /\ room[Len(foldedImages) + 1] = <<>>
                      /\ \A f \in 1..Len(foldedImages) : room[f] = foldedImages[f]
      /\ ~OpensFold => room = foldedImages
  BY <1>6, RoomFacts
<1>8. /\ roomB \in Seq(Seq(Boxes))
      /\ OpensFold => /\ Len(roomB) = Len(foldedBoxes) + 1
                      /\ roomB[Len(foldedBoxes) + 1] = <<>>
                      /\ \A f \in 1..Len(foldedBoxes) : roomB[f] = foldedBoxes[f]
      /\ ~OpensFold => roomB = foldedBoxes
  BY <1>6, RoomFacts
<1> HIDE DEF room, roomB
(* The folds with room for the image agree, and hold what the folds held. *)
<1>9. /\ n \in Nat /\ n > 0 /\ Len(roomB) = n
      /\ \A f \in 1..n : Len(roomB[f]) = Len(room[f]) /\ Len(room[f]) \in Nat
  <2>1. CASE OpensFold
    <3>1. Len(foldedImages) \in Nat /\ Len(foldedBoxes) = Len(foldedImages)
      BY <1>6 DEF Lengths
    <3>2. n = Len(foldedImages) + 1 /\ Len(roomB) = n
      BY <2>1, <3>1, <1>7, <1>8
    <3>3. \A f \in 1..Len(foldedImages) : Len(roomB[f]) = Len(room[f])
      BY <2>1, <3>1, <1>7, <1>8 DEF Lengths
    <3>4. Len(roomB[n]) = 0 /\ Len(room[n]) = 0
      BY <2>1, <3>1, <3>2, <1>7, <1>8
    <3>5. \A f \in 1..n : Len(room[f]) \in Nat
      BY <1>7
    <3> QED
      BY <3>1, <3>2, <3>3, <3>4, <3>5
  <2>2. CASE ~OpensFold
    BY <2>2, <1>5, <1>6, <1>7, <1>8 DEF Lengths
  <2> QED
    BY <2>1, <2>2
<1>10. ASSUME NEW f \in 1..n, NEW a \in 1..Len(room[f])
       PROVE  /\ f \in 1..Len(foldedImages) /\ a \in 1..Len(foldedImages[f])
              /\ f \in 1..Len(foldedBoxes) /\ a \in 1..Len(foldedBoxes[f])
              /\ room[f][a] = foldedImages[f][a]
              /\ roomB[f][a] = foldedBoxes[f][a]
  <2>1. CASE OpensFold
    <3>1. Len(foldedImages) \in Nat /\ Len(foldedBoxes) = Len(foldedImages)
      BY <1>6 DEF Lengths
    <3>2. n = Len(foldedImages) + 1
      BY <2>1, <1>7
    <3>3. f # n
      BY <2>1, <3>2, <1>7
    <3>4. f \in 1..Len(foldedImages) /\ f \in 1..Len(foldedBoxes)
      BY <3>1, <3>2, <3>3
    <3>5. room[f] = foldedImages[f] /\ roomB[f] = foldedBoxes[f]
      BY <2>1, <3>4, <1>7, <1>8
    <3> QED
      BY <3>4, <3>5 DEF Lengths
  <2>2. CASE ~OpensFold
    BY <2>2, <1>7, <1>8 DEF Lengths
  <2> QED
    BY <2>1, <2>2
<1>11. /\ foldedImages' \in Seq(Seq(Image)) /\ Len(foldedImages') = n
       /\ \A f \in 1..n : f < n => foldedImages'[f] = room[f]
       /\ Len(foldedImages'[n]) = Len(room[n]) + 1
       /\ \A a \in 1..Len(room[n]) : foldedImages'[n][a] = room[n][a]
       /\ foldedImages'[n][Len(room[n]) + 1] = shuffledImages[i]
  <2> DEFINE x == shuffledImages[i]
  <2>1. /\ x \in Image /\ room \in Seq(Seq(Image)) /\ Len(room) = n /\ Len(room) > 0
        /\ foldedImages' = PushLast(room, x)
    BY <1>2, <1>4, <1>7, <1>9
  <2> HIDE DEF x, n
  <2>2. Pushed(foldedImages', room, x, Image)
    BY ONLY <2>1, PushLastFacts
  <2> QED
    BY <2>1, <2>2 DEF Pushed, x
<1>12. /\ foldedBoxes' \in Seq(Seq(Boxes)) /\ Len(foldedBoxes') = n
       /\ \A f \in 1..n : f < n => foldedBoxes'[f] = roomB[f]
       /\ Len(foldedBoxes'[n]) = Len(roomB[n]) + 1
       /\ \A a \in 1..Len(roomB[n]) : foldedBoxes'[n][a] = roomB[n][a]
       /\ foldedBoxes'[n][Len(roomB[n]) + 1] = shuffledBoxes[i]
  <2> DEFINE x == shuffledBoxes[i]
  <2>1. /\ x \in Boxes /\ roomB \in Seq(Seq(Boxes)) /\ Len(roomB) = n /\ Len(roomB) > 0
        /\ foldedBoxes' = PushLast(roomB, x)
    BY <1>2, <1>4, <1>8, <1>9
  <2> HIDE DEF x, n
  <2>2. Pushed(foldedBoxes', roomB, x, Boxes)
    BY ONLY <2>1, PushLastFacts
  <2> QED
    BY <2>1, <2>2 DEF Pushed, x
<1> HIDE DEF n
(* So an element of the new folds is the one dealt or was there before. *)
<1>13. ASSUME NEW f \in 1..n, NEW a \in 1..Len(foldedImages'[f])
       PROVE  \/ /\ f = n /\ a = Len(room[n]) + 1
                 /\ foldedImages'[f][a] = shuffledImages[i]
                 /\ foldedBoxes'[f][a] = shuffledBoxes[i]
              \/ /\ f \in 1..n /\ a \in 1..Len(room[f])
                 /\ foldedImages'[f][a] = room[f][a]
                 /\ foldedBoxes'[f][a] = roomB[f][a]
  <2>1. CASE f = n
    <3> DEFINE m == Len(room[n])
    <3>1. m \in Nat /\ Len(roomB[n]) = m /\ Len(foldedImages'[n]) = m + 1
      BY <1>9, <1>11
    <3>2. a \in 1..m \/ a = m + 1
      BY <2>1, <3>1
    <3>3. CASE a = m + 1
      BY <2>1, <3>1, <3>3, <1>11, <1>12
    <3>4. CASE a \in 1..m
      BY <2>1, <3>1, <3>4, <1>11, <1>12
    <3> QED
      BY <3>2, <3>3, <3>4
  <2>2. CASE f # n
    <3>1. f < n
      BY <2>2, <1>9
    <3> QED
      BY <3>1, <1>11, <1>12
  <2> QED
    BY <2>1, <2>2
<1>14. \A f \in 1..n : Len(foldedBoxes'[f]) = Len(foldedImages'[f])
  <2> TAKE f \in 1..n
  <2>1. CASE f = n
    BY <2>1, <1>9, <1>11, <1>12
  <2>2. CASE f # n
    <3>1. f < n
      BY <2>2, <1>9
    <3> QED
      BY <3>1, <1>9, <1>11, <1>12
  <2> QED
    BY <2>1, <2>2
<1>15. shuffledImages' \in Seq(Image) /\ Len(shuffledImages') = Len(shuffledImages)
  <2>1. Blank \in Image
    BY ConstantsAssumption DEF Blank, Image
  <2> QED
    BY <2>1, <1>1, <1>4, ReplaceOne
<1>16. TypeOK'
  <2>1. i' \in Nat \ {0}
    BY <1>1
  <2> QED
    BY <2>1, <1>1, <1>4, <1>11, <1>12, <1>15 DEF TypeOK
<1>17. Lengths'
  BY <1>1, <1>4, <1>11, <1>12, <1>14, <1>15 DEF Lengths
<1>18. Control'
  BY <1>1, <1>4, <1>9, <1>11, <1>15 DEF Control, InRound, Lengths
<1>19. Agreement'
  <2>1. \A a \in 1..Len(shuffledImages') :
          \/ Same(shuffledBoxes'[a], shuffledImages'[a])
          \/ shuffledImages'[a] = Blank /\ a < i'
    BY <1>1, <1>4, <1>15 DEF Agreement
  <2>2. ASSUME NEW f \in 1..n, NEW a \in 1..Len(foldedImages'[f])
        PROVE  Same(foldedBoxes'[f][a], foldedImages'[f][a])
    <3>1. CASE a \in 1..Len(room[f]) /\ foldedImages'[f][a] = room[f][a]
                 /\ foldedBoxes'[f][a] = roomB[f][a]
      BY <3>1, <1>1, <1>10 DEF Agreement, Moved
    <3> QED
      BY <3>1, <1>3, <1>13
  <2> QED
    BY <2>1, <2>2, <1>1, <1>4, <1>11 DEF Agreement, Moved
<1>20. Dealing'
  <2>1. Shuffled'
    BY <1>1, <1>4 DEF Dealing, Shuffled
  <2>2. ASSUME NEW c \in 1..Len(shuffledBoxes), c >= i + 1,
               NEW f \in 1..n, NEW a \in 1..Len(foldedBoxes'[f])
        PROVE  foldedBoxes'[f][a].src # shuffledBoxes[c].src
    <3>1. a \in 1..Len(foldedImages'[f])
      BY <1>14
    <3>2. c # i /\ c >= i
      BY <2>2, <1>1
    <3>3. shuffledBoxes[i].src # shuffledBoxes[c].src
      BY <3>2, <1>1 DEF Dealing, Shuffled
    <3>4. CASE a \in 1..Len(room[f]) /\ foldedBoxes'[f][a] = roomB[f][a]
      <4>1. /\ f \in 1..Len(foldedBoxes) /\ a \in 1..Len(foldedBoxes[f])
            /\ foldedBoxes'[f][a] = foldedBoxes[f][a]
        BY <3>4, <1>10
      <4> QED
        BY <4>1, <3>2, <1>1 DEF Dealing, NotDealtYet
    <3> QED
      BY <3>1, <3>3, <3>4, <1>13
  <2>3. ASSUME NEW f \in 1..n, NEW g \in 1..n, f # g,
               NEW a \in 1..Len(foldedBoxes'[f]), NEW b \in 1..Len(foldedBoxes'[g])
        PROVE  foldedBoxes'[f][a].src # foldedBoxes'[g][b].src
    <3>1. a \in 1..Len(foldedImages'[f]) /\ b \in 1..Len(foldedImages'[g])
      BY <1>14
    <3>2. \/ f = n /\ foldedBoxes'[f][a] = shuffledBoxes[i]
          \/ a \in 1..Len(room[f]) /\ foldedBoxes'[f][a] = roomB[f][a]
      BY <3>1, <1>13
    <3>3. \/ g = n /\ foldedBoxes'[g][b] = shuffledBoxes[i]
          \/ b \in 1..Len(room[g]) /\ foldedBoxes'[g][b] = roomB[g][b]
      BY <3>1, <1>13
    <3>4. NotDealtYet /\ FoldsDisjoint
      BY <1>1 DEF Dealing
    <3>5. i >= i
      BY <1>1
    <3>6. ASSUME NEW h \in 1..n, NEW c \in 1..Len(room[h])
          PROVE  roomB[h][c].src # shuffledBoxes[i].src
      <4>1. /\ h \in 1..Len(foldedBoxes) /\ c \in 1..Len(foldedBoxes[h])
            /\ roomB[h][c] = foldedBoxes[h][c]
        BY <1>10
      <4>2. i \in 1..Len(shuffledBoxes)
        BY <1>1
      <4> QED
        BY <3>4, <3>5, <4>1, <4>2 DEF NotDealtYet
    <3>7. CASE a \in 1..Len(room[f]) /\ b \in 1..Len(room[g])
               /\ foldedBoxes'[f][a] = roomB[f][a] /\ foldedBoxes'[g][b] = roomB[g][b]
      <4>1. /\ f \in 1..Len(foldedBoxes) /\ a \in 1..Len(foldedBoxes[f])
            /\ foldedBoxes'[f][a] = foldedBoxes[f][a]
        BY <3>7, <1>10
      <4>2. /\ g \in 1..Len(foldedBoxes) /\ b \in 1..Len(foldedBoxes[g])
            /\ foldedBoxes'[g][b] = foldedBoxes[g][b]
        BY <3>7, <1>10
      <4> QED
        BY <4>1, <4>2, <3>4, <2>3 DEF FoldsDisjoint
    <3> QED
      BY <3>2, <3>3, <3>6, <3>7, <2>3
  <2>4. NotDealtYet' /\ FoldsDisjoint'
    BY <2>2, <2>3, <1>1, <1>4, <1>12 DEF NotDealtYet, FoldsDisjoint
  <2> QED
    BY <2>1, <2>4, <1>1 DEF Dealing
<1>21. Provenance'
  BY <1>1 DEF Provenance, InRound
<1> QED
  BY <1>16, <1>17, <1>18, <1>19, <1>20, <1>21

LEMMA PushImageStep == IInv /\ PushImage => IInv'
<1> SUFFICES ASSUME IInv, PushImage PROVE IInv'
  OBVIOUS
<1> DEFINE f == i + 1
           x == foldedImages[f][j]
<1> USE DEF IInv
<1>1. /\ pc = "combine" /\ pc' = "copyback" /\ i # skippedFold
      /\ currentImages' = Append(currentImages, x)
      /\ foldedImages' = [foldedImages EXCEPT ![f][j] = Blank]
      /\ UNCHANGED <<allImages, allBoxes, shuffledImages, shuffledBoxes,
                     randomIndex, iNumberOfFolds, foldedBoxes, currentBoxes, i, j,
                     iC, iEpsilon, skippedFold, progress, removed, sessions,
                     files>>
  BY DEF PushImage, Skips, dataset, grid, results
<1>2. /\ foldedImages \in Seq(Seq(Image)) /\ foldedBoxes \in Seq(Seq(Boxes))
      /\ currentImages \in Seq(Image) /\ currentBoxes \in Seq(Boxes)
      /\ Len(currentBoxes) = Len(currentImages)
  BY <1>1 DEF TypeOK, Agreement
<1>3. f \in 1..Len(foldedImages) /\ j \in 1..Len(foldedImages[f])
  <2>1. /\ i \in Nat \ {0} /\ j \in Nat \ {0} /\ Len(foldedImages) \in Nat
        /\ i <= Len(foldedImages) - 1 /\ j <= Len(foldedImages[i + 1])
    BY <1>2 DEF TypeOK, PushImage, Folded
  <2>2. i + 1 \in 1..Len(foldedImages)
    BY <2>1
  <2>3. Len(foldedImages[i + 1]) \in Nat
    BY <2>2, <1>2
  <2> QED
    BY <2>1, <2>2, <2>3
<1> HIDE DEF f
<1>4. x \in Image
  BY <1>2, <1>3
<1>5. Same(foldedBoxes[f][j], x)
  BY <1>1, <1>3 DEF Agreement, Moved
<1> HIDE DEF x
<1>6. /\ currentImages' \in Seq(Image)
      /\ Len(currentImages') = Len(currentImages) + 1
      /\ \A a \in 1..Len(currentImages) : currentImages'[a] = currentImages[a]
      /\ currentImages'[Len(currentImages) + 1] = x
  BY <1>1, <1>2, <1>4, AppendFacts
<1>7. Replaced(foldedImages', foldedImages, f, j, Blank, Image)
  <2>1. Blank \in Image
    BY ConstantsAssumption DEF Blank, Image
  <2> QED
    BY <2>1, <1>1, <1>2, <1>3, ReplacedFacts
<1>8. /\ foldedImages' \in Seq(Seq(Image))
      /\ Len(foldedImages') = Len(foldedImages)
      /\ \A g \in 1..Len(foldedImages) : Len(foldedImages'[g]) = Len(foldedImages[g])
  BY <1>7 DEF Replaced
<1>9. TypeOK'
  BY <1>1, <1>6, <1>8 DEF TypeOK
<1>10. Lengths'
  BY <1>1, <1>8 DEF Lengths
<1>11. Control'
  <2>1. f = i' + 1
    BY <1>1 DEF f
  <2>2. /\ skippedFold' < Len(foldedImages')
        /\ iC' <= Len(Cs) /\ iEpsilon' <= Len(Epsilons)
    BY <1>1, <1>8 DEF Control, InRound
  <2>3. /\ f <= Len(foldedImages') /\ j' <= Len(foldedImages'[f])
    BY <1>1, <1>2, <1>3, <1>8
  <2>4. Len(currentImages') = Len(currentBoxes') + 1
    BY <1>1, <1>2, <1>6
  <2>5. Same(foldedBoxes'[f][j'], currentImages'[Len(currentImages')])
    BY <1>1, <1>5, <1>6
  <2> QED
    BY <2>1, <2>2, <2>3, <2>4, <2>5, <1>1 DEF Control
<1>12. Agreement'
  <2>1. ASSUME NEW g \in 1..Len(foldedImages), NEW a \in 1..Len(foldedImages[g])
        PROVE  IF g = f /\ a = j THEN foldedImages'[g][a] = Blank
                                 ELSE Same(foldedBoxes'[g][a], foldedImages'[g][a])
    BY <1>1, <1>7 DEF Replaced, Agreement, Moved
  <2>2. \A a \in 1..Len(currentBoxes') : Same(currentBoxes'[a], currentImages'[a])
    BY <1>1, <1>2, <1>6 DEF Agreement
  <2>3. f = i' + 1 /\ j' = j
    BY <1>1 DEF f
  <2>4. \A g \in 1..Len(foldedImages') : \A a \in 1..Len(foldedImages'[g]) :
          IF Moved(g, a)' THEN foldedImages'[g][a] = Blank
                          ELSE Same(foldedBoxes'[g][a], foldedImages'[g][a])
    BY <2>1, <2>3, <1>1, <1>8 DEF Moved
  <2>5. /\ \A a \in 1..Len(allImages') : Same(allBoxes'[a], allImages'[a])
        /\ \A a \in 1..Len(shuffledImages') :
             \/ Same(shuffledBoxes'[a], shuffledImages'[a])
             \/ shuffledImages'[a] = Blank
    BY <1>1 DEF Agreement
  <2> QED
    BY <2>2, <2>4, <2>5, <1>1 DEF Agreement
<1>13. Dealing'
  BY <1>1, QuietDealing
<1>14. Provenance'
  BY <1>1 DEF Provenance, InRound
<1> QED
  BY <1>9, <1>10, <1>11, <1>12, <1>13, <1>14

LEMMA CopyBackStep == IInv /\ CopyBack => IInv'
<1> SUFFICES ASSUME IInv, CopyBack PROVE IInv'
  OBVIOUS
<1> DEFINE f == i + 1
           x == currentImages[Len(currentImages)]
           b == foldedBoxes[f][j]
<1> USE DEF IInv
<1>1. /\ pc = "copyback" /\ pc' = "combine"
      /\ foldedImages' = [foldedImages EXCEPT ![f][j] = x]
      /\ currentBoxes' = Append(currentBoxes, b)
      /\ j' = j + 1
      /\ UNCHANGED <<allImages, allBoxes, shuffledImages, shuffledBoxes,
                     randomIndex, iNumberOfFolds, foldedBoxes, currentImages, i,
                     iC, iEpsilon, skippedFold, progress, removed, sessions,
                     files>>
  BY DEF CopyBack, Restored, dataset, grid, results
<1>2. /\ foldedImages \in Seq(Seq(Image)) /\ foldedBoxes \in Seq(Seq(Boxes))
      /\ currentImages \in Seq(Image) /\ currentBoxes \in Seq(Boxes)
      /\ Len(currentImages) = Len(currentBoxes) + 1
      /\ i \in Nat \ {0} /\ j \in Nat \ {0}
  BY <1>1 DEF TypeOK, Control
<1>3. /\ f \in 2..Len(foldedImages) /\ f \in 1..Len(foldedImages)
      /\ j \in 1..Len(foldedImages[f])
      /\ f \in 2..Len(foldedBoxes) /\ j \in 1..Len(foldedBoxes[f])
      /\ f # skippedFold + 1 /\ Same(b, x)
  <2>1. /\ i + 1 <= Len(foldedImages) /\ i # skippedFold
        /\ j <= Len(foldedImages[i + 1]) /\ Same(b, x)
        /\ skippedFold \in Nat
    BY <1>1 DEF Control, TypeOK
  <2>2. i + 1 \in 1..Len(foldedImages) /\ i + 1 \in 2..Len(foldedImages)
    <3> DEFINE n == Len(foldedImages)
    <3>1. n \in Nat /\ i \in Nat \ {0} /\ i + 1 <= n
      BY <2>1, <1>2
    <3> HIDE DEF n
    <3>2. i + 1 \in 1..n /\ i + 1 \in 2..n
      BY <3>1
    <3> QED
      BY <3>2 DEF n
  <2>3. j \in 1..Len(foldedImages[i + 1])
    BY <2>1, <2>2, <1>2
  <2>4. i + 1 # skippedFold + 1
    BY <2>1, <1>2
  <2> QED
    BY <2>1, <2>2, <2>3, <2>4 DEF Lengths
<1>4. x \in Image /\ b \in Boxes
  <2>1. x \in Image
    BY <1>2
  <2>2. b \in Boxes
    BY <1>2, <1>3
  <2> QED
    BY <2>1, <2>2
<1> HIDE DEF f, x, b
<1>5. /\ currentBoxes' \in Seq(Boxes)
      /\ Len(currentBoxes') = Len(currentBoxes) + 1
      /\ \A a \in 1..Len(currentBoxes) : currentBoxes'[a] = currentBoxes[a]
      /\ currentBoxes'[Len(currentBoxes) + 1] = b
  BY <1>1, <1>2, <1>4, AppendFacts
<1>6. Replaced(foldedImages', foldedImages, f, j, x, Image)
  BY <1>1, <1>2, <1>3, <1>4, ReplacedFacts
<1>7. /\ foldedImages' \in Seq(Seq(Image))
      /\ Len(foldedImages') = Len(foldedImages)
      /\ \A g \in 1..Len(foldedImages) : Len(foldedImages'[g]) = Len(foldedImages[g])
  BY <1>6 DEF Replaced
<1>8. TypeOK'
  <2>1. j' \in Nat \ {0}
    BY <1>1, <1>2
  <2> QED
    BY <2>1, <1>1, <1>5, <1>7 DEF TypeOK
<1>9. Lengths'
  BY <1>1, <1>7 DEF Lengths
<1>10. Control'
  BY <1>1, <1>7 DEF Control, InRound
<1>11. Agreement'
  <2>1. ASSUME NEW g \in 1..Len(foldedImages), NEW a \in 1..Len(foldedImages[g])
        PROVE  Same(foldedBoxes'[g][a], foldedImages'[g][a])
    <3>1. CASE g = f /\ a = j
      BY <3>1, <1>1, <1>3, <1>6 DEF Replaced, b
    <3>2. CASE ~(g = f /\ a = j)
      <4>1. ~Moved(g, a)
        BY <3>2 DEF Moved, f
      <4>2. foldedImages'[g][a] = foldedImages[g][a]
        BY <3>2, <1>6 DEF Replaced
      <4> QED
        BY <4>1, <4>2, <1>1 DEF Agreement
    <3> QED
      BY <3>1, <3>2
  <2>2. ASSUME NEW a \in 1..Len(currentBoxes')
        PROVE  Same(currentBoxes'[a], currentImages'[a])
    <3>1. CASE a = Len(currentBoxes) + 1
      BY <3>1, <1>1, <1>2, <1>3, <1>5 DEF x
    <3>2. CASE a \in 1..Len(currentBoxes)
      BY <3>2, <1>1, <1>5 DEF Agreement
    <3> QED
      BY <3>1, <3>2, <1>2, <1>5
  <2>3. Len(currentBoxes') = Len(currentImages')
    BY <1>1, <1>2, <1>5
  <2>4. \A g, a : ~Moved(g, a)'
    BY <1>1 DEF Moved
  <2>5. /\ \A a \in 1..Len(allImages') : Same(allBoxes'[a], allImages'[a])
        /\ \A a \in 1..Len(shuffledImages') :
             \/ Same(shuffledBoxes'[a], shuffledImages'[a])
             \/ shuffledImages'[a] = Blank
    BY <1>1 DEF Agreement
  <2>6. \A g \in 1..Len(foldedImages') : \A a \in 1..Len(foldedImages'[g]) :
          Same(foldedBoxes'[g][a], foldedImages'[g][a])
    BY <2>1, <1>7
  <2> QED
    BY <2>2, <2>3, <2>4, <2>5, <2>6, <1>1 DEF Agreement
<1>12. Dealing'
  BY <1>1, QuietDealing
<1>13. Provenance'
  <2> SUFFICES ASSUME NEW a \in 1..Len(currentBoxes')
               PROVE  \E g \in 2..Len(foldedBoxes) : \E c \in 1..Len(foldedBoxes[g]) :
                        /\ g # skippedFold + 1
                        /\ currentBoxes'[a].src = foldedBoxes[g][c].src
    BY <1>1 DEF Provenance
  <2>1. CASE a = Len(currentBoxes) + 1
    BY <2>1, <1>3, <1>5 DEF b
  <2>2. CASE a \in 1..Len(currentBoxes)
    BY <2>2, <1>1, <1>5 DEF Provenance, InRound
  <2> QED
    BY <2>1, <2>2, <1>2, <1>5
<1> QED
  BY <1>8, <1>9, <1>10, <1>11, <1>12, <1>13

(* A step of a session on the data of the round: the sources stay what they
   were, and each image keeps its boxes. *)
LEMMA SessionData ==
  ASSUME IInv,
         InRound, InRound', pc \notin {"combine", "copyback"}, pc' # "copyback",
         UNCHANGED <<allImages, allBoxes, shuffledImages, shuffledBoxes,
                     randomIndex, iNumberOfFolds, i, j, iC, iEpsilon,
                     skippedFold, progress>>,
         foldedImages' \in Seq(Seq(Image)), Len(foldedImages') = Len(foldedImages),
         foldedBoxes' \in Seq(Seq(Boxes)), Len(foldedBoxes') = Len(foldedBoxes),
         \A f \in 1..Len(foldedImages) :
           /\ Len(foldedImages'[f]) = Len(foldedImages[f])
           /\ Len(foldedBoxes'[f]) = Len(foldedBoxes[f])
           /\ \A a \in 1..Len(foldedImages[f]) :
                /\ Same(foldedBoxes[f][a], foldedImages[f][a])
                     => Same(foldedBoxes'[f][a], foldedImages'[f][a])
                /\ foldedBoxes'[f][a].src = foldedBoxes[f][a].src,
         currentImages' \in Seq(Image), currentBoxes' \in Seq(Boxes),
         Len(currentImages') = Len(currentBoxes'),
         \A a \in 1..Len(currentBoxes') :
           /\ Same(currentBoxes'[a], currentImages'[a])
           /\ \E c \in 1..Len(currentBoxes) : currentBoxes'[a].src = currentBoxes[c].src
  PROVE  Lengths' /\ Control' /\ Agreement' /\ Dealing' /\ Provenance'
<1> USE DEF IInv
<1>1. /\ Len(foldedBoxes) = Len(foldedImages)
      /\ \A f \in 1..Len(foldedImages) : Len(foldedBoxes[f]) = Len(foldedImages[f])
      /\ pc \notin {"load", "shuffle", "fold"} /\ pc' \notin {"load", "shuffle", "fold"}
  BY DEF Lengths, InRound
<1>2. Lengths'
  BY <1>1 DEF Lengths
<1>3. Control'
  BY <1>1 DEF Control, InRound
<1>4. Agreement'
  <2>1. \A f \in 1..Len(foldedImages) : \A a \in 1..Len(foldedImages[f]) :
          Same(foldedBoxes'[f][a], foldedImages'[f][a])
    BY DEF Agreement, Moved
  <2>2. \A f \in 1..Len(foldedImages') : \A a \in 1..Len(foldedImages'[f]) :
          Same(foldedBoxes'[f][a], foldedImages'[f][a])
    BY <2>1
  <2>3. \A f, a : ~Moved(f, a)'
    BY DEF Moved
  <2>4. /\ \A a \in 1..Len(allImages') : Same(allBoxes'[a], allImages'[a])
        /\ \A a \in 1..Len(shuffledImages') :
             \/ Same(shuffledBoxes'[a], shuffledImages'[a])
             \/ shuffledImages'[a] = Blank
    BY DEF Agreement
  <2> QED
    BY <2>2, <2>3, <2>4, <1>1 DEF Agreement
<1>5. Dealing'
  <2>1. Shuffled'
    BY <1>1 DEF Dealing, Shuffled
  <2>2. FoldsDisjoint
    BY DEF Dealing
  <2>3. ASSUME NEW h \in 1..Len(foldedBoxes'), NEW e \in 1..Len(foldedBoxes'[h])
        PROVE  /\ h \in 1..Len(foldedBoxes) /\ e \in 1..Len(foldedBoxes[h])
               /\ foldedBoxes'[h][e].src = foldedBoxes[h][e].src
    BY <1>1
  <2>4. FoldsDisjoint'
    BY <2>2, <2>3 DEF FoldsDisjoint
  <2> QED
    BY <2>1, <2>4, <1>1 DEF Dealing
<1>6. Provenance'
  <2> SUFFICES ASSUME NEW a \in 1..Len(currentBoxes')
               PROVE  \E g \in 2..Len(foldedBoxes') : \E c \in 1..Len(foldedBoxes'[g]) :
                        /\ g # skippedFold + 1
                        /\ currentBoxes'[a].src = foldedBoxes'[g][c].src
    BY DEF Provenance
  <2>1. PICK d \in 1..Len(currentBoxes) : currentBoxes'[a].src = currentBoxes[d].src
    OBVIOUS
  <2>2. PICK g \in 2..Len(foldedBoxes) : \E c \in 1..Len(foldedBoxes[g]) :
               g # skippedFold + 1 /\ currentBoxes[d].src = foldedBoxes[g][c].src
    BY DEF Provenance
  <2>3. PICK c \in 1..Len(foldedBoxes[g]) :
               g # skippedFold + 1 /\ currentBoxes[d].src = foldedBoxes[g][c].src
    BY <2>2
  <2>4. g \in 1..Len(foldedImages) /\ g \in 2..Len(foldedBoxes')
    BY <1>1
  <2>5. /\ c \in 1..Len(foldedBoxes'[g])
        /\ foldedBoxes'[g][c].src = foldedBoxes[g][c].src
    BY <2>4, <1>1
  <2> QED
    BY <2>1, <2>3, <2>4, <2>5
<1> QED
  BY <1>2, <1>3, <1>4, <1>5, <1>6

LEMMA UpsampleStep == IInv /\ Upsample => IInv'
<1> SUFFICES ASSUME IInv, Upsample PROVE IInv'
  OBVIOUS
<1> USE DEF IInv
<1>1. /\ pc = "upsample" /\ pc' = "flip"
      /\ UNCHANGED <<allImages, allBoxes, shuffledImages, shuffledBoxes,
                     randomIndex, iNumberOfFolds, i, j, iC, iEpsilon,
                     skippedFold, progress, removed, sessions, files>>
      /\ InRound /\ InRound'
  BY DEF Upsample, dataset, grid, results, InRound
<1>2. /\ foldedImages \in Seq(Seq(Image)) /\ foldedBoxes \in Seq(Seq(Boxes))
      /\ currentImages \in Seq(Image) /\ currentBoxes \in Seq(Boxes)
      /\ Len(currentImages) = Len(currentBoxes)
      /\ Len(foldedBoxes) = Len(foldedImages)
      /\ \A f \in 1..Len(foldedImages) : Len(foldedBoxes[f]) = Len(foldedImages[f])
      /\ \A a \in 1..Len(currentBoxes) : Same(currentBoxes[a], currentImages[a])
      /\ 1 \in 1..Len(foldedImages)
  <2>1. skippedFold \in Nat \ {0} /\ skippedFold < Len(foldedImages)
    BY <1>1 DEF TypeOK, Control
  <2> QED
    BY <2>1, <1>1 DEF TypeOK, Lengths, Agreement
<1>3. /\ currentImages' \in Seq(Image) /\ currentBoxes' \in Seq(Boxes)
      /\ Len(currentImages') = Len(currentBoxes')
      /\ Len(currentBoxes') = Len(currentBoxes)
      /\ \A a \in 1..Len(currentBoxes) :
           /\ Same(currentBoxes'[a], currentImages'[a])
           /\ currentBoxes'[a].src = currentBoxes[a].src
  <2>1. CASE UpsampleTraining
    <3>1. /\ currentImages' = Upsampled(currentImages)
          /\ currentBoxes' = Upsampled(currentBoxes)
      BY <2>1 DEF Upsample
    <3>2. /\ currentImages' \in Seq(Image) /\ Len(currentImages') = Len(currentImages)
          /\ currentBoxes' \in Seq(Boxes) /\ Len(currentBoxes') = Len(currentBoxes)
      BY <3>1, <1>2, UpsampledImages, UpsampledBoxes
    <3>3. \A a \in 1..Len(currentImages) :
              /\ currentImages'[a].src = currentImages[a].src
              /\ currentImages'[a].up = currentImages[a].up + 1
              /\ currentImages'[a].flip = currentImages[a].flip
      BY <3>1, <1>2, UpsampledImages
    <3>4. \A a \in 1..Len(currentBoxes) :
              /\ currentBoxes'[a].src = currentBoxes[a].src
              /\ currentBoxes'[a].up = currentBoxes[a].up + 1
              /\ currentBoxes'[a].flip = currentBoxes[a].flip
      BY <3>1, <1>2, UpsampledBoxes
    <3> QED
      BY <3>2, <3>3, <3>4, <1>2 DEF Same
  <2>2. CASE ~UpsampleTraining
    BY <2>2, <1>2 DEF Upsample
  <2> QED
    BY <2>1, <2>2
<1>4. /\ foldedImages' \in Seq(Seq(Image)) /\ Len(foldedImages') = Len(foldedImages)
      /\ foldedBoxes' \in Seq(Seq(Boxes)) /\ Len(foldedBoxes') = Len(foldedBoxes)
      /\ \A f \in 1..Len(foldedImages) :
           /\ Len(foldedImages'[f]) = Len(foldedImages[f])
           /\ Len(foldedBoxes'[f]) = Len(foldedBoxes[f])
           /\ \A a \in 1..Len(foldedImages[f]) :
                /\ Same(foldedBoxes[f][a], foldedImages[f][a])
                     => Same(foldedBoxes'[f][a], foldedImages'[f][a])
                /\ foldedBoxes'[f][a].src = foldedBoxes[f][a].src
  <2>1. CASE UpsampleTest
    <3> DEFINE u == Upsampled(foldedImages[1])
               v == Upsampled(foldedBoxes[1])
    <3>1. /\ foldedImages' = [foldedImages EXCEPT ![1] = u]
          /\ foldedBoxes' = [foldedBoxes EXCEPT ![1] = v]
      BY <2>1 DEF Upsample
    <3>2. foldedImages[1] \in Seq(Image) /\ foldedBoxes[1] \in Seq(Boxes)
      BY <1>2
    <3>3. /\ u \in Seq(Image) /\ Len(u) = Len(foldedImages[1])
          /\ \A a \in 1..Len(foldedImages[1]) :
              /\ u[a].src = foldedImages[1][a].src
              /\ u[a].up = foldedImages[1][a].up + 1
              /\ u[a].flip = foldedImages[1][a].flip
      BY <3>2, UpsampledImages
    <3>4. /\ v \in Seq(Boxes) /\ Len(v) = Len(foldedBoxes[1])
          /\ \A a \in 1..Len(foldedBoxes[1]) :
              /\ v[a].src = foldedBoxes[1][a].src
              /\ v[a].up = foldedBoxes[1][a].up + 1
              /\ v[a].flip = foldedBoxes[1][a].flip
      BY <3>2, UpsampledBoxes
    <3> HIDE DEF u, v
    <3>5. /\ foldedImages' \in Seq(Seq(Image)) /\ Len(foldedImages') = Len(foldedImages)
          /\ foldedBoxes' \in Seq(Seq(Boxes)) /\ Len(foldedBoxes') = Len(foldedBoxes)
      BY <3>1, <3>3, <3>4, <1>2, ReplaceOne
    <3>6. /\ foldedImages'[1] = u /\ foldedBoxes'[1] = v
          /\ \A f \in 1..Len(foldedImages) : f # 1 =>
               foldedImages'[f] = foldedImages[f] /\ foldedBoxes'[f] = foldedBoxes[f]
      BY <3>1, <1>2
    <3>7. ASSUME NEW f \in 1..Len(foldedImages)
          PROVE  /\ Len(foldedImages'[f]) = Len(foldedImages[f])
                 /\ Len(foldedBoxes'[f]) = Len(foldedBoxes[f])
                 /\ \A a \in 1..Len(foldedImages[f]) :
                      /\ Same(foldedBoxes[f][a], foldedImages[f][a])
                           => Same(foldedBoxes'[f][a], foldedImages'[f][a])
                      /\ foldedBoxes'[f][a].src = foldedBoxes[f][a].src
      <4>1. CASE f = 1
        <5>1. Len(foldedBoxes[1]) = Len(foldedImages[1])
          BY <1>2
        <5> QED
          BY <4>1, <5>1, <3>3, <3>4, <3>6 DEF Same
      <4>2. CASE f # 1
        BY <4>2, <3>6
      <4> QED
        BY <4>1, <4>2
    <3> QED
      BY <3>5, <3>7
  <2>2. CASE ~UpsampleTest
    BY <2>2, <1>2 DEF Upsample
  <2> QED
    BY <2>1, <2>2
<1>5. TypeOK'
  BY <1>1, <1>3, <1>4 DEF TypeOK
<1>6. Lengths' /\ Control' /\ Agreement' /\ Dealing' /\ Provenance'
  BY <1>1, <1>3, <1>4, SessionData
<1> QED
  BY <1>5, <1>6

LEMMA FlipStep == IInv /\ Flip => IInv'
<1> SUFFICES ASSUME IInv, Flip PROVE IInv'
  OBVIOUS
<1> USE DEF IInv
<1>1. /\ pc = "flip" /\ pc' = "removeTraining"
      /\ UNCHANGED <<allImages, allBoxes, shuffledImages, shuffledBoxes,
                     randomIndex, iNumberOfFolds, i, j, iC, iEpsilon,
                     skippedFold, progress, sessions, files>>
      /\ UNCHANGED <<foldedImages, foldedBoxes, removed>>
      /\ InRound /\ InRound'
  BY DEF Flip, dataset, folds, current, grid, results, InRound
<1>2. /\ foldedImages \in Seq(Seq(Image)) /\ foldedBoxes \in Seq(Seq(Boxes))
      /\ currentImages \in Seq(Image) /\ currentBoxes \in Seq(Boxes)
      /\ Len(currentImages) = Len(currentBoxes)
      /\ Len(foldedBoxes) = Len(foldedImages)
      /\ \A f \in 1..Len(foldedImages) : Len(foldedBoxes[f]) = Len(foldedImages[f])
      /\ \A a \in 1..Len(currentBoxes) : Same(currentBoxes[a], currentImages[a])
      /\ 1 \in 1..Len(foldedImages)
  <2>1. skippedFold \in Nat \ {0} /\ skippedFold < Len(foldedImages)
    BY <1>1 DEF TypeOK, Control
  <2> QED
    BY <2>1, <1>1 DEF TypeOK, Lengths, Agreement
<1>3. /\ currentImages' \in Seq(Image) /\ currentBoxes' \in Seq(Boxes)
      /\ Len(currentImages') = Len(currentBoxes')
      /\ \A a \in 1..Len(currentBoxes') :
           /\ Same(currentBoxes'[a], currentImages'[a])
           /\ \E c \in 1..Len(currentBoxes) : currentBoxes'[a].src = currentBoxes[c].src
  <2>1. CASE Len(currentImages) < FlipBelow
    <3> DEFINE u == Mirrored(currentImages)
               v == Mirrored(currentBoxes)
               n == Len(currentBoxes)
    <3>1. currentImages' = currentImages \o u /\ currentBoxes' = currentBoxes \o v
      BY <2>1 DEF Flip
    <3>2. /\ u \in Seq(Image) /\ Len(u) = n
          /\ \A a \in 1..n : /\ u[a].src = currentImages[a].src
                             /\ u[a].up = currentImages[a].up
                             /\ u[a].flip = ~ currentImages[a].flip
      BY <1>2, MirroredImages
    <3>3. /\ v \in Seq(Boxes) /\ Len(v) = n
          /\ \A a \in 1..n : /\ v[a].src = currentBoxes[a].src
                             /\ v[a].up = currentBoxes[a].up
                             /\ v[a].flip = ~ currentBoxes[a].flip
      BY <1>2, MirroredBoxes
    <3> HIDE DEF u, v
    <3>4. \A a \in 1..n : Same(v[a], u[a])
      BY <3>2, <3>3, <1>2 DEF Same
    <3>5. /\ n \in Nat /\ Len(currentImages) = n
          /\ currentImages' \in Seq(Image) /\ Len(currentImages') = n + n
          /\ currentBoxes' \in Seq(Boxes) /\ Len(currentBoxes') = n + n
      <4>1. n \in Nat /\ Len(currentImages) = n
        BY <1>2
      <4>2. currentImages' \in Seq(Image) /\ Len(currentImages') = n + n
        <5>1. currentImages \o u \in Seq(Image)
              /\ Len(currentImages \o u) = Len(currentImages) + Len(u)
          BY <1>2, <3>2, ConcatFacts
        <5> QED
          BY <5>1, <4>1, <3>1, <3>2
      <4>3. currentBoxes' \in Seq(Boxes) /\ Len(currentBoxes') = n + n
        <5>1. currentBoxes \o v \in Seq(Boxes)
              /\ Len(currentBoxes \o v) = Len(currentBoxes) + Len(v)
          BY <1>2, <3>3, ConcatFacts
        <5> QED
          BY <5>1, <4>1, <3>1, <3>3
      <4> QED
        BY <4>1, <4>2, <4>3
    <3>6. ASSUME NEW a \in 1..(n + n)
          PROVE  /\ Same(currentBoxes'[a], currentImages'[a])
                 /\ \E c \in 1..n : currentBoxes'[a].src = currentBoxes[c].src
      <4>1. CASE a \in 1..n
        <5>1. currentImages'[a] = currentImages[a] /\ currentBoxes'[a] = currentBoxes[a]
          BY <4>1, <3>1, <3>2, <3>3, <3>5, <1>2
        <5> QED
          BY <4>1, <5>1, <1>2
      <4>2. CASE a \in (n + 1)..(n + n)
        <5>1. a - n \in 1..n
          BY <4>2, <3>5
        <5>2. currentImages'[a] = u[a - n] /\ currentBoxes'[a] = v[a - n]
          BY <4>2, <3>1, <3>2, <3>3, <3>5, <1>2
        <5> QED
          BY <5>1, <5>2, <3>3, <3>4
      <4> QED
        BY <4>1, <4>2, <3>5
    <3> QED
      BY <3>5, <3>6
  <2>2. CASE ~(Len(currentImages) < FlipBelow)
    BY <2>2, <1>2 DEF Flip, current
  <2> QED
    BY <2>1, <2>2
<1>4. TypeOK'
  BY <1>1, <1>3 DEF TypeOK
<1>5. Lengths' /\ Control' /\ Agreement' /\ Dealing' /\ Provenance'
  BY <1>1, <1>2, <1>3, SessionData
<1> QED
  BY <1>4, <1>5

LEMMA RemoveFromTrainingStep == IInv /\ RemoveFromTraining => IInv'
<1> SUFFICES ASSUME IInv, RemoveFromTraining PROVE IInv'
  OBVIOUS
<1> USE DEF IInv
<1>1. /\ pc = "removeTraining" /\ pc' = "removeTest"
      /\ UNCHANGED <<allImages, allBoxes, shuffledImages, shuffledBoxes,
                     randomIndex, iNumberOfFolds, i, j, iC, iEpsilon,
                     skippedFold, progress, sessions, files>>
      /\ UNCHANGED <<foldedImages, foldedBoxes, currentImages>>
      /\ InRound /\ InRound'
  BY DEF RemoveFromTraining, dataset, folds, current, grid, results, InRound
<1>2. /\ foldedImages \in Seq(Seq(Image)) /\ foldedBoxes \in Seq(Seq(Boxes))
      /\ currentImages \in Seq(Image) /\ currentBoxes \in Seq(Boxes)
      /\ Len(currentImages) = Len(currentBoxes)
      /\ Len(foldedBoxes) = Len(foldedImages)
      /\ \A f \in 1..Len(foldedImages) : Len(foldedBoxes[f]) = Len(foldedImages[f])
      /\ \A a \in 1..Len(currentBoxes) : Same(currentBoxes[a], currentImages[a])
      /\ 1 \in 1..Len(foldedImages)
  <2>1. skippedFold \in Nat \ {0} /\ skippedFold < Len(foldedImages)
    BY <1>1 DEF TypeOK, Control
  <2> QED
    BY <2>1, <1>1 DEF TypeOK, Lengths, Agreement
<1>3. PICK U \in SUBSET Doubtful : /\ currentBoxes' = Without(currentBoxes, U)
                                   /\ removed' = Removed(currentBoxes, U)
  BY DEF RemoveFromTraining
<1>4. /\ currentBoxes' \in Seq(Boxes) /\ Len(currentBoxes') = Len(currentBoxes)
      /\ \A a \in 1..Len(currentBoxes) :
           /\ currentBoxes'[a].src = currentBoxes[a].src
           /\ currentBoxes'[a].up = currentBoxes[a].up
           /\ currentBoxes'[a].flip = currentBoxes[a].flip
  BY <1>2, <1>3, WithoutBoxes
<1>5. \A a \in 1..Len(currentBoxes) : Same(currentBoxes'[a], currentImages'[a])
  BY <1>1, <1>2, <1>4 DEF Same
<1>6. TypeOK'
  <2>1. removed' \in Nat
    BY <1>2, <1>3, RemovedCounts
  <2> QED
    BY <2>1, <1>1, <1>4 DEF TypeOK
<1>7. Lengths' /\ Control' /\ Agreement' /\ Dealing' /\ Provenance'
  BY <1>1, <1>2, <1>4, <1>5, SessionData
<1> QED
  BY <1>6, <1>7

LEMMA RemoveFromTestStep == IInv /\ RemoveFromTest => IInv'
<1> SUFFICES ASSUME IInv, RemoveFromTest PROVE IInv'
  OBVIOUS
<1> USE DEF IInv
<1>1. /\ pc = "removeTest" /\ pc' = "train"
      /\ UNCHANGED <<allImages, allBoxes, shuffledImages, shuffledBoxes,
                     randomIndex, iNumberOfFolds, i, j, iC, iEpsilon,
                     skippedFold, progress, sessions, files>>
      /\ UNCHANGED <<foldedImages, currentImages, currentBoxes>>
      /\ InRound /\ InRound'
  BY DEF RemoveFromTest, dataset, folds, current, grid, results, InRound
<1>2. /\ foldedImages \in Seq(Seq(Image)) /\ foldedBoxes \in Seq(Seq(Boxes))
      /\ currentImages \in Seq(Image) /\ currentBoxes \in Seq(Boxes)
      /\ Len(currentImages) = Len(currentBoxes)
      /\ Len(foldedBoxes) = Len(foldedImages)
      /\ \A f \in 1..Len(foldedImages) : Len(foldedBoxes[f]) = Len(foldedImages[f])
      /\ \A a \in 1..Len(currentBoxes) : Same(currentBoxes[a], currentImages[a])
      /\ 1 \in 1..Len(foldedImages)
  <2>1. skippedFold \in Nat \ {0} /\ skippedFold < Len(foldedImages)
    BY <1>1 DEF TypeOK, Control
  <2> QED
    BY <2>1, <1>1 DEF TypeOK, Lengths, Agreement
<1>3. PICK U \in SUBSET Doubtful :
        /\ foldedBoxes' = [foldedBoxes EXCEPT ![1] = Without(foldedBoxes[1], U)]
        /\ removed' = Removed(foldedBoxes[1], U)
  BY DEF RemoveFromTest
<1> DEFINE v == Without(foldedBoxes[1], U)
<1>4. foldedBoxes[1] \in Seq(Boxes)
  BY <1>2
<1>5. /\ v \in Seq(Boxes) /\ Len(v) = Len(foldedBoxes[1])
      /\ \A a \in 1..Len(foldedBoxes[1]) :
           /\ v[a].src = foldedBoxes[1][a].src
           /\ v[a].up = foldedBoxes[1][a].up
           /\ v[a].flip = foldedBoxes[1][a].flip
  BY <1>4, WithoutBoxes
<1>6. foldedBoxes' = [foldedBoxes EXCEPT ![1] = v]
  BY <1>3
<1> HIDE DEF v
<1>7. /\ foldedBoxes' \in Seq(Seq(Boxes)) /\ Len(foldedBoxes') = Len(foldedBoxes)
      /\ foldedBoxes'[1] = v
      /\ \A f \in 1..Len(foldedBoxes) : f # 1 => foldedBoxes'[f] = foldedBoxes[f]
  BY <1>2, <1>5, <1>6, ReplaceOne
<1>8. ASSUME NEW f \in 1..Len(foldedImages)
      PROVE  /\ Len(foldedBoxes'[f]) = Len(foldedBoxes[f])
             /\ \A a \in 1..Len(foldedImages[f]) :
                  /\ Same(foldedBoxes[f][a], foldedImages[f][a])
                       => Same(foldedBoxes'[f][a], foldedImages'[f][a])
                  /\ foldedBoxes'[f][a].src = foldedBoxes[f][a].src
  <2>1. CASE f = 1
    <3>1. Len(foldedBoxes[1]) = Len(foldedImages[1])
      BY <1>2
    <3> QED
      BY <2>1, <3>1, <1>1, <1>5, <1>7 DEF Same
  <2>2. CASE f # 1
    BY <2>2, <1>1, <1>2, <1>7
  <2> QED
    BY <2>1, <2>2
<1>9. TypeOK'
  <2>1. removed' \in Nat
    BY <1>3, <1>4, RemovedCounts
  <2> QED
    BY <2>1, <1>1, <1>7 DEF TypeOK
<1>10. Lengths' /\ Control' /\ Agreement' /\ Dealing' /\ Provenance'
  BY <1>1, <1>2, <1>7, <1>8, SessionData
<1> QED
  BY <1>9, <1>10
-----------------------------------------------------------------------------
LEMMA NextIInv == IInv /\ [Next]_vars => IInv'
<1> SUFFICES ASSUME IInv, [Next]_vars PROVE IInv'
  OBVIOUS
<1>1. CASE UNCHANGED vars
  <2> USE <1>1 DEF vars, dataset, folds, current, grid, results, IInv
  <2>1. TypeOK'
    BY DEF TypeOK
  <2>2. Lengths' /\ Control'
    BY DEF Lengths, Control, InRound
  <2>3. Agreement'
    BY DEF Agreement, Moved
  <2>4. Dealing'
    BY DEF Dealing, InFileOrder, HalfShuffled, Shuffled, NotDealtYet, FoldsDisjoint
  <2>5. Provenance'
    BY DEF Provenance, InRound
  <2> QED
    BY <2>1, <2>2, <2>3, <2>4, <2>5
<1>2. CASE AddImage \/ BeginSplit \/ ShuffleStep \/ EndShuffle
  BY <1>2, AddImageStep, BeginSplitStep, ShuffleStepStep, EndShuffleStep
<1>3. CASE DivideByZero \/ FoldStep \/ EndSplit
  BY <1>3, DivideByZeroStep, FoldStepStep, EndSplitStep
<1>4. CASE NextC \/ NextEpsilon \/ EndGrid \/ BeginSession
  BY <1>4, NextCStep, NextEpsilonStep, EndGridStep, BeginSessionStep
<1>5. CASE NextFold \/ PushImage \/ CopyBack \/ EndCombine
  BY <1>5, NextFoldStep, PushImageStep, CopyBackStep, EndCombineStep
<1>6. CASE Upsample \/ Flip \/ RemoveFromTraining \/ RemoveFromTest
  BY <1>6, UpsampleStep, FlipStep, RemoveFromTrainingStep, RemoveFromTestStep
<1>7. CASE TrainAndEvaluate \/ Save
  BY <1>7, TrainAndEvaluateStep, SaveStep
<1> QED
  BY <1>1, <1>2, <1>3, <1>4, <1>5, <1>6, <1>7 DEF Next

LEMMA Inductive == Spec => []IInv
<1>1. Init => IInv
  BY InitIInv
<1>2. IInv /\ [Next]_vars => IInv'
  BY NextIInv
<1> QED
  BY <1>1, <1>2, PTL DEF Spec

(* Every variable keeps its type, whatever the number of images, the widths
   and the grid: the loops of addImages, the split, the combination and the
   sessions only ever put images and boxes where they belong. *)
THEOREM TypeCorrect == Spec => []TypeOK
<1>1. IInv => TypeOK
  BY DEF IInv
<1> QED
  BY <1>1, Inductive, PTL

(* The boxes at an index always belong to the image at that index. *)
THEOREM BoxesStayWithImages == Spec => []Paired
<1>1. IInv => Paired
  <2> SUFFICES ASSUME IInv PROVE Paired
    OBVIOUS
  <2> USE DEF IInv
  <2>1. Matches(allImages, allBoxes) /\ Matches(shuffledImages, shuffledBoxes)
    BY DEF Lengths, Agreement, Same, Matches, BelongTo
  <2>2. \A f \in 1..Len(foldedImages) : Matches(foldedImages[f], foldedBoxes[f])
    BY DEF Lengths, Agreement, Same, Matches, BelongTo
  <2>3. pc # "copyback" => Matches(currentImages, currentBoxes)
    BY DEF Agreement, Same, Matches, BelongTo
  <2> QED
    BY <2>1, <2>2, <2>3 DEF Lengths, Paired
<1> QED
  BY <1>1, Inductive, PTL

(* No detector is trained on an image of its skipped fold or of the test fold. *)
THEOREM NoImageLeaks == Spec => []NoLeak
<1>1. IInv => NoLeak
  <2> SUFFICES ASSUME IInv, InSession PROVE NoLeak
    BY DEF NoLeak
  <2> USE DEF IInv
  <2>1. /\ InRound /\ pc \notin {"load", "shuffle", "copyback"}
        /\ skippedFold \in Nat \ {0} /\ skippedFold < Len(foldedImages)
        /\ Len(foldedImages) \in Nat /\ Len(foldedBoxes) = Len(foldedImages)
        /\ Len(currentBoxes) = Len(currentImages)
    <3>1. InRound /\ pc \notin {"load", "shuffle", "copyback"}
      BY DEF InSession, InRound
    <3>2. skippedFold \in Nat \ {0} /\ Len(foldedImages) \in Nat
      BY DEF TypeOK
    <3>3. skippedFold < Len(foldedImages)
      BY <3>1 DEF Control
    <3> QED
      BY <3>1, <3>2, <3>3 DEF Lengths, Agreement
  <2>2. ASSUME NEW g \in {1, skippedFold + 1},
               NEW a \in 1..Len(currentImages), NEW b \in 1..Len(foldedImages[g])
        PROVE  currentImages[a].src # foldedImages[g][b].src
    <3>1. g \in 1..Len(foldedImages) /\ g \in 1..Len(foldedBoxes)
      BY <2>1
    <3>2. /\ Len(foldedBoxes[g]) = Len(foldedImages[g])
          /\ currentImages[a].src = currentBoxes[a].src
          /\ foldedImages[g][b].src = foldedBoxes[g][b].src
      BY <2>1, <3>1 DEF Lengths, Agreement, Moved, Same
    <3>3. PICK f \in 2..Len(foldedBoxes) : \E c \in 1..Len(foldedBoxes[f]) :
            f # skippedFold + 1 /\ currentBoxes[a].src = foldedBoxes[f][c].src
      BY <2>1 DEF Provenance
    <3>4. PICK c \in 1..Len(foldedBoxes[f]) :
            f # skippedFold + 1 /\ currentBoxes[a].src = foldedBoxes[f][c].src
      BY <3>3
    <3>5. f # g /\ f \in 1..Len(foldedBoxes)
      BY <3>4, <2>1
    <3>6. FoldsDisjoint /\ b \in 1..Len(foldedBoxes[g])
      BY <3>2 DEF Dealing
    <3> QED
      BY <3>1, <3>2, <3>4, <3>5, <3>6 DEF FoldsDisjoint
  <2>3. \A g \in {1, skippedFold + 1} :
          SourcesOf(currentImages) \cap SourcesOf(foldedImages[g]) = {}
    BY <2>2 DEF SourcesOf
  <2> QED
    BY <2>3 DEF NoLeak
<1> QED
  BY <1>1, Inductive, PTL

-----------------------------------------------------------------------------
(* While the folds are dealt: all are full but the last, and the images they
   hold are those dealt so far. *)
ImagesLoaded == pc # "load" => Len(shuffledBoxes) = NumImages
FoldsSoFar ==
  pc = "fold" =>
    /\ Len(foldedBoxes) <= iNumberOfFolds + 1
    /\ \A f \in 1..Len(foldedBoxes) :
         Len(foldedBoxes[f]) \in 1..imagesPerFold
    /\ \A f \in 1..Len(foldedBoxes) :
         f < Len(foldedBoxes) => Len(foldedBoxes[f]) = imagesPerFold
    /\ IF Len(foldedBoxes) = 0
         THEN i = 1
         ELSE i - 1 = (Len(foldedBoxes) - 1) * imagesPerFold
                      + Len(foldedBoxes[Len(foldedBoxes)])
FoldsFull ==
  SplitOver /\ NumImages > 0 =>
    /\ Len(foldedBoxes) = iNumberOfFolds + 1
    /\ \A f \in 1..Len(foldedBoxes) : Len(foldedBoxes[f]) = imagesPerFold

BInv == IInv /\ ImagesLoaded /\ FoldsSoFar /\ FoldsFull

(* The loop counters: an inner loop that has ended has been set back. *)
Counters ==
  /\ ~SplitOver => iC = 1 /\ iEpsilon = 1 /\ skippedFold = 1 /\ sessions = <<>>
  /\ skippedFold <= iNumberOfFolds + 1
  /\ iEpsilon > Len(Epsilons) => skippedFold = 1
  /\ iC > Len(Cs) => iEpsilon = 1 /\ skippedFold = 1
  /\ pc = "done" => iC > Len(Cs)

(* The sessions before the one the counters stand for. *)
Before == (iC - 1) * (Len(Epsilons) * iNumberOfFolds)
          + (iEpsilon - 1) * iNumberOfFolds + (skippedFold - 1)
Point(c, e, f) == <<Cs[c], Epsilons[e], f>>
Visited(c, e, f) ==
  \/ c < iC
  \/ c = iC /\ e < iEpsilon
  \/ c = iC /\ e = iEpsilon /\ f < skippedFold
  \/ c = iC /\ e = iEpsilon /\ f = skippedFold /\ pc = "save"
SessionsCounted ==
  /\ Len(sessions) = Before + (IF pc = "save" THEN 1 ELSE 0)
  /\ InRound => progress = Before + 1
SessionsOfGrid ==
  \A a \in 1..Len(sessions) :
    \E c \in 1..Len(Cs), e \in 1..Len(Epsilons), f \in 1..iNumberOfFolds :
      sessions[a] = Point(c, e, f)
GridVisited ==
  \A c \in 1..Len(Cs), e \in 1..Len(Epsilons), f \in 1..iNumberOfFolds :
    Visited(c, e, f) => \E a \in 1..Len(sessions) : sessions[a] = Point(c, e, f)

(* Every detector but the one that is about to be written is in its file. *)
NamesApart ==
  \A a, b \in 1..Len(Epsilons) :
    Fixed6(Epsilons[a]) = Fixed6(Epsilons[b]) => Epsilons[a] = Epsilons[b]
SessionsNamed ==
  \A a \in 1..Len(sessions) :
    \E c \in 1..Len(Cs), e \in 1..Len(Epsilons), f \in Nat : sessions[a] = Point(c, e, f)
Written(s) == FileName(s) \in DOMAIN files /\ files[FileName(s)] = s
SessionsWritten ==
  \A a \in 1..Len(sessions) :
    Written(sessions[a]) \/ (pc = "save" /\ sessions[a] = Session)

GInv == BInv /\ Counters /\ SessionsCounted /\ SessionsOfGrid /\ GridVisited
KInv == IInv /\ SessionsNamed /\ SessionsWritten

-----------------------------------------------------------------------------
LEMMA Division ==
  ASSUME NEW m \in Nat, NEW w \in Nat \ {0}
  PROVE  /\ m \div w \in Nat /\ m % w \in 0..(w - 1)
         /\ m = (m \div w) * w + (m % w)
<1> DEFINE q == m \div w
           r == m % w
<1>1. q \in Nat /\ r \in 0..(w - 1)
  OBVIOUS
<1>2. m = w * q + r
  <2>1. m \in Int /\ w \in Int /\ w > 0
    OBVIOUS
  <2> QED BY <2>1, Z3T(30)
<1>3. m = q * w + r
  <2> HIDE DEF q, r
  <2> QED BY <1>1, <1>2
<1> QED BY <1>1, <1>3

LEMMA Monotone ==
  ASSUME NEW a \in Int, NEW b \in Int, NEW w \in Nat, a <= b
  PROVE  a * w <= b * w
<1>1. (b - a) * w \in Nat
  OBVIOUS
<1>2. b * w - a * w = (b - a) * w
  OBVIOUS
<1>3. a * w \in Int /\ b * w \in Int
  OBVIOUS
<1> QED BY <1>1, <1>2, <1>3

(* Counting on within a fold of w: the next fold begins when this one is full. *)
LEMMA FoldFull ==
  ASSUME NEW k \in Nat, NEW w \in Nat \ {0}, NEW n \in 1..w
  PROVE  (k * w + n) % w = 0 <=> n = w
<1> DEFINE m == k * w + n
           q == m \div w
           r == m % w
<1>1. m \in Nat
  OBVIOUS
<1>2. q \in Nat /\ r \in 0..(w - 1) /\ m = q * w + r
  BY <1>1, Division
<1>3. q * w - k * w = n - r /\ q * w \in Int /\ k * w \in Int
  <2>1. q * w \in Int /\ k * w \in Int
    BY <1>2
  <2> HIDE DEF q, r
  <2> QED BY <1>2, <2>1
<1> HIDE DEF m, q, r
<1>4. CASE q <= k
  <2>1. q * w <= k * w
    BY <1>2, <1>4, Monotone
  <2>2. n <= r
    BY <1>2, <1>3, <2>1
  <2>3. n # w /\ r # 0
    BY <1>2, <2>2
  <2> QED BY <2>3 DEF r, m
<1>5. CASE q >= k + 1
  <2>1. (k + 1) * w <= q * w /\ (k + 1) * w = k * w + w
    BY <1>2, <1>5, Monotone
  <2>2. n = w /\ r = 0
    BY <1>2, <1>3, <2>1
  <2> QED BY <2>2 DEF r, m
<1> QED BY <1>2, <1>4, <1>5

-----------------------------------------------------------------------------
(* How many images a fold gets, and that the rest is less than one each. *)
LEMMA PerFold ==
  ASSUME BInv, pc # "load"
  PROVE  /\ Len(shuffledImages) = NumImages /\ NumImages \in Nat
         /\ iNumberOfFolds \in Nat \ {0, 1} /\ imagesPerFold \in Nat
         /\ (iNumberOfFolds + 1) * imagesPerFold <= NumImages
         /\ NumImages - (iNumberOfFolds + 1) * imagesPerFold < iNumberOfFolds + 1
<1> DEFINE k == iNumberOfFolds + 1
           w == NumImages \div k
<1>1. /\ Len(shuffledImages) = NumImages /\ NumImages \in Nat
      /\ iNumberOfFolds \in Nat \ {0, 1} /\ imagesPerFold = w
  BY ConstantsAssumption DEF BInv, ImagesLoaded, IInv, Lengths, TypeOK, imagesPerFold
<1>2. k \in Nat \ {0}
  BY <1>1
<1>3. /\ w \in Nat /\ NumImages % k \in 0..(k - 1)
      /\ NumImages = w * k + (NumImages % k)
  <2> HIDE DEF k
  <2> QED BY <1>1, <1>2, Division
<1> DEFINE r == NumImages % k
<1>4. w * k = k * w /\ w * k \in Nat
  <2> HIDE DEF k, w
  <2> QED BY <1>2, <1>3
<1>5. k * w <= NumImages /\ NumImages - k * w < k
  <2> DEFINE u == k * w
  <2>1. u \in Nat /\ r \in 0..(k - 1) /\ NumImages = u + r
    BY <1>3, <1>4
  <2> HIDE DEF u, r, k, w
  <2>2. u <= NumImages /\ NumImages - u < k
    BY <1>1, <1>2, <2>1
  <2> QED BY <2>2 DEF u
<1> QED BY <1>1, <1>3, <1>5

LEMMA BInit == Init => BInv
<1> SUFFICES ASSUME Init PROVE BInv
  OBVIOUS
<1>1. pc = "load"
  BY DEF Init
<1> QED BY <1>1, InitIInv DEF BInv, ImagesLoaded, FoldsSoFar, FoldsFull, SplitOver

LEMMA BLoad == BInv /\ IInv' /\ (AddImage \/ BeginSplit \/ ShuffleStep) => BInv'
<1> SUFFICES ASSUME BInv, IInv', AddImage \/ BeginSplit \/ ShuffleStep PROVE BInv'
  OBVIOUS
<1>1. pc' \in {"load", "shuffle"}
  BY DEF AddImage, BeginSplit, ShuffleStep
<1>2. FoldsSoFar' /\ FoldsFull'
  BY <1>1 DEF FoldsSoFar, FoldsFull, SplitOver
<1>3. ImagesLoaded'
  <2>1. CASE AddImage
    BY <2>1 DEF AddImage, ImagesLoaded
  <2>2. CASE BeginSplit
    BY <2>2 DEF BeginSplit, ImagesLoaded, BInv, IInv, Lengths
  <2>3. CASE ShuffleStep
    <3>1. pc = "shuffle" /\ shuffledBoxes \in Seq(Boxes)
      BY <2>3 DEF ShuffleStep, BInv, IInv, TypeOK
    <3>2. Len(shuffledBoxes') = Len(shuffledBoxes)
      BY <2>3, <3>1 DEF ShuffleStep, SwapBoxes
    <3> QED BY <3>1, <3>2 DEF BInv, ImagesLoaded
  <2> QED BY <2>1, <2>2, <2>3
<1> QED BY <1>2, <1>3 DEF BInv

LEMMA BEndShuffle == BInv /\ IInv' /\ (EndShuffle \/ DivideByZero) => BInv'
<1> SUFFICES ASSUME BInv, IInv', EndShuffle \/ DivideByZero PROVE BInv'
  OBVIOUS
<1>1. /\ pc # "load" /\ shuffledBoxes' = shuffledBoxes
      /\ pc' = "fold" => i' = 1 /\ pc = "shuffle" /\ foldedBoxes' = foldedBoxes
      /\ pc' \in {"fold", "crashed"}
  BY DEF EndShuffle, DivideByZero, dataset, folds
<1>2. ImagesLoaded' /\ FoldsFull'
  BY <1>1 DEF BInv, ImagesLoaded, FoldsFull, SplitOver
<1>3. FoldsSoFar'
  <2> SUFFICES ASSUME pc' = "fold"
               PROVE  FoldsSoFar'
    BY DEF FoldsSoFar
  <2>1. Len(foldedBoxes') = 0
    BY <1>1 DEF BInv, IInv, Control, Lengths
  <2>2. 1..Len(foldedBoxes') = {}
    BY <2>1
  <2>3. iNumberOfFolds' \in Nat
    BY DEF IInv, TypeOK
  <2>4. 0 <= iNumberOfFolds' + 1
    <3>1. \A k \in Nat : 0 <= k + 1
      OBVIOUS
    <3> QED BY <2>3, <3>1
  <2> QED BY <1>1, <2>1, <2>2, <2>4 DEF FoldsSoFar
<1> QED BY <1>2, <1>3 DEF BInv

(* Steps after the split change no fold's length. *)
LEMMA AfterSplit ==
  ASSUME BInv, IInv', SplitOver, SplitOver',
         UNCHANGED <<shuffledImages, shuffledBoxes, iNumberOfFolds>>,
         Len(foldedBoxes') = Len(foldedBoxes),
         \A f \in 1..Len(foldedBoxes) : Len(foldedBoxes'[f]) = Len(foldedBoxes[f])
  PROVE  BInv'
<1>1. pc # "load" /\ pc' # "fold" /\ imagesPerFold' = imagesPerFold
  BY DEF SplitOver, imagesPerFold
<1> QED BY <1>1 DEF BInv, ImagesLoaded, FoldsSoFar, FoldsFull

LEMMA BSession ==
  BInv /\ IInv' /\ (\/ NextC \/ NextEpsilon \/ EndGrid \/ BeginSession
                    \/ NextFold \/ PushImage \/ CopyBack \/ EndCombine
                    \/ Upsample \/ Flip \/ RemoveFromTraining \/ RemoveFromTest
                    \/ TrainAndEvaluate \/ Save) => BInv'
<1> SUFFICES ASSUME BInv, IInv',
                    \/ NextC \/ NextEpsilon \/ EndGrid \/ BeginSession
                    \/ NextFold \/ PushImage \/ CopyBack \/ EndCombine
                    \/ Upsample \/ Flip \/ RemoveFromTraining \/ RemoveFromTest
                    \/ TrainAndEvaluate \/ Save
             PROVE  BInv'
  OBVIOUS
<1>1. foldedBoxes \in Seq(Seq(Boxes))
  BY DEF BInv, IInv, TypeOK
<1>2. CASE Upsample
  <2>1. /\ SplitOver /\ SplitOver' /\ 1 \in 1..Len(foldedBoxes)
        /\ UNCHANGED <<shuffledImages, shuffledBoxes, iNumberOfFolds>>
    <3>1. pc = "upsample" /\ pc' = "flip" /\ skippedFold < Len(foldedImages)
          /\ skippedFold \in Nat \ {0} /\ Len(foldedBoxes) = Len(foldedImages)
      BY <1>2 DEF Upsample, BInv, IInv, Control, InRound, TypeOK, Lengths
    <3>2. Len(foldedBoxes) \in Nat
      BY <1>1
    <3> QED BY <1>2, <3>1, <3>2 DEF Upsample, SplitOver, dataset
  <2>2. CASE UpsampleTest
    <3>1. foldedBoxes' = [foldedBoxes EXCEPT ![1] = Upsampled(foldedBoxes[1])]
      BY <1>2, <2>2 DEF Upsample
    <3>2. Upsampled(foldedBoxes[1]) \in Seq(Boxes)
          /\ Len(Upsampled(foldedBoxes[1])) = Len(foldedBoxes[1])
      BY <1>1, <2>1, UpsampledBoxes
    <3>3. /\ Len(foldedBoxes') = Len(foldedBoxes)
          /\ \A f \in 1..Len(foldedBoxes) : Len(foldedBoxes'[f]) = Len(foldedBoxes[f])
      BY <1>1, <2>1, <3>1, <3>2
    <3> QED BY <2>1, <3>3, AfterSplit
  <2>3. CASE ~UpsampleTest
    BY <1>2, <2>1, <2>3, AfterSplit DEF Upsample
  <2> QED BY <2>2, <2>3
<1>3. CASE RemoveFromTest
  <2>1. /\ SplitOver /\ SplitOver' /\ 1 \in 1..Len(foldedBoxes)
        /\ UNCHANGED <<shuffledImages, shuffledBoxes, iNumberOfFolds>>
    <3>1. pc = "removeTest" /\ pc' = "train" /\ skippedFold < Len(foldedImages)
          /\ skippedFold \in Nat \ {0} /\ Len(foldedBoxes) = Len(foldedImages)
      BY <1>3 DEF RemoveFromTest, BInv, IInv, Control, InRound, TypeOK, Lengths
    <3>2. Len(foldedBoxes) \in Nat
      BY <1>1
    <3> QED BY <1>3, <3>1, <3>2 DEF RemoveFromTest, SplitOver, dataset
  <2>2. PICK U \in SUBSET Doubtful :
          foldedBoxes' = [foldedBoxes EXCEPT ![1] = Without(foldedBoxes[1], U)]
    BY <1>3 DEF RemoveFromTest
  <2>3. Without(foldedBoxes[1], U) \in Seq(Boxes)
        /\ Len(Without(foldedBoxes[1], U)) = Len(foldedBoxes[1])
    BY <1>1, <2>1, WithoutBoxes
  <2>4. /\ Len(foldedBoxes') = Len(foldedBoxes)
        /\ \A f \in 1..Len(foldedBoxes) : Len(foldedBoxes'[f]) = Len(foldedBoxes[f])
    BY <1>1, <2>1, <2>2, <2>3
  <2> QED BY <2>1, <2>4, AfterSplit
<1>4. CASE ~(Upsample \/ RemoveFromTest)
  <2>1. SplitOver /\ SplitOver'
    BY <1>4 DEF NextC, NextEpsilon, EndGrid, BeginSession, NextFold, PushImage, CopyBack,
       EndCombine, Flip, RemoveFromTraining, TrainAndEvaluate, Save, SplitOver
  <2>2. UNCHANGED <<shuffledImages, shuffledBoxes, iNumberOfFolds, foldedBoxes>>
    BY <1>4 DEF NextC, NextEpsilon, EndGrid, BeginSession, NextFold, PushImage, CopyBack,
       EndCombine, Flip, RemoveFromTraining, TrainAndEvaluate, Save, dataset, folds
  <2> QED BY <2>1, <2>2, AfterSplit
<1> QED BY <1>2, <1>3, <1>4

(* A fold is opened exactly when the last one is full. *)
LEMMA OpensWhenFull ==
  ASSUME BInv, pc = "fold", imagesPerFold > 0
  PROVE  /\ Len(foldedBoxes) = 0 => OpensFold
         /\ Len(foldedBoxes) > 0 =>
              (OpensFold <=> Len(foldedBoxes[Len(foldedBoxes)]) = imagesPerFold)
<1> DEFINE w == imagesPerFold
           n == Len(foldedBoxes)
<1>1. w \in Nat \ {0} /\ n \in Nat
  <2>1. imagesPerFold \in Nat
    BY PerFold
  <2>2. foldedBoxes \in Seq(Seq(Boxes))
    BY DEF BInv, IInv, TypeOK
  <2> QED BY <2>1, <2>2
<1>2. ASSUME n = 0 PROVE OpensFold
  <2>1. i = 1
    BY <1>2 DEF BInv, FoldsSoFar
  <2>2. \A m \in Nat \ {0} : 0 % m = 0
    OBVIOUS
  <2> QED BY <1>1, <2>1, <2>2 DEF OpensFold
<1>3. ASSUME n > 0 PROVE OpensFold <=> Len(foldedBoxes[n]) = w
  <2>1. n \in 1..n /\ n - 1 \in Nat
    BY <1>1, <1>3
  <2>2. Len(foldedBoxes[n]) \in 1..w
    BY <2>1 DEF BInv, FoldsSoFar
  <2>3. i - 1 = (n - 1) * w + Len(foldedBoxes[n])
    <3>1. n # 0
      BY <1>1, <1>3
    <3> QED BY <3>1 DEF BInv, FoldsSoFar
  <2> DEFINE l == Len(foldedBoxes[n])
             k == n - 1
  <2>4. k \in Nat /\ l \in 1..w /\ i - 1 = k * w + l
    BY <2>1, <2>2, <2>3
  <2> HIDE DEF k, l, w
  <2>5. (k * w + l) % w = 0 <=> l = w
    BY <1>1, <2>4, FoldFull
  <2> QED BY <2>4, <2>5 DEF OpensFold, l, w
<1> QED BY <1>2, <1>3

LEMMA BFoldStep == BInv /\ IInv' /\ FoldStep => BInv'
<1> SUFFICES ASSUME BInv, IInv', FoldStep PROVE BInv'
  OBVIOUS
<1> DEFINE w == imagesPerFold
           s == foldedBoxes
           n == Len(s)
           room == FoldsWithRoom(s)
           t == foldedBoxes'
<1>1. /\ pc = "fold" /\ pc' = "fold" /\ i' = i + 1 /\ imagesPerFold > 0
      /\ i \in Nat /\ i \in 1..Len(shuffledImages)
      /\ ~(OpensFold /\ AllFoldsFull)
      /\ t = PushLast(room, shuffledBoxes[i])
      /\ shuffledBoxes' = shuffledBoxes /\ iNumberOfFolds' = iNumberOfFolds
      /\ shuffledImages' = [shuffledImages EXCEPT ![i] = Blank]
  BY DEF FoldStep, BInv, IInv, TypeOK
<1>2. /\ s \in Seq(Seq(Boxes)) /\ n \in Nat /\ n = Len(foldedImages)
      /\ shuffledBoxes[i] \in Boxes /\ shuffledImages \in Seq(Image)
      /\ iNumberOfFolds \in Nat
  <2>1. /\ s \in Seq(Seq(Boxes)) /\ shuffledBoxes \in Seq(Boxes)
        /\ shuffledImages \in Seq(Image) /\ iNumberOfFolds \in Nat
    BY DEF BInv, IInv, TypeOK
  <2>2. n = Len(foldedImages) /\ Len(shuffledImages) = Len(shuffledBoxes)
    BY DEF BInv, IInv, Lengths
  <2> QED BY <1>1, <2>1, <2>2
<1>3. w \in Nat \ {0}
  BY <1>1, PerFold
<1>4. imagesPerFold' = w
  BY <1>1, <1>2 DEF imagesPerFold
<1>5. /\ n <= iNumberOfFolds + 1
      /\ \A f \in 1..n : Len(s[f]) \in 1..w
      /\ \A f \in 1..n : f < n => Len(s[f]) = w
      /\ n = 0 => i = 1
      /\ n > 0 => i - 1 = (n - 1) * w + Len(s[n])
  BY <1>1 DEF BInv, FoldsSoFar
<1>6. /\ room \in Seq(Seq(Boxes))
      /\ OpensFold => /\ Len(room) = n + 1 /\ room[n + 1] = <<>>
                      /\ \A f \in 1..n : room[f] = s[f]
      /\ ~OpensFold => room = s
  BY <1>2, RoomFacts
<1>7. /\ n = 0 => OpensFold
      /\ n > 0 => (OpensFold <=> Len(s[n]) = w)
  BY <1>1, OpensWhenFull
<1>8. FoldsSoFar'
  <2>1. CASE OpensFold
    <3>1. n <= iNumberOfFolds
      BY <1>1, <1>2, <1>5, <2>1 DEF AllFoldsFull
    <3>2. Len(room) = n + 1 /\ Len(room) > 0 /\ room[n + 1] = <<>>
      BY <1>2, <1>6, <2>1
    <3> HIDE DEF room, s, w
    <3>3. Pushed(t, room, shuffledBoxes[i], Boxes)
      BY <1>1, <1>2, <1>6, <3>2, PushLastFacts
    <3>4. Len(t) = n + 1 /\ Len(t[n + 1]) = 1
      BY <3>2, <3>3 DEF Pushed
    <3>5. \A f \in 1..n : t[f] = s[f]
      BY <1>2, <1>6, <2>1, <3>2, <3>3 DEF Pushed
    <3>6. \A f \in 1..n : Len(s[f]) = w
      BY <1>2, <1>5, <1>7, <2>1
    <3>7. \A f \in 1..(n + 1) : Len(t[f]) \in 1..w /\ (f < n + 1 => Len(t[f]) = w)
      <4> SUFFICES ASSUME NEW f \in 1..(n + 1)
                   PROVE  Len(t[f]) \in 1..w /\ (f < n + 1 => Len(t[f]) = w)
        OBVIOUS
      <4>1. CASE f = n + 1
        <5>1. Len(t[f]) = 1 /\ ~(f < n + 1)
          BY <1>2, <3>4, <4>1
        <5>2. 1 \in 1..w
          BY <1>3
        <5> QED BY <5>1, <5>2
      <4>2. CASE f # n + 1
        <5>1. f \in 1..n
          BY <1>2, <4>2
        <5> QED BY <1>3, <3>5, <3>6, <5>1
      <4> QED BY <4>1, <4>2
    <3>8. i' - 1 = ((n + 1) - 1) * w + 1
      <4>1. CASE n = 0
        BY <1>1, <1>3, <1>5, <4>1
      <4>2. CASE n > 0
        <5>1. i - 1 = (n - 1) * w + w
          <6>1. n \in 1..n
            BY <1>2, <4>2
          <6> QED BY <1>5, <3>6, <4>2, <6>1
        <5>2. (n - 1) * w + w = n * w /\ n * w \in Int
          BY <1>2, <1>3
        <5>3. (n + 1) - 1 = n
          BY <1>2
        <5> QED BY <1>1, <5>1, <5>2, <5>3
      <4> QED BY <1>2, <4>1, <4>2
    <3> QED BY <1>1, <1>2, <1>4, <3>1, <3>4, <3>7, <3>8 DEF FoldsSoFar
  <2>2. CASE ~OpensFold
    <3>1. n > 0 /\ room = s /\ Len(s[n]) # w
      BY <1>2, <1>6, <1>7, <2>2
    <3> HIDE DEF room, s, w
    <3>2. Pushed(t, s, shuffledBoxes[i], Boxes)
      BY <1>1, <1>2, <3>1, PushLastFacts
    <3>3. Len(t) = n /\ Len(t[n]) = Len(s[n]) + 1
      BY <3>2 DEF Pushed
    <3>4. \A f \in 1..n : f < n => t[f] = s[f]
      BY <3>2 DEF Pushed
    <3>5. Len(s[n]) \in 1..w /\ n \in 1..n
      BY <1>2, <1>5, <3>1
    <3>6. \A f \in 1..n : Len(t[f]) \in 1..w /\ (f < n => Len(t[f]) = w)
      <4> SUFFICES ASSUME NEW f \in 1..n
                   PROVE  Len(t[f]) \in 1..w /\ (f < n => Len(t[f]) = w)
        OBVIOUS
      <4>1. CASE f = n
        BY <1>2, <1>3, <3>1, <3>3, <3>5, <4>1
      <4>2. CASE f # n
        <5>1. f < n
          BY <1>2, <4>2
        <5> QED BY <1>5, <3>4, <5>1
      <4> QED BY <4>1, <4>2
    <3>7. i' - 1 = (n - 1) * w + Len(t[n])
      <4> DEFINE u == (n - 1) * w
      <4>1. u \in Int /\ i - 1 = u + Len(s[n]) /\ Len(s[n]) \in Nat
        <5>1. n - 1 \in Int /\ w \in Int
          BY <1>2, <1>3
        <5>2. (n - 1) * w \in Int
          BY <5>1
        <5> QED BY <1>5, <3>1, <3>5, <5>2
      <4> HIDE DEF u
      <4>2. i' - 1 = u + Len(t[n])
        BY <1>1, <3>3, <4>1
      <4> QED BY <4>2 DEF u
    <3> QED BY <1>1, <1>2, <1>4, <1>5, <3>1, <3>3, <3>6, <3>7 DEF FoldsSoFar
  <2> QED BY <2>1, <2>2
<1>9. ImagesLoaded' /\ FoldsFull'
  BY <1>1 DEF BInv, ImagesLoaded, FoldsFull, SplitOver
<1> QED BY <1>8, <1>9 DEF BInv

(* When the split ends, its last fold is the last one and full: otherwise there
   would be fewer images than the folds hold. *)
LEMMA BEndSplit == BInv /\ IInv' /\ EndSplit => BInv'
<1> SUFFICES ASSUME BInv, IInv', EndSplit PROVE BInv'
  OBVIOUS
<1> DEFINE w == imagesPerFold
           n == Len(foldedBoxes)
           k == iNumberOfFolds
<1>1. /\ pc = "fold" /\ pc' = "grid"
      /\ UNCHANGED <<shuffledImages, shuffledBoxes, iNumberOfFolds, foldedBoxes>>
      /\ \/ i > Len(shuffledImages)
         \/ imagesPerFold > 0 /\ OpensFold /\ AllFoldsFull
  BY DEF EndSplit, dataset, folds
<1>2. imagesPerFold' = w
  BY <1>1 DEF imagesPerFold
<1>3. /\ n \in Nat /\ n = Len(foldedImages) /\ i \in Nat
      /\ n > 0 => n \in 1..n
  <2>1. foldedBoxes \in Seq(Seq(Boxes)) /\ i \in Nat
    BY DEF BInv, IInv, TypeOK
  <2>2. n = Len(foldedImages)
    BY DEF BInv, IInv, Lengths
  <2> QED BY <2>1, <2>2
<1>4. /\ Len(shuffledImages) = NumImages /\ NumImages \in Nat
      /\ k \in Nat /\ w \in Nat /\ (k + 1) * w <= NumImages
  BY <1>1, PerFold
<1>5. /\ n <= k + 1
      /\ \A f \in 1..n : Len(foldedBoxes[f]) \in 1..w
      /\ \A f \in 1..n : f < n => Len(foldedBoxes[f]) = w
      /\ n = 0 => i = 1
      /\ n # 0 => i - 1 = (n - 1) * w + Len(foldedBoxes[n])
  BY <1>1 DEF BInv, FoldsSoFar
<1>6. ASSUME NumImages > 0 PROVE n = k + 1 /\ Len(foldedBoxes[n]) = w
  <2>1. CASE i > Len(shuffledImages)
    <3>1. i <= Len(allImages) + 1 /\ Len(shuffledImages) = Len(allImages)
      BY <1>1 DEF BInv, IInv, Control, Lengths
    <3>2. i - 1 = NumImages /\ n # 0
      BY <1>3, <1>4, <1>5, <1>6, <2>1, <3>1
    <3> DEFINE l == Len(foldedBoxes[n])
    <3>3. l \in 1..w /\ NumImages = (n - 1) * w + l
      BY <1>3, <1>5, <3>2
    <3> HIDE DEF n, l, w, k
    <3>4. ASSUME n <= k PROVE FALSE
      <4>1. n - 1 \in Nat /\ n - 1 <= k - 1 /\ k - 1 \in Int
        BY <1>3, <1>4, <3>2, <3>4
      <4>2. (n - 1) * w <= (k - 1) * w
        BY <1>4, <4>1, Monotone
      <4>3. (k - 1) * w + 2 * w = (k + 1) * w /\ (k - 1) * w \in Int /\ (n - 1) * w \in Int
        BY <1>4, <4>1
      <4> DEFINE u == (n - 1) * w
                 v == (k - 1) * w
                 z == (k + 1) * w
      <4>4. u \in Int /\ v \in Int /\ z = v + 2 * w /\ z <= NumImages /\ u <= v /\ NumImages = u + l
        BY <1>4, <3>3, <4>2, <4>3
      <4> HIDE DEF u, v, z
      <4> QED BY <1>4, <3>3, <4>4
    <3>5. n = k + 1
      BY <1>3, <1>4, <1>5, <3>4
    <3>6. (k + 1) * w = k * w + w /\ k * w \in Int /\ n - 1 = k
      BY <1>4, <3>5
    <3> DEFINE u == k * w
    <3>7. u \in Int /\ u + w <= NumImages /\ NumImages = u + l
      BY <1>4, <3>3, <3>6
    <3> HIDE DEF u
    <3>8. l = w
      BY <1>4, <3>3, <3>7
    <3> QED BY <3>5, <3>8 DEF l
  <2>2. CASE imagesPerFold > 0 /\ OpensFold /\ AllFoldsFull
    <3>1. n = k + 1
      BY <1>3, <1>4, <2>2 DEF AllFoldsFull
    <3>2. n > 0
      BY <1>4, <3>1
    <3> QED BY <1>1, <2>2, <3>1, <3>2, OpensWhenFull
  <2> QED BY <1>1, <2>1, <2>2
<1>7. FoldsFull'
  <2> SUFFICES ASSUME NumImages > 0
               PROVE  n = k + 1 /\ \A f \in 1..n : Len(foldedBoxes[f]) = w
    BY <1>1, <1>2 DEF FoldsFull
  <2>1. ASSUME NEW f \in 1..n PROVE Len(foldedBoxes[f]) = w
    <3>1. f = n \/ f < n
      BY <1>3
    <3> QED BY <1>5, <1>6, <3>1
  <2> QED BY <1>6, <2>1
<1>8. ImagesLoaded' /\ FoldsSoFar'
  BY <1>1 DEF BInv, ImagesLoaded, FoldsSoFar
<1> QED BY <1>7, <1>8 DEF BInv

LEMMA BNext == BInv /\ [Next]_vars => BInv'
<1> SUFFICES ASSUME BInv, [Next]_vars PROVE BInv'
  OBVIOUS
<1>1. IInv'
  BY NextIInv DEF BInv
<1>2. CASE UNCHANGED vars
  <2>1. UNCHANGED <<pc, i, shuffledImages, shuffledBoxes, foldedBoxes, iNumberOfFolds>>
    BY <1>2 DEF vars, dataset, folds
  <2>2. imagesPerFold' = imagesPerFold
    BY <2>1 DEF imagesPerFold
  <2> QED BY <1>1, <2>1, <2>2 DEF BInv, ImagesLoaded, FoldsSoFar, FoldsFull, SplitOver
<1>3. CASE Next
  BY <1>1, <1>3, BLoad, BEndShuffle, BFoldStep, BEndSplit, BSession DEF Next
<1> QED BY <1>2, <1>3

LEMMA BInductive == Spec => []BInv
BY BInit, BNext, PTL DEF Spec

(* Whatever the number of images and of folds asked for, splitImagesIntoFolds
   ends with one fold more than that, all of the same size, and discards fewer
   images than there are folds. *)
THEOREM FoldsOfOneSize == Spec => []FoldsBalanced
<1>1. ASSUME BInv PROVE FoldsBalanced
  <2> SUFFICES ASSUME SplitOver, NumImages > 0
               PROVE  /\ Len(foldedImages) = iNumberOfFolds + 1
                      /\ \A f \in 1..Len(foldedImages) :
                           Len(foldedImages[f]) = imagesPerFold
                      /\ NumImages - Len(foldedImages) * imagesPerFold < Len(foldedImages)
    BY DEF FoldsBalanced
  <2>1. /\ Len(foldedBoxes) = Len(foldedImages)
        /\ \A f \in 1..Len(foldedImages) : Len(foldedBoxes[f]) = Len(foldedImages[f])
    BY <1>1 DEF BInv, IInv, Lengths
  <2>2. /\ Len(foldedBoxes) = iNumberOfFolds + 1
        /\ \A f \in 1..Len(foldedBoxes) : Len(foldedBoxes[f]) = imagesPerFold
    BY <1>1 DEF BInv, FoldsFull
  <2>3. NumImages - (iNumberOfFolds + 1) * imagesPerFold < iNumberOfFolds + 1
    BY <1>1, PerFold DEF SplitOver
  <2> QED BY <2>1, <2>2, <2>3
<1>2. BInv => FoldsBalanced
  BY <1>1
<1> QED BY <1>2, BInductive, PTL

-----------------------------------------------------------------------------
(* The number of sessions before a point of the grid. *)
Rank(c, e, f, m, n) == (c - 1) * (m * n) + (e - 1) * n + (f - 1)

LEMMA RankFirst ==
  ASSUME NEW m \in Nat, NEW n \in Nat
  PROVE  Rank(1, 1, 1, m, n) = 0
<1>1. m * n \in Nat
  OBVIOUS
<1>2. \A x \in Nat : (1 - 1) * x = 0
  OBVIOUS
<1>3. (1 - 1) * (m * n) = 0 /\ (1 - 1) * n = 0
  BY <1>1, <1>2
<1>4. 0 + 0 + (1 - 1) = 0
  OBVIOUS
<1> QED BY <1>3, <1>4 DEF Rank

LEMMA RankOfC ==
  ASSUME NEW m \in Nat, NEW n \in Nat, NEW c \in Nat
  PROVE  Rank(c + 1, 1, 1, m, n) = Rank(c, m + 1, 1, m, n)
<1> DEFINE P == m * n
           u == (c - 1) * P
<1>1. P \in Nat
  OBVIOUS
<1>2. (m + 1) - 1 = m /\ (1 - 1) * n = 0
  OBVIOUS
<1>3. ((m + 1) - 1) * n = P
  BY <1>2
<1> HIDE DEF P
<1>4. u \in Int /\ ((c + 1) - 1) * P = u + P
  BY <1>1
<1> HIDE DEF u
<1>5. (u + P) + 0 + (1 - 1) = u + P + (1 - 1)
  BY <1>1, <1>4
<1> QED BY <1>2, <1>3, <1>4, <1>5 DEF Rank, u, P

LEMMA RankOfE ==
  ASSUME NEW m \in Nat, NEW n \in Nat, NEW c \in Nat, NEW e \in Nat
  PROVE  Rank(c, e + 1, 1, m, n) = Rank(c, e, n + 1, m, n)
<1> DEFINE u == (c - 1) * (m * n)
           v == (e - 1) * n
<1>1. u \in Int
  OBVIOUS
<1>2. v \in Int /\ ((e + 1) - 1) * n = v + n
  OBVIOUS
<1> HIDE DEF u, v
<1>3. u + (v + n) + (1 - 1) = u + v + ((n + 1) - 1)
  BY <1>1, <1>2
<1> QED BY <1>2, <1>3 DEF Rank, u, v

LEMMA RankType ==
  ASSUME NEW m \in Nat, NEW n \in Nat, NEW c \in Nat, NEW e \in Nat, NEW f \in Nat
  PROVE  Rank(c, e, f, m, n) \in Int
<1>1. (c - 1) * (m * n) \in Int
  OBVIOUS
<1>2. (e - 1) * n \in Int
  OBVIOUS
<1> QED BY <1>1, <1>2 DEF Rank

LEMMA RankOfF ==
  ASSUME NEW m \in Nat, NEW n \in Nat, NEW c \in Nat, NEW e \in Nat, NEW f \in Nat
  PROVE  Rank(c, e, f, m, n) = Rank(c, e, 1, m, n) + (f - 1)
<1> DEFINE u == (c - 1) * (m * n)
           v == (e - 1) * n
<1>1. u \in Int
  OBVIOUS
<1>2. v \in Int
  OBVIOUS
<1> HIDE DEF u, v
<1>3. u + v + (f - 1) = u + v + (1 - 1) + (f - 1)
  BY <1>1, <1>2
<1> QED BY <1>3 DEF Rank, u, v

LEMMA GridTypes ==
  ASSUME IInv
  PROVE  /\ Len(Cs) \in Nat /\ Len(Epsilons) \in Nat /\ iNumberOfFolds \in Nat \ {0, 1}
         /\ iC \in 1..(Len(Cs) + 1) /\ iEpsilon \in 1..(Len(Epsilons) + 1)
         /\ iC \in Nat /\ iEpsilon \in Nat
         /\ skippedFold \in Nat \ {0} /\ sessions \in Seq(Nat \X Nat \X Nat)
         /\ Len(sessions) \in Nat
         /\ Before = Rank(iC, iEpsilon, skippedFold, Len(Epsilons), iNumberOfFolds)
<1>1. Len(Cs) \in Nat /\ Len(Epsilons) \in Nat
  BY ConstantsAssumption
<1>2. /\ iNumberOfFolds \in Nat \ {0, 1} /\ skippedFold \in Nat \ {0}
      /\ iC \in 1..(Len(Cs) + 1) /\ iEpsilon \in 1..(Len(Epsilons) + 1)
      /\ sessions \in Seq(Nat \X Nat \X Nat)
  BY DEF IInv, TypeOK
<1>3. iC \in Nat /\ iEpsilon \in Nat /\ Len(sessions) \in Nat
  BY <1>1, <1>2
<1> QED BY <1>1, <1>2, <1>3 DEF Before, Rank

LEMMA BeforeType ==
  ASSUME IInv
  PROVE  Before \in Int
<1>1. /\ Len(Epsilons) \in Nat /\ iNumberOfFolds \in Nat
      /\ iC \in Nat /\ iEpsilon \in Nat /\ skippedFold \in Nat
  BY GridTypes
<1>2. Rank(iC, iEpsilon, skippedFold, Len(Epsilons), iNumberOfFolds) \in Int
  <2> HIDE DEF Rank
  <2> QED BY <1>1, RankType
<1>3. Before = Rank(iC, iEpsilon, skippedFold, Len(Epsilons), iNumberOfFolds)
  BY GridTypes
<1> QED BY <1>2, <1>3

(* Before the first session. *)
LEMMA GInit == Init => GInv
<1> SUFFICES ASSUME Init PROVE GInv
  OBVIOUS
<1>1. /\ BInv /\ iC = 1 /\ iEpsilon = 1 /\ skippedFold = 1 /\ sessions = <<>>
      /\ pc = "load"
  BY BInit DEF Init
<1>2. Len(sessions) = 0
  BY <1>1
<1>3. Counters
  <2>1. iNumberOfFolds \in Nat
    BY <1>1, GridTypes DEF BInv
  <2>2. skippedFold <= iNumberOfFolds + 1
    BY <1>1, <2>1
  <2> QED BY <1>1, <2>2 DEF Counters
<1>4. SessionsCounted
  <2>1. Len(Epsilons) \in Nat /\ iNumberOfFolds \in Nat
    BY <1>1, GridTypes DEF BInv
  <2>2. Before = 0
    BY <1>1, <2>1, GridTypes, RankFirst DEF BInv
  <2>3. 0 = 0 + 0
    OBVIOUS
  <2> QED BY <1>2, <1>1, <2>2, <2>3 DEF SessionsCounted, InRound
<1>5. SessionsOfGrid
  <2>1. 1..Len(sessions) = {}
    BY <1>2
  <2> QED BY <2>1 DEF SessionsOfGrid
<1>6. GridVisited
  <2>1. \A c \in 1..Len(Cs), e \in 1..Len(Epsilons), f \in 1..iNumberOfFolds :
          ~(c < iC) /\ ~(e < iEpsilon) /\ ~(f < skippedFold)
    BY <1>1, GridTypes DEF BInv
  <2>2. pc # "save"
    BY <1>1 DEF InRound
  <2> QED BY <1>1, <2>1, <2>2 DEF GridVisited, Visited
<1> QED BY <1>1, <1>3, <1>4, <1>5, <1>6 DEF GInv

LEMMA GSplit ==
  GInv /\ BInv' /\ (\/ AddImage \/ BeginSplit \/ ShuffleStep \/ EndShuffle
                    \/ DivideByZero \/ FoldStep \/ EndSplit) => GInv'
<1> SUFFICES ASSUME GInv, BInv',
                    \/ AddImage \/ BeginSplit \/ ShuffleStep \/ EndShuffle
                    \/ DivideByZero \/ FoldStep \/ EndSplit
             PROVE  GInv'
  OBVIOUS
<1>1. /\ ~SplitOver /\ pc' \in {"load", "shuffle", "fold", "crashed", "grid"}
      /\ UNCHANGED <<iC, iEpsilon, skippedFold, sessions>>
  BY DEF AddImage, BeginSplit, ShuffleStep, EndShuffle, DivideByZero, FoldStep, EndSplit,
     SplitOver, grid, results
<1>2. iC' = 1 /\ iEpsilon' = 1 /\ skippedFold' = 1 /\ sessions' = <<>> /\ Len(sessions') = 0
  BY <1>1 DEF GInv, Counters
<1>3. ~InRound' /\ pc' # "done" /\ pc' # "save"
  BY <1>1 DEF InRound
<1>4. iNumberOfFolds' \in Nat /\ Len(Epsilons) \in Nat
  BY ConstantsAssumption DEF BInv, IInv, TypeOK
<1>5. Counters'
  <2>1. 1 <= iNumberOfFolds' + 1
    <3>1. \A k \in Nat : 1 <= k + 1
      OBVIOUS
    <3> QED BY <1>4, <3>1
  <2> QED BY <1>2, <1>3, <2>1 DEF Counters
<1>6. SessionsCounted'
  <2>1. Before' = 0
    BY <1>2, <1>4, RankFirst DEF Before, Rank
  <2>2. 0 = 0 + 0
    OBVIOUS
  <2> QED BY <1>2, <1>3, <2>1, <2>2 DEF SessionsCounted
<1>7. SessionsOfGrid'
  <2>1. 1..Len(sessions') = {}
    BY <1>2
  <2> QED BY <2>1 DEF SessionsOfGrid
<1>8. GridVisited'
  <2>1. \A c \in 1..Len(Cs), e \in 1..Len(Epsilons), f \in 1..iNumberOfFolds' :
          ~(c < 1) /\ ~(e < 1) /\ ~(f < 1)
    BY <1>4, ConstantsAssumption
  <2> QED BY <1>2, <1>3, <2>1 DEF GridVisited, Visited
<1> QED BY <1>5, <1>6, <1>7, <1>8 DEF GInv

(* Steps in a session, and to the first of its steps: nothing is trained yet. *)
LEMMA GSession ==
  ASSUME GInv, BInv', InRound', pc # "save", pc' # "save", SplitOver,
         UNCHANGED <<iC, iEpsilon, skippedFold, sessions, iNumberOfFolds>>,
         progress' = Before + 1
  PROVE  GInv'
<1>1. pc' # "done" /\ SplitOver'
  BY DEF InRound, SplitOver
<1>2. Counters'
  BY <1>1 DEF GInv, Counters
<1>3. SessionsCounted'
  <2>1. Before' = Before
    BY DEF Before
  <2> QED BY <2>1 DEF GInv, SessionsCounted
<1>4. SessionsOfGrid' /\ GridVisited'
  BY DEF GInv, SessionsOfGrid, GridVisited, Visited, Point
<1> QED BY <1>2, <1>3, <1>4 DEF GInv

LEMMA GRound ==
  ASSUME NumImages > 0, GInv, BInv',
         \/ BeginSession \/ NextFold \/ PushImage \/ CopyBack \/ EndCombine
         \/ Upsample \/ Flip \/ RemoveFromTraining \/ RemoveFromTest
  PROVE  GInv'
<1>1. CASE BeginSession
  <2>1. /\ pc = "grid" /\ pc' = "combine" /\ progress' = ProgressNow
        /\ UNCHANGED <<iC, iEpsilon, skippedFold, sessions, iNumberOfFolds>>
    BY <1>1 DEF BeginSession, dataset, results
  <2>2. Folded = iNumberOfFolds
    <3>1. Len(foldedBoxes) = iNumberOfFolds + 1 /\ Len(foldedBoxes) = Len(foldedImages)
      BY <2>1 DEF GInv, BInv, FoldsFull, SplitOver, IInv, Lengths
    <3>2. iNumberOfFolds \in Nat
      BY GridTypes DEF GInv, BInv
    <3>3. (iNumberOfFolds + 1) - 1 = iNumberOfFolds
      BY <3>2
    <3> QED BY <3>1, <3>3 DEF Folded
  <2>3. ProgressNow = Before + 1
    <3> DEFINE u == (iC - 1) * (Len(Epsilons) * iNumberOfFolds)
               v == (iEpsilon - 1) * iNumberOfFolds
    <3>1. u \in Int /\ v \in Int /\ skippedFold \in Int
      <4>1. /\ Len(Epsilons) * iNumberOfFolds \in Int /\ iC - 1 \in Int
            /\ iEpsilon - 1 \in Int /\ iNumberOfFolds \in Int
        BY GridTypes DEF GInv, BInv
      <4>2. \A x, y \in Int : x * y \in Int
        OBVIOUS
      <4>3. u \in Int /\ v \in Int
        BY <4>1, <4>2
      <4> QED BY <4>3, GridTypes DEF GInv, BInv
    <3>2. ProgressNow = u + v + skippedFold /\ Before = u + v + (skippedFold - 1)
      BY <2>2 DEF ProgressNow, Before
    <3> HIDE DEF u, v
    <3>3. u + v + skippedFold = u + v + (skippedFold - 1) + 1
      BY <3>1
    <3> QED BY <3>2, <3>3
  <2> QED BY <2>1, <2>3, GSession DEF InRound, SplitOver
<1>2. CASE ~BeginSession
  <2>1. /\ InRound /\ pc # "save" /\ InRound' /\ pc' # "save" /\ SplitOver
        /\ UNCHANGED <<iC, iEpsilon, skippedFold, sessions, iNumberOfFolds, progress>>
    BY <1>2 DEF NextFold, PushImage, CopyBack, EndCombine, Upsample, Flip,
       RemoveFromTraining, RemoveFromTest, dataset, grid, results, InRound, SplitOver
  <2>2. progress' = Before + 1
    BY <2>1 DEF GInv, SessionsCounted
  <2> QED BY <2>1, <2>2, GSession
<1> QED BY <1>1, <1>2

(* The session is over and done ... *)
LEMMA GTrain == NumImages > 0 /\ GInv /\ BInv' /\ TrainAndEvaluate => GInv'
<1> SUFFICES ASSUME NumImages > 0, GInv, BInv', TrainAndEvaluate PROVE GInv'
  OBVIOUS
<1>1. /\ pc = "train" /\ pc' = "save" /\ sessions' = Append(sessions, Session)
      /\ UNCHANGED <<iC, iEpsilon, skippedFold, iNumberOfFolds, progress>>
  BY DEF TrainAndEvaluate, dataset, grid
<1>2. /\ sessions \in Seq(Nat \X Nat \X Nat) /\ Len(sessions) \in Nat
      /\ Session \in Nat \X Nat \X Nat
  BY <1>1, GridTypes, SessionType DEF GInv, BInv, IInv, InRound
<1> DEFINE n == Len(sessions)
<1>3. /\ Len(sessions') = n + 1 /\ sessions'[n + 1] = Session
      /\ \A a \in 1..n : sessions'[a] = sessions[a]
  BY <1>1, <1>2, AppendFacts
<1>4. Session = Point(iC, iEpsilon, skippedFold)
  BY DEF Session, Point
<1>5. /\ iC \in 1..Len(Cs) /\ iEpsilon \in 1..Len(Epsilons)
      /\ skippedFold \in 1..iNumberOfFolds
  <2>1. iC <= Len(Cs) /\ iEpsilon <= Len(Epsilons) /\ skippedFold < Len(foldedImages)
    BY <1>1 DEF GInv, BInv, IInv, Control, InRound
  <2>2. skippedFold <= iNumberOfFolds
    <3>1. Len(foldedImages) = iNumberOfFolds + 1
      BY <1>1 DEF GInv, BInv, FoldsFull, SplitOver, IInv, Lengths
    <3> QED BY <2>1, <3>1, GridTypes DEF GInv, BInv
  <2>3. iC \in 1..Len(Cs) /\ iEpsilon \in 1..Len(Epsilons)
    BY <2>1, GridTypes DEF GInv, BInv
  <2> QED BY <2>2, <2>3, GridTypes DEF GInv, BInv
<1>6. Counters'
  BY <1>1 DEF GInv, Counters, SplitOver
<1>7. SessionsCounted'
  <2>1. Before' = Before /\ Before \in Int
    <3>1. Before' = Before
      BY <1>1 DEF Before
    <3>2. /\ Len(Epsilons) \in Nat /\ iNumberOfFolds \in Nat
          /\ iC \in Nat /\ iEpsilon \in Nat /\ skippedFold \in Nat
          /\ Before = Rank(iC, iEpsilon, skippedFold, Len(Epsilons), iNumberOfFolds)
      BY GridTypes DEF GInv, BInv
    <3>3. Rank(iC, iEpsilon, skippedFold, Len(Epsilons), iNumberOfFolds) \in Int
      BY <3>2, RankType
    <3> QED BY <3>1, <3>2, <3>3
  <2>2. n = Before + 0 /\ progress = Before + 1
    BY <1>1 DEF GInv, SessionsCounted, InRound
  <2>3. n + 1 = Before + 1
    BY <2>1, <2>2
  <2> QED BY <1>1, <1>3, <2>1, <2>2, <2>3 DEF SessionsCounted
<1>8. SessionsOfGrid'
  <2> SUFFICES ASSUME NEW a \in 1..(n + 1)
               PROVE  \E c \in 1..Len(Cs), e \in 1..Len(Epsilons), f \in 1..iNumberOfFolds :
                        sessions'[a] = Point(c, e, f)
    BY <1>1, <1>3 DEF SessionsOfGrid, Point
  <2>1. CASE a = n + 1
    BY <1>3, <1>4, <1>5, <2>1
  <2>2. CASE a # n + 1
    <3>1. a \in 1..n
      BY <1>2, <2>2
    <3> QED BY <1>3, <3>1 DEF GInv, SessionsOfGrid
  <2> QED BY <2>1, <2>2
<1>9. GridVisited'
  <2> SUFFICES ASSUME NEW c \in 1..Len(Cs), NEW e \in 1..Len(Epsilons),
                      NEW f \in 1..iNumberOfFolds, Visited(c, e, f)'
               PROVE  \E a \in 1..(n + 1) : sessions'[a] = Point(c, e, f)
    BY <1>1, <1>3 DEF GridVisited, Point
  <2>1. CASE c = iC /\ e = iEpsilon /\ f = skippedFold
    <3>1. n + 1 \in 1..(n + 1)
      BY <1>2
    <3> QED BY <1>3, <1>4, <2>1, <3>1
  <2>2. CASE ~(c = iC /\ e = iEpsilon /\ f = skippedFold)
    <3>1. Visited(c, e, f)
      BY <1>1, <2>2 DEF Visited
    <3>2. PICK a \in 1..n : sessions[a] = Point(c, e, f)
      BY <3>1 DEF GInv, GridVisited
    <3>3. a \in 1..(n + 1)
      BY <1>2
    <3> QED BY <1>3, <3>2, <3>3
  <2> QED BY <2>1, <2>2
<1> QED BY <1>6, <1>7, <1>8, <1>9 DEF GInv

(* ... and its detector saved: on to the next fold. *)
LEMMA GSave == NumImages > 0 /\ GInv /\ BInv' /\ Save => GInv'
<1> SUFFICES ASSUME NumImages > 0, GInv, BInv', Save PROVE GInv'
  OBVIOUS
<1>1. /\ pc = "save" /\ pc' = "grid" /\ skippedFold' = skippedFold + 1
      /\ UNCHANGED <<iC, iEpsilon, iNumberOfFolds, sessions>>
  BY DEF Save, dataset
<1>2. /\ iC <= Len(Cs) /\ iEpsilon <= Len(Epsilons) /\ skippedFold <= iNumberOfFolds
      /\ ~InRound' /\ SplitOver /\ SplitOver'
  <2>1. /\ iC <= Len(Cs) /\ iEpsilon <= Len(Epsilons) /\ skippedFold < Len(foldedImages)
        /\ ~InRound' /\ SplitOver /\ SplitOver'
    BY <1>1 DEF GInv, BInv, IInv, Control, InRound, SplitOver
  <2>2. Len(foldedImages) = iNumberOfFolds + 1
    BY <1>1 DEF GInv, BInv, FoldsFull, SplitOver, IInv, Lengths
  <2> QED BY <2>1, <2>2, GridTypes DEF GInv, BInv
<1>3. Counters'
  <2>1. skippedFold + 1 <= iNumberOfFolds + 1
    BY <1>2, GridTypes DEF GInv, BInv
  <2>2. ~(iEpsilon > Len(Epsilons)) /\ ~(iC > Len(Cs))
    BY <1>2, GridTypes DEF GInv, BInv
  <2> QED BY <1>1, <1>2, <2>1, <2>2 DEF Counters
<1>4. SessionsCounted'
  <2>1. Before' = Before + 1 /\ Before \in Int
    <3>1. /\ Len(Epsilons) \in Nat /\ iNumberOfFolds \in Nat
          /\ iC \in Nat /\ iEpsilon \in Nat /\ skippedFold \in Nat
      BY GridTypes DEF GInv, BInv
    <3>2. Before' = Rank(iC, iEpsilon, skippedFold', Len(Epsilons), iNumberOfFolds)
      BY <1>1 DEF Before, Rank
    <3>3. Before = Rank(iC, iEpsilon, skippedFold, Len(Epsilons), iNumberOfFolds)
      BY DEF Before, Rank
    <3>4. skippedFold' = skippedFold + 1 /\ skippedFold' \in Nat
      BY <1>1, <3>1
    <3> DEFINE r == Rank(iC, iEpsilon, 1, Len(Epsilons), iNumberOfFolds)
    <3>5. r \in Int
      BY <3>1, RankType
    <3>6. ASSUME NEW x \in Nat
          PROVE  Rank(iC, iEpsilon, x, Len(Epsilons), iNumberOfFolds) = r + (x - 1)
      BY <3>1, RankOfF
    <3>7. Before = r + (skippedFold - 1)
      BY <3>1, <3>3, <3>6
    <3>8. Before' = r + (skippedFold' - 1)
      BY <3>2, <3>4, <3>6
    <3> HIDE DEF r
    <3> QED BY <3>1, <3>4, <3>5, <3>7, <3>8
  <2>2. Len(sessions) = Before + 1
    BY <1>1 DEF GInv, SessionsCounted
  <2>3. (Before + 1) + 0 = Before + 1
    BY <2>1
  <2> QED BY <1>1, <1>2, <2>1, <2>2, <2>3 DEF SessionsCounted
<1>5. SessionsOfGrid'
  BY <1>1 DEF GInv, SessionsOfGrid, Point
<1>6. GridVisited'
  <2>1. ASSUME NEW c \in 1..Len(Cs), NEW e \in 1..Len(Epsilons),
               NEW f \in 1..iNumberOfFolds, Visited(c, e, f)'
        PROVE  Visited(c, e, f)
    <3>1. f < skippedFold + 1 => f < skippedFold \/ f = skippedFold
      BY GridTypes DEF GInv, BInv
    <3> QED BY <1>1, <2>1, <3>1 DEF Visited
  <2> QED BY <1>1, <2>1 DEF GInv, GridVisited, Point
<1> QED BY <1>3, <1>4, <1>5, <1>6 DEF GInv

(* The loops around: nothing of an inner loop is left to visit when it ends. *)
LEMMA GLoops == NumImages > 0 /\ GInv /\ BInv' /\ (NextC \/ NextEpsilon \/ EndGrid) => GInv'
<1> SUFFICES ASSUME NumImages > 0, GInv, BInv', NextC \/ NextEpsilon \/ EndGrid PROVE GInv'
  OBVIOUS
<1>1. /\ pc = "grid" /\ pc' \in {"grid", "done"} /\ ~InRound' /\ SplitOver /\ SplitOver'
      /\ UNCHANGED <<iNumberOfFolds, sessions>>
  BY DEF NextC, NextEpsilon, EndGrid, dataset, results, InRound, SplitOver
<1>2. /\ Len(Cs) \in Nat /\ Len(Epsilons) \in Nat /\ iNumberOfFolds \in Nat
      /\ iC \in Nat /\ iC <= Len(Cs) + 1
      /\ iEpsilon \in Nat /\ iEpsilon <= Len(Epsilons) + 1 /\ skippedFold \in Nat
      /\ Before = Rank(iC, iEpsilon, skippedFold, Len(Epsilons), iNumberOfFolds)
  BY GridTypes DEF GInv, BInv
<1>3. Len(foldedImages) = iNumberOfFolds + 1
  BY <1>1 DEF GInv, BInv, FoldsFull, SplitOver, IInv, Lengths
<1>4. /\ skippedFold <= iNumberOfFolds + 1
      /\ iEpsilon > Len(Epsilons) => skippedFold = 1
      /\ iC > Len(Cs) => iEpsilon = 1 /\ skippedFold = 1
  BY DEF GInv, Counters
<1>5. /\ Before' = Before
      /\ \A c \in 1..Len(Cs), e \in 1..Len(Epsilons), f \in 1..iNumberOfFolds :
           Visited(c, e, f)' => Visited(c, e, f)
      /\ Counters'
  <2>1. CASE NextC
    <3>1. /\ iC' = iC + 1 /\ iEpsilon' = 1 /\ skippedFold' = 1 /\ pc' = "grid"
          /\ iEpsilon = Len(Epsilons) + 1 /\ skippedFold = 1
      BY <1>2, <1>4, <2>1 DEF NextC
    <3>2. Before' = Before
      <4>1. Before' = Rank(iC + 1, 1, 1, Len(Epsilons), iNumberOfFolds)
        BY <1>1, <3>1 DEF Before, Rank
      <4> QED BY <1>2, <3>1, <4>1, RankOfC
    <3>3. ASSUME NEW c \in 1..Len(Cs), NEW e \in 1..Len(Epsilons),
                 NEW f \in 1..iNumberOfFolds, Visited(c, e, f)'
          PROVE  Visited(c, e, f)
      <4>1. ~(e < 1) /\ ~(f < 1) /\ e < Len(Epsilons) + 1
        BY <1>2
      <4>2. c < iC + 1 => c < iC \/ c = iC
        BY <1>2
      <4> QED BY <3>1, <3>3, <4>1, <4>2 DEF Visited
    <3>4. Counters'
      <4>1. 1 <= iNumberOfFolds + 1
        BY <1>2
      <4> QED BY <1>1, <3>1, <4>1 DEF Counters
    <3> QED BY <3>2, <3>3, <3>4
  <2>2. CASE NextEpsilon
    <3>1. /\ iC' = iC /\ iEpsilon' = iEpsilon + 1 /\ skippedFold' = 1 /\ pc' = "grid"
          /\ skippedFold = iNumberOfFolds + 1 /\ iC <= Len(Cs)
      BY <1>2, <1>3, <1>4, <2>2 DEF NextEpsilon
    <3>2. Before' = Before
      <4>1. Before' = Rank(iC, iEpsilon + 1, 1, Len(Epsilons), iNumberOfFolds)
        BY <1>1, <3>1 DEF Before, Rank
      <4>2. Rank(iC, iEpsilon + 1, 1, Len(Epsilons), iNumberOfFolds)
              = Rank(iC, iEpsilon, iNumberOfFolds + 1, Len(Epsilons), iNumberOfFolds)
        BY <1>2, RankOfE
      <4> QED BY <1>2, <3>1, <4>1, <4>2
    <3>3. ASSUME NEW c \in 1..Len(Cs), NEW e \in 1..Len(Epsilons),
                 NEW f \in 1..iNumberOfFolds, Visited(c, e, f)'
          PROVE  Visited(c, e, f)
      <4>1. ~(f < 1) /\ f < iNumberOfFolds + 1
        BY <1>2
      <4>2. e < iEpsilon + 1 => e < iEpsilon \/ e = iEpsilon
        BY <1>2
      <4> QED BY <3>1, <3>3, <4>1, <4>2 DEF Visited
    <3>4. Counters'
      <4>1. 1 <= iNumberOfFolds + 1 /\ ~(iC > Len(Cs))
        BY <1>2, <3>1
      <4> QED BY <1>1, <3>1, <4>1 DEF Counters
    <3> QED BY <3>2, <3>3, <3>4
  <2>3. CASE EndGrid
    <3>1. UNCHANGED <<iC, iEpsilon, skippedFold>> /\ pc' = "done" /\ iC > Len(Cs)
      BY <2>3 DEF EndGrid, grid
    <3> QED BY <1>1, <1>4, <3>1 DEF Before, Visited, Counters
  <2> QED BY <2>1, <2>2, <2>3
<1>6. SessionsCounted'
  <2>1. Len(sessions) = Before + 0
    BY <1>1 DEF GInv, SessionsCounted
  <2> QED BY <1>1, <1>5, <2>1 DEF SessionsCounted
<1>7. SessionsOfGrid'
  BY <1>1 DEF GInv, SessionsOfGrid, Point
<1>8. GridVisited'
  BY <1>1, <1>5 DEF GInv, GridVisited, Point
<1> QED BY <1>5, <1>6, <1>7, <1>8 DEF GInv

LEMMA GNext == NumImages > 0 /\ GInv /\ [Next]_vars => GInv'
<1> SUFFICES ASSUME NumImages > 0, GInv, [Next]_vars PROVE GInv'
  OBVIOUS
<1>1. BInv'
  BY BNext DEF GInv
<1>2. CASE UNCHANGED vars
  <2>1. UNCHANGED <<pc, iC, iEpsilon, skippedFold, progress, sessions, iNumberOfFolds>>
    BY <1>2 DEF vars, dataset, grid, results
  <2>2. Counters' /\ SessionsCounted'
    BY <2>1 DEF GInv, Counters, SessionsCounted, SplitOver, InRound, Before
  <2>3. SessionsOfGrid' /\ GridVisited'
    BY <2>1 DEF GInv, SessionsOfGrid, GridVisited, Visited, Point
  <2> QED BY <1>1, <2>2, <2>3 DEF GInv
<1>3. CASE Next
  BY <1>1, <1>3, GSplit, GRound, GTrain, GSave, GLoops DEF Next
<1> QED BY <1>2, <1>3

(* Unless there are no images at all, executeCrossValidation that comes to its
   end has trained each C with each epsilon and each fold once, in as many
   sessions as the grid has points, and counted them right. *)
THEOREM EveryPointTrained ==
  ASSUME NumImages > 0
  PROVE  Spec => []GridComplete
<1>1. ASSUME GInv, InSession, pc # "save" PROVE progress = Len(sessions) + 1
  <2>1. InRound
    BY <1>1 DEF InSession, InRound
  <2>2. Len(sessions) = Before + 0 /\ progress = Before + 1
    BY <1>1, <2>1 DEF GInv, SessionsCounted
  <2>3. Before \in Int
    <3>1. IInv
      BY <1>1 DEF GInv, BInv
    <3> QED BY <3>1, BeforeType
  <2> QED BY <2>2, <2>3
<1>2. ASSUME GInv, pc = "done"
      PROVE  /\ Len(sessions) = Len(Cs) * Len(Epsilons) * iNumberOfFolds
             /\ {sessions[a] : a \in 1..Len(sessions)} =
                  { <<Cs[c], Epsilons[e], f>> :
                      c \in 1..Len(Cs), e \in 1..Len(Epsilons), f \in 1..iNumberOfFolds }
  <2>1. /\ Len(Cs) \in Nat /\ Len(Epsilons) \in Nat /\ iNumberOfFolds \in Nat
        /\ iC \in 1..(Len(Cs) + 1)
    BY <1>2, GridTypes DEF GInv, BInv
  <2>2. iC = Len(Cs) + 1 /\ iEpsilon = 1 /\ skippedFold = 1
    <3>1. iC > Len(Cs) /\ iEpsilon = 1 /\ skippedFold = 1
      BY <1>2 DEF GInv, Counters
    <3> QED BY <2>1, <3>1
  <2>3. Len(sessions) = Len(Cs) * Len(Epsilons) * iNumberOfFolds
    <3> DEFINE m == Len(Cs)
               e == Len(Epsilons)
               n == iNumberOfFolds
    <3>1. Before = ((m + 1) - 1) * (e * n) + (1 - 1) * n + (1 - 1)
      BY <2>2 DEF Before
    <3>2. Len(sessions) = Before + 0
      BY <1>2 DEF GInv, SessionsCounted
    <3>3. m \in Nat /\ e \in Nat /\ n \in Nat
      BY <2>1
    <3> HIDE DEF m, e, n
    <3>4. ((m + 1) - 1) = m /\ (1 - 1) * n = 0 /\ e * n \in Nat
      BY <3>3
    <3>5. m * (e * n) = m * e * n /\ m * (e * n) \in Nat
      BY <3>3
    <3>6. m * (e * n) + 0 + (1 - 1) + 0 = m * (e * n)
      BY <3>5
    <3>7. Len(sessions) = m * (e * n) + 0 + (1 - 1) + 0
      BY <3>1, <3>2, <3>4
    <3>8. Len(sessions) = m * e * n
      BY <3>5, <3>6, <3>7
    <3> QED BY <3>8 DEF m, e, n
  <2>4. \A c \in 1..Len(Cs), e \in 1..Len(Epsilons), f \in 1..iNumberOfFolds :
          \E a \in 1..Len(sessions) : sessions[a] = Point(c, e, f)
    <3>1. \A c \in 1..Len(Cs) : c < iC
      BY <2>1, <2>2
    <3> QED BY <1>2, <3>1 DEF GInv, GridVisited, Visited
  <2>5. \A a \in 1..Len(sessions) :
          \E c \in 1..Len(Cs), e \in 1..Len(Epsilons), f \in 1..iNumberOfFolds :
            sessions[a] = Point(c, e, f)
    BY <1>2 DEF GInv, SessionsOfGrid
  <2> DEFINE S == {sessions[a] : a \in 1..Len(sessions)}
             T == {Point(c, e, f) : c \in 1..Len(Cs), e \in 1..Len(Epsilons),
                                    f \in 1..iNumberOfFolds}
  <2>6. S \subseteq T
    BY <2>5
  <2>7. T \subseteq S
    <3> SUFFICES ASSUME NEW x \in T PROVE x \in S
      OBVIOUS
    <3>1. PICK c \in 1..Len(Cs), e \in 1..Len(Epsilons), f \in 1..iNumberOfFolds :
            x = Point(c, e, f)
      OBVIOUS
    <3>2. PICK a \in 1..Len(sessions) : sessions[a] = Point(c, e, f)
      BY <2>4
    <3> QED BY <3>1, <3>2
  <2>8. S = T
    <3> HIDE DEF S, T
    <3> QED BY <2>6, <2>7
  <2> QED BY <2>3, <2>8 DEF Point
<1>3. GInv => GridComplete
  BY <1>1, <1>2 DEF GridComplete
<1> QED BY <1>3, GInit, GNext, PTL DEF Spec

-----------------------------------------------------------------------------
LEMMA KSave ==
  ASSUME NamesApart, KInv, IInv', Save
  PROVE  KInv'
<1>1. /\ pc = "save" /\ pc' = "grid" /\ sessions' = sessions
      /\ files' = [x \in DOMAIN files \cup {FileName(Session)} |->
                     IF x = FileName(Session) THEN Session ELSE files[x]]
  BY DEF Save
<1>2. SessionsNamed'
  BY <1>1 DEF KInv, SessionsNamed, Point
<1>3. ASSUME NEW a \in 1..Len(sessions) PROVE Written(sessions[a])'
  <2> DEFINE s == sessions[a]
  <2>1. PICK c \in 1..Len(Cs), e \in 1..Len(Epsilons), f \in Nat : s = Point(c, e, f)
    BY DEF KInv, SessionsNamed
  <2>2. CASE s = Session
    BY <1>1, <2>2 DEF Written, FileName
  <2>3. CASE s # Session
    <3>1. Written(s)
      BY <2>3 DEF KInv, SessionsWritten
    <3>2. FileName(s) # FileName(Session)
      <4> SUFFICES ASSUME FileName(s) = FileName(Session) PROVE FALSE
        OBVIOUS
      <4>1. FileName(s) = <<Cs[c], Fixed6(Epsilons[e]), f>>
        BY <2>1 DEF FileName, Point
      <4>2. FileName(Session) = <<Cs[iC], Fixed6(Epsilons[iEpsilon]), skippedFold>>
        BY DEF FileName, Session
      <4>3. Cs[c] = Cs[iC] /\ Fixed6(Epsilons[e]) = Fixed6(Epsilons[iEpsilon])
            /\ f = skippedFold
        <5>1. \A x1, x2, x3, y1, y2, y3 :
                <<x1, x2, x3>> = <<y1, y2, y3>> => x1 = y1 /\ x2 = y2 /\ x3 = y3
          OBVIOUS
        <5>2. <<Cs[c], Fixed6(Epsilons[e]), f>>
                = <<Cs[iC], Fixed6(Epsilons[iEpsilon]), skippedFold>>
          BY <4>1, <4>2
        <5> QED BY <5>1, <5>2
      <4>4. iEpsilon \in 1..Len(Epsilons)
        <5>1. iEpsilon <= Len(Epsilons)
          BY <1>1 DEF KInv, IInv, Control, InRound
        <5> QED BY <5>1, GridTypes DEF KInv
      <4>5. Epsilons[e] = Epsilons[iEpsilon]
        BY <4>3, <4>4 DEF NamesApart
      <4> QED BY <2>1, <2>3, <4>3, <4>5 DEF Session, Point
    <3> QED BY <1>1, <3>1, <3>2 DEF Written, FileName
  <2> QED BY <2>2, <2>3
<1>4. SessionsWritten'
  BY <1>1, <1>3 DEF SessionsWritten
<1> QED BY <1>2, <1>4 DEF KInv

LEMMA KTrain ==
  ASSUME KInv, IInv', TrainAndEvaluate
  PROVE  KInv'
<1>1. /\ pc = "train" /\ pc' = "save" /\ sessions' = Append(sessions, Session)
      /\ UNCHANGED <<iC, iEpsilon, skippedFold, files>>
  BY DEF TrainAndEvaluate, grid
<1>2. /\ sessions \in Seq(Nat \X Nat \X Nat) /\ Len(sessions) \in Nat
      /\ Session \in Nat \X Nat \X Nat
  BY <1>1, GridTypes, SessionType DEF KInv, IInv, InRound
<1> DEFINE n == Len(sessions)
<1>3. /\ Len(sessions') = n + 1 /\ sessions'[n + 1] = Session
      /\ \A a \in 1..n : sessions'[a] = sessions[a]
  BY <1>1, <1>2, AppendFacts
<1>4. \E c \in 1..Len(Cs), e \in 1..Len(Epsilons), f \in Nat : Session = Point(c, e, f)
  <2>1. iC <= Len(Cs) /\ iEpsilon <= Len(Epsilons)
    BY <1>1 DEF KInv, IInv, Control, InRound
  <2>2. iC \in 1..Len(Cs) /\ iEpsilon \in 1..Len(Epsilons) /\ skippedFold \in Nat
    BY <2>1, GridTypes DEF KInv
  <2> QED BY <2>2 DEF Session, Point
<1>5. Session' = Session
  BY <1>1 DEF Session
<1>6. \A a \in 1..(n + 1) : a \in 1..n \/ a = n + 1
  BY <1>2
<1>7. SessionsNamed'
  <2> SUFFICES ASSUME NEW a \in 1..(n + 1)
               PROVE  \E c \in 1..Len(Cs), e \in 1..Len(Epsilons), f \in Nat :
                        sessions'[a] = Point(c, e, f)
    BY <1>3 DEF SessionsNamed, Point
  <2>1. CASE a \in 1..n
    BY <1>3, <2>1 DEF KInv, SessionsNamed
  <2>2. CASE a = n + 1
    BY <1>3, <1>4, <2>2
  <2> QED BY <1>6, <2>1, <2>2
<1>8. SessionsWritten'
  <2> DEFINE Kept(s) == FileName(s) \in DOMAIN files /\ files[FileName(s)] = s
  <2> SUFFICES ASSUME NEW a \in 1..(n + 1)
               PROVE  Kept(sessions'[a]) \/ sessions'[a] = Session
    BY <1>1, <1>3, <1>5 DEF SessionsWritten, Written, FileName
  <2>1. CASE a \in 1..n
    BY <1>1, <1>3, <2>1 DEF KInv, SessionsWritten, Written
  <2>2. CASE a = n + 1
    BY <1>3, <2>2
  <2> QED BY <1>6, <2>1, <2>2
<1> QED BY <1>7, <1>8 DEF KInv

LEMMA KNext == NamesApart /\ KInv /\ [Next]_vars => KInv'
<1> SUFFICES ASSUME NamesApart, KInv, [Next]_vars PROVE KInv'
  OBVIOUS
<1>1. IInv'
  BY NextIInv DEF KInv
<1>2. CASE TrainAndEvaluate
  BY <1>1, <1>2, KTrain
<1>3. CASE Save
  BY <1>1, <1>3, KSave
<1>4. CASE ~TrainAndEvaluate /\ ~Save
  <2>1. /\ UNCHANGED <<sessions, files>>
        /\ pc = "save" => UNCHANGED <<pc, iC, iEpsilon, skippedFold>>
    BY <1>4 DEF Next, AddImage, BeginSplit, ShuffleStep, EndShuffle, DivideByZero,
       FoldStep, EndSplit, NextC, NextEpsilon, EndGrid, BeginSession, NextFold, PushImage,
       CopyBack, EndCombine, Upsample, Flip, RemoveFromTraining, RemoveFromTest, vars,
       grid, results
  <2>2. pc = "save" => Session' = Session /\ pc' = pc
    BY <2>1 DEF Session
  <2> QED BY <1>1, <2>1, <2>2
          DEF KInv, SessionsNamed, SessionsWritten, Written, FileName, Point
<1> QED BY <1>2, <1>3, <1>4

(* The program keeps every detector it announces as saved, as long as no two
   epsilons agree in their first six decimals (the names that CloseEpsilons of
   the run folds_names makes agree are the only ones that are lost). *)
THEOREM AllDetectorsKept ==
  ASSUME NamesApart
  PROVE  Spec => []DetectorsKept
<1>1. ASSUME Init PROVE KInv
  <2>1. sessions = <<>> /\ 1..Len(sessions) = {}
    BY <1>1 DEF Init
  <2> QED BY <1>1, <2>1, InitIInv DEF KInv, SessionsNamed, SessionsWritten
<1>2. Init => KInv
  BY <1>1
<1>3. KInv => DetectorsKept
  BY DEF KInv, SessionsWritten, Written, DetectorsKept
<1> QED BY <1>2, <1>3, KNext, PTL DEF Spec

-----------------------------------------------------------------------------
(* What the folds hold: fold 0, the test fold, begins at the first shuffled
   image, and each of the others where the one before it ends. *)
Dealt(f, a) == shuffledBoxes[f * imagesPerFold + a].src
Plain(box) == box.up = 0 /\ ~box.flip
DealtInOrder ==
  /\ NumImages = 0 => Len(foldedBoxes) = 0
  /\ \A f \in 1..Len(foldedBoxes) : \A a \in 1..Len(foldedBoxes[f]) :
       /\ (f - 1) * imagesPerFold + a <= Len(shuffledBoxes)
       /\ foldedBoxes[f][a].src = Dealt(f - 1, a)
AsLoaded ==
  /\ \A a \in 1..Len(allBoxes) : Plain(allBoxes[a])
  /\ \A a \in 1..Len(shuffledBoxes) : Plain(shuffledBoxes[a])
  /\ \A f \in 1..Len(foldedBoxes) : f > 1 \/ pc = "fold" =>
       \A a \in 1..Len(foldedBoxes[f]) : Plain(foldedBoxes[f][a])

(* What a session has gathered so far: each image of the folds it uses once,
   and its mirror image once when there are few. *)
Used == (1..iNumberOfFolds) \ {skippedFold}
Gathered(f, a) == f < i \/ (f = i /\ a < j)
DealtSources == {Dealt(f, a) : f \in Used, a \in 1..imagesPerFold}
HasMirrors == pc \in {"removeTraining", "removeTest", "train", "save"}
              /\ Cardinality(DealtSources) < FlipBelow
InOrder == pc \in {"combine", "copyback", "upsample"}
Once ==
  \A x, y \in 1..Len(currentBoxes) : x # y =>
    \/ currentBoxes[x].src # currentBoxes[y].src
    \/ currentBoxes[x].flip # currentBoxes[y].flip
FromUsed ==
  \A x \in 1..Len(currentBoxes) :
    /\ \E f \in Used : \E a \in 1..imagesPerFold :
         Gathered(f, a) /\ currentBoxes[x].src = Dealt(f, a)
    /\ currentBoxes[x].flip => HasMirrors
    /\ currentBoxes[x].up <= (IF InOrder THEN 0 ELSE 1)
AllGathered ==
  \A f \in Used : \A a \in 1..imagesPerFold : Gathered(f, a) =>
    \A m \in BOOLEAN : (m => HasMirrors)
      => \E x \in 1..Len(currentBoxes) :
           currentBoxes[x].src = Dealt(f, a) /\ currentBoxes[x].flip = m
Gathering ==
  InRound => /\ Once /\ FromUsed /\ AllGathered
             /\ pc \notin {"combine", "copyback"} => i > iNumberOfFolds

TInv == BInv /\ DealtInOrder /\ AsLoaded /\ Gathering

-----------------------------------------------------------------------------
(* Slots of the shuffled data: different images of different folds are dealt
   from different slots. *)
LEMMA SlotsApart ==
  ASSUME NEW f \in Nat, NEW g \in Nat, NEW w \in Nat,
         NEW a \in 1..w, NEW b \in 1..w, f * w + a = g * w + b
  PROVE  f = g /\ a = b
<1>1. ASSUME NEW c \in Nat, NEW d \in Nat, NEW x \in 1..w, NEW y \in 1..w, c < d
      PROVE  c * w + x < d * w + y
  <2>1. (c + 1) * w <= d * w /\ (c + 1) * w = c * w + w /\ c * w \in Int /\ d * w \in Int
    BY <1>1, Monotone
  <2> DEFINE u == c * w
             v == d * w
  <2>2. u + w <= v /\ u \in Int /\ v \in Int
    BY <2>1
  <2> HIDE DEF u, v
  <2>3. u + x < v + y
    BY <2>2
  <2> QED BY <2>3 DEF u, v
<1>2. ~(f < g) /\ ~(g < f)
  <2>1. f * w + a \in Int /\ g * w + b \in Int
    OBVIOUS
  <2> QED BY <1>1, <2>1
<1>3. f = g
  BY <1>2
<1>4. f * w \in Int
  OBVIOUS
<1> QED BY <1>3, <1>4

(* The folds hold different images at different places. *)
LEMMA DealtApart ==
  ASSUME TInv, SplitOver, NumImages > 0,
         NEW f \in 1..iNumberOfFolds, NEW g \in 1..iNumberOfFolds,
         NEW a \in 1..imagesPerFold, NEW b \in 1..imagesPerFold,
         Dealt(f, a) = Dealt(g, b)
  PROVE  f = g /\ a = b
<1> DEFINE w == imagesPerFold
<1>1. /\ Len(foldedBoxes) = iNumberOfFolds + 1 /\ iNumberOfFolds \in Nat /\ w \in Nat
      /\ \A h \in 1..Len(foldedBoxes) : Len(foldedBoxes[h]) = w
  <2>1. iNumberOfFolds \in Nat /\ w \in Nat
    BY PerFold DEF TInv, SplitOver
  <2> QED BY <2>1 DEF TInv, BInv, FoldsFull
<1>2. ASSUME NEW h \in 1..iNumberOfFolds, NEW c \in 1..w
      PROVE  h * w + c \in 1..Len(shuffledBoxes)
  <2>1. h + 1 \in 1..Len(foldedBoxes) /\ (h + 1) - 1 = h
    BY <1>1
  <2>2. c \in 1..Len(foldedBoxes[h + 1])
    BY <1>1, <2>1
  <2>3. h * w + c <= Len(shuffledBoxes)
    BY <2>1, <2>2 DEF TInv, DealtInOrder
  <2>4. h * w + c \in Nat \ {0}
    <3>1. h * w \in Nat
      BY <1>1
    <3> QED BY <3>1
  <2>5. Len(shuffledBoxes) \in Nat
    BY DEF TInv, BInv, IInv, TypeOK
  <2> QED BY <2>3, <2>4, <2>5
<1>3. \A x, y \in 1..Len(shuffledBoxes) :
        x # y => shuffledBoxes[x].src # shuffledBoxes[y].src
  BY DEF TInv, BInv, IInv, Dealing, Shuffled, SplitOver
<1>4. f * w + a = g * w + b
  BY <1>2, <1>3 DEF Dealt
<1> QED BY <1>1, <1>4, SlotsApart

(* What an image of a fold is, when it is about to be gathered. *)
LEMMA DealtFold ==
  ASSUME TInv, SplitOver, NumImages > 0,
         NEW f \in 1..iNumberOfFolds, NEW a \in 1..imagesPerFold
  PROVE  /\ f + 1 \in 1..Len(foldedBoxes)
         /\ a \in 1..Len(foldedBoxes[f + 1])
         /\ Len(foldedBoxes[f + 1]) = imagesPerFold
         /\ foldedBoxes[f + 1][a].src = Dealt(f, a)
         /\ Plain(foldedBoxes[f + 1][a])
<1>1. Len(foldedBoxes) = iNumberOfFolds + 1 /\ iNumberOfFolds \in Nat
      /\ \A h \in 1..Len(foldedBoxes) : Len(foldedBoxes[h]) = imagesPerFold
  BY PerFold DEF TInv, BInv, FoldsFull, SplitOver
<1>2. f + 1 \in 1..Len(foldedBoxes) /\ (f + 1) - 1 = f /\ f + 1 > 1
  BY <1>1
<1>3. a \in 1..Len(foldedBoxes[f + 1])
  BY <1>1, <1>2
<1>4. foldedBoxes[f + 1][a].src = Dealt(f, a)
  BY <1>2, <1>3 DEF TInv, DealtInOrder
<1> QED BY <1>1, <1>2, <1>3, <1>4 DEF TInv, AsLoaded

(* There are images when a session runs. *)
LEMMA RoundHasImages ==
  ASSUME TInv, InRound
  PROVE  NumImages > 0 /\ SplitOver
<1>1. SplitOver
  BY DEF InRound, SplitOver
<1>2. Len(foldedBoxes) # 0
  <2>1. skippedFold < Len(foldedImages) /\ skippedFold \in Nat \ {0}
    BY DEF TInv, BInv, IInv, Control, TypeOK
  <2>2. foldedBoxes \in Seq(Seq(Boxes)) /\ Len(foldedBoxes) = Len(foldedImages)
    BY DEF TInv, BInv, IInv, TypeOK, Lengths
  <2> QED BY <2>1, <2>2
<1> QED BY <1>1, <1>2, ConstantsAssumption DEF TInv, DealtInOrder

-----------------------------------------------------------------------------
LEMMA TInit == Init => TInv
<1> SUFFICES ASSUME Init PROVE TInv
  OBVIOUS
<1>1. BInv
  BY BInit
<1>2. DealtInOrder /\ AsLoaded
  BY DEF Init, DealtInOrder, AsLoaded
<1>3. Gathering
  BY DEF Init, Gathering, InRound
<1> QED BY <1>1, <1>2, <1>3 DEF TInv

(* Before the split the boxes are only moved as they were loaded. *)
LEMMA TLoad == TInv /\ BInv' /\ (AddImage \/ BeginSplit \/ ShuffleStep \/ EndShuffle) => TInv'
<1> SUFFICES ASSUME TInv, BInv', AddImage \/ BeginSplit \/ ShuffleStep \/ EndShuffle PROVE TInv'
  OBVIOUS
<1>1. /\ pc \in {"load", "shuffle"} /\ pc' \in {"load", "shuffle", "fold"}
      /\ foldedBoxes' = foldedBoxes
  BY DEF AddImage, BeginSplit, ShuffleStep, EndShuffle, folds
<1>2. Len(foldedBoxes) = 0 /\ 1..Len(foldedBoxes) = {}
  <2>1. Len(foldedBoxes) = 0
    BY <1>1 DEF TInv, BInv, IInv, Control, Lengths
  <2> QED BY <2>1
<1>3. DealtInOrder'
  BY <1>1, <1>2 DEF DealtInOrder
<1>4. Gathering'
  BY <1>1 DEF Gathering, InRound
<1>5. /\ allBoxes \in Seq(Boxes) /\ shuffledBoxes \in Seq(Boxes)
      /\ \A a \in 1..Len(allBoxes) : Plain(allBoxes[a])
      /\ \A a \in 1..Len(shuffledBoxes) : Plain(shuffledBoxes[a])
  BY DEF TInv, BInv, IInv, TypeOK, AsLoaded
<1>6. /\ \A a \in 1..Len(allBoxes') : Plain(allBoxes'[a])
      /\ \A a \in 1..Len(shuffledBoxes') : Plain(shuffledBoxes'[a])
  <2>1. CASE AddImage
    <3> DEFINE box == TruthOf(Len(allImages) + 1)
    <3>1. Plain(box) /\ box \in Boxes
      <4>1. allImages \in Seq(Image) /\ Len(allImages) < NumImages
        BY <2>1 DEF AddImage, MoreToLoad, TInv, BInv, IInv, TypeOK
      <4> QED BY <4>1, ConstantsAssumption DEF TruthOf, Plain, Boxes
    <3>2. allBoxes' = Append(allBoxes, box) /\ shuffledBoxes' = Append(shuffledBoxes, box)
      BY <2>1 DEF AddImage
    <3> HIDE DEF box
    <3>3. ASSUME NEW s \in Seq(Boxes), \A a \in 1..Len(s) : Plain(s[a])
          PROVE  \A a \in 1..Len(Append(s, box)) : Plain(Append(s, box)[a])
      BY <3>1, <3>3, AppendFacts
    <3> QED BY <1>5, <3>2, <3>3
  <2>2. CASE BeginSplit \/ EndShuffle
    BY <1>5, <2>2 DEF BeginSplit, EndShuffle, dataset
  <2>3. CASE ShuffleStep
    <3>1. /\ i \in 1..Len(allBoxes) /\ i \in 1..Len(shuffledBoxes)
          /\ randomIndex[i] \in 1..Len(allBoxes)
      <4>1. /\ pc # "load" /\ i <= Len(shuffledImages) /\ i \in Nat \ {0}
            /\ Len(shuffledImages) \in Nat
        BY <2>3 DEF ShuffleStep, TInv, BInv, IInv, TypeOK
      <4>2. randomIndex \in [1..Len(allImages) -> 1..Len(allImages)]
        BY <4>1 DEF TInv, BInv, IInv, Lengths, Permutations
      <4>3. Len(allBoxes) = Len(allImages) /\ Len(shuffledBoxes) = Len(allImages)
            /\ Len(shuffledImages) = Len(allImages)
        BY DEF TInv, BInv, IInv, Lengths
      <4> QED BY <4>1, <4>2, <4>3
    <3>2. /\ shuffledBoxes' = [shuffledBoxes EXCEPT ![i] = allBoxes[randomIndex[i]]]
          /\ allBoxes' = [allBoxes EXCEPT ![randomIndex[i]] = shuffledBoxes[i]]
      BY <2>3 DEF ShuffleStep, SwapBoxes
    <3>3. Plain(allBoxes[randomIndex[i]]) /\ Plain(shuffledBoxes[i])
      BY <1>5, <3>1
    <3>4. ASSUME NEW s \in Seq(Boxes), \A a \in 1..Len(s) : Plain(s[a]), NEW k \in 1..Len(s),
                 NEW x, Plain(x)
          PROVE  \A a \in 1..Len([s EXCEPT ![k] = x]) : Plain([s EXCEPT ![k] = x][a])
      BY <3>4
    <3> QED BY <1>5, <3>1, <3>2, <3>3, <3>4
  <2> QED BY <2>1, <2>2, <2>3
<1>7. AsLoaded'
  BY <1>1, <1>2, <1>6 DEF AsLoaded
<1> QED BY <1>3, <1>4, <1>7 DEF TInv

(* Steps that leave the folds alone, while the images are dealt and later. *)
LEMMA TQuiet ==
  ASSUME TInv, UNCHANGED <<allBoxes, shuffledImages, shuffledBoxes, iNumberOfFolds, foldedBoxes>>,
         pc' = "fold" => pc = "fold"
  PROVE  DealtInOrder' /\ AsLoaded'
<1>1. imagesPerFold' = imagesPerFold
  BY DEF imagesPerFold
<1> QED BY <1>1 DEF TInv, DealtInOrder, Dealt, AsLoaded

LEMMA TEnd == TInv /\ BInv' /\ (DivideByZero \/ EndSplit \/ NextC \/ NextEpsilon \/ EndGrid \/ Save) => TInv'
<1> SUFFICES ASSUME TInv, BInv', DivideByZero \/ EndSplit \/ NextC \/ NextEpsilon \/ EndGrid \/ Save
             PROVE  TInv'
  OBVIOUS
<1>1. /\ UNCHANGED <<allBoxes, shuffledImages, shuffledBoxes, iNumberOfFolds, foldedBoxes>>
      /\ pc' \in {"crashed", "grid", "done"}
  BY DEF DivideByZero, EndSplit, NextC, NextEpsilon, EndGrid, Save, dataset, folds
<1>2. Gathering'
  BY <1>1 DEF Gathering, InRound
<1> QED BY <1>1, <1>2, TQuiet DEF TInv

(* An image is dealt to the slot of the last fold that its number says. *)
LEMMA TFold == TInv /\ BInv' /\ FoldStep => TInv'
<1> SUFFICES ASSUME TInv, BInv', FoldStep PROVE TInv'
  OBVIOUS
<1> DEFINE w == imagesPerFold
           s == foldedBoxes
           n == Len(s)
           room == FoldsWithRoom(s)
           t == foldedBoxes'
           k == Len(t)
<1>1. /\ pc = "fold" /\ pc' = "fold" /\ i' = i + 1 /\ imagesPerFold > 0
      /\ i \in Nat \ {0} /\ i <= Len(shuffledImages)
      /\ t = PushLast(room, shuffledBoxes[i])
      /\ UNCHANGED <<allBoxes, shuffledBoxes, iNumberOfFolds>>
      /\ shuffledImages' = [shuffledImages EXCEPT ![i] = Blank]
  BY DEF FoldStep, TInv, BInv, IInv, TypeOK
<1>2. /\ s \in Seq(Seq(Boxes)) /\ n \in Nat /\ shuffledImages \in Seq(Image)
      /\ shuffledBoxes \in Seq(Boxes) /\ Len(shuffledBoxes) = Len(shuffledImages)
      /\ i \in 1..Len(shuffledBoxes)
  <2>1. /\ s \in Seq(Seq(Boxes)) /\ shuffledImages \in Seq(Image) /\ shuffledBoxes \in Seq(Boxes)
        /\ Len(shuffledBoxes) = Len(shuffledImages)
    BY DEF TInv, BInv, IInv, TypeOK, Lengths
  <2> QED BY <1>1, <2>1
<1>3. imagesPerFold' = w /\ w \in Nat \ {0}
  BY <1>1, <1>2, PerFold DEF imagesPerFold, TInv
<1>4. shuffledBoxes[i] \in Boxes /\ Plain(shuffledBoxes[i])
  BY <1>2 DEF TInv, AsLoaded
<1>5. /\ room \in Seq(Seq(Boxes)) /\ Len(room) > 0
      /\ \A f \in 1..Len(room) : \A a \in 1..Len(room[f]) :
           f \in 1..n /\ a \in 1..Len(s[f]) /\ room[f][a] = s[f][a]
  <2>1. /\ room \in Seq(Seq(Boxes))
        /\ OpensFold => /\ Len(room) = n + 1 /\ room[n + 1] = <<>>
                        /\ \A f \in 1..n : room[f] = s[f]
        /\ ~OpensFold => room = s
    BY <1>2, RoomFacts
  <2>2. n = 0 => OpensFold
    BY <1>1, OpensWhenFull DEF TInv
  <2>3. CASE OpensFold
    <3>1. 1..Len(room[n + 1]) = {}
      BY <2>1, <2>3
    <3>2. n \in Nat /\ Len(room) = n + 1 /\ \A f \in 1..n : room[f] = s[f]
      BY <1>2, <2>1, <2>3
    <3> HIDE DEF room, n
    <3>3. \A f \in 1..Len(room) : f = n + 1 \/ f \in 1..n
      BY <3>2
    <3>4. Len(room) > 0
      BY <3>2
    <3> HIDE DEF s
    <3> QED BY <2>1, <3>1, <3>2, <3>3, <3>4
  <2>4. CASE ~OpensFold
    BY <1>2, <2>1, <2>2, <2>4
  <2> QED BY <2>3, <2>4
<1>6. /\ k = Len(room) /\ k \in Nat \ {0}
      /\ \A f \in 1..k : \A a \in 1..Len(t[f]) :
           \/ a \in 1..Len(room[f]) /\ t[f][a] = room[f][a]
           \/ f = k /\ a = Len(t[k]) /\ t[f][a] = shuffledBoxes[i]
  <2> HIDE DEF room, s
  <2>1. Pushed(t, room, shuffledBoxes[i], Boxes)
    BY <1>1, <1>4, <1>5, PushLastFacts
  <2>2. k = Len(room) /\ k \in Nat \ {0} /\ t \in Seq(Seq(Boxes))
    BY <1>5, <2>1 DEF Pushed
  <2>3. ASSUME NEW f \in 1..k, NEW a \in 1..Len(t[f])
        PROVE  \/ a \in 1..Len(room[f]) /\ t[f][a] = room[f][a]
               \/ f = k /\ a = Len(t[k]) /\ t[f][a] = shuffledBoxes[i]
    <3>1. CASE f < k
      BY <2>1, <2>2, <3>1 DEF Pushed
    <3>2. CASE f = k
      <4>1. room[k] \in Seq(Boxes) /\ Len(room[k]) \in Nat
        BY <1>5, <2>2
      <4>2. /\ Len(t[k]) = Len(room[k]) + 1
            /\ \A b \in 1..Len(room[k]) : t[k][b] = room[k][b]
            /\ t[k][Len(room[k]) + 1] = shuffledBoxes[i]
        BY <2>1, <2>2 DEF Pushed
      <4> HIDE DEF t, k
      <4> QED BY <3>2, <4>1, <4>2
    <3> QED BY <2>2, <3>1, <3>2
  <2> QED BY <2>2, <2>3
<1>7. i = (k - 1) * w + Len(t[k])
  <2>1. Len(t) # 0 /\ i' - 1 = i
    BY <1>1, <1>6
  <2> QED BY <1>1, <1>3, <2>1 DEF BInv, FoldsSoFar
<1>8. \A f \in 1..n : \A a \in 1..Len(s[f]) :
        /\ (f - 1) * w + a <= Len(shuffledBoxes)
        /\ s[f][a].src = shuffledBoxes[(f - 1) * w + a].src
        /\ Plain(s[f][a])
  BY <1>1 DEF TInv, DealtInOrder, Dealt, AsLoaded
<1>9. ASSUME NEW f \in 1..k, NEW a \in 1..Len(t[f])
      PROVE  /\ (f - 1) * w + a <= Len(shuffledBoxes)
             /\ t[f][a].src = shuffledBoxes[(f - 1) * w + a].src
             /\ Plain(t[f][a])
  <2> HIDE DEF t, k, w, s, room
  <2>1. CASE a \in 1..Len(room[f]) /\ t[f][a] = room[f][a]
    <3>1. f \in 1..n /\ a \in 1..Len(s[f]) /\ t[f][a] = s[f][a]
      BY <1>5, <1>6, <2>1
    <3> QED BY <1>8, <3>1
  <2>2. CASE f = k /\ a = Len(t[k]) /\ t[f][a] = shuffledBoxes[i]
    <3>1. (f - 1) * w + a = i
      BY <1>7, <2>2
    <3> QED BY <1>2, <1>4, <2>2, <3>1
  <2> QED BY <1>6, <2>1, <2>2
<1>10. DealtInOrder'
  <2>1. NumImages # 0
    BY <1>1, <1>2, PerFold DEF TInv
  <2> QED BY <1>1, <1>3, <1>9, <2>1 DEF DealtInOrder, Dealt
<1>11. AsLoaded'
  BY <1>1, <1>9 DEF AsLoaded, TInv
<1>12. Gathering'
  BY <1>1 DEF Gathering, InRound
<1> QED BY <1>10, <1>11, <1>12 DEF TInv

-----------------------------------------------------------------------------
(* Steps of a round that leave the folds but the test fold alone. *)
LEMMA TTestFold ==
  ASSUME TInv, InRound, pc' # "fold",
         UNCHANGED <<allBoxes, shuffledImages, shuffledBoxes, iNumberOfFolds>>,
         Len(foldedBoxes') = Len(foldedBoxes),
         \A f \in 1..Len(foldedBoxes) :
           /\ f > 1 => foldedBoxes'[f] = foldedBoxes[f]
           /\ Len(foldedBoxes'[f]) = Len(foldedBoxes[f])
           /\ \A a \in 1..Len(foldedBoxes[f]) :
                foldedBoxes'[f][a].src = foldedBoxes[f][a].src
  PROVE  DealtInOrder' /\ AsLoaded'
<1>1. imagesPerFold' = imagesPerFold
  BY DEF imagesPerFold
<1>2. DealtInOrder'
  BY <1>1 DEF TInv, DealtInOrder, Dealt
<1>3. AsLoaded'
  BY DEF TInv, AsLoaded
<1> QED BY <1>2, <1>3

(* Where a session gets its images from does not change while it runs. *)
LEMMA SourcesStay ==
  ASSUME UNCHANGED <<shuffledImages, shuffledBoxes, iNumberOfFolds, skippedFold>>
  PROVE  /\ imagesPerFold' = imagesPerFold /\ Used' = Used /\ DealtSources' = DealtSources
         /\ \A f, a : Dealt(f, a)' = Dealt(f, a)
BY DEF imagesPerFold, Used, Dealt, DealtSources

(* Steps that neither gather nor mirror: the boxes in the training data stay
   those of the same images. *)
LEMMA TSameData ==
  ASSUME TInv, InRound, InRound',
         UNCHANGED <<shuffledImages, shuffledBoxes, iNumberOfFolds, skippedFold, i, j>>,
         pc \in {"removeTraining", "removeTest", "train"}
           <=> pc' \in {"removeTraining", "removeTest", "train", "save"},
         pc # "save",
         pc' \notin {"combine", "copyback"} =>
           i > iNumberOfFolds \/ pc \notin {"combine", "copyback"},
         Len(currentBoxes') = Len(currentBoxes),
         \A x \in 1..Len(currentBoxes) :
           /\ currentBoxes'[x].src = currentBoxes[x].src
           /\ currentBoxes'[x].flip = currentBoxes[x].flip
           /\ currentBoxes'[x].up <= (IF InOrder' THEN 0 ELSE 1)
  PROVE  Gathering'
<1>1. /\ imagesPerFold' = imagesPerFold /\ Used' = Used /\ DealtSources' = DealtSources
      /\ \A f, a : Dealt(f, a)' = Dealt(f, a)
  BY SourcesStay
<1>2. HasMirrors' = HasMirrors
  BY <1>1 DEF HasMirrors
<1>3. \A f, a : Gathered(f, a)' = Gathered(f, a)
  BY DEF Gathered
<1>4. Once /\ FromUsed /\ AllGathered /\ (pc \notin {"combine", "copyback"} => i > iNumberOfFolds)
  BY DEF TInv, Gathering
<1>5. Once'
  BY <1>4 DEF Once
<1>6. FromUsed'
  <2> SUFFICES ASSUME NEW x \in 1..Len(currentBoxes)
               PROVE  /\ \E f \in Used : \E a \in 1..imagesPerFold :
                           Gathered(f, a) /\ currentBoxes'[x].src = Dealt(f, a)
                      /\ currentBoxes'[x].flip => HasMirrors
                      /\ currentBoxes'[x].up <= (IF InOrder' THEN 0 ELSE 1)
    BY <1>1, <1>2, <1>3 DEF FromUsed
  <2> QED BY <1>4 DEF FromUsed
<1>7. AllGathered'
  <2> SUFFICES ASSUME NEW f \in Used, NEW a \in 1..imagesPerFold, Gathered(f, a),
                      NEW m \in BOOLEAN, m => HasMirrors
               PROVE  \E x \in 1..Len(currentBoxes') :
                        currentBoxes'[x].src = Dealt(f, a) /\ currentBoxes'[x].flip = m
    BY <1>1, <1>2, <1>3 DEF AllGathered
  <2>1. PICK x \in 1..Len(currentBoxes) :
          currentBoxes[x].src = Dealt(f, a) /\ currentBoxes[x].flip = m
    BY <1>4 DEF AllGathered
  <2> QED BY <2>1
<1> QED BY <1>4, <1>5, <1>6, <1>7 DEF Gathering

LEMMA TBegin == TInv /\ BInv' /\ BeginSession => TInv'
<1> SUFFICES ASSUME TInv, BInv', BeginSession PROVE TInv'
  OBVIOUS
<1>1. /\ pc' = "combine" /\ currentBoxes' = <<>> /\ i' = 1 /\ j' = 1
      /\ UNCHANGED <<allBoxes, shuffledImages, shuffledBoxes, iNumberOfFolds, foldedBoxes>>
  BY DEF BeginSession, dataset, folds
<1>2. 1..Len(currentBoxes') = {}
  BY <1>1
<1>3. Once' /\ FromUsed'
  BY <1>2 DEF Once, FromUsed
<1>4. \A f \in Used' : \A a \in (1..imagesPerFold)' : ~Gathered(f, a)'
  <2>1. \A f \in Used' : f \in Nat \ {0}
    <3>1. iNumberOfFolds' \in Nat
      BY DEF BInv, IInv, TypeOK
    <3> QED BY <3>1 DEF Used
  <2>2. imagesPerFold' \in Nat
    BY <1>1, PerFold DEF BeginSession, TInv, imagesPerFold
  <2> QED BY <1>1, <2>1, <2>2 DEF Gathered
<1>5. AllGathered'
  BY <1>4 DEF AllGathered
<1> QED BY <1>1, <1>3, <1>5, TQuiet DEF TInv, Gathering

(* When a fold is used up, or skipped, all of it that is used is gathered. *)
LEMMA TNextFold == TInv /\ BInv' /\ NextFold => TInv'
<1> SUFFICES ASSUME TInv, BInv', NextFold PROVE TInv'
  OBVIOUS
<1>1. /\ pc = "combine" /\ pc' = "combine" /\ i' = i + 1 /\ j' = 1 /\ i <= Folded
      /\ Skips \/ j > Len(foldedImages[i + 1])
      /\ UNCHANGED <<allBoxes, shuffledImages, shuffledBoxes, iNumberOfFolds, foldedBoxes,
                     skippedFold, currentBoxes>>
  BY DEF NextFold, dataset, folds, current, grid
<1>2. NumImages > 0 /\ SplitOver
  BY <1>1, RoundHasImages DEF InRound
<1>3. /\ iNumberOfFolds \in Nat /\ imagesPerFold \in Nat /\ i \in Nat \ {0} /\ j \in Nat \ {0}
      /\ skippedFold \in Nat
  BY <1>2, PerFold DEF TInv, SplitOver, BInv, IInv, TypeOK
<1>4. i \in 1..iNumberOfFolds
  <2>1. Len(foldedImages) = iNumberOfFolds + 1
    BY <1>2 DEF TInv, BInv, IInv, Lengths, FoldsFull
  <2> QED BY <1>1, <1>3, <2>1 DEF Folded
<1>5. ~Skips => j > imagesPerFold
  <2> SUFFICES ASSUME ~Skips PROVE j > imagesPerFold
    OBVIOUS
  <2>1. Len(foldedBoxes) = iNumberOfFolds + 1 /\ i + 1 \in 1..Len(foldedBoxes)
    BY <1>2, <1>3, <1>4 DEF TInv, BInv, FoldsFull
  <2>2. Len(foldedBoxes[i + 1]) = imagesPerFold
    BY <1>2, <2>1 DEF TInv, BInv, FoldsFull
  <2>3. Len(foldedImages[i + 1]) = Len(foldedBoxes[i + 1])
    BY <2>1 DEF TInv, BInv, IInv, Lengths
  <2> QED BY <1>1, <2>2, <2>3
<1>6. /\ imagesPerFold' = imagesPerFold /\ Used' = Used /\ DealtSources' = DealtSources
      /\ \A f, a : Dealt(f, a)' = Dealt(f, a)
  BY <1>1, SourcesStay
<1>7. \A f \in Used : \A a \in 1..imagesPerFold : Gathered(f, a)' <=> Gathered(f, a)
  <2> SUFFICES ASSUME NEW f \in Used, NEW a \in 1..imagesPerFold
               PROVE  f < i + 1 \/ (f = i + 1 /\ a < 1) <=> f < i \/ (f = i /\ a < j)
    BY <1>1 DEF Gathered
  <2>1. f \in Nat /\ f # skippedFold /\ a \in Nat /\ a >= 1 /\ a <= imagesPerFold
    BY <1>3 DEF Used
  <2>2. f = i => a < j
    BY <1>3, <1>5, <2>1 DEF Skips
  <2> QED BY <1>3, <2>1, <2>2
<1>8. ~HasMirrors /\ ~HasMirrors' /\ InOrder /\ InOrder'
  BY <1>1 DEF HasMirrors, InOrder
<1>9. Once /\ FromUsed /\ AllGathered
  BY <1>1 DEF TInv, Gathering, InRound
<1>10. Once'
  BY <1>1, <1>9 DEF Once
<1>11. FromUsed'
  BY <1>1, <1>6, <1>7, <1>8, <1>9 DEF FromUsed
<1>12. AllGathered'
  BY <1>1, <1>6, <1>7, <1>8, <1>9 DEF AllGathered
<1> QED BY <1>1, <1>10, <1>11, <1>12, TQuiet DEF TInv, Gathering

(* The boxes of the next image join the training data.  No box there is of this
   image, because the slot it was dealt from is no gathered one. *)
LEMMA TCopyBack == TInv /\ BInv' /\ CopyBack => TInv'
<1> SUFFICES ASSUME TInv, BInv', CopyBack PROVE TInv'
  OBVIOUS
<1> DEFINE n == Len(currentBoxes)
           b == foldedBoxes[i + 1][j]
<1>1. /\ pc = "copyback" /\ pc' = "combine" /\ j' = j + 1
      /\ currentBoxes' = Append(currentBoxes, b)
      /\ UNCHANGED <<allBoxes, shuffledImages, shuffledBoxes, iNumberOfFolds, foldedBoxes,
                     skippedFold, i>>
  BY DEF CopyBack, dataset, grid
<1>2. NumImages > 0 /\ SplitOver
  BY <1>1, RoundHasImages DEF InRound
<1>3. /\ iNumberOfFolds \in Nat /\ imagesPerFold \in Nat /\ i \in Nat \ {0} /\ j \in Nat \ {0}
      /\ currentBoxes \in Seq(Boxes) /\ n \in Nat
  <2>1. iNumberOfFolds \in Nat /\ imagesPerFold \in Nat
    BY <1>2, PerFold DEF TInv, SplitOver
  <2>2. i \in Nat \ {0} /\ j \in Nat \ {0} /\ currentBoxes \in Seq(Boxes)
    BY DEF TInv, BInv, IInv, TypeOK
  <2> QED BY <2>1, <2>2
<1>4. i \in Used /\ i \in 1..iNumberOfFolds /\ j \in 1..imagesPerFold
  <2>1. i + 1 <= Len(foldedImages) /\ i # skippedFold /\ j <= Len(foldedImages[i + 1])
    BY <1>1 DEF TInv, BInv, IInv, Control
  <2>2. Len(foldedImages) = iNumberOfFolds + 1 /\ Len(foldedBoxes) = Len(foldedImages)
    BY <1>2 DEF TInv, BInv, IInv, Lengths, FoldsFull
  <2>3. i \in 1..iNumberOfFolds /\ i + 1 \in 1..Len(foldedBoxes)
    BY <1>3, <2>1, <2>2
  <2>4. Len(foldedBoxes[i + 1]) = imagesPerFold
    BY <1>2, <2>3 DEF TInv, BInv, FoldsFull
  <2>5. Len(foldedImages[i + 1]) = Len(foldedBoxes[i + 1])
    BY <2>2, <2>3 DEF TInv, BInv, IInv, Lengths
  <2> QED BY <1>3, <2>1, <2>3, <2>4, <2>5 DEF Used
<1>5. b.src = Dealt(i, j) /\ Plain(b) /\ b \in Boxes
  <2>1. /\ i + 1 \in 1..Len(foldedBoxes) /\ j \in 1..Len(foldedBoxes[i + 1])
        /\ b.src = Dealt(i, j) /\ Plain(b)
    BY <1>2, <1>4, DealtFold
  <2>2. foldedBoxes \in Seq(Seq(Boxes))
    BY DEF TInv, BInv, IInv, TypeOK
  <2> QED BY <2>1, <2>2
<1> HIDE DEF b
<1>6. /\ Len(currentBoxes') = n + 1 /\ currentBoxes'[n + 1] = b
      /\ \A x \in 1..n : currentBoxes'[x] = currentBoxes[x]
      /\ \A x \in 1..(n + 1) : x \in 1..n \/ x = n + 1
      /\ \A x \in 1..n : x \in 1..(n + 1) /\ x # n + 1
      /\ n + 1 \in 1..(n + 1)
  <2>1. /\ Len(currentBoxes') = n + 1 /\ currentBoxes'[n + 1] = b
        /\ \A x \in 1..n : currentBoxes'[x] = currentBoxes[x]
    BY <1>1, <1>3, <1>5, AppendFacts
  <2> HIDE DEF n
  <2> QED BY <1>3, <2>1
<1> HIDE DEF n
<1>7. /\ imagesPerFold' = imagesPerFold /\ Used' = Used /\ DealtSources' = DealtSources
      /\ \A f, a : Dealt(f, a)' = Dealt(f, a)
  BY <1>1, SourcesStay
<1>8. /\ \A f, a : Gathered(f, a) <=> f < i \/ (f = i /\ a < j)
      /\ \A f, a : Gathered(f, a)' <=> f < i \/ (f = i /\ a < j + 1)
  BY <1>1 DEF Gathered
<1>9. /\ ~Gathered(i, j)
      /\ \A f, a : f = i /\ a = j => Gathered(f, a)'
      /\ \A f \in Used : \A a \in 1..imagesPerFold :
           /\ Gathered(f, a) => Gathered(f, a)'
           /\ Gathered(f, a)' => Gathered(f, a) \/ (f = i /\ a = j)
  <2>1. Used \subseteq Nat /\ \A a \in 1..imagesPerFold : a \in Nat
    BY <1>3 DEF Used
  <2>2. /\ ~Gathered(i, j)
        /\ \A f, a : f = i /\ a = j => Gathered(f, a)'
    BY <1>3, <1>8
  <2>3. ASSUME NEW f \in Nat, NEW a \in Nat
        PROVE  /\ Gathered(f, a) => Gathered(f, a)'
               /\ Gathered(f, a)' => Gathered(f, a) \/ (f = i /\ a = j)
    <3>1. a < j + 1 <=> a < j \/ a = j
      BY <1>3
    <3> QED BY <1>8, <3>1
  <2> QED BY <2>1, <2>2, <2>3
<1>10. ~HasMirrors /\ ~HasMirrors' /\ InOrder /\ InOrder'
  BY <1>1 DEF HasMirrors, InOrder
<1>11. Once /\ FromUsed /\ AllGathered
  BY <1>1 DEF TInv, Gathering, InRound
<1>12. \A x \in 1..n : currentBoxes[x].src # b.src
  <2> SUFFICES ASSUME NEW x \in 1..n, currentBoxes[x].src = b.src PROVE FALSE
    OBVIOUS
  <2>1. PICK f \in Used, a \in 1..imagesPerFold :
          Gathered(f, a) /\ currentBoxes[x].src = Dealt(f, a)
    BY <1>11 DEF FromUsed, n
  <2>2. f \in 1..iNumberOfFolds /\ Dealt(f, a) = Dealt(i, j)
    BY <1>5, <2>1 DEF Used
  <2>3. f = i /\ a = j
    BY <1>2, <1>4, <2>2, DealtApart
  <2> QED BY <1>9, <2>1, <2>3
<1>13. Once'
  BY <1>6, <1>11, <1>12 DEF Once, n
<1>14. FromUsed'
  <2> SUFFICES ASSUME NEW x \in 1..(n + 1)
               PROVE  /\ \E f \in Used : \E a \in 1..imagesPerFold :
                           Gathered(f, a)' /\ currentBoxes'[x].src = Dealt(f, a)
                      /\ ~currentBoxes'[x].flip /\ currentBoxes'[x].up <= 0
    BY <1>6, <1>7, <1>10 DEF FromUsed
  <2>1. CASE x = n + 1
    <3>1. currentBoxes'[x] = b /\ ~b.flip /\ b.up <= 0
      BY <1>5, <1>6, <2>1 DEF Plain
    <3>2. ASSUME NEW f, NEW a, f = i, a = j
          PROVE  Gathered(f, a)' /\ b.src = Dealt(f, a)
      BY <1>5, <1>9, <3>2
    <3>3. \E f \in Used : \E a \in 1..imagesPerFold : f = i /\ a = j
      BY <1>4
    <3> QED BY <3>1, <3>2, <3>3
  <2>2. CASE x \in 1..n
    <3>1. PICK f \in Used, a \in 1..imagesPerFold :
            Gathered(f, a) /\ currentBoxes[x].src = Dealt(f, a)
      BY <1>11, <2>2 DEF FromUsed, n
    <3>2. ~currentBoxes[x].flip /\ currentBoxes[x].up <= 0
      BY <1>10, <1>11, <2>2 DEF FromUsed, n
    <3> QED BY <1>6, <1>9, <2>2, <3>1, <3>2
  <2> QED BY <1>6, <2>1, <2>2
<1>15. AllGathered'
  <2> SUFFICES ASSUME NEW f \in Used, NEW a \in 1..imagesPerFold, Gathered(f, a)',
                      NEW m \in BOOLEAN, ~m
               PROVE  \E x \in 1..(n + 1) :
                        currentBoxes'[x].src = Dealt(f, a) /\ currentBoxes'[x].flip = m
    BY <1>6, <1>7, <1>10 DEF AllGathered
  <2>1. CASE Gathered(f, a)
    <3>1. PICK x \in 1..n : currentBoxes[x].src = Dealt(f, a) /\ currentBoxes[x].flip = m
      BY <1>11, <2>1 DEF AllGathered, n
    <3> QED BY <1>6, <3>1
  <2>2. CASE f = i /\ a = j
    <3>1. b.flip = FALSE /\ m = FALSE
      BY <1>5 DEF Plain, Boxes
    <3> QED BY <1>5, <1>6, <2>2, <3>1
  <2> QED BY <1>9, <2>1, <2>2
<1> QED BY <1>1, <1>13, <1>14, <1>15, TQuiet DEF TInv, Gathering

LEMMA TQuietRound ==
  TInv /\ BInv' /\ (PushImage \/ EndCombine \/ TrainAndEvaluate) => TInv'
<1> SUFFICES ASSUME TInv, BInv', PushImage \/ EndCombine \/ TrainAndEvaluate PROVE TInv'
  OBVIOUS
<1>1. /\ UNCHANGED <<allBoxes, shuffledImages, shuffledBoxes, iNumberOfFolds, foldedBoxes,
                     skippedFold, i, j, currentBoxes>>
      /\ \/ pc = "combine" /\ pc' = "copyback"
         \/ pc = "combine" /\ pc' = "upsample" /\ i > Folded
         \/ pc = "train" /\ pc' = "save"
  BY DEF PushImage, EndCombine, TrainAndEvaluate, dataset, folds, current, grid
<1>2. InRound /\ InRound' /\ pc' # "fold"
  BY <1>1 DEF InRound
<1>3. Folded = iNumberOfFolds /\ iNumberOfFolds \in Nat /\ i \in Nat
  <2>1. NumImages > 0 /\ SplitOver
    BY <1>2, RoundHasImages
  <2>2. iNumberOfFolds \in Nat /\ i \in Nat
    BY DEF TInv, BInv, IInv, TypeOK
  <2>3. Len(foldedImages) = iNumberOfFolds + 1
    BY <2>1 DEF TInv, BInv, IInv, Lengths, FoldsFull
  <2> QED BY <2>2, <2>3 DEF Folded
<1>4. \A x \in 1..Len(currentBoxes) : currentBoxes[x].up <= (IF InOrder' THEN 0 ELSE 1)
  <2>1. \A x \in 1..Len(currentBoxes) : currentBoxes[x].up <= (IF InOrder THEN 0 ELSE 1)
    BY <1>2 DEF TInv, Gathering, FromUsed
  <2>2. InOrder' = InOrder
    BY <1>1 DEF InOrder
  <2> QED BY <2>1, <2>2
<1>5. Gathering'
  BY <1>1, <1>2, <1>3, <1>4, TSameData
<1> QED BY <1>1, <1>2, <1>5, TQuiet DEF TInv

LEMMA TUpsample == TInv /\ BInv' /\ Upsample => TInv'
<1> SUFFICES ASSUME TInv, BInv', Upsample PROVE TInv'
  OBVIOUS
<1>1. /\ pc = "upsample" /\ pc' = "flip"
      /\ UNCHANGED <<allBoxes, shuffledImages, shuffledBoxes, iNumberOfFolds, skippedFold, i, j>>
      /\ InRound /\ InRound' /\ ~InOrder' /\ InOrder
  BY DEF Upsample, dataset, grid, InRound, InOrder
<1>2. /\ foldedBoxes \in Seq(Seq(Boxes)) /\ currentBoxes \in Seq(Boxes)
      /\ 1 \in 1..Len(foldedBoxes)
  <2>1. skippedFold \in Nat \ {0} /\ skippedFold < Len(foldedImages)
        /\ Len(foldedBoxes) = Len(foldedImages)
    BY <1>1 DEF TInv, BInv, IInv, TypeOK, Control, Lengths
  <2>2. foldedBoxes \in Seq(Seq(Boxes)) /\ currentBoxes \in Seq(Boxes)
    BY DEF TInv, BInv, IInv, TypeOK
  <2> QED BY <2>1, <2>2
<1>3. /\ Len(foldedBoxes') = Len(foldedBoxes)
      /\ \A f \in 1..Len(foldedBoxes) :
           /\ f > 1 => foldedBoxes'[f] = foldedBoxes[f]
           /\ Len(foldedBoxes'[f]) = Len(foldedBoxes[f])
           /\ \A a \in 1..Len(foldedBoxes[f]) :
                foldedBoxes'[f][a].src = foldedBoxes[f][a].src
  <2>1. CASE UpsampleTest
    <3> DEFINE u == Upsampled(foldedBoxes[1])
    <3>1. foldedBoxes' = [foldedBoxes EXCEPT ![1] = u]
      BY <2>1 DEF Upsample
    <3>2. /\ u \in Seq(Boxes) /\ Len(u) = Len(foldedBoxes[1])
          /\ \A a \in 1..Len(foldedBoxes[1]) : u[a].src = foldedBoxes[1][a].src
      BY <1>2, UpsampledBoxes
    <3> HIDE DEF u
    <3>3. foldedBoxes'[1] = u /\ Len(foldedBoxes') = Len(foldedBoxes)
          /\ \A f \in 1..Len(foldedBoxes) : f # 1 => foldedBoxes'[f] = foldedBoxes[f]
      BY <1>2, <3>1
    <3> QED BY <3>2, <3>3
  <2>2. CASE ~UpsampleTest
    BY <2>2 DEF Upsample
  <2> QED BY <2>1, <2>2
<1>4. /\ Len(currentBoxes') = Len(currentBoxes)
      /\ \A x \in 1..Len(currentBoxes) :
           /\ currentBoxes'[x].src = currentBoxes[x].src
           /\ currentBoxes'[x].flip = currentBoxes[x].flip
           /\ currentBoxes'[x].up <= 1
  <2>1. \A x \in 1..Len(currentBoxes) : currentBoxes[x].up = 0
    <3>1. \A x \in 1..Len(currentBoxes) : currentBoxes[x].up <= 0
      BY <1>1 DEF TInv, Gathering, FromUsed
    <3>2. \A x \in 1..Len(currentBoxes) : currentBoxes[x] \in Boxes
      BY <1>2
    <3>3. \A b \in Boxes : b.up \in Nat /\ (b.up <= 0 => b.up = 0)
      BY DEF Boxes
    <3> QED BY <3>1, <3>2, <3>3
  <2>2. CASE UpsampleTraining
    <3>1. currentBoxes' = Upsampled(currentBoxes)
      BY <2>2 DEF Upsample
    <3>2. /\ Len(currentBoxes') = Len(currentBoxes)
          /\ \A x \in 1..Len(currentBoxes) :
               /\ currentBoxes'[x].src = currentBoxes[x].src
               /\ currentBoxes'[x].flip = currentBoxes[x].flip
               /\ currentBoxes'[x].up = currentBoxes[x].up + 1
      BY <1>2, <3>1, UpsampledBoxes
    <3> QED BY <2>1, <3>2
  <2>3. CASE ~UpsampleTraining
    BY <2>1, <2>3 DEF Upsample
  <2> QED BY <2>2, <2>3
<1>5. Gathering'
  BY <1>1, <1>4, TSameData
<1>6. DealtInOrder' /\ AsLoaded'
  BY <1>1, <1>3, TTestFold
<1> QED BY <1>5, <1>6 DEF TInv

(* Boxes that no scanner window can obtain are lost, not their images. *)
LEMMA TRemove == TInv /\ BInv' /\ (RemoveFromTraining \/ RemoveFromTest) => TInv'
<1> SUFFICES ASSUME TInv, BInv', RemoveFromTraining \/ RemoveFromTest PROVE TInv'
  OBVIOUS
<1>1. /\ pc \in {"removeTraining", "removeTest"} /\ pc' \in {"removeTest", "train"}
      /\ UNCHANGED <<allBoxes, shuffledImages, shuffledBoxes, iNumberOfFolds, skippedFold, i, j>>
      /\ InRound /\ InRound' /\ ~InOrder /\ ~InOrder'
  <2>1. /\ pc \in {"removeTraining", "removeTest"} /\ pc' \in {"removeTest", "train"}
        /\ UNCHANGED <<dataset, skippedFold, i, j>>
    BY DEF RemoveFromTraining, RemoveFromTest, grid
  <2> QED BY <2>1 DEF dataset, InRound, InOrder
<1>2. /\ foldedBoxes \in Seq(Seq(Boxes)) /\ currentBoxes \in Seq(Boxes)
      /\ 1 \in 1..Len(foldedBoxes)
  <2>1. skippedFold \in Nat \ {0} /\ skippedFold < Len(foldedImages)
        /\ Len(foldedBoxes) = Len(foldedImages)
    BY <1>1 DEF TInv, BInv, IInv, TypeOK, Control, Lengths
  <2>2. foldedBoxes \in Seq(Seq(Boxes)) /\ currentBoxes \in Seq(Boxes)
    BY DEF TInv, BInv, IInv, TypeOK
  <2> QED BY <2>1, <2>2
<1>3. ASSUME NEW s \in Seq(Boxes), NEW U
      PROVE  /\ Without(s, U) = [a \in 1..Len(s) |-> Without(s, U)[a]]
             /\ Len(Without(s, U)) = Len(s)
             /\ \A a \in 1..Len(s) : /\ Without(s, U)[a].src = s[a].src
                                     /\ Without(s, U)[a].flip = s[a].flip
                                     /\ Without(s, U)[a].up = s[a].up
  <2>1. Without(s, U) = [a \in 1..Len(s) |-> [s[a] EXCEPT !.lost = @ \/ s[a].src \in U]]
    BY DEF Without
  <2>2. \A a \in 1..Len(s) : s[a] \in Boxes
    OBVIOUS
  <2>3. Len(Without(s, U)) = Len(s)
    BY <2>1
  <2> QED BY <2>1, <2>2, <2>3 DEF Boxes
<1>4. /\ Len(currentBoxes') = Len(currentBoxes)
      /\ \A x \in 1..Len(currentBoxes) :
           /\ currentBoxes'[x].src = currentBoxes[x].src
           /\ currentBoxes'[x].flip = currentBoxes[x].flip
           /\ currentBoxes'[x].up = currentBoxes[x].up
  <2>1. CASE RemoveFromTraining
    BY <1>2, <1>3, <2>1 DEF RemoveFromTraining
  <2>2. CASE RemoveFromTest
    BY <2>2 DEF RemoveFromTest, current
  <2> QED BY <2>1, <2>2
<1>5. /\ Len(foldedBoxes') = Len(foldedBoxes)
      /\ \A f \in 1..Len(foldedBoxes) :
           /\ f > 1 => foldedBoxes'[f] = foldedBoxes[f]
           /\ Len(foldedBoxes'[f]) = Len(foldedBoxes[f])
           /\ \A a \in 1..Len(foldedBoxes[f]) :
                foldedBoxes'[f][a].src = foldedBoxes[f][a].src
  <2>1. CASE RemoveFromTraining
    BY <2>1 DEF RemoveFromTraining, folds
  <2>2. CASE RemoveFromTest
    <3>1. PICK U \in SUBSET Doubtful :
            foldedBoxes' = [foldedBoxes EXCEPT ![1] = Without(foldedBoxes[1], U)]
      BY <2>2 DEF RemoveFromTest
    <3> DEFINE u == Without(foldedBoxes[1], U)
    <3>2. /\ Len(u) = Len(foldedBoxes[1])
          /\ \A a \in 1..Len(foldedBoxes[1]) : u[a].src = foldedBoxes[1][a].src
      <4>1. foldedBoxes[1] \in Seq(Boxes)
        BY <1>2
      <4> QED BY <1>3, <4>1
    <3>3. u \in Seq(Boxes)
      BY <1>2, WithoutBoxes
    <3> HIDE DEF u
    <3>4. foldedBoxes'[1] = u /\ Len(foldedBoxes') = Len(foldedBoxes)
          /\ \A f \in 1..Len(foldedBoxes) : f # 1 => foldedBoxes'[f] = foldedBoxes[f]
      BY <1>2, <3>1, <3>3 DEF u
    <3> QED BY <3>2, <3>4
  <2> QED BY <2>1, <2>2
<1>6. \A x \in 1..Len(currentBoxes) : currentBoxes[x].up <= 1
  BY <1>1 DEF TInv, Gathering, FromUsed
<1>7. Gathering'
  <2>1. /\ pc \in {"removeTraining", "removeTest", "train"}
        /\ pc' \in {"removeTraining", "removeTest", "train", "save"}
        /\ pc # "save" /\ pc \notin {"combine", "copyback"}
    BY <1>1
  <2> QED BY <1>1, <1>4, <1>6, <2>1, TSameData
<1>8. DealtInOrder' /\ AsLoaded'
  BY <1>1, <1>5, TTestFold
<1> QED BY <1>7, <1>8 DEF TInv

(* Once all is gathered there are as many images as were dealt to the folds in
   use, so the code's count of the training images is theirs. *)
LEMMA AllCounted ==
  ASSUME TInv, pc \in {"upsample", "flip"}
  PROVE  /\ IsFiniteSet(DealtSources) /\ Cardinality(DealtSources) = Len(currentBoxes)
         /\ \A f \in Used : \A a \in 1..imagesPerFold : Gathered(f, a)
<1> DEFINE n == Len(currentBoxes)
           source == [x \in 1..n |-> currentBoxes[x].src]
<1>1. Once /\ FromUsed /\ AllGathered /\ i > iNumberOfFolds /\ ~HasMirrors
  BY DEF TInv, Gathering, InRound, HasMirrors
<1>2. n \in Nat /\ \A x \in 1..n : currentBoxes[x] \in Boxes
  BY DEF TInv, BInv, IInv, TypeOK
<1>3. \A f \in Used : \A a \in 1..imagesPerFold : Gathered(f, a)
  BY <1>1 DEF Gathered, Used, TInv, BInv, IInv, TypeOK
<1>4. \A x \in 1..n : currentBoxes[x].flip = FALSE
  BY <1>1, <1>2 DEF FromUsed, Boxes
<1>5. \A x, y \in 1..n : source[x] = source[y] => x = y
  BY <1>1, <1>4 DEF Once
<1>6. \A x \in 1..n : source[x] \in DealtSources
  BY <1>1 DEF FromUsed, DealtSources
<1>7. \A s \in DealtSources : \E x \in 1..n : source[x] = s
  <2> SUFFICES ASSUME NEW f \in Used, NEW a \in 1..imagesPerFold
               PROVE  \E x \in 1..n : source[x] = Dealt(f, a)
    BY DEF DealtSources
  <2>1. \E x \in 1..n : currentBoxes[x].src = Dealt(f, a) /\ currentBoxes[x].flip = FALSE
    BY <1>1, <1>3 DEF AllGathered
  <2> QED BY <2>1
<1>8. source \in Bijection(1..n, DealtSources)
  <2>1. source \in [1..n -> DealtSources]
    BY <1>6
  <2> HIDE DEF source, n
  <2> QED BY <1>5, <1>7, <2>1 DEF Bijection, Injection, Surjection, IsInjective
<1>9. IsFiniteSet(1..n) /\ Cardinality(1..n) = n
  <2> HIDE DEF n
  <2> QED BY <1>2, FS_Interval
<1> HIDE DEF source, n
<1>10. IsFiniteSet(DealtSources) /\ Cardinality(DealtSources) = n
  BY <1>8, <1>9, FS_Bijection DEF ExistsBijection
<1> QED BY <1>3, <1>10 DEF n

(* When there are few images, each gets its mirror image. *)
LEMMA TFlip == TInv /\ BInv' /\ Flip => TInv'
<1> SUFFICES ASSUME TInv, BInv', Flip PROVE TInv'
  OBVIOUS
<1> DEFINE n == Len(currentBoxes)
           v == Mirrored(currentBoxes)
<1>1. /\ pc = "flip" /\ pc' = "removeTraining"
      /\ UNCHANGED <<allBoxes, shuffledImages, shuffledBoxes, iNumberOfFolds, foldedBoxes,
                     skippedFold, i, j>>
      /\ InRound /\ InRound' /\ ~InOrder /\ ~InOrder'
  BY DEF Flip, dataset, folds, grid, InRound, InOrder
<1>2. /\ imagesPerFold' = imagesPerFold /\ Used' = Used /\ DealtSources' = DealtSources
      /\ \A f, a : Dealt(f, a)' = Dealt(f, a)
  BY <1>1, SourcesStay
<1>3. \A f, a : Gathered(f, a)' = Gathered(f, a)
  BY <1>1 DEF Gathered
<1>4. Once /\ FromUsed /\ AllGathered /\ i > iNumberOfFolds /\ ~HasMirrors
  BY <1>1 DEF TInv, Gathering, HasMirrors
<1>5. /\ currentBoxes \in Seq(Boxes) /\ n \in Nat /\ Len(currentImages) = n
      /\ \A x \in 1..n : currentBoxes[x] \in Boxes
  <2>1. currentBoxes \in Seq(Boxes) /\ Len(currentImages) = n
    BY <1>1 DEF TInv, BInv, IInv, TypeOK, Agreement
  <2> QED BY <2>1
<1>6. HasMirrors' <=> n < FlipBelow
  <2>1. Cardinality(DealtSources) = n
    BY <1>1, AllCounted
  <2> QED BY <1>1, <1>2, <2>1 DEF HasMirrors
<1>7. \A x \in 1..n : currentBoxes[x].flip = FALSE /\ currentBoxes[x].up <= 1
  BY <1>1, <1>4, <1>5 DEF FromUsed, Boxes
<1>8. CASE ~(n < FlipBelow)
  <2>1. currentBoxes' = currentBoxes /\ ~HasMirrors'
    BY <1>5, <1>6, <1>8 DEF Flip, current
  <2>2. Once' /\ FromUsed' /\ AllGathered'
    BY <1>1, <1>2, <1>3, <1>4, <2>1 DEF Once, FromUsed, AllGathered
  <2> QED BY <1>1, <1>4, <2>2, TQuiet DEF TInv, Gathering
<1>9. CASE n < FlipBelow
  <2>1. /\ v \in Seq(Boxes) /\ Len(v) = n
        /\ \A x \in 1..n : /\ v[x].src = currentBoxes[x].src
                           /\ v[x].up = currentBoxes[x].up
                           /\ v[x].flip = ~ currentBoxes[x].flip
    BY <1>5, MirroredBoxes
  <2>2. currentBoxes' = currentBoxes \o v
    BY <1>5, <1>9 DEF Flip
  <2> HIDE DEF v
  <2>3. /\ Len(currentBoxes') = n + n
        /\ \A x \in 1..n : currentBoxes'[x] = currentBoxes[x] /\ currentBoxes'[n + x] = v[x]
    <3>1. ASSUME NEW s \in Seq(Boxes), NEW t \in Seq(Boxes), Len(t) = Len(s)
          PROVE  /\ Len(s \o t) = Len(s) + Len(s)
                 /\ \A x \in 1..Len(s) : (s \o t)[x] = s[x] /\ (s \o t)[Len(s) + x] = t[x]
      <4>1. ASSUME NEW x \in 1..Len(s) PROVE (s \o t)[x] = s[x] /\ (s \o t)[Len(s) + x] = t[x]
        <5>1. Len(s) \in Nat /\ Len(s) + x \in 1..(Len(s) + Len(t)) /\ x \in 1..(Len(s) + Len(t))
              /\ ~(Len(s) + x <= Len(s)) /\ (Len(s) + x) - Len(s) = x
          BY <3>1
        <5> QED BY <3>1, <5>1
      <4> QED BY <3>1, <4>1, ConcatFacts
    <3> QED BY <1>5, <2>1, <2>2, <3>1
  <2> HIDE DEF n
  <2>4. ASSUME NEW x \in 1..(n + n)
        PROVE  \/ x \in 1..n
               \/ \E y \in 1..n : x = n + y
    <3>1. x \in 1..n \/ (x - n \in 1..n /\ x = n + (x - n))
      BY <1>5
    <3> QED BY <3>1
  <2>5. \A x \in 1..n : x \in 1..(n + n) /\ n + x \in 1..(n + n)
    BY <1>5
  <2>6. \A x \in 1..n : /\ currentBoxes'[x].src = currentBoxes[x].src
                        /\ currentBoxes'[x].flip = FALSE
                        /\ currentBoxes'[x].up <= 1
                        /\ currentBoxes'[n + x].src = currentBoxes[x].src
                        /\ currentBoxes'[n + x].flip = TRUE
                        /\ currentBoxes'[n + x].up <= 1
    <3>1. \A x \in 1..n : v[x].src = currentBoxes[x].src /\ v[x].up <= 1
      BY <1>7, <2>1
    <3>2. \A x \in 1..n : v[x].flip = TRUE
      BY <1>7, <2>1, Zenon
    <3> HIDE DEF v
    <3> QED BY <1>7, <2>3, <3>1, <3>2, Zenon
  <2>7. Once'
    <3> SUFFICES ASSUME NEW x \in 1..(n + n), NEW y \in 1..(n + n),
                        currentBoxes'[x].src = currentBoxes'[y].src,
                        currentBoxes'[x].flip = currentBoxes'[y].flip
                 PROVE  x = y
      BY <2>3 DEF Once
    <3>1. \A a, b \in 1..n : currentBoxes[a].src = currentBoxes[b].src => a = b
      BY <1>4, <1>7 DEF Once, n
    <3>2. CASE x \in 1..n /\ y \in 1..n
      BY <2>6, <3>1, <3>2
    <3>3. CASE x \in 1..n /\ \E b \in 1..n : y = n + b
      BY <2>6, <3>3
    <3>4. CASE y \in 1..n /\ \E a \in 1..n : x = n + a
      BY <2>6, <3>4
    <3>5. CASE (\E a \in 1..n : x = n + a) /\ (\E b \in 1..n : y = n + b)
      BY <2>6, <3>1, <3>5
    <3> QED BY <2>4, <3>2, <3>3, <3>4, <3>5
  <2>8. FromUsed'
    <3>1. ASSUME NEW x \in 1..n, NEW k, currentBoxes'[k].src = currentBoxes[x].src
          PROVE  \E f \in Used : \E a \in 1..imagesPerFold :
                   Gathered(f, a) /\ currentBoxes'[k].src = Dealt(f, a)
      BY <1>4, <3>1 DEF FromUsed, n
    <3> SUFFICES ASSUME NEW k \in 1..(n + n)
                 PROVE  /\ \E f \in Used : \E a \in 1..imagesPerFold :
                             Gathered(f, a) /\ currentBoxes'[k].src = Dealt(f, a)
                        /\ currentBoxes'[k].up <= 1
      BY <1>1, <1>2, <1>3, <1>6, <1>9, <2>3 DEF FromUsed
    <3> QED BY <2>4, <2>6, <3>1
  <2>9. AllGathered'
    <3> SUFFICES ASSUME NEW f \in Used, NEW a \in 1..imagesPerFold, Gathered(f, a),
                        NEW m \in BOOLEAN
                 PROVE  \E k \in 1..(n + n) :
                          currentBoxes'[k].src = Dealt(f, a) /\ currentBoxes'[k].flip = m
      BY <1>2, <1>3, <2>3 DEF AllGathered
    <3>1. PICK x \in 1..n : currentBoxes[x].src = Dealt(f, a)
      BY <1>4 DEF AllGathered, n
    <3>2. CASE m = FALSE
      BY <2>5, <2>6, <3>1, <3>2
    <3>3. CASE m = TRUE
      BY <2>5, <2>6, <3>1, <3>3
    <3> QED BY <3>2, <3>3
  <2> QED BY <1>1, <1>4, <2>7, <2>8, <2>9, TQuiet DEF TInv, Gathering
<1> QED BY <1>8, <1>9

LEMMA TNext == TInv /\ [Next]_vars => TInv'
<1> SUFFICES ASSUME TInv, [Next]_vars PROVE TInv'
  OBVIOUS
<1>1. BInv'
  BY BNext DEF TInv
<1>2. CASE Next
  BY <1>1, <1>2, TLoad, TFold, TEnd, TBegin, TNextFold, TCopyBack, TQuietRound, TUpsample,
     TFlip, TRemove DEF Next
<1>3. CASE UNCHANGED vars
  <2>1. UNCHANGED <<pc, i, j, allBoxes, shuffledImages, shuffledBoxes, iNumberOfFolds,
                    foldedBoxes, skippedFold, currentBoxes>>
    BY <1>3 DEF vars, dataset, folds, current, grid
  <2>2. /\ imagesPerFold' = imagesPerFold /\ Used' = Used /\ DealtSources' = DealtSources
        /\ \A f, a : Dealt(f, a)' = Dealt(f, a)
    BY <2>1, SourcesStay
  <2>3. \A f, a : Gathered(f, a)' = Gathered(f, a)
    BY <2>1 DEF Gathered
  <2>4. Gathering'
    BY <2>1, <2>2, <2>3
       DEF TInv, Gathering, InRound, Once, FromUsed, AllGathered, HasMirrors, InOrder
  <2> QED BY <1>1, <2>1, <2>4, TQuiet DEF TInv
<1> QED BY <1>2, <1>3

LEMMA TInductive == Spec => []TInv
BY TInit, TNext, PTL DEF Spec

(* Every session of every grid trains on each image dealt to the folds in use
   exactly once, mirrored once more if there are fewer than FlipBelow, and
   scaled once at most: no move, copy or scaling of a session before has left
   anything behind. *)
THEOREM SessionsTrainOnAll == Spec => []TrainingComplete
<1>1. ASSUME TInv PROVE TrainingComplete
  <2> SUFFICES ASSUME pc = "train"
               PROVE  /\ SourcesOf(currentImages) = DealtSources
                      /\ \A s \in DealtSources :
                           /\ Copies(s, FALSE) = 1
                           /\ Copies(s, TRUE) =
                                IF Cardinality(DealtSources) < FlipBelow THEN 1 ELSE 0
                      /\ \A a \in 1..Len(currentImages) : currentImages[a].up <= 1
    <3>1. DealtSources = {shuffledBoxes[f * imagesPerFold + a].src :
                            f \in (1..iNumberOfFolds) \ {skippedFold}, a \in 1..imagesPerFold}
      BY DEF DealtSources, Used, Dealt
    <3> HIDE DEF DealtSources
    <3> DEFINE D == DealtSources
    <3>2. TrainingComplete <=>
            (pc = "train" =>
              /\ SourcesOf(currentImages) = D
              /\ \A s \in D : /\ Copies(s, FALSE) = 1
                              /\ Copies(s, TRUE) = IF Cardinality(D) < FlipBelow THEN 1 ELSE 0
              /\ \A a \in 1..Len(currentImages) : currentImages[a].up <= 1)
      BY <3>1 DEF TrainingComplete
    <3> QED BY <3>2
  <2> DEFINE n == Len(currentBoxes)
  <2>1. /\ Once /\ FromUsed /\ AllGathered /\ i > iNumberOfFolds
        /\ HasMirrors <=> Cardinality(DealtSources) < FlipBelow
        /\ ~InOrder
    BY <1>1 DEF TInv, Gathering, InRound, HasMirrors, InOrder
  <2>2. /\ n = Len(currentImages) /\ currentBoxes \in Seq(Boxes) /\ n \in Nat
        /\ \A x \in 1..n : /\ currentImages[x].src = currentBoxes[x].src
                           /\ currentImages[x].up = currentBoxes[x].up
                           /\ currentImages[x].flip = currentBoxes[x].flip
    BY <1>1 DEF TInv, BInv, IInv, TypeOK, Agreement, Same
  <2>3. \A f \in Used : \A a \in 1..imagesPerFold : Gathered(f, a)
    BY <1>1, <2>1 DEF Gathered, Used, TInv, BInv, IInv, TypeOK
  <2>4. \A x \in 1..n : currentBoxes[x].src \in DealtSources
    BY <2>1 DEF FromUsed, DealtSources
  <2>5. ASSUME NEW s \in DealtSources, NEW m \in BOOLEAN, m => HasMirrors
        PROVE  \E x \in 1..n : currentBoxes[x].src = s /\ currentBoxes[x].flip = m
    BY <2>1, <2>3, <2>5 DEF DealtSources, AllGathered
  <2>6. SourcesOf(currentImages) = DealtSources
    <3>1. ASSUME NEW s \in DealtSources PROVE \E x \in 1..n : s = currentImages[x].src
      <4>1. FALSE \in BOOLEAN /\ (FALSE => HasMirrors)
        OBVIOUS
      <4>2. PICK x \in 1..n : currentBoxes[x].src = s
        BY <2>5, <4>1, Zenon
      <4> QED BY <2>2, <4>2
    <3> QED BY <2>2, <2>4, <3>1 DEF SourcesOf
  <2>7. ASSUME NEW s \in DealtSources, NEW m \in BOOLEAN, m => HasMirrors
        PROVE  Copies(s, m) = 1
    <3>1. PICK x \in 1..n : currentBoxes[x].src = s /\ currentBoxes[x].flip = m
      BY <2>5, <2>7
    <3>2. {a \in 1..Len(currentImages) :
             currentImages[a].src = s /\ currentImages[a].flip = m} = {x}
      BY <2>1, <2>2, <3>1 DEF Once
    <3>3. Cardinality({x}) = 1
      BY FS_Singleton
    <3> QED BY <3>2, <3>3 DEF Copies
  <2>8. ASSUME NEW s \in DealtSources, ~HasMirrors
        PROVE  Copies(s, TRUE) = 0
    <3>1. {a \in 1..Len(currentImages) :
             currentImages[a].src = s /\ currentImages[a].flip = TRUE} = {}
      BY <2>1, <2>2, <2>8 DEF FromUsed
    <3>2. Cardinality({}) = 0
      BY FS_EmptySet
    <3> QED BY <3>1, <3>2 DEF Copies
  <2>9. \A a \in 1..Len(currentImages) : currentImages[a].up <= 1
    BY <2>1, <2>2 DEF FromUsed
  <2> QED BY <2>1, <2>6, <2>7, <2>8, <2>9
<1> QED BY <1>1, TInductive, PTL
=============================================================================

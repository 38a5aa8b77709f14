------------------------ MODULE ClassicFilter_proofs ------------------------
(***************************************************************************)
(* ClassicFilter for any planes, detectors, strength and classicness.  Its *)
(* rounds compose (CompoundIsFresh), the evaluation mode never leaves a    *)
(* detector without filters (NotEmptied) and steps back exactly as far as  *)
(* it has to (LastGood).  On the disk it leaves, whatever runs crash, as   *)
(* many broken files as crashes, in the others the trained detectors       *)
(* without some of their filters (FilesSurvive), and at full classicness   *)
(* ones that a second run does not change (SecondRunKeeps).                *)
(***************************************************************************)
EXTENDS ClassicFilter, FiniteSetTheorems, WellFoundedInduction, TLAPS

-----------------------------------------------------------------------------
(* Nonempty sets of naturals have a smallest element, bounded ones a largest:
   the planes of a detector have a largest singular value. *)
LEMMA SmallestNat ==
  ASSUME NEW T, T \subseteq Nat, T # {}
  PROVE  \E x \in T : \A y \in T : x <= y
<1>1. PICK x \in T : \A y \in T : ~(<<y, x>> \in OpToRel(<, Nat))
  BY NatLessThanWellFounded, WFMin
<1>2. ASSUME NEW y \in T PROVE x <= y
  <2>1. ~(y < x)
    BY <1>1, <1>2 DEF OpToRel
  <2> QED BY <2>1
<1> QED BY <1>2

LEMMA LargestValue ==
  ASSUME NEW plane \in [Ranks -> 0..MaxValue], Ranks # {}
  PROVE  \E r \in Ranks : \A q \in Ranks : plane[q] <= plane[r]
<1> DEFINE T == {MaxValue - plane[r] : r \in Ranks}
<1>1. T \subseteq Nat /\ T # {}
  BY ClassicAssumption
<1>2. PICK x \in T : \A y \in T : x <= y
  BY <1>1, SmallestNat
<1>3. PICK r \in Ranks : x = MaxValue - plane[r]
  BY <1>2
<1>4. ASSUME NEW q \in Ranks PROVE plane[q] <= plane[r]
  <2>1. MaxValue - plane[r] <= MaxValue - plane[q]
    BY <1>2, <1>3
  <2> QED BY <2>1, ClassicAssumption
<1> QED BY <1>4
-----------------------------------------------------------------------------
(* Thresholding keeps a detector a detector. *)
LEMMA ThresholdType ==
  ASSUME NEW det \in Detectors, NEW thresh
  PROVE  threshold_filter_singular_values(det, thresh) \in Detectors
BY ClassicAssumption DEF threshold_filter_singular_values, Detectors

(* The number of filters is a natural number. *)
LEMMA CountType ==
  ASSUME NEW det PROVE num_separable_filters(det) \in Nat
<1>1. IsFiniteSet(Planes \X Ranks)
  BY ClassicAssumption, FS_Product
<1>2. IsFiniteSet({s \in Planes \X Ranks : Counts(det[s[1]], s[2])})
  BY <1>1, FS_Subset
<1> QED BY <1>2, FS_CardinalityType DEF num_separable_filters

(* If a value of a plane survives, so does the largest one, and a stronger
   threshold gives the same result before and after a weaker one. *)
LEMMA SurvivesTwice ==
  ASSUME NEW plane \in [Ranks -> 0..MaxValue], NEW r \in Ranks,
         NEW a \in Int, NEW b \in Int, a <= b,
         NEW once, once = [q \in Ranks |-> IF Survives(plane, q, a) THEN plane[q]
                                                                  ELSE 0]
  PROVE  (IF Survives(once, r, b) THEN once[r] ELSE 0)
           = (IF Survives(plane, r, b) THEN plane[r] ELSE 0)
<1>0. plane[r] \in Nat /\ \A q \in Ranks : plane[q] \in Nat
  BY ClassicAssumption
<1>1. CASE Survives(plane, r, b)
  <2>1. \A q \in Ranks : 100 * plane[r] >= a * plane[q]
    <3> TAKE q \in Ranks
    <3>1. 100 * plane[r] >= b * plane[q] /\ plane[q] \in Nat
      BY <1>0, <1>1 DEF Survives
    <3>2. b * plane[q] >= a * plane[q]
      BY <3>1
    <3> QED BY <3>1, <3>2, <1>0
  <2>2. Survives(plane, r, a) /\ once[r] = plane[r]
    BY <1>1, <2>1 DEF Survives
  <2>3. \A q \in Ranks : 100 * once[r] >= b * once[q]
    <3> TAKE q \in Ranks
    <3>1. CASE Survives(plane, q, a)
      BY <3>1, <2>2, <1>1 DEF Survives
    <3>2. CASE ~Survives(plane, q, a)
      <4>1. once[q] = 0
        BY <3>2
      <4> QED BY <4>1, <2>2, <1>0
    <3> QED BY <3>1, <3>2
  <2>4. Survives(once, r, b)
    BY <2>2, <2>3, <1>1 DEF Survives
  <2> QED BY <2>2, <2>4, <1>1
<1>2. CASE ~Survives(plane, r, b)
  <2>1. CASE ~Survives(plane, r, a)
    BY <2>1, <1>2
  <2>2. CASE Survives(plane, r, a)
    <3>1. once[r] = plane[r]
      BY <2>2
    <3>2. PICK m \in Ranks : \A q \in Ranks : plane[q] <= plane[m]
      BY LargestValue
    <3>3. Survives(plane, m, a)
      <4>1. plane[m] >= plane[r] /\ plane[m] >= 10
        BY <3>2, <2>2, <1>0 DEF Survives
      <4>2. ASSUME NEW q \in Ranks PROVE 100 * plane[m] >= a * plane[q]
        <5>1. 100 * plane[r] >= a * plane[q]
          BY <2>2 DEF Survives
        <5>2. 100 * plane[m] >= 100 * plane[r]
          BY <4>1, <1>0
        <5>3. plane[m] \in Nat /\ plane[q] \in Nat /\ a * plane[q] \in Int
          BY <1>0
        <5> QED BY <5>1, <5>2, <5>3, <1>0
      <4> QED BY <4>1, <4>2 DEF Survives
    <3>4. once[m] = plane[m]
      BY <3>3
    <3>5. PICK q \in Ranks : ~(100 * plane[r] >= b * plane[q])
      BY <1>2, <2>2 DEF Survives
    <3>6. b * plane[m] > 100 * plane[r]
      <4>1. CASE b >= 0
        <5>1. b * plane[m] >= b * plane[q]
          BY <4>1, <3>2, <1>0
        <5> QED BY <5>1, <3>5, <1>0
      <4>2. CASE b < 0
        <5>1. b * plane[q] <= 0
          BY <4>2, <1>0
        <5> QED BY <5>1, <3>5, <1>0
      <4> QED BY <4>1, <4>2
    <3>7. ~Survives(once, r, b)
      BY <3>1, <3>4, <3>6, <1>0 DEF Survives
    <3> QED BY <3>7, <1>2
  <2> QED BY <2>1, <2>2
<1> QED BY <1>1, <1>2

(* One round after another does what the later one does alone. *)
LEMMA ThresholdTwice ==
  ASSUME NEW det \in Detectors, NEW a \in Int, NEW b \in Int, a <= b
  PROVE  threshold_filter_singular_values(
           threshold_filter_singular_values(det, a), b)
         = threshold_filter_singular_values(det, b)
<1> DEFINE once == threshold_filter_singular_values(det, a)
<1>1. ASSUME NEW p \in Planes, NEW r \in Ranks
      PROVE  (IF Survives(once[p], r, b) THEN once[p][r] ELSE 0)
             = (IF Survives(det[p], r, b) THEN det[p][r] ELSE 0)
  <2>1. det[p] \in [Ranks -> 0..MaxValue]
    BY DEF Detectors
  <2>2. once[p] = [q \in Ranks |-> IF Survives(det[p], q, a) THEN det[p][q]
                                                            ELSE 0]
    BY DEF threshold_filter_singular_values
  <2> HIDE DEF once
  <2> QED BY <2>1, <2>2, SurvivesTwice
<1> HIDE DEF once
<1>2. threshold_filter_singular_values(once, b)
      = threshold_filter_singular_values(det, b)
  BY <1>1 DEF threshold_filter_singular_values
<1> QED BY <1>2 DEF once
-----------------------------------------------------------------------------
(* In the loop, everything follows from the detector as it was loaded. *)
Rounds ==
  pc = "reduce" /\ bClassicness =>
    /\ d >= Start
    /\ d = Start => /\ detectorClassicHOG = detectorForEvaluation
                    /\ iNumberOfFilters = iStartNumberOfFilters
    /\ d > Start => /\ detectorClassicHOG =
                         threshold_filter_singular_values(detectorForEvaluation,
                                                          d - 1)
                    /\ ~TooFew(iNumberOfFilters)
    /\ iNumberOfFilters = num_separable_filters(detectorClassicHOG)

(* Before the step back, the loaded detector and its file are the same. *)
FromFile ==
  pc \in {"reduce", "evaluate", "serialize", "write"} =>
    /\ i \in 1..NumFiles
    /\ iStartNumberOfFilters = num_separable_filters(detectorForEvaluation)
    /\ pc = "reduce" => disk[i] = detectorForEvaluation

(* The step back of the evaluation mode ends where LastGood says. *)
GoodReduction ==
  pc \in {"reduce", "evaluate"} /\ ~TestMode =>
    /\ iStartNumberOfFilters > 0 =>
         num_separable_filters(detectorClassicHOG) > 0
    /\ ~bClassicness =>
         /\ TooFew(num_separable_filters(
                     threshold_filter_singular_values(detectorForEvaluation,
                                                      d + 1)))
         /\ \/ ~TooFew(num_separable_filters(detectorClassicHOG))
            \/ detectorClassicHOG = detectorForEvaluation

IInv == TypeOK /\ Rounds /\ FromFile /\ GoodReduction

(* The detector before any file is loaded is a detector. *)
LEMMA NoneType == None \in Detectors
BY ClassicAssumption DEF None, Detectors

(* The invariant holds when the program starts ... *)
LEMMA InitIInv == Init => IInv
<1> SUFFICES ASSUME Init PROVE IInv
  OBVIOUS
<1>1. TypeOK
  <2>1. trained \in [1..NumFiles -> Detectors]
    BY ClassicAssumption DEF Init, Detectors
  <2> QED BY <2>1, NoneType, ClassicAssumption DEF Init, TypeOK
<1>2. Rounds /\ FromFile /\ GoodReduction
  BY DEF Init, Rounds, FromFile, GoodReduction
<1> QED BY <1>1, <1>2 DEF IInv

(* ... after a file is loaded ... *)
LEMMA LoadStep == IInv /\ Load => IInv'
<1> SUFFICES ASSUME IInv, Load PROVE IInv'
  OBVIOUS
<1> USE DEF IInv
<1>1. i \in 1..NumFiles /\ disk[i] \in Detectors
  BY ClassicAssumption DEF TypeOK, Load
<1>2. num_separable_filters(disk[i]) \in Nat
  BY CountType
<1>3. TypeOK'
  BY <1>1, <1>2, ClassicAssumption DEF TypeOK, Load, files, given
<1>4. /\ pc' = "reduce" /\ d' = Start /\ bClassicness' /\ i' = i /\ disk' = disk
      /\ detectorForEvaluation' = disk[i] /\ detectorClassicHOG' = disk[i]
      /\ iNumberOfFilters' = num_separable_filters(disk[i])
      /\ iStartNumberOfFilters' = num_separable_filters(disk[i])
  BY DEF Load, files
<1>5. Rounds'
  BY <1>4, ClassicAssumption DEF Rounds
<1>6. FromFile' /\ GoodReduction'
  BY <1>1, <1>4 DEF FromFile, GoodReduction
<1> QED BY <1>3, <1>5, <1>6

(* Steps that leave the loop alone and do not lead back into it. *)
LEMMA QuietStep ==
  ASSUME IInv, UNCHANGED loop, retained' = retained, TypeOK', pc' # "reduce",
         pc' = "evaluate" => pc = "reduce" /\ UNCHANGED <<disk, i>>,
         pc' \in {"serialize", "write"} =>
           pc \in {"evaluate", "serialize"} /\ i' = i
  PROVE  IInv'
<1>1. Rounds' /\ FromFile'
  BY DEF IInv, Rounds, FromFile, loop
<1>2. GoodReduction'
  BY DEF IInv, GoodReduction, loop, TooFew
<1> QED BY <1>1, <1>2 DEF IInv

(* ... after deserialize has thrown ... *)
LEMMA LoadFailsStep == IInv /\ LoadFails => IInv'
<1> SUFFICES ASSUME IInv, LoadFails PROVE IInv'
  OBVIOUS
<1>1. TypeOK'
  BY DEF IInv, TypeOK, LoadFails, files, given, loop
<1> QED BY <1>1, QuietStep DEF LoadFails, files, given

(* ... after the last file ... *)
LEMMA AllLoadedStep == IInv /\ AllLoaded => IInv'
<1> SUFFICES ASSUME IInv, AllLoaded PROVE IInv'
  OBVIOUS
<1>1. TypeOK'
  BY DEF IInv, TypeOK, AllLoaded, files, given, loop
<1> QED BY <1>1, QuietStep DEF AllLoaded, files, given

(* ... when the reduction is over ... *)
LEMMA EndLoopStep == IInv /\ EndLoop => IInv'
<1> SUFFICES ASSUME IInv, EndLoop PROVE IInv'
  OBVIOUS
<1>1. TypeOK'
  BY DEF IInv, TypeOK, EndLoop, files, given, loop
<1> QED BY <1>1, QuietStep DEF EndLoop, files, given

(* ... after the evaluation ... *)
LEMMA EvaluateStep == IInv /\ Evaluate => IInv'
<1> SUFFICES ASSUME IInv, Evaluate PROVE IInv'
  OBVIOUS
<1>1. TypeOK'
  BY DEF IInv, TypeOK, Evaluate, files, given, loop
<1> QED BY <1>1, QuietStep DEF Evaluate, files, given

(* ... while the file is empty ... *)
LEMMA OpenFileStep == IInv /\ OpenFile => IInv'
<1> SUFFICES ASSUME IInv, OpenFile PROVE IInv'
  OBVIOUS
<1>1. TypeOK'
  BY DEF IInv, TypeOK, OpenFile, given, loop
<1> QED BY <1>1, QuietStep DEF OpenFile, given

(* ... when it is written ... *)
LEMMA WriteStep == IInv /\ Write => IInv'
<1> SUFFICES ASSUME IInv, Write PROVE IInv'
  OBVIOUS
<1>1. i \in 1..NumFiles
  BY DEF IInv, FromFile, Write
<1>2. TypeOK'
  BY <1>1, ClassicAssumption DEF IInv, TypeOK, Write, given, loop
<1> QED BY <1>2, QuietStep DEF Write, given

(* ... after a crash ... *)
LEMMA CrashStep == IInv /\ Crash => IInv'
<1> SUFFICES ASSUME IInv, Crash PROVE IInv'
  OBVIOUS
<1>1. TypeOK'
  BY NoneType, ClassicAssumption DEF IInv, TypeOK, Crash, Forgotten, files, given
<1>2. Rounds' /\ FromFile' /\ GoodReduction'
  BY DEF Crash, Rounds, FromFile, GoodReduction
<1> QED BY <1>1, <1>2 DEF IInv

(* ... and when the program is started again. *)
LEMMA RunAgainStep == IInv /\ RunAgain => IInv'
<1> SUFFICES ASSUME IInv, RunAgain PROVE IInv'
  OBVIOUS
<1>1. TypeOK'
  BY NoneType, ClassicAssumption DEF IInv, TypeOK, RunAgain, Forgotten, files, given
<1>2. Rounds' /\ FromFile' /\ GoodReduction'
  BY DEF RunAgain, Rounds, FromFile, GoodReduction
<1> QED BY <1>1, <1>2 DEF IInv
-----------------------------------------------------------------------------
(* One round of the loop applies the threshold d as if it were the first. *)
LEMMA RoundIsFresh ==
  ASSUME IInv, pc = "reduce", bClassicness
  PROVE  threshold_filter_singular_values(detectorClassicHOG, d)
         = threshold_filter_singular_values(detectorForEvaluation, d)
<1>1. d \in Int /\ d >= Start /\ detectorForEvaluation \in Detectors
  BY DEF IInv, TypeOK, Rounds
<1>2. CASE d = Start
  BY <1>2 DEF IInv, Rounds
<1>3. CASE d > Start
  <2>1. d - 1 \in Int /\ d - 1 <= d
    BY <1>1
  <2>2. detectorClassicHOG =
          threshold_filter_singular_values(detectorForEvaluation, d - 1)
    BY <1>3 DEF IInv, Rounds
  <2> QED BY <1>1, <2>1, <2>2, ThresholdTwice
<1> QED BY <1>1, <1>2, <1>3, ClassicAssumption

(* A round that leaves enough filters keeps the invariant. *)
LEMMA ReduceStep == IInv /\ Reduce => IInv'
<1> SUFFICES ASSUME IInv, Reduce PROVE IInv'
  OBVIOUS
<1> DEFINE next == threshold_filter_singular_values(detectorClassicHOG, d)
           n == num_separable_filters(next)
<1>1. /\ pc = "reduce" /\ pc' = "reduce" /\ LoopGoesOn
      /\ ~TooFew(n) /\ d' = d + 1
      /\ detectorClassicHOG' = next /\ iNumberOfFilters' = n
      /\ UNCHANGED <<retained, trained, disk, i, detectorForEvaluation,
                     iStartNumberOfFilters, bClassicness, run, crashes>>
  BY DEF Reduce, NextD, files, given
<1>2. next \in Detectors /\ n \in Nat
  BY ThresholdType, CountType DEF IInv, TypeOK
<1>3. next = threshold_filter_singular_values(detectorForEvaluation, d)
  BY <1>1, RoundIsFresh DEF LoopGoesOn
<1> HIDE DEF next
<1>4. bClassicness /\ d \in Int /\ d >= Start /\ d <= Strength
  BY <1>1 DEF LoopGoesOn, IInv, TypeOK, Rounds
<1>5. TypeOK'
  BY <1>1, <1>2, <1>4, ClassicAssumption DEF IInv, TypeOK
<1>6. FromFile'
  BY <1>1 DEF IInv, FromFile
<1>7. d' \in Int /\ d' - 1 = d /\ d' > Start
  BY <1>1, <1>4, ClassicAssumption
<1>8. Rounds'
  <2> HIDE DEF n
  <2>1. ~TooFew(iNumberOfFilters)'
    <3>1. iNumberOfFilters' = n /\ ~TooFew(n)
      BY <1>1
    <3>2. UNCHANGED <<retained, iStartNumberOfFilters>>
      BY <1>1
    <3> QED BY ONLY <3>1, <3>2 DEF TooFew
  <2>2. detectorForEvaluation' = detectorForEvaluation
    BY <1>1
  <2>3. iNumberOfFilters' = num_separable_filters(detectorClassicHOG)'
    BY <1>1 DEF n
  <2>4. detectorClassicHOG' =
          threshold_filter_singular_values(detectorForEvaluation', d' - 1)
    <3>1. detectorClassicHOG' =
            threshold_filter_singular_values(detectorForEvaluation, d)
      BY <1>1, <1>3
    <3> QED BY ONLY <3>1, <1>7, <2>2
  <2>5. d' >= Start /\ d' # Start
    BY <1>4, <1>7, ClassicAssumption
  <2> QED BY <2>1, <2>3, <2>4, <2>5 DEF Rounds
<1>9. GoodReduction'
  BY <1>1, <1>2, <1>4 DEF GoodReduction, TooFew
<1> QED BY <1>5, <1>6, <1>8, <1>9 DEF IInv

(* So does the round that leaves too few, with its step back. *)
LEMMA OvershootStep == IInv /\ Overshoot => IInv'
<1> SUFFICES ASSUME IInv, Overshoot PROVE IInv'
  OBVIOUS
<1> DEFINE next == threshold_filter_singular_values(detectorClassicHOG, d)
           n == num_separable_filters(next)
<1>1. /\ pc = "reduce" /\ pc' = "reduce" /\ LoopGoesOn
      /\ TooFew(n) /\ d' = d - 1 /\ bClassicness' = FALSE
      /\ iNumberOfFilters' = n
      /\ detectorForEvaluation' =
           IF TestMode THEN detectorForEvaluation ELSE disk[i]
      /\ detectorClassicHOG' = BackTo(detectorForEvaluation', d - 1)
      /\ UNCHANGED <<retained, trained, disk, i, iStartNumberOfFilters, run,
                     crashes>>
  BY DEF Overshoot, StepBack, files, given
<1>2. next \in Detectors /\ n \in Nat
  BY ThresholdType, CountType DEF IInv, TypeOK
<1>3. next = threshold_filter_singular_values(detectorForEvaluation, d)
  BY <1>1, RoundIsFresh DEF LoopGoesOn
<1>4. bClassicness /\ d \in Int /\ d >= Start /\ d <= Strength
  BY <1>1 DEF LoopGoesOn, IInv, TypeOK, Rounds
<1>5. detectorForEvaluation' = detectorForEvaluation
      /\ detectorForEvaluation \in Detectors
  BY <1>1 DEF IInv, FromFile, TypeOK
<1>6. detectorClassicHOG' \in Detectors
  BY <1>1, <1>5, ThresholdType DEF BackTo
<1>7. TypeOK'
  <2>1. d' \in Int /\ d' \in (Start - 1)..(Strength + 1)
    BY <1>1, <1>4, ClassicAssumption
  <2>2. /\ detectorForEvaluation' \in Detectors
        /\ iNumberOfFilters' \in Nat /\ bClassicness' \in BOOLEAN
    BY <1>1, <1>2, <1>5
  <2>3. UNCHANGED <<retained, trained, disk, i, iStartNumberOfFilters, run, crashes>>
        /\ pc' = "reduce"
    BY <1>1
  <2> QED BY <1>6, <2>1, <2>2, <2>3 DEF IInv, TypeOK
<1>8. FromFile' /\ Rounds'
  BY <1>1, <1>5 DEF IInv, FromFile, Rounds
<1>9. GoodReduction'
  <2> SUFFICES ASSUME ~TestMode PROVE GoodReduction'
    BY DEF GoodReduction
  <2>1. TooFew(num_separable_filters(
                 threshold_filter_singular_values(detectorForEvaluation, d)))
    BY <1>1, <1>3
  <2>2. d' + 1 = d
    BY <1>1, <1>4
  <2>3. CASE d - 1 > Start + 1
    <3>1. detectorClassicHOG' = detectorClassicHOG
      BY <1>1, <1>4, <1>5, <2>3, ClassicAssumption DEF BackTo, IInv, Rounds
    <3>2. ~TooFew(num_separable_filters(detectorClassicHOG))
      BY <1>1, <1>4, <2>3, ClassicAssumption DEF IInv, Rounds
    <3>3. num_separable_filters(detectorClassicHOG) > 0
      BY <3>2, CountType DEF TooFew
    <3> HIDE DEF next
    <3> QED BY <1>1, <1>5, <2>1, <2>2, <3>1, <3>2, <3>3
            DEF GoodReduction, TooFew
  <2>4. CASE ~(d - 1 > Start + 1)
    <3>1. detectorClassicHOG' = detectorForEvaluation
      BY <1>1, <1>5, <2>4 DEF BackTo
    <3>2. iStartNumberOfFilters = num_separable_filters(detectorForEvaluation)
      BY <1>1 DEF IInv, FromFile
    <3> HIDE DEF next
    <3> QED BY <1>1, <1>5, <2>1, <2>2, <3>1, <3>2
            DEF GoodReduction, TooFew
  <2> QED BY <2>3, <2>4
<1> QED BY <1>7, <1>8, <1>9 DEF IInv

(* No step breaks the invariant. *)
LEMMA NextIInv == IInv /\ [Next]_vars => IInv'
<1> SUFFICES ASSUME IInv, [Next]_vars PROVE IInv'
  OBVIOUS
<1>1. CASE ProgramStep
  BY <1>1, LoadStep, LoadFailsStep, AllLoadedStep, ReduceStep, OvershootStep,
     EndLoopStep, EvaluateStep, OpenFileStep, WriteStep DEF ProgramStep
<1>2. CASE Crash
  BY <1>2, CrashStep
<1>3. CASE RunAgain
  BY <1>3, RunAgainStep
<1>4. CASE UNCHANGED vars
  <2>1. /\ UNCHANGED <<pc, i, run, crashes, retained, trained, disk>>
        /\ UNCHANGED loop
    BY <1>4 DEF vars, files, given
  <2>2. TypeOK' /\ FromFile' /\ Rounds' /\ GoodReduction'
    BY <2>1 DEF loop, IInv, TypeOK, Rounds, FromFile, GoodReduction, TooFew
  <2> QED BY <2>2 DEF IInv
<1> QED BY <1>1, <1>2, <1>3, <1>4 DEF Next

(* The invariant holds throughout. *)
LEMMA Inductive == Spec => []IInv
<1> QED BY InitIInv, NextIInv, PTL DEF Spec

(* The variables of the reduction and the files keep their types, and the
   threshold stays between its bounds. *)
THEOREM ReductionTypeCorrect == Spec => []TypeOK
<1>1. IInv => TypeOK
  BY DEF IInv
<1> QED BY <1>1, Inductive, PTL

(* However many rounds the loop has run, their result is that of the last
   threshold alone. *)
THEOREM RoundsCompose == Spec => []CompoundIsFresh
<1>1. IInv => CompoundIsFresh
  BY DEF IInv, Rounds, CompoundIsFresh
<1> QED BY <1>1, Inductive, PTL

(* The evaluation mode keeps at least one filter of a detector that has any,
   whatever the strength and the classicness asked for. *)
THEOREM EvaluationKeepsAFilter ==
  ASSUME ~TestMode PROVE Spec => []NotEmptied
<1>1. IInv => NotEmptied
  BY DEF IInv, GoodReduction, NotEmptied
<1> QED BY <1>1, Inductive, PTL

(* A step back of the evaluation mode leaves the loaded detector, or one with
   more than the required part of its filters from which one hundredth more
   would have taken too many. *)
THEOREM EvaluationStopsInTime ==
  ASSUME ~TestMode PROVE Spec => []LastGood
<1>1. IInv => LastGood
  BY DEF IInv, GoodReduction, LastGood
<1> QED BY <1>1, Inductive, PTL

-----------------------------------------------------------------------------
(* The files. *)
BrokenFiles == {f \in 1..NumFiles : disk[f] = Broken}
Working == {"reduce", "evaluate", "serialize", "write"}

\* A detector that has lost filters of another at most.
PartOf(det, whole) ==
  \A p \in Planes, r \in Ranks : det[p][r] \in {0, whole[p][r]}

(* Each crash has broken one file at most, but for the one that is written. *)
Counted ==
  /\ Cardinality(BrokenFiles) <= crashes + (IF pc = "write" THEN 1 ELSE 0)
  /\ pc = "write" => disk[i] = Broken
  /\ pc \in {"serialize", "write"} => ~TestMode

(* What can be read is a part of what was trained, and all of it at classicness
   0. *)
Kept(det, f) ==
  /\ PartOf(det, trained[f])
  /\ retained >= 1000000 /\ ~TestMode => det = trained[f]
Stored == \A f \in 1..NumFiles : disk[f] # Broken => Kept(disk[f], f)

(* The detectors in memory come from the file; at classicness 0 the first round
   is the one that goes too far. *)
InMemory ==
  pc \in Working =>
    /\ i \in 1..NumFiles
    /\ Kept(detectorForEvaluation, i) /\ PartOf(detectorClassicHOG, trained[i])
    /\ retained >= 1000000 /\ ~TestMode =>
         /\ detectorClassicHOG = trained[i]
         /\ pc = "reduce" => d = Start \/ ~bClassicness

TestUntouched == TestMode => disk = trained

FInv == IInv /\ Counted /\ Stored /\ InMemory /\ TestUntouched

-----------------------------------------------------------------------------
(* A threshold only takes filters away. *)
LEMMA ThresholdPart ==
  ASSUME NEW det \in Detectors, NEW whole \in Detectors, PartOf(det, whole), NEW thresh
  PROVE  PartOf(threshold_filter_singular_values(det, thresh), whole)
BY DEF PartOf, threshold_filter_singular_values

LEMMA ThresholdCount ==
  ASSUME NEW det \in Detectors, NEW thresh \in Int
  PROVE  num_separable_filters(threshold_filter_singular_values(det, thresh))
           <= num_separable_filters(det)
<1> DEFINE next == threshold_filter_singular_values(det, thresh)
           C(x) == {s \in Planes \X Ranks : Counts(x[s[1]], s[2])}
<1>1. ASSUME NEW p \in Planes, NEW r \in Ranks, Counts(next[p], r)
      PROVE  Counts(det[p], r)
  <2>1. det[p] \in [Ranks -> 0..MaxValue]
    BY DEF Detectors
  <2>2. next[p] = [q \in Ranks |-> IF Survives(det[p], q, thresh) THEN det[p][q] ELSE 0]
    BY DEF threshold_filter_singular_values
  <2> DEFINE plane == det[p]
             after == next[p]
  <2>3. after[r] = plane[r] /\ Survives(plane, r, thresh) /\ plane[r] >= 1
    BY <1>1, <2>2 DEF Counts
  <2>4. PICK m \in Ranks : \A q \in Ranks : plane[q] <= plane[m]
    BY <2>1, LargestValue
  <2>5. /\ plane[m] \in 0..MaxValue /\ plane[r] \in 0..MaxValue
        /\ \A q \in Ranks : plane[q] \in 0..MaxValue
    BY <2>1
  <2> HIDE DEF plane, after, next
  <2>6. Survives(plane, m, thresh)
    <3>1. plane[r] >= 10 /\ \A q \in Ranks : 100 * plane[r] >= thresh * plane[q]
      BY <2>3 DEF Survives
    <3>2. plane[m] >= plane[r]
      BY <2>4
    <3>3. ASSUME NEW q \in Ranks PROVE 100 * plane[m] >= thresh * plane[q]
      <4>1. 100 * plane[r] >= thresh * plane[q] /\ plane[q] \in Nat
        BY <3>1, <2>5
      <4>2. thresh * plane[q] \in Int
        BY <4>1
      <4> DEFINE t == thresh * plane[q]
      <4>3. t \in Int /\ 100 * plane[r] >= t
        BY <4>1, <4>2
      <4> HIDE DEF t
      <4>4. 100 * plane[m] >= t
        BY <2>5, <3>2, <4>3, ClassicAssumption
      <4> QED BY <4>4 DEF t
    <3>4. plane[m] >= 10
      BY <2>5, <3>1, <3>2, ClassicAssumption
    <3> QED BY <3>3, <3>4 DEF Survives
  <2>7. after[m] = plane[m]
    BY <2>2, <2>6 DEF plane, after
  <2>8. 1000 * plane[r] >= plane[m]
    BY <1>1, <2>3, <2>7 DEF Counts, after
  <2>9. \A q \in Ranks : 1000 * plane[r] >= plane[q]
    BY <2>4, <2>5, <2>8, ClassicAssumption
  <2> QED BY <2>3, <2>9 DEF Counts, plane
<1>2. C(next) \subseteq C(det)
  BY <1>1
<1>3. IsFiniteSet(C(det))
  BY ClassicAssumption, FS_Product, FS_Subset
<1>4. Cardinality(C(next)) <= Cardinality(C(det))
  BY <1>2, <1>3, FS_Subset
<1> QED BY <1>4 DEF num_separable_filters

(* At classicness 0 every round leaves too few filters. *)
LEMMA AllTooFew ==
  ASSUME NEW n \in Nat, NEW s \in Nat, n <= s, NEW c \in Nat, c >= 1000000
  PROVE  1000000 * n <= c * s
<1>1. 1000000 * n <= 1000000 * s
  OBVIOUS
<1>2. PICK e \in Nat : c = 1000000 + e
  <2>1. c - 1000000 \in Nat /\ c = 1000000 + (c - 1000000)
    OBVIOUS
  <2> QED BY <2>1
<1>3. c * s = 1000000 * s + e * s /\ e * s \in Nat
  BY <1>2, SMTT(30)
<1> DEFINE t == e * s
           u == c * s
<1>4. t \in Nat /\ u = 1000000 * s + t
  BY <1>3
<1> HIDE DEF t, u
<1>5. 1000000 * n <= u
  BY <1>1, <1>4
<1> QED BY <1>5 DEF u

-----------------------------------------------------------------------------
LEMMA FilesInit == Init => FInv
<1> SUFFICES ASSUME Init PROVE FInv
  OBVIOUS
<1>1. BrokenFiles = {}
  BY ClassicAssumption DEF Init, BrokenFiles, Detectors
<1>2. Counted
  BY <1>1, FS_EmptySet DEF Init, Counted
<1>3. Stored
  BY ClassicAssumption DEF Init, Stored, Kept, PartOf
<1>4. InMemory /\ TestUntouched
  BY DEF Init, InMemory, Working, TestUntouched
<1> QED BY <1>2, <1>3, <1>4, InitIInv DEF FInv

LEMMA FilesCount == IInv => IsFiniteSet(BrokenFiles) /\ Cardinality(BrokenFiles) \in Nat
<1> SUFFICES ASSUME IInv PROVE IsFiniteSet(BrokenFiles)
  BY FS_CardinalityType
<1>1. IsFiniteSet(1..NumFiles)
  BY FS_Interval, ClassicAssumption
<1>2. BrokenFiles \in SUBSET (1..NumFiles)
  BY DEF BrokenFiles
<1> QED BY <1>1, <1>2, FS_Subset

(* Steps that write no file. *)
LEMMA DiskStays ==
  ASSUME FInv, IInv', UNCHANGED <<disk, retained, trained>>, pc' # "write",
         (pc # "write" /\ crashes' = crashes) \/ crashes' = crashes + 1,
         pc' = "serialize" => ~TestMode, InMemory'
  PROVE  FInv'
<1>1. BrokenFiles' = BrokenFiles
  BY DEF BrokenFiles
<1>2. Counted'
  <2>1. crashes \in Nat /\ Cardinality(BrokenFiles) \in Nat
    BY FilesCount, ClassicAssumption DEF FInv, IInv, TypeOK
  <2>2. Cardinality(BrokenFiles) <= crashes'
    BY <2>1 DEF FInv, Counted
  <2>3. crashes' + 0 = crashes'
    BY <2>1
  <2> QED BY <1>1, <2>2, <2>3 DEF Counted
<1>3. Stored' /\ TestUntouched'
  BY DEF FInv, Stored, Kept, PartOf, TestUntouched
<1> QED BY <1>2, <1>3 DEF FInv

LEMMA FilesLoad == FInv /\ IInv' /\ Load => FInv'
<1> SUFFICES ASSUME FInv, IInv', Load PROVE FInv'
  OBVIOUS
<1>1. /\ pc = "load" /\ pc' = "reduce" /\ d' = Start /\ i \in 1..NumFiles /\ i' = i
      /\ detectorForEvaluation' = disk[i] /\ detectorClassicHOG' = disk[i]
      /\ disk[i] # Broken
      /\ UNCHANGED <<disk, retained, trained, crashes>>
  BY ClassicAssumption DEF Load, files, given, FInv, IInv, TypeOK
<1>2. InMemory'
  BY <1>1 DEF FInv, Stored, InMemory, Kept, PartOf
<1> QED BY <1>1, <1>2, DiskStays

LEMMA FilesReduce == FInv /\ IInv' /\ Reduce => FInv'
<1> SUFFICES ASSUME FInv, IInv', Reduce PROVE FInv'
  OBVIOUS
<1> DEFINE next == threshold_filter_singular_values(detectorClassicHOG, d)
           n == num_separable_filters(next)
<1>1. /\ pc = "reduce" /\ pc' = "reduce" /\ LoopGoesOn /\ ~TooFew(n)
      /\ detectorClassicHOG' = next
      /\ UNCHANGED <<retained, trained, disk, i, detectorForEvaluation, crashes>>
  BY DEF Reduce, files, given
<1>2. i \in 1..NumFiles /\ trained[i] \in Detectors /\ detectorClassicHOG \in Detectors
  BY <1>1 DEF FInv, InMemory, Working, IInv, TypeOK
<1>3. PartOf(next, trained[i])
  BY <1>1, <1>2, ThresholdPart DEF FInv, InMemory, Working
<1>4. ASSUME retained >= 1000000, ~TestMode PROVE FALSE
  <2>1. d = Start /\ bClassicness
    BY <1>1, <1>4 DEF FInv, InMemory, Working, LoopGoesOn
  <2>2. iStartNumberOfFilters = num_separable_filters(detectorClassicHOG)
    BY <1>1, <2>1 DEF FInv, IInv, Rounds, FromFile
  <2>3. n <= iStartNumberOfFilters /\ n \in Nat /\ iStartNumberOfFilters \in Nat
    BY <1>2, <2>1, <2>2, ThresholdCount, CountType, ClassicAssumption
  <2>4. retained \in Nat
    BY ClassicAssumption DEF FInv, IInv, TypeOK
  <2> HIDE DEF n
  <2>5. 1000000 * n <= retained * iStartNumberOfFilters
    BY <1>4, <2>3, <2>4, AllTooFew
  <2> QED BY <1>1, <1>4, <2>5 DEF TooFew
<1> HIDE DEF next
<1>5. InMemory'
  BY <1>1, <1>3, <1>4 DEF FInv, InMemory, Working, Kept, PartOf
<1> QED BY <1>1, <1>5, DiskStays

LEMMA FilesOvershoot == FInv /\ IInv' /\ Overshoot => FInv'
<1> SUFFICES ASSUME FInv, IInv', Overshoot PROVE FInv'
  OBVIOUS
<1>1. /\ pc = "reduce" /\ pc' = "reduce" /\ LoopGoesOn /\ d' = d - 1 /\ ~bClassicness'
      /\ detectorForEvaluation' = IF TestMode THEN detectorForEvaluation ELSE disk[i]
      /\ detectorClassicHOG' = BackTo(detectorForEvaluation', d')
      /\ UNCHANGED <<retained, trained, disk, i, crashes>>
  BY DEF Overshoot, StepBack, files, given
<1>2. /\ i \in 1..NumFiles /\ trained[i] \in Detectors
      /\ detectorForEvaluation' = detectorForEvaluation /\ detectorForEvaluation \in Detectors
  BY <1>1 DEF FInv, InMemory, Working, IInv, TypeOK, FromFile
<1>3. PartOf(detectorForEvaluation, trained[i])
  BY <1>1 DEF FInv, InMemory, Working, Kept
<1>4. PartOf(detectorClassicHOG', trained[i])
  BY <1>1, <1>2, <1>3, ThresholdPart DEF BackTo
<1>5. ASSUME retained >= 1000000, ~TestMode PROVE detectorClassicHOG' = trained[i]
  <2>1. d = Start
    BY <1>1, <1>5 DEF FInv, InMemory, Working, LoopGoesOn
  <2>2. detectorForEvaluation = trained[i]
    BY <1>1, <1>5 DEF FInv, InMemory, Working, Kept
  <2> QED BY <1>1, <1>2, <1>5, <2>1, <2>2, ClassicAssumption DEF BackTo
<1>6. InMemory'
  BY <1>1, <1>2, <1>4, <1>5 DEF FInv, InMemory, Working, Kept, PartOf
<1> QED BY <1>1, <1>6, DiskStays

LEMMA FilesQuiet ==
  FInv /\ IInv' /\ (LoadFails \/ AllLoaded \/ EndLoop \/ Evaluate \/ Crash \/ RunAgain) => FInv'
<1> SUFFICES ASSUME FInv, IInv', LoadFails \/ AllLoaded \/ EndLoop \/ Evaluate \/ Crash \/ RunAgain
             PROVE  FInv'
  OBVIOUS
<1>1. CASE LoadFails \/ AllLoaded
  <2>1. /\ pc = "load" /\ pc' = "ended" /\ UNCHANGED <<disk, retained, trained, crashes>>
    BY <1>1 DEF LoadFails, AllLoaded, files, given
  <2> QED BY <2>1, DiskStays DEF InMemory, Working
<1>2. CASE EndLoop \/ Evaluate
  <2>1. /\ pc \in {"reduce", "evaluate"} /\ pc' \in {"evaluate", "ended", "serialize"}
        /\ pc' = "serialize" => ~TestMode
        /\ UNCHANGED <<disk, retained, trained, crashes, i, detectorForEvaluation,
                       detectorClassicHOG>>
    BY <1>2 DEF EndLoop, Evaluate, files, given, loop
  <2>2. InMemory'
    BY <2>1 DEF FInv, InMemory, Working, Kept, PartOf
  <2> QED BY <2>1, <2>2, DiskStays
<1>3. CASE Crash
  <2>1. pc' = "ended" /\ crashes' = crashes + 1 /\ UNCHANGED <<disk, retained, trained>>
    BY <1>3 DEF Crash, files, given
  <2> QED BY <2>1, DiskStays DEF InMemory, Working
<1>4. CASE RunAgain
  <2>1. /\ pc = "ended" /\ pc' = "load" /\ UNCHANGED <<disk, retained, trained, crashes>>
    BY <1>4 DEF RunAgain, files, given
  <2> QED BY <2>1, DiskStays DEF InMemory, Working
<1> QED BY <1>1, <1>2, <1>3, <1>4

(* The file is emptied when it is opened, and whole again when it is written. *)
LEMMA FilesOpen == FInv /\ IInv' /\ OpenFile => FInv'
<1> SUFFICES ASSUME FInv, IInv', OpenFile PROVE FInv'
  OBVIOUS
<1>1. /\ pc = "serialize" /\ pc' = "write" /\ disk' = [disk EXCEPT ![i] = Broken]
      /\ UNCHANGED <<retained, trained, crashes, i, detectorForEvaluation,
                     detectorClassicHOG>>
  BY DEF OpenFile, given, loop
<1>2. i \in 1..NumFiles /\ ~TestMode
  BY <1>1 DEF FInv, InMemory, Working, Counted
<1>3. disk'[i] = Broken /\ \A f \in (1..NumFiles) \ {i} : disk'[f] = disk[f]
  BY <1>1, <1>2 DEF FInv, IInv, TypeOK
<1>4. BrokenFiles' = BrokenFiles \cup {i}
  BY <1>2, <1>3 DEF BrokenFiles
<1>5. Counted'
  <2>1. Cardinality(BrokenFiles') <= Cardinality(BrokenFiles) + 1 /\ Cardinality(BrokenFiles') \in Nat
    <3>1. IsFiniteSet(BrokenFiles) /\ Cardinality(BrokenFiles) \in Nat
      BY FilesCount DEF FInv
    <3>2. /\ Cardinality(BrokenFiles \cup {i}) =
               IF i \in BrokenFiles THEN Cardinality(BrokenFiles)
                                   ELSE Cardinality(BrokenFiles) + 1
      BY <3>1, FS_AddElement
    <3> QED BY <1>4, <3>1, <3>2
  <2>2. Cardinality(BrokenFiles) <= crashes /\ crashes \in Nat /\ Cardinality(BrokenFiles) \in Nat
    BY <1>1, FilesCount, ClassicAssumption DEF FInv, Counted, IInv, TypeOK
  <2>3. Cardinality(BrokenFiles') <= crashes' + 1
    BY <1>1, <2>1, <2>2
  <2> QED BY <1>1, <1>2, <1>3, <2>3 DEF Counted
<1>6. Stored'
  BY <1>1, <1>3 DEF FInv, Stored, Kept, PartOf
<1>7. InMemory' /\ TestUntouched'
  BY <1>1, <1>2 DEF FInv, InMemory, Working, Kept, PartOf, TestUntouched
<1> QED BY <1>5, <1>6, <1>7 DEF FInv

LEMMA FilesWrite == FInv /\ IInv' /\ Write => FInv'
<1> SUFFICES ASSUME FInv, IInv', Write PROVE FInv'
  OBVIOUS
<1>1. /\ pc = "write" /\ pc' = "load" /\ disk' = [disk EXCEPT ![i] = detectorClassicHOG]
      /\ UNCHANGED <<retained, trained, crashes>>
  BY DEF Write, given
<1>2. i \in 1..NumFiles /\ ~TestMode /\ disk[i] = Broken
  BY <1>1 DEF FInv, InMemory, Working, Counted
<1>3. disk'[i] = detectorClassicHOG /\ \A f \in (1..NumFiles) \ {i} : disk'[f] = disk[f]
  BY <1>1, <1>2 DEF FInv, IInv, TypeOK
<1>4. detectorClassicHOG # Broken
  BY ClassicAssumption DEF FInv, IInv, TypeOK, Detectors
<1>5. BrokenFiles' = BrokenFiles \ {i} /\ i \in BrokenFiles
  BY <1>2, <1>3, <1>4 DEF BrokenFiles
<1>6. Counted'
  <2>1. Cardinality(BrokenFiles') = Cardinality(BrokenFiles) - 1 /\ Cardinality(BrokenFiles) \in Nat
    BY <1>5, FilesCount, FS_RemoveElement DEF FInv
  <2>2. Cardinality(BrokenFiles) <= crashes + 1 /\ crashes \in Nat
    BY <1>1, ClassicAssumption DEF FInv, Counted, IInv, TypeOK
  <2>3. Cardinality(BrokenFiles') <= crashes' + 0
    BY <1>1, <2>1, <2>2
  <2> QED BY <1>1, <2>3 DEF Counted
<1>7. Kept(detectorClassicHOG, i)
  BY <1>1 DEF FInv, InMemory, Working, Kept
<1>8. Stored'
  BY <1>1, <1>3, <1>7 DEF FInv, Stored, Kept, PartOf
<1>9. InMemory' /\ TestUntouched'
  BY <1>1, <1>2 DEF InMemory, Working, TestUntouched
<1> QED BY <1>6, <1>8, <1>9 DEF FInv

LEMMA FilesNext == FInv /\ [Next]_vars => FInv'
<1> SUFFICES ASSUME FInv, [Next]_vars PROVE FInv'
  OBVIOUS
<1>1. IInv'
  BY NextIInv DEF FInv
<1>2. CASE UNCHANGED vars
  <2>1. UNCHANGED <<pc, i, crashes, retained, trained, disk, detectorForEvaluation,
                    detectorClassicHOG, d, bClassicness>>
    BY <1>2 DEF vars, files, given, loop
  <2>2. Counted' /\ TestUntouched'
    BY <2>1 DEF FInv, Counted, BrokenFiles, TestUntouched
  <2>3. Stored' /\ InMemory'
    BY <2>1 DEF FInv, Stored, InMemory, Kept, PartOf
  <2> QED BY <1>1, <2>2, <2>3 DEF FInv
<1>3. CASE Next
  BY <1>1, <1>3, FilesLoad, FilesReduce, FilesOvershoot, FilesQuiet, FilesOpen, FilesWrite
     DEF Next, ProgramStep
<1> QED BY <1>2, <1>3

LEMMA FilesInductive == Spec => []FInv
BY FilesInit, FilesNext, PTL DEF Spec

(* However often the evaluation is run and dies, there is at most one broken
   file for each crash, and every other file holds the trained detector without
   some of its filters; without none at classicness 0. *)
THEOREM FilesOutliveCrashes == Spec => []FilesSurvive
<1>1. ASSUME FInv PROVE FilesSurvive
  <2>1. Cardinality({f \in 1..NumFiles : disk[f] = Broken})
          <= crashes + (IF pc = "write" THEN 1 ELSE 0)
    BY <1>1 DEF FInv, Counted, BrokenFiles
  <2>2. \A f \in 1..NumFiles : disk[f] # Broken =>
          /\ PartOf(disk[f], trained[f])
          /\ retained >= 1000000 => disk[f] = trained[f]
    BY <1>1 DEF FInv, Stored, Kept, TestUntouched
  <2> QED BY <2>1, <2>2 DEF FilesSurvive, PartOf
<1>2. FInv => FilesSurvive
  BY <1>1
<1> QED BY <1>2, FilesInductive, PTL

-----------------------------------------------------------------------------
(* A second evaluation at full classicness.  T and N are the two operations of
   the reduction. *)
T(det, thresh) == threshold_filter_singular_values(det, thresh)
N(det) == num_separable_filters(det)

(* A weaker threshold takes nothing from what a stronger one has left. *)
LEMMA SurvivesLower ==
  ASSUME NEW plane \in [Ranks -> 0..MaxValue], NEW r \in Ranks,
         NEW a \in Int, NEW b \in Int, a <= b,
         NEW once, once = [q \in Ranks |-> IF Survives(plane, q, b) THEN plane[q] ELSE 0]
  PROVE  (IF Survives(once, r, a) THEN once[r] ELSE 0) = once[r]
<1>1. plane[r] \in Nat /\ \A q \in Ranks : plane[q] \in Nat
  BY ClassicAssumption
<1>2. CASE ~Survives(plane, r, b)
  BY <1>2
<1>3. CASE Survives(plane, r, b)
  <2>1. once[r] = plane[r] /\ plane[r] >= 10
    BY <1>3 DEF Survives
  <2>2. ASSUME NEW q \in Ranks PROVE 100 * once[r] >= a * once[q]
    <3>1. CASE once[q] = 0
      BY <1>1, <2>1, <3>1
    <3>2. CASE once[q] = plane[q]
      <4>1. 100 * plane[r] >= b * plane[q] /\ plane[q] \in Nat
        BY <1>1, <1>3 DEF Survives
      <4>2. b * plane[q] >= a * plane[q]
        BY <4>1
      <4>3. 100 * plane[r] >= a * plane[q]
        BY <1>1, <4>1, <4>2
      <4> QED BY <2>1, <3>2, <4>3
    <3> QED BY <3>1, <3>2
  <2> QED BY <2>1, <2>2 DEF Survives
<1> QED BY <1>2, <1>3

LEMMA ThresholdLower ==
  ASSUME NEW det \in Detectors, NEW a \in Int, NEW b \in Int, a <= b
  PROVE  T(T(det, b), a) = T(det, b)
<1> DEFINE once == T(det, b)
<1>1. ASSUME NEW p \in Planes, NEW r \in Ranks
      PROVE  (IF Survives(once[p], r, a) THEN once[p][r] ELSE 0) = once[p][r]
  <2>1. det[p] \in [Ranks -> 0..MaxValue]
    BY DEF Detectors
  <2>2. once[p] = [q \in Ranks |-> IF Survives(det[p], q, b) THEN det[p][q] ELSE 0]
    BY DEF T, threshold_filter_singular_values
  <2> HIDE DEF once
  <2> QED BY <2>1, <2>2, SurvivesLower
<1>2. once = [p \in Planes |-> [r \in Ranks |-> once[p][r]]]
  BY DEF T, threshold_filter_singular_values
<1> HIDE DEF once
<1>3. T(once, a) = [p \in Planes |-> [r \in Ranks |-> once[p][r]]]
  BY <1>1 DEF T, threshold_filter_singular_values
<1> QED BY <1>2, <1>3 DEF once

LEMMA ThresholdFacts ==
  ASSUME NEW det \in Detectors, NEW a \in Int
  PROVE  /\ T(det, a) \in Detectors /\ N(det) \in Nat /\ N(T(det, a)) \in Nat
         /\ N(T(det, a)) <= N(det)
         /\ \A b \in Int : a <= b => T(T(det, a), b) = T(det, b) /\ N(T(det, b)) <= N(T(det, a))
<1>1. T(det, a) \in Detectors
  BY ThresholdType DEF T
<1>2. ASSUME NEW b \in Int, a <= b
      PROVE  T(T(det, a), b) = T(det, b) /\ N(T(det, b)) <= N(T(det, a))
  <2>1. T(T(det, a), b) = T(det, b)
    BY <1>2, ThresholdTwice DEF T
  <2>2. N(T(T(det, a), b)) <= N(T(det, a))
    BY <1>1, ThresholdCount DEF T, N
  <2> QED BY <2>1, <2>2
<1> QED BY <1>1, <1>2, CountType, ThresholdCount DEF T, N

(* What reducing it again does not change: a detector with one filter, one
   that each threshold leaves alone or empties, and one that is emptied so early
   that the step back goes to the beginning. *)
Untouched(det) ==
  \A a \in Start..Strength : T(det, a) = det \/ N(T(det, a)) = 0
EmptiedAt(det, e) ==
  /\ e \in Start..Strength /\ N(T(det, e)) = 0 /\ N(det) > 1
  /\ \A a \in Start..(e - 1) : N(T(det, a)) > 1
Settled(det) ==
  \/ N(det) <= 1 \/ Start > Strength
  \/ Untouched(det)
  \/ \E e \in Start..(Start + 2) : EmptiedAt(det, e)

(* The rounds so far have each left more than one filter. *)
History ==
  pc = "reduce" /\ bClassicness /\ d > Start =>
    /\ N(detectorForEvaluation) > 1
    /\ \A a \in Start..(d - 2) : N(T(detectorForEvaluation, a)) > 1

Reduced ==
  pc \in {"evaluate", "serialize", "write"} \/ (pc = "reduce" /\ ~bClassicness) =>
    /\ Settled(detectorClassicHOG)
    /\ run > 1 => detectorClassicHOG = detectorForEvaluation

SettledFiles ==
  /\ \A f \in 1..NumFiles : disk[f] # Broken /\ (run > 1 \/ f < i) => Settled(disk[f])
  /\ pc \in Working /\ run > 1 => Settled(detectorForEvaluation)
  /\ pc = "ended" => i > NumFiles

\* With every filter wanted, in the evaluation mode, before any crash.
Full == retained = 0 /\ crashes = 0
SInv == FInv /\ (Full => History /\ Reduced /\ SettledFiles)

LEMMA TooFewAtZero ==
  ASSUME retained = 0, ~TestMode, NEW n \in Nat, iStartNumberOfFilters \in Nat
  PROVE  TooFew(n) <=> n = 0
<1>1. 0 * iStartNumberOfFilters = 0
  OBVIOUS
<1>2. 1000000 * n <= 0 <=> n = 0
  OBVIOUS
<1> QED BY <1>1, <1>2 DEF TooFew

(* The loop at its next round: how many filters each round before has left. *)
LEMMA RoundsSoFar ==
  ASSUME SInv, Full, ~TestMode, pc = "reduce", bClassicness, LoopGoesOn
  PROVE  /\ d \in Start..Strength /\ N(detectorForEvaluation) > 1
         /\ \A a \in Start..(d - 1) : N(T(detectorForEvaluation, a)) > 1
<1>1. d \in Int /\ d >= Start /\ d <= Strength /\ iNumberOfFilters > 1
      /\ iNumberOfFilters = N(detectorClassicHOG)
  BY DEF SInv, FInv, IInv, TypeOK, Rounds, LoopGoesOn, N
<1>2. CASE d = Start
  <2>1. N(detectorForEvaluation) > 1
    BY <1>1, <1>2 DEF SInv, FInv, IInv, Rounds
  <2>2. Start..(d - 1) = {}
    BY <1>2, ClassicAssumption
  <2> QED BY <1>1, <2>1, <2>2, ClassicAssumption
<1>3. CASE d > Start
  <2>1. detectorClassicHOG = T(detectorForEvaluation, d - 1)
    BY <1>3 DEF SInv, FInv, IInv, Rounds, T
  <2>2. N(T(detectorForEvaluation, d - 1)) > 1
    BY <1>1, <2>1
  <2>3. Start..(d - 1) = Start..(d - 2) \cup {d - 1}
    BY <1>1, <1>3, ClassicAssumption
  <2> QED BY <1>1, <1>3, <2>2, <2>3, ClassicAssumption DEF SInv, History
<1> QED BY <1>1, <1>2, <1>3, ClassicAssumption

(* The step back leaves a detector that the next run finds settled ... *)
LEMMA UntouchedAfter ==
  ASSUME NEW det \in Detectors, NEW b \in Int,
         \A a \in (b + 1)..Strength : N(T(det, a)) = 0
  PROVE  Untouched(T(det, b))
<1> SUFFICES ASSUME NEW a \in Start..Strength
             PROVE  T(T(det, b), a) = T(det, b) \/ N(T(T(det, b), a)) = 0
  BY DEF Untouched
<1>1. a \in Int
  BY ClassicAssumption
<1>2. CASE a <= b
  BY <1>1, <1>2, ThresholdLower
<1>3. CASE a > b
  <2>1. a \in (b + 1)..Strength
    BY <1>1, <1>3, ClassicAssumption
  <2>2. T(T(det, b), a) = T(det, a)
    BY <1>1, <1>3, ThresholdFacts
  <2> QED BY <2>1, <2>2
<1> QED BY <1>1, <1>2, <1>3

LEMMA SettledBack ==
  ASSUME NEW det \in Detectors, NEW e \in Start..Strength, N(det) > 1,
         \A a \in Start..(e - 1) : N(T(det, a)) > 1, N(T(det, e)) = 0
  PROVE  /\ e <= Start + 2 => EmptiedAt(det, e)
         /\ Untouched(T(det, e - 1))
         /\ e > Start + 2 /\ Settled(det) => T(det, e - 1) = det
<1>1. e \in Int /\ e - 1 \in Int /\ e >= Start /\ e <= Strength
  BY ClassicAssumption
<1>2. e <= Start + 2 => EmptiedAt(det, e)
  BY DEF EmptiedAt
<1>3. Untouched(T(det, e - 1))
  <2>1. ASSUME NEW a \in ((e - 1) + 1)..Strength PROVE N(T(det, a)) = 0
    <3>1. a \in Int /\ e <= a
      BY <1>1, ClassicAssumption
    <3>2. N(T(det, a)) <= N(T(det, e)) /\ N(T(det, a)) \in Nat
      BY <1>1, <3>1, ThresholdFacts
    <3> QED BY <3>2
  <2> QED BY <1>1, <2>1, UntouchedAfter
<1>4. ASSUME e > Start + 2, Settled(det) PROVE T(det, e - 1) = det
  <2>1. e - 1 \in Start..Strength /\ N(T(det, e - 1)) > 1
    BY <1>1, <1>4, ClassicAssumption
  <2>2. CASE Untouched(det)
    BY <2>1, <2>2 DEF Untouched
  <2>3. ASSUME NEW c \in Start..(Start + 2), EmptiedAt(det, c) PROVE FALSE
    <3>1. c \in Start..(e - 1)
      BY <1>1, <1>4, ClassicAssumption
    <3> QED BY <2>3, <3>1 DEF EmptiedAt
  <2>4. Start <= Strength /\ ~(N(det) <= 1)
    <3>1. N(det) \in Nat
      BY <1>1, ThresholdFacts
    <3> QED BY <1>1, <3>1, ClassicAssumption
  <2>5. ~(Start > Strength)
    BY <2>4, ClassicAssumption
  <2> QED BY <1>4, <2>2, <2>3, <2>4, <2>5 DEF Settled
<1> QED BY <1>2, <1>3, <1>4

(* ... and so does a loop that ends by itself. *)
LEMMA SettledEnd ==
  ASSUME NEW det \in Detectors, NEW e \in Int, e > Start, e - 1 <= Strength, N(det) > 1,
         \A a \in Start..(e - 2) : N(T(det, a)) > 1,
         N(T(det, e - 1)) # 0, N(T(det, e - 1)) <= 1 \/ e > Strength
  PROVE  Settled(T(det, e - 1)) /\ (Settled(det) => T(det, e - 1) = det)
<1>1. /\ e - 1 \in Start..Strength /\ e - 1 \in Int
      /\ N(T(det, e - 1)) \in Nat /\ N(det) \in Nat
  <2>1. e - 1 \in Int
    OBVIOUS
  <2> QED BY <2>1, ClassicAssumption, ThresholdFacts
<1>2. Settled(T(det, e - 1))
  <2>1. CASE e > Strength
    <3>1. ((e - 1) + 1)..Strength = {}
      BY <2>1, ClassicAssumption
    <3> QED BY <1>1, <3>1, UntouchedAfter DEF Settled
  <2> QED BY <2>1 DEF Settled
<1>3. ASSUME Settled(det) PROVE T(det, e - 1) = det
  <2>1. CASE Untouched(det)
    BY <1>1, <2>1 DEF Untouched
  <2>2. ASSUME NEW c \in Start..(Start + 2), EmptiedAt(det, c) PROVE FALSE
    <3>1. /\ c \in Int /\ c >= Start /\ c <= Strength /\ N(T(det, c)) = 0
          /\ \A a \in Start..(c - 1) : N(T(det, a)) > 1
      BY <2>2, ClassicAssumption DEF EmptiedAt
    <3>2. CASE c <= e - 2
      <4>1. c \in Start..(e - 2)
        BY <3>1, <3>2, ClassicAssumption
      <4> QED BY <3>1, <4>1
    <3>3. CASE c = e - 1
      BY <3>1, <3>3
    <3>4. CASE c > e - 1
      <4>1. e - 1 \in Start..(c - 1)
        BY <1>1, <3>1, <3>4, ClassicAssumption
      <4>2. N(T(det, e - 1)) > 1
        BY <3>1, <4>1
      <4> QED BY <1>1, <3>1, <3>4, <4>2, ClassicAssumption
    <3> QED BY <3>1, <3>2, <3>3, <3>4
  <2>3. ~(N(det) <= 1) /\ ~(Start > Strength)
    BY <1>1, ClassicAssumption
  <2> QED BY <1>3, <2>1, <2>2, <2>3 DEF Settled
<1> QED BY <1>2, <1>3

-----------------------------------------------------------------------------
LEMMA SettledInit == Init => SInv
<1> SUFFICES ASSUME Init PROVE SInv
  OBVIOUS
<1>1. pc = "load" /\ run = 1 /\ i = 1
  BY DEF Init
<1>2. SettledFiles
  <2>1. \A f \in 1..NumFiles : ~(f < 1)
    BY ClassicAssumption
  <2> QED BY <1>1, <2>1 DEF SettledFiles, Working
<1> QED BY <1>1, <1>2, FilesInit DEF SInv, History, Reduced

LEMMA SettledLoad == SInv /\ FInv' /\ Load => SInv'
<1> SUFFICES ASSUME SInv, FInv', Load, Full' PROVE History' /\ Reduced' /\ SettledFiles'
  BY DEF SInv
<1>1. /\ pc = "load" /\ pc' = "reduce" /\ d' = Start /\ bClassicness' /\ disk[i] # Broken
      /\ detectorForEvaluation' = disk[i] /\ UNCHANGED <<files, i, run, crashes>>
  BY DEF Load
<1>2. i \in 1..NumFiles /\ Full /\ disk' = disk /\ i' = i /\ run' = run
  BY <1>1, ClassicAssumption DEF Load, files, given, Full, SInv, FInv, IInv, TypeOK
<1>3. History' /\ Reduced'
  BY <1>1, ClassicAssumption DEF History, Reduced
<1>4. SettledFiles'
  BY <1>1, <1>2 DEF SInv, SettledFiles
<1> QED BY <1>3, <1>4

(* Without a crash no file is broken, and a run ends after the last one. *)
LEMMA SettledEnds == SInv /\ FInv' /\ (LoadFails \/ AllLoaded) => SInv'
<1> SUFFICES ASSUME SInv, FInv', LoadFails \/ AllLoaded, Full'
             PROVE  History' /\ Reduced' /\ SettledFiles'
  BY DEF SInv
<1>1. /\ pc = "load" /\ pc' = "ended" /\ Full /\ disk' = disk /\ i' = i /\ run' = run
  BY DEF LoadFails, AllLoaded, files, given, Full
<1>2. i > NumFiles
  <2> SUFFICES ASSUME LoadFails PROVE FALSE
    BY DEF AllLoaded
  <2>1. i \in 1..NumFiles /\ disk[i] = Broken
    BY ClassicAssumption DEF LoadFails, SInv, FInv, IInv, TypeOK
  <2>2. i \in BrokenFiles
    BY <2>1 DEF BrokenFiles
  <2>3. IsFiniteSet(BrokenFiles) /\ Cardinality(BrokenFiles) \in Nat
    BY FilesCount DEF SInv, FInv
  <2>4. Cardinality(BrokenFiles) <= 0
    BY <1>1, <2>3 DEF SInv, FInv, Counted, Full
  <2> QED BY <2>2, <2>3, <2>4, FS_EmptySet
<1>3. History' /\ Reduced'
  BY <1>1 DEF History, Reduced
<1>4. SettledFiles'
  BY <1>1, <1>2 DEF SInv, SettledFiles, Working
<1> QED BY <1>3, <1>4

LEMMA SettledReduce == ~TestMode /\ SInv /\ FInv' /\ Reduce => SInv'
<1> SUFFICES ASSUME ~TestMode, SInv, FInv', Reduce, Full'
             PROVE  History' /\ Reduced' /\ SettledFiles'
  BY DEF SInv
<1>1. /\ pc = "reduce" /\ pc' = "reduce" /\ LoopGoesOn /\ bClassicness /\ bClassicness' = bClassicness
      /\ d' = d + 1 /\ detectorForEvaluation' = detectorForEvaluation
      /\ disk' = disk /\ i' = i /\ run' = run /\ Full
  BY DEF Reduce, NextD, LoopGoesOn, files, given, Full
<1>2. /\ d \in Start..Strength /\ N(detectorForEvaluation) > 1
      /\ \A a \in Start..(d - 1) : N(T(detectorForEvaluation, a)) > 1
  BY <1>1, RoundsSoFar
<1>3. d' - 2 = d - 1
  BY <1>1, <1>2, ClassicAssumption
<1>4. History'
  BY <1>1, <1>2, <1>3 DEF History, N, T
<1>5. Reduced'
  BY <1>1 DEF Reduced
<1>6. SettledFiles'
  BY <1>1 DEF SInv, SettledFiles, Working
<1> QED BY <1>4, <1>5, <1>6

LEMMA SettledOvershoot == ~TestMode /\ SInv /\ FInv' /\ Overshoot => SInv'
<1> SUFFICES ASSUME ~TestMode, SInv, FInv', Overshoot, Full'
             PROVE  History' /\ Reduced' /\ SettledFiles'
  BY DEF SInv
<1> DEFINE x == detectorForEvaluation
<1>1. /\ pc = "reduce" /\ pc' = "reduce" /\ LoopGoesOn /\ bClassicness /\ ~bClassicness'
      /\ d' = d - 1 /\ detectorForEvaluation' = disk[i]
      /\ detectorClassicHOG' = IF d - 1 > Start + 1 THEN T(disk[i], d - 1) ELSE disk[i]
      /\ TooFew(N(T(detectorClassicHOG, d)))
      /\ disk' = disk /\ i' = i /\ run' = run /\ Full
  BY DEF Overshoot, StepBack, LoopGoesOn, BackTo, T, N, files, given, Full
<1>2. /\ disk[i] = x /\ x \in Detectors /\ iStartNumberOfFilters \in Nat
      /\ detectorClassicHOG \in Detectors
  BY <1>1 DEF SInv, FInv, IInv, TypeOK, FromFile
<1>3. /\ d \in Start..Strength /\ N(x) > 1
      /\ \A a \in Start..(d - 1) : N(T(x, a)) > 1
  BY <1>1, RoundsSoFar
<1>4. N(T(x, d)) = 0
  <2>1. T(detectorClassicHOG, d) = T(x, d)
    BY <1>1, RoundIsFresh DEF SInv, FInv, T
  <2>2. N(T(x, d)) \in Nat
    BY CountType DEF N
  <2> QED BY <1>1, <1>2, <2>1, <2>2, TooFewAtZero DEF Full
<1>5. /\ d <= Start + 2 => EmptiedAt(x, d)
      /\ Untouched(T(x, d - 1))
      /\ d > Start + 2 /\ Settled(x) => T(x, d - 1) = x
  <2> HIDE DEF x
  <2> QED BY <1>2, <1>3, <1>4, SettledBack
<1>6. run > 1 => Settled(x)
  BY <1>1 DEF SInv, SettledFiles, Working
<1>7. Settled(detectorClassicHOG') /\ (run > 1 => detectorClassicHOG' = x)
  <2>1. CASE d > Start + 2
    <3>1. detectorClassicHOG' = T(x, d - 1)
      BY <1>1, <1>2, <1>3, <2>1, ClassicAssumption
    <3> QED BY <1>5, <1>6, <2>1, <3>1 DEF Settled
  <2>2. CASE d <= Start + 2
    <3>1. detectorClassicHOG' = x
      BY <1>1, <1>2, <1>3, <2>2, ClassicAssumption
    <3>2. d \in Start..(Start + 2)
      BY <1>3, <2>2, ClassicAssumption
    <3> QED BY <1>5, <2>2, <3>1, <3>2 DEF Settled
  <2> QED BY <1>3, <2>1, <2>2, ClassicAssumption
<1>8. History' /\ Reduced'
  BY <1>1, <1>2, <1>7 DEF History, Reduced
<1>9. SettledFiles'
  BY <1>1, <1>2, <1>6 DEF SInv, SettledFiles, Working
<1> QED BY <1>8, <1>9

LEMMA SettledEndLoop == ~TestMode /\ SInv /\ FInv' /\ EndLoop => SInv'
<1> SUFFICES ASSUME ~TestMode, SInv, FInv', EndLoop, Full'
             PROVE  History' /\ Reduced' /\ SettledFiles'
  BY DEF SInv
<1> DEFINE x == detectorForEvaluation
<1>1. /\ pc = "reduce" /\ pc' = "evaluate" /\ ~LoopGoesOn
      /\ detectorForEvaluation' = x /\ detectorClassicHOG' = detectorClassicHOG
      /\ disk' = disk /\ i' = i /\ run' = run /\ Full
  BY DEF EndLoop, loop, files, given, Full
<1>2. /\ x \in Detectors /\ iStartNumberOfFilters \in Nat /\ d \in Int
      /\ d = Start \/ d \in (Start - 1)..(Strength + 1)
  BY DEF SInv, FInv, IInv, TypeOK
<1>3. run > 1 => Settled(x)
  BY <1>1 DEF SInv, SettledFiles, Working
<1>4. Settled(detectorClassicHOG) /\ (run > 1 => detectorClassicHOG = x)
  <2>1. CASE ~bClassicness
    BY <1>1, <2>1 DEF SInv, Reduced
  <2>2. CASE bClassicness /\ d = Start
    <3>1. detectorClassicHOG = x /\ iNumberOfFilters = N(x)
      BY <1>1, <2>2 DEF SInv, FInv, IInv, Rounds, N
    <3>2. N(x) <= 1 \/ Start > Strength
      <4>1. N(x) \in Nat
        BY CountType DEF N
      <4> QED BY <1>1, <2>2, <3>1, <4>1, ClassicAssumption DEF LoopGoesOn
    <3> QED BY <3>1, <3>2 DEF Settled
  <2>3. CASE bClassicness /\ d # Start
    <3>1. d > Start /\ d - 1 <= Strength
      <4>1. d >= Start
        BY <1>1, <2>3 DEF SInv, FInv, IInv, Rounds
      <4> QED BY <1>2, <2>3, <4>1, ClassicAssumption
    <3>2. /\ detectorClassicHOG = T(x, d - 1) /\ ~TooFew(iNumberOfFilters)
          /\ iNumberOfFilters = N(T(x, d - 1))
      BY <1>1, <2>3, <3>1 DEF SInv, FInv, IInv, Rounds, N, T
    <3>3. N(T(x, d - 1)) \in Nat
      BY CountType DEF N
    <3>4. N(T(x, d - 1)) # 0
      BY <1>1, <1>2, <3>2, <3>3, TooFewAtZero DEF Full
    <3>5. N(T(x, d - 1)) <= 1 \/ d > Strength
      BY <1>1, <1>2, <2>3, <3>2, <3>3, ClassicAssumption DEF LoopGoesOn
    <3>6. N(x) > 1 /\ \A a \in Start..(d - 2) : N(T(x, a)) > 1
      BY <1>1, <2>3, <3>1 DEF SInv, History
    <3>7. Settled(T(x, d - 1)) /\ (Settled(x) => T(x, d - 1) = x)
      <4> HIDE DEF x
      <4> QED BY <1>2, <3>1, <3>4, <3>5, <3>6, SettledEnd
    <3> QED BY <1>3, <3>2, <3>7
  <2> QED BY <2>1, <2>2, <2>3
<1>5. History' /\ Reduced'
  BY <1>1, <1>4 DEF History, Reduced
<1>6. SettledFiles'
  BY <1>1 DEF SInv, SettledFiles, Working
<1> QED BY <1>5, <1>6

LEMMA SettledEvaluate == ~TestMode /\ SInv /\ FInv' /\ (Evaluate \/ OpenFile) => SInv'
<1> SUFFICES ASSUME ~TestMode, SInv, FInv', Evaluate \/ OpenFile, Full'
             PROVE  History' /\ Reduced' /\ SettledFiles'
  BY DEF SInv
<1>1. /\ pc \in {"evaluate", "serialize"} /\ pc' \in {"serialize", "write"}
      /\ \A f \in 1..NumFiles : disk'[f] = disk[f] \/ disk'[f] = Broken
      /\ i' = i /\ run' = run /\ Full
      /\ detectorClassicHOG' = detectorClassicHOG
      /\ detectorForEvaluation' = detectorForEvaluation
  BY DEF Evaluate, OpenFile, files, given, loop, Full, SInv, FInv, IInv, TypeOK
<1>2. History' /\ Reduced'
  BY <1>1 DEF SInv, History, Reduced
<1>3. SettledFiles'
  BY <1>1 DEF SInv, SettledFiles, Working
<1> QED BY <1>2, <1>3

LEMMA SettledWrite == SInv /\ FInv' /\ Write => SInv'
<1> SUFFICES ASSUME SInv, FInv', Write, Full'
             PROVE  History' /\ Reduced' /\ SettledFiles'
  BY DEF SInv
<1>1. /\ pc = "write" /\ pc' = "load" /\ disk' = [disk EXCEPT ![i] = detectorClassicHOG]
      /\ i' = i + 1 /\ run' = run /\ Full
  BY DEF Write, given, Full
<1>2. i \in 1..NumFiles /\ disk \in [1..NumFiles -> Detectors \cup {Broken}]
  BY <1>1 DEF SInv, FInv, IInv, TypeOK, FromFile
<1>3. Settled(detectorClassicHOG)
  BY <1>1 DEF SInv, Reduced
<1>4. History' /\ Reduced'
  BY <1>1 DEF History, Reduced
<1>5. ASSUME NEW f \in 1..NumFiles, disk'[f] # Broken, run > 1 \/ f < i + 1
      PROVE  Settled(disk'[f])
  <2>1. CASE f = i
    BY <1>1, <1>2, <1>3, <2>1
  <2>2. CASE f # i
    <3>1. disk'[f] = disk[f]
      BY <1>1, <1>2, <2>2
    <3>2. run > 1 \/ f < i
      BY <1>2, <1>5, <2>2, ClassicAssumption
    <3> QED BY <1>1, <1>5, <3>1, <3>2 DEF SInv, SettledFiles
  <2> QED BY <2>1, <2>2
<1>6. SettledFiles'
  BY <1>1, <1>5 DEF SettledFiles, Working
<1> QED BY <1>4, <1>6

(* The next run finds the files of the last one as it has left them. *)
LEMMA SettledRunAgain == SInv /\ FInv' /\ RunAgain => SInv'
<1> SUFFICES ASSUME SInv, FInv', RunAgain, Full'
             PROVE  History' /\ Reduced' /\ SettledFiles'
  BY DEF SInv
<1>1. pc = "ended" /\ pc' = "load" /\ disk' = disk /\ Full
  BY DEF RunAgain, files, given, Full
<1>2. \A f \in 1..NumFiles : f < i
  <2>1. i > NumFiles /\ i \in Nat /\ NumFiles \in Nat
    BY <1>1, ClassicAssumption DEF SInv, SettledFiles, FInv, IInv, TypeOK
  <2> QED BY <2>1
<1>3. History' /\ Reduced'
  BY <1>1 DEF History, Reduced
<1>4. SettledFiles'
  BY <1>1, <1>2 DEF SInv, SettledFiles, Working
<1> QED BY <1>3, <1>4

LEMMA SettledNext == ~TestMode /\ SInv /\ [Next]_vars => SInv'
<1> SUFFICES ASSUME ~TestMode, SInv, [Next]_vars PROVE SInv'
  OBVIOUS
<1>1. FInv'
  BY FilesNext DEF SInv
<1>2. CASE UNCHANGED vars
  BY <1>1, <1>2 DEF SInv, Full, History, Reduced, SettledFiles, vars, files, given, loop
<1>3. CASE Crash
  <2>1. ~Full'
    BY <1>3, ClassicAssumption DEF Crash, Full, SInv, FInv, IInv, TypeOK
  <2> QED BY <1>1, <2>1 DEF SInv
<1> QED BY <1>1, <1>2, <1>3, SettledLoad, SettledEnds, SettledReduce, SettledOvershoot,
           SettledEndLoop, SettledEvaluate, SettledWrite, SettledRunAgain
        DEF Next, ProgramStep

(* At full classicness (retained = 0) the evaluation mode, run again over the
   files it has written, reduces none of them further: a settled detector comes
   out of the loop as it was loaded (fHOG_FullNaoDetector.cpp:943-961). *)
THEOREM SecondRunChangesNothing ==
  ASSUME ~TestMode
  PROVE  Spec => []SecondRunKeeps
<1>1. SInv => SecondRunKeeps
  BY DEF SInv, Full, Reduced, SecondRunKeeps
<1> QED BY <1>1, SettledInit, SettledNext, PTL DEF Spec
==============================================================================

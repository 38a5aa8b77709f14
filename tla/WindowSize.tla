----------------------------- MODULE WindowSize -----------------------------
(***************************************************************************)
(* The size of the detector's sliding window from session to session of a  *)
(* cross validation (src/extern/CrossValidation.cpp, runTrainingSession).  *)
(* pickBestHogWindowSize (src/extern/Helper.cpp) is given the product of   *)
(* the members ulWinSizeWidth and ulWinSizeHeight as its target, and       *)
(* writes its result to the same members: every session starts from the    *)
(* size that the last one chose.                                           *)
(*                                                                         *)
(* A session knows of its boxes only their mean width and height.  They    *)
(* depend on the fold that it skips, not on C and epsilon: the other folds *)
(* are as the split left them in every session, and hold a box.  Means are *)
(* whole numbers of some unit, and roots are exact; a double may round the *)
(* other way where a root is half a pixel from a whole number.             *)
(***************************************************************************)
EXTENDS Integers

CONSTANTS
  Folded,   \* foldedImagesVector.size() - 1, the folds that can be skipped
  Pairs,    \* vecC.size() * vecEpsilon.size()
  Means,    \* what the means may be: functions of the skipped fold
  Sizes     \* what the configuration may ask for

Window == [width : Nat \ {0}, height : Nat \ {0}]

ASSUME WindowAssumption ==
  /\ Folded \in Nat \ {0} /\ Pairs \in Nat
  /\ Means \subseteq [1..Folded -> Window]
  /\ Sizes \subseteq Window

VARIABLES
  mean,              \* of the boxes of the data set that was split
  start,             \* the size asked for
  window,            \* ulWinSizeWidth, ulWinSizeHeight
  pair, skippedFold, \* the C and epsilon of the session, and its fold
  chosen             \* the windows of all sessions so far

vars == <<mean, start, window, pair, skippedFold, chosen>>

Area(win) == win.width * win.height

\* (unsigned long)std::sqrt(a / b), and (unsigned long)(std::sqrt(a / b) + 0.5)
Floor(a, b) ==
  CHOOSE x \in 0..a : x * x * b <= a /\ a < (x + 1) * (x + 1) * b
Round(a, b) ==
  CHOOSE x \in 0..a : /\ x > 0 => (2 * x - 1) * (2 * x - 1) * b <= 4 * a
                      /\ 4 * a < (2 * x + 1) * (2 * x + 1) * b
NotZero(x) == IF x = 0 THEN 1 ELSE x

\* The mean is scaled by the root of target / size, where size is Area(m).
InverselyScaled(m, target) ==
  [width |-> NotZero(Round(m.width * m.width * Area(m), target)),
   height |-> NotZero(Round(m.height * m.height * Area(m), target))]
pickBestHogWindowSize(m, target) ==
  [width |-> NotZero(Round(target * m.width, m.height)),
   height |-> NotZero(Round(target * m.height, m.width))]

NoWindow == [width |-> 0, height |-> 0]
Init ==
  /\ mean \in Means /\ start \in Sizes
  /\ window = start
  /\ pair = 1 /\ skippedFold = 1
  /\ chosen = [p \in (1..Pairs) \X (1..Folded) |-> NoWindow]

runTrainingSession ==
  /\ pair <= Pairs /\ skippedFold <= Folded
  /\ window' = pickBestHogWindowSize(mean[skippedFold], Area(window))
  /\ chosen' = [chosen EXCEPT ![<<pair, skippedFold>>] = window']
  /\ skippedFold' = skippedFold + 1
  /\ UNCHANGED <<mean, start, pair>>

NextPair ==
  /\ pair <= Pairs /\ skippedFold > Folded
  /\ pair' = pair + 1 /\ skippedFold' = 1
  /\ UNCHANGED <<mean, start, window, chosen>>

Next == runTrainingSession \/ NextPair

Spec == Init /\ [][Next]_vars
-----------------------------------------------------------------------------
TypeOK ==
  /\ mean \in [1..Folded -> Window] /\ start \in Window
  /\ window \in Window
  /\ pair \in 1..(Pairs + 1) /\ skippedFold \in 1..(Folded + 1)
  /\ chosen \in [(1..Pairs) \X (1..Folded) -> Window \cup {NoWindow}]

Done(p, f) == p < pair \/ (p = pair /\ f < skippedFold)

\* The window that the session started from.
Before(p, f) ==
  CASE f > 1 -> chosen[<<p, f - 1>>]
    [] f = 1 /\ p > 1 -> chosen[<<p - 1, Folded>>]
    [] OTHER -> start

(* "#width*#height == target_size" and "#width/#height == the average aspect
   ratio of the elements of boxes", approximately (Helper.h:16-18): no side is
   further from the exact one than half a pixel, so the area differs from the
   target by at most half of the sides' sum, and the sides from the aspect ratio
   by as much as half a pixel makes.  Boxes more than four times as long as the
   target's area, of which one side would round to zero, are exempt. *)
Thin(m, target) == 4 * target * m.width < m.height \/ 4 * target * m.height < m.width
WindowsFit ==
  \A p \in 1..Pairs : \A f \in 1..Folded :
    LET target == Area(Before(p, f))
        win == chosen[<<p, f>>]
        m == mean[f]
    IN  Done(p, f) /\ ~Thin(m, target) =>
          /\ 4 * (Area(win) - target) < 2 * (win.width + win.height)
          /\ 4 * (target - Area(win)) <= 2 * (win.width + win.height)
          /\ 2 * (win.width * m.height - win.height * m.width) < m.width + m.height
          /\ 2 * (win.height * m.width - win.width * m.height) < m.width + m.height

(* Feeding the size back makes it drift, but one way only: from one C or epsilon
   to the next the windows of all folds grow, or all of them shrink, for as long
   as the grid goes on, so the area of a fold once left never comes back. *)
Grows(p, f) == Area(chosen[<<p, f>>]) <= Area(chosen[<<p + 1, f>>])
Shrinks(p, f) == Area(chosen[<<p, f>>]) >= Area(chosen[<<p + 1, f>>])
Later == {s \in (1..Pairs) \X (1..Folded) : s[1] < Pairs /\ Done(s[1] + 1, s[2])}
DriftsOneWay ==
  (\A s \in Later : Grows(s[1], s[2])) \/ (\A s \in Later : Shrinks(s[1], s[2]))
=============================================================================

------------------------- MODULE CuttingPlaneMethod -------------------------
(***************************************************************************)
(* What oca and structural_svm_problem promise                             *)
(* (dlib/optimization/optimization_oca_abstract.h:21-24 and 62-86,         *)
(* dlib/svm/structural_svm_problem_abstract.h:117-122): the minimum of a   *)
(* penalty and a risk, from planes that are nowhere above the risk, until  *)
(* a plane that touches the risk leaves a gap below epsilon.  Nothing is   *)
(* said about samples, labellings and their caches, nor about the planes   *)
(* that go.                                                                *)
(***************************************************************************)
EXTENDS Integers

CONSTANTS
  Weights, Start,
  Penalty,   \* of each of the weights
  Epsilon

VARIABLES
  phase,
  risk,      \* the risk of each of the weights
  w,
  planes,    \* the values of each plane at the weights
  latest,    \* the newest plane, until w moves
  touches,   \* it is known to have the risk at w
  lower      \* the lower bound of the objective

vars == <<phase, risk, w, planes, latest, touches, lower>>

Planes == [Weights -> Int]
Gap == latest[w] - (lower - Penalty[w])

Init ==
  /\ phase = "cut"
  /\ risk \in [Weights -> Nat] /\ w = Start
  /\ planes = {[v \in Weights |-> 0]} /\ latest \in Planes
  /\ touches = FALSE /\ lower = 0

Cut ==
  /\ phase = "cut" /\ phase' \in {"check", "solve"}
  /\ latest' \in Planes /\ planes' = planes \cup {latest'}
  /\ \A v \in Weights : latest'[v] <= risk[v]
  /\ latest'[w] >= 0
  /\ touches' => latest'[w] = risk[w]
  /\ UNCHANGED <<risk, w, lower>>

Decide(next) ==
  /\ phase = "check" /\ phase' = next
  /\ touches' = FALSE
  /\ UNCHANGED <<risk, w, planes, latest, lower>>
Stop == touches /\ Gap < Epsilon /\ Decide("optimal")
GoOn == ~(touches /\ Gap < Epsilon) /\ Decide("solve")
GiveUp == Decide("given up")

\* A new minimum over the planes; those that stay have the same one.
Solve ==
  /\ phase = "solve" /\ phase' = "cut"
  /\ w' \in Weights /\ latest' \in Planes
  /\ \A p \in planes : Penalty[w'] + p[w'] <= lower'
  /\ planes' \subseteq planes
  /\ \A v \in Weights : \E p \in planes' : Penalty[v] + p[v] >= lower'
  /\ UNCHANGED <<risk, touches>>

Next == Cut \/ Stop \/ GoOn \/ GiveUp \/ Solve

Spec == Init /\ [][Next]_vars
=============================================================================

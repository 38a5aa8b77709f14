--------------------------- MODULE CuttingPlanes ---------------------------
(***************************************************************************)
(* Training (dlib/optimization/optimization_oca.h, oca_impl, and the       *)
(* structural_svm_problem it solves): the cutting plane optimisation of    *)
(* the weights w.  Every iteration asks the separation oracle, or its      *)
(* cache, for the worst labelling of each sample under w, adds the plane   *)
(* that these labellings make, decides whether to stop, and moves w to     *)
(* the minimum over the planes.                                            *)
(*                                                                         *)
(* Weights stand on a finite grid, on which the quadratic program is       *)
(* solved exactly: w is a minimum over the grid, and the planes with a     *)
(* positive alpha are some that alone have that minimum.  The order of the *)
(* planes does not matter, so they are a set.  A problem's strength is that *)
(* of the nuclear norm regularizer, none (0) without --nnr.  With Unit =   *)
(* 2 * C * Cardinality(Samples), risks are in 1/Unit of the code's,        *)
(* objectives in 1/(2 * Cardinality(Samples)) and gaps as the risks.       *)
(***************************************************************************)
EXTENDS OracleCache, FiniteSets

CONSTANTS
  Samples,       \* the training images
  Labellings,    \* the joint feature vectors, psi
  Weights,       \* the grid
  Zero,          \* the weights at which training starts
  Norm,          \* the square of a weight's norm
  Gradient,      \* of the nuclear norm at one weight, times another one
  Problems,      \* training problems by number, of TrainingProblems
  C, Epsilon,    \* get_c(), get_epsilon(); Epsilon in the unit of the gaps
  InactiveThresh, \* inactive_thresh
  MostRounds     \* bound that the instance keeps to, see ConvergesInTime

Losses == Int
Entries == [psi : Labellings, loss : Losses]

(* Of a problem the optimisation sees, for each sample, the labelling of the
   truth, by how much another one outscores it at some weights, and what the
   oracle may find there; `worst' is the risk of the worst labelling. *)
TrainingProblems ==
  [truth : [Samples -> Labellings],
   margin : [Samples -> [Labellings -> [Weights -> Int]]],
   oracle : [Samples -> [Weights -> SUBSET Entries]],
   worst : [Samples -> [Weights -> Int]],
   strength : Nat,
   max_iterations : Nat \ {0}]

\* The same; TLC evaluates a definition once, a constant each time.
Given == Problems

ASSUME CuttingPlanesAssumption ==
  /\ IsFiniteSet(Samples) /\ Samples # {}
  /\ IsFiniteSet(Weights) /\ Zero \in Weights
  /\ Norm \in [Weights -> Nat]
  /\ C \in Nat \ {0} /\ Epsilon \in Nat \ {0}
  /\ InactiveThresh \in Nat \ {0}
  /\ Problems \in [DOMAIN Problems -> TrainingProblems]

(* The nuclear norm is convex and grows with its argument: at a weight it is its
   gradient there times that weight, and nowhere below what any gradient says. *)
ASSUME GradientAssumption ==
  /\ Gradient \in [Weights -> [Weights -> Int]]
  /\ \A u, v \in Weights : Gradient[v][v] >= 0 /\ Gradient[u][v] <= Gradient[v][v]

(* The truth outscores nothing and misses nothing, and no labelling that the
   oracle finds anywhere is worse than the worst one. *)
WorstBounds(p) ==
  \A s \in Samples : \A v \in Weights :
    /\ p.margin[s][p.truth[s]][v] = 0
    /\ p.worst[s][v] >= 0
    /\ \A u \in Weights : \A e \in p.oracle[s][u] :
         e.loss + p.margin[s][e.psi][v] <= p.worst[s][v]

ASSUME WorstAssumption == \A n \in DOMAIN Given : WorstBounds(Given[n])

VARIABLES
  pc,
  problem,     \* the number of the one that is solved
  w,
  cache,       \* a cache for each sample
  chosen,      \* the labellings of the latest plane
  planes,      \* planes and bs, with their miss_count
  cp_obj,
  counter,
  saved_current_risk_gap, skip_cache, count_below_eps, converged

svm == <<saved_current_risk_gap, skip_cache, count_below_eps, converged>>
vars == <<pc, problem, w, cache, chosen, planes, cp_obj, counter, svm>>

Unit == 2 * C * Cardinality(Samples)
Truth(s) == [psi |-> Given[problem].truth[s], loss |-> 0]
Risk(s, e, v) == Unit * (e.loss + Given[problem].margin[s][e.psi][v])
Risks(s) == [i \in DOMAIN cache[s].data |-> Risk(s, cache[s].data[i], w)]

(* What the nuclear norm's gradient at u adds to a plane's value at v; the nuclear
   norm of v itself when u is v. *)
NuclearPart(u, v) == 2 * Cardinality(Samples) * Given[problem].strength * Gradient[u][v]

(* A plane, the value it has at each of the weights, is made at w by one labelling
   of each sample and the nuclear norm.  The flat one at the lower bound of the
   risk comes first. *)
Sum(f) == MapThenSumSet(LAMBDA s : f[s], DOMAIN f)
Plane(labels) ==
  [v \in Weights |->
     2 * C * Sum([s \in Samples |->
                    labels[s].loss + Given[problem].margin[s][labels[s].psi][v]])
       + NuclearPart(w, v)]
FlatPlane == [v \in Weights |-> 0]

Regularizer(v) == Cardinality(Samples) * Norm[v]
ObjectiveSoFar(v) ==
  Regularizer(v) + Max({p.value[v] : p \in {q \in planes : q.value = FlatPlane \/ q.value # Plane(chosen)}})
Objective(v) == Regularizer(v) + Max({p.value[v] : p \in planes})

\* risk_gap of oca_impl
RiskGap == Plane(chosen)[w] - (cp_obj - Regularizer(w))

Init ==
  /\ pc = "risk"
  /\ problem \in DOMAIN Problems
  /\ w = Zero
  /\ cache = [s \in Samples |-> NewCache]
  /\ chosen = [s \in Samples |-> Truth(s)]
  /\ planes = {[value |-> FlatPlane, miss |-> 0]}
  /\ cp_obj = 0 /\ counter = 0
  /\ saved_current_risk_gap = 0 /\ skip_cache = TRUE
  /\ count_below_eps = 0 /\ converged = FALSE

(* get_risk: the pool's threads ask for all samples, each on a cache of its
   own; the plane is added, with the nuclear norm at w and its gradient.  The
   first round has no gap to look at. *)
get_risk ==
  /\ pc = "risk"
  /\ \E found \in [Samples -> UNION {Given[problem].oracle[s][w] : s \in Samples}] :
       LET call == [s \in Samples |->
             separation_oracle_cached(cache[s], converged, skip_cache,
               saved_current_risk_gap, Risks(s),
               found[s], Risk(s, found[s], w), Truth(s))]
       IN  /\ \A s \in Samples : found[s] \in Given[problem].oracle[s][w]
           /\ cache' = [s \in Samples |-> call[s].cache]
           /\ chosen' = [s \in Samples |-> call[s].out]
  /\ planes' = planes \cup {[value |-> Plane(chosen'), miss |-> 0]}
  /\ pc' = IF counter > 0 THEN "status" ELSE "solve"
  /\ UNCHANGED <<problem, w, cp_obj, counter, svm>>

(* optimization_status.  The program leaves cache_based_eps infinite: once
   converged is set, any gap stops the optimisation. *)
OutOfIterations ==
  /\ pc = "status" /\ counter >= Given[problem].max_iterations
  /\ pc' = "done"
  /\ UNCHANGED <<problem, w, cache, chosen, planes, cp_obj, counter, svm>>

Status ==
  /\ pc = "status" /\ counter < Given[problem].max_iterations
  /\ saved_current_risk_gap' = RiskGap
  /\ UNCHANGED <<problem, w, cache, chosen, planes, cp_obj, counter>>

SmallAnyhow == TRUE
SmallOnTruth == skip_cache

Converge ==
  /\ Status
  /\ RiskGap < Epsilon /\ SmallOnTruth
  /\ converged' = TRUE /\ skip_cache' = FALSE
  /\ pc' = "done"
  /\ UNCHANGED count_below_eps

\* Small by what the cache says: after two such rounds the next one skips it.
CountBelowTooLong ==
  /\ Status
  /\ RiskGap < Epsilon /\ ~SmallOnTruth
  /\ skip_cache' = (count_below_eps > 1)
  /\ count_below_eps' = IF count_below_eps > 1 THEN 0 ELSE count_below_eps + 1
  /\ pc' = "solve"
  /\ UNCHANGED converged
CountBelow ==
  /\ Status
  /\ RiskGap < Epsilon /\ ~SmallOnTruth
  /\ skip_cache' = (count_below_eps > 0)
  /\ count_below_eps' = IF count_below_eps > 0 THEN 0 ELSE count_below_eps + 1
  /\ pc' = "solve"
  /\ UNCHANGED converged

GapTooBig ==
  /\ Status
  /\ RiskGap >= Epsilon
  /\ count_below_eps' = 0 /\ skip_cache' = FALSE
  /\ pc' = "solve"
  /\ UNCHANGED converged

(* The quadratic program.  A plane whose alpha has been 0 for inactive_thresh
   solutions in a row goes. *)
MissesKept(plane, active) == plane.miss + 1
Misses(plane, active) == IF active THEN 0 ELSE plane.miss + 1

\* A set of planes whose own lowest objective is not below `lowest'.
Holds(active, lowest) ==
  \A v \in Weights : \E p \in active : Regularizer(v) + p.value[v] >= lowest
Supports(active, lowest) ==
  Holds(active, lowest) /\ \A p \in active : ~Holds(active \ {p}, lowest)

Solve ==
  /\ pc = "solve"
  /\ cp_obj' = Min({Objective(v) : v \in Weights})
  /\ w' = CHOOSE v \in Weights : Objective(v) = cp_obj'
  /\ \E active \in {A \in SUBSET planes : Supports(A, cp_obj')} :
          planes' = {p \in {[q EXCEPT !.miss = Misses(q, q \in active)] : q \in planes} :
                       p.miss < InactiveThresh}
  /\ counter' = counter + 1
  /\ pc' = "risk"
  /\ UNCHANGED <<problem, cache, chosen, svm>>

Next ==
  get_risk \/ OutOfIterations \/ Converge \/ CountBelow \/ GapTooBig \/ Solve

Spec == Init /\ [][Next]_vars

-----------------------------------------------------------------------------
(* A cache keeps its arrays in step, holds no more than it may, and tells its
   entries' last uses apart. *)
Caches == [data : Seq(Entries), lru : Seq(Nat), last : Int \cup {Infinity}]
CacheInOrder(c) ==
  /\ Len(c.data) = Len(c.lru) /\ Len(c.data) <= MaxCacheSize
  /\ \A i, j \in DOMAIN c.lru : i # j => c.lru[i] # c.lru[j]

(* The types of the variables; at most one in a row of the small gaps that only
   the cache has seen, and every cache in order. *)
TypeOK ==
  /\ pc \in {"risk", "status", "solve", "done"}
  /\ problem \in DOMAIN Problems
  /\ w \in Weights
  /\ cache \in [Samples -> Caches]
  /\ \A s \in Samples : CacheInOrder(cache[s])
  /\ chosen \in [Samples -> Entries]
  /\ planes \subseteq [value : [Weights -> Int], miss : 0..(InactiveThresh - 1)]
  /\ cp_obj \in Int /\ counter \in 0..Given[problem].max_iterations
  /\ saved_current_risk_gap \in Int
  /\ count_below_eps \in 0..1
  /\ skip_cache \in BOOLEAN /\ converged \in BOOLEAN

(* However badly the oracle searched and however old the cache is, the
   labelling taken for a plane is no better than any kept one, nor than the
   truth: a new plane is never below the flat one at w. *)
ChosenIsWorst ==
  pc = "status" =>
    \A s \in Samples :
      /\ Risk(s, chosen[s], w) >= 0
      /\ \A i \in DOMAIN cache[s].data :
           Risk(s, cache[s].data[i], w) <= Risk(s, chosen[s], w)

\* Risk and objective of the training problem itself, over all labellings.
WorstRisk(v) ==
  2 * C * Sum([s \in Samples |-> Given[problem].worst[s][v]]) + NuclearPart(v, v)
TrueObjective(v) == Regularizer(v) + WorstRisk(v)
TrueMinimum == Min({TrueObjective(v) : v \in Weights})

(* The planes' minimum never exceeds that of the problem, whatever the oracle
   misses, and never falls when inactive planes go. *)
LowerBound == cp_obj <= TrueMinimum
LowerBoundRises == [][cp_obj <= cp_obj' /\ LowerBound']_vars

(* An oracle that finds the worst labelling, at least at w. *)
ExactAt(v) ==
  \A s \in Samples : \A e \in Given[problem].oracle[s][v] :
    e.loss + Given[problem].margin[s][e.psi][v] = Given[problem].worst[s][v]

(* Training that stops by its gap has weights within epsilon of the best ones,
   though the rounds before it were answered by the cache. *)
NearOptimal ==
  converged /\ ExactAt(w) => TrueObjective(w) - TrueMinimum < Epsilon

(* A gap is what the newest plane adds: with it the plane is higher at w, by just
   that much, than every other one that is left, so that no round which goes on
   because of its gap makes a plane again.  (The planes that went since the bound
   was computed have not had it by themselves.) *)
GapIsGain ==
  pc = "status" /\ RiskGap > 0 =>
    LET others == {p \in planes : p.value # Plane(chosen)}
    IN  /\ \A p \in others : p.value[w] + RiskGap <= Plane(chosen)[w]
        /\ \E p \in others : p.value[w] + RiskGap = Plane(chosen)[w]

(* A full cache replaces what was not needed for longest: the labelling taken
   in the last round is still kept after the next one, and so is the one taken
   then, unless a cache holds but one. *)
LatestStay ==
  [][\A s \in Samples :
       LET kept == ToSet(cache'[s].data) \cup {Truth(s)}
       IN  /\ chosen'[s] \in kept
           /\ MaxCacheSize > 1 => chosen[s] \in kept]_vars

(* With its caches, its approximate oracle and the planes it drops, training is
   the method that oca promises: its planes are nowhere above the risk of the
   worst labellings and the nuclear norm, those that stay have the same minimum, and it ends for its
   gap only with a plane that touches the risk wherever the oracle does. *)
Stopped == IF converged /\ ExactAt(w) THEN "optimal" ELSE "given up"
Method == INSTANCE CuttingPlaneMethod WITH
  Start <- Zero,
  Penalty <- [v \in Weights |-> Regularizer(v)],
  phase <- CASE pc = "risk" -> "cut" [] pc = "status" -> "check"
             [] pc = "solve" -> "solve" [] pc = "done" -> Stopped,
  risk <- [v \in Weights |-> WorstRisk(v)],
  planes <- {p.value : p \in planes},
  latest <- Plane(chosen),
  touches <- (pc = "status" /\ skip_cache /\ ExactAt(w)),
  lower <- cp_obj
IsCuttingPlaneMethod == Method!Spec

(* Training never needs more than MostRounds rounds to stop by its gap: small
   gaps that only the cache has seen, and planes that went and must come again,
   do not keep it going. *)
ConvergesInTime ==
  pc = "done" /\ counter >= MostRounds => converged
=============================================================================

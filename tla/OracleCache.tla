---------------------------- MODULE OracleCache ----------------------------
(***************************************************************************)
(* cache_element_structural_svm (dlib/svm/structural_svm_problem.h): the   *)
(* results of the separation oracle that are kept for one sample, and the  *)
(* decision whether the best of them answers a call.                       *)
(*                                                                         *)
(* A cache is the record of                                                *)
(*   data   the kept entries: the arrays psi and loss                      *)
(*   lru    lru_count                                                      *)
(*   last   last_true_risk_computed                                        *)
(* The risk of an entry depends on the current solution; the operators get *)
(* the sequence of the risks that the kept entries have now.               *)
(***************************************************************************)
EXTENDS Integers, Sequences, SequencesExt, FiniteSetsExt

CONSTANTS
  MaxCacheSize, \* max_cache_size; the trainer leaves it at 5
  Infinity      \* no risk has been computed yet

ASSUME CacheAssumption == MaxCacheSize \in Nat \ {0} /\ Infinity \notin Int

NewCache == [data |-> <<>>, lru |-> <<>>, last |-> Infinity]

MaxLru(c) == IF c.lru = <<>> THEN 0 ELSE Max(ToSet(c.lru))

\* The kept entry of highest risk, the first one of equals.
IsBest(risks, i) ==
  /\ i \in DOMAIN risks
  /\ \A j \in DOMAIN risks : risks[j] <= risks[i]
  /\ \A j \in 1..(i - 1) : risks[j] < risks[i]
Best(risks) == CHOOSE i \in DOMAIN risks : IsBest(risks, i)

\* index_of_min(lru_count)
MostRecent(c) == CHOOSE i \in DOMAIN c.lru : \A j \in DOMAIN c.lru : c.lru[i] >= c.lru[j]
LeastRecent(c) ==
  CHOOSE i \in DOMAIN c.lru :
    /\ \A j \in DOMAIN c.lru : c.lru[i] <= c.lru[j]
    /\ \A j \in 1..(i - 1) : c.lru[i] < c.lru[j]

UseAgain(c, i) == [c EXCEPT !.lru = [@ EXCEPT ![i] = MaxLru(c)]]
Use(c, i) == [c EXCEPT !.lru = [@ EXCEPT ![i] = MaxLru(c) + 1]]

\* A new entry replaces the least recently used one when the cache is full.
Keep(c, e) ==
  IF Len(c.data) >= MaxCacheSize
    THEN LET i == LeastRecent(c)
         IN  [c EXCEPT !.data = [@ EXCEPT ![i] = e],
                       !.lru = [@ EXCEPT ![i] = MaxLru(c) + 1]]
    ELSE [c EXCEPT !.data = Append(@, e), !.lru = Append(@, MaxLru(c) + 1)]

\* The best entry still does: its risk has not fallen by so much since the
\* last true risk that the optimisation could stop on it.
GoodEnough(c, risks, gap) ==
  /\ risks # <<>> /\ c.last # Infinity
  /\ risks[Best(risks)] + gap > c.last
  /\ risks[Best(risks)] >= 0

CacheAnswers(c, converged, skip_cache, gap, risks) ==
  ~skip_cache /\ (GoodEnough(c, risks, gap) \/ converged)

(* What a call yields once the separation oracle has found `found', whose risk
   is `risk': the entry used, and the cache.  The oracle is approximate; the
   truth labelling (risk 0) or a kept entry may be better. *)
NeverHopeless(risks, risk) == FALSE
Hopeless(risks, risk) == risk < 0 /\ (risks = <<>> \/ risks[Best(risks)] < 0)
Beaten(risks, risk) == risks # <<>> /\ risk < risks[Best(risks)]
AfterOracle(c, risks, found, risk, truth) ==
  LET now == [c EXCEPT !.last = risk]
  IN  CASE Hopeless(risks, risk) -> [out |-> truth, cache |-> now]
        [] ~Hopeless(risks, risk) /\ Beaten(risks, risk) ->
             [out |-> c.data[Best(risks)], cache |-> Use(now, Best(risks))]
        [] OTHER -> [out |-> found, cache |-> Keep(now, found)]

MixedUp(c, converged, skip_cache, gap, risks, found, risk, truth) ==
  IF CacheAnswers(c, converged, skip_cache, gap, risks)
    THEN [out |-> [psi |-> c.data[Best(risks)].psi, loss |-> found.loss],
          cache |-> Use(c, Best(risks))]
    ELSE AfterOracle(c, risks, found, risk, truth)
separation_oracle_cached(c, converged, skip_cache, gap, risks, found, risk, truth) ==
  IF CacheAnswers(c, converged, skip_cache, gap, risks)
    THEN [out |-> c.data[Best(risks)], cache |-> Use(c, Best(risks))]
    ELSE AfterOracle(c, risks, found, risk, truth)
=============================================================================

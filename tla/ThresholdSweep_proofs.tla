------------------------ MODULE ThresholdSweep_proofs ------------------------
(***************************************************************************)
(* The evaluation with any windows, geometry, truth boxes, detectors and   *)
(* thresholds: the greedy suppression keeps the undominated windows        *)
(* (SuppressionRight), the recall never rises with the threshold           *)
(* (RecallFalls), and each row of the log is right, although evaluations   *)
(* are skipped (LogRight).                                                 *)
(*                                                                         *)
(* All rests on one fact: what a detector reports at a higher threshold is *)
(* the beginning of what it reports at a lower one (DetectionsBegin), and  *)
(* the truth boxes that the first are matched with are those that they are *)
(* matched with among the others (UsedBegins).                             *)
(***************************************************************************)
EXTENDS ThresholdSweep, FiniteSetTheorems, SequenceTheorems, WellFoundedInduction, TLAPS

\* The thresholds of a sweep ascend.
StepForward == ThresholdStep > 0

-----------------------------------------------------------------------------
(* Induction up to a bound, over a set of numbers, and recursion up to it. *)
LEMMA LeastNumber ==
  ASSUME NEW T, T \subseteq Nat, T # {}
  PROVE  \E x \in T : \A y \in T : x <= y
<1>1. PICK x \in T : \A y \in T : ~(<<y, x>> \in OpToRel(<, Nat))
  BY NatLessThanWellFounded, WFMin
<1>2. ASSUME NEW y \in T PROVE x <= y
  <2>1. ~(y < x)
    BY <1>1, <1>2 DEF OpToRel
  <2> QED BY <2>1
<1> QED BY <1>2

LEMMA Upwards ==
  ASSUME NEW N \in Nat, NEW P, 0 \in P, \A n \in 1..N : n - 1 \in P => n \in P
  PROVE  \A n \in 0..N : n \in P
<1> DEFINE bad == {n \in 0..N : n \notin P}
<1> SUFFICES ASSUME bad # {} PROVE FALSE
  OBVIOUS
<1>1. PICK m \in bad : \A n \in bad : m <= n
  <2>1. bad \subseteq Nat
    OBVIOUS
  <2> QED BY <2>1, LeastNumber
<1>2. m \in 1..N
  BY <1>1
<1>3. m - 1 \notin bad
  BY <1>1, <1>2
<1>4. m - 1 \in P
  BY <1>2, <1>3
<1> QED BY <1>1, <1>2, <1>4

Follows(N, a, step, f) ==
  f = [n \in 0..N |-> IF n = 0 THEN a ELSE step[<<f[n - 1], n>>]]

LEMMA Recursion ==
  ASSUME NEW N \in Nat, NEW S, NEW a \in S, NEW step \in [S \X (1..N) -> S]
  PROVE  \E f \in [0..N -> S] : Follows(N, a, step, f)
<1> DEFINE P == {m \in 0..N : \E f \in [0..m -> S] : Follows(m, a, step, f)}
<1>1. 0 \in P
  <2> DEFINE f == [n \in 0..0 |-> a]
  <2>1. f \in [0..0 -> S] /\ Follows(0, a, step, f)
    BY DEF Follows
  <2> QED BY <2>1
<1>2. ASSUME NEW m \in 1..N, m - 1 \in P PROVE m \in P
  <2>1. PICK f \in [0..(m - 1) -> S] : Follows(m - 1, a, step, f)
    BY <1>2
  <2> DEFINE g == [n \in 0..m |-> IF n = m THEN step[<<f[m - 1], m>>] ELSE f[n]]
  <2>2. g \in [0..m -> S]
    <3>1. f[m - 1] \in S
      BY <2>1
    <3>2. step[<<f[m - 1], m>>] \in S
      BY <3>1
    <3> QED BY <2>1, <3>2
  <2>3. \A n \in 0..m : g[n] = IF n = 0 THEN a ELSE step[<<g[n - 1], n>>]
    <3> SUFFICES ASSUME NEW n \in 0..m PROVE g[n] = IF n = 0 THEN a ELSE step[<<g[n - 1], n>>]
      OBVIOUS
    <3>1. CASE n = m
      <4>1. g[n - 1] = f[m - 1]
        BY <3>1
      <4> QED BY <3>1, <4>1
    <3>2. CASE n # m
      <4>1. n \in 0..(m - 1)
        BY <3>2
      <4>2. g[n] = f[n] /\ (n # 0 => g[n - 1] = f[n - 1])
        BY <4>1
      <4>3. f[n] = IF n = 0 THEN a ELSE step[<<f[n - 1], n>>]
        BY <2>1, <4>1, Zenon DEF Follows
      <4> QED BY <4>2, <4>3
    <3> QED BY <3>1, <3>2
  <2>4. Follows(m, a, step, g)
    <3>1. g = [n \in 0..m |-> g[n]]
      OBVIOUS
    <3> HIDE DEF g
    <3> QED BY <2>3, <3>1 DEF Follows
  <2> QED BY <2>2, <2>4
<1> HIDE DEF P
<1>3. N \in P
  BY <1>1, <1>2, Upwards
<1> QED BY <1>3 DEF P

LEMMA UpTo ==
  ASSUME NEW n \in Nat
  PROVE  IsFiniteSet(1..n) /\ Cardinality(1..n) = n
<1>1. IsFiniteSet(1..n) /\ Cardinality(1..n) = IF 1 > n THEN 0 ELSE n - 1 + 1
  BY FS_Interval
<1> QED BY <1>1

-----------------------------------------------------------------------------
(* Ranking. *)
Above(score, w) == {v \in Windows : score[v] > score[w]}
Place(score, w) == Cardinality(Above(score, w)) + 1

LEMMA ScoresDiffer ==
  ASSUME NEW score \in Detectors
  PROVE  /\ \A w \in Windows : score[w] \in Int
         /\ \A v, w \in Windows : score[v] = score[w] => v = w
BY SweepAssumption DEF Detectors

LEMMA Places ==
  ASSUME NEW score \in Detectors
  PROVE  /\ \A w \in Windows : Place(score, w) \in Nat \ {0}
         /\ \A v, w \in Windows :
              score[v] > score[w] <=> Place(score, v) < Place(score, w)
         /\ \A v, w \in Windows : Place(score, v) = Place(score, w) => v = w
<1>1. \A w \in Windows : IsFiniteSet(Above(score, w))
  BY DetectionAssumption, FS_Subset DEF Above
<1>2. \A w \in Windows : Cardinality(Above(score, w)) \in Nat
  BY <1>1, FS_CardinalityType
<1>3. ASSUME NEW v \in Windows, NEW w \in Windows, score[v] > score[w]
      PROVE  Place(score, v) < Place(score, w)
  <2>1. Above(score, v) \cup {v} \subseteq Above(score, w) /\ v \notin Above(score, v)
    BY <1>3, ScoresDiffer DEF Above
  <2>2. Cardinality(Above(score, v) \cup {v}) = Cardinality(Above(score, v)) + 1
    BY <1>1, <2>1, FS_AddElement
  <2>3. Cardinality(Above(score, v) \cup {v}) <= Cardinality(Above(score, w))
    BY <1>1, <2>1, FS_Subset
  <2> QED BY <1>2, <2>2, <2>3 DEF Place
<1>4. \A w \in Windows : Place(score, w) \in Nat \ {0}
  BY <1>2 DEF Place
<1>5. \A v, w \in Windows : score[v] > score[w] \/ score[w] > score[v] \/ v = w
  BY ScoresDiffer
<1> QED BY <1>3, <1>4, <1>5, ScoresDiffer

LEMMA ReachFinite ==
  ASSUME NEW score, NEW t
  PROVE  /\ IsFiniteSet(Reaching(score, t))
         /\ Cardinality(Reaching(score, t)) \in Nat
         /\ Cardinality(Reaching(score, t)) <= Cardinality(Windows)
BY DetectionAssumption, FS_Subset, FS_CardinalityType DEF Reaching

\* A window that reaches the threshold has only such windows above it.
LEMMA AboveReaches ==
  ASSUME NEW score \in Detectors, NEW t \in Int, NEW w \in Reaching(score, t)
  PROVE  /\ {v \in Reaching(score, t) : score[v] > score[w]} = Above(score, w)
         /\ Place(score, w) \in 1..Cardinality(Reaching(score, t))
<1>1. {v \in Reaching(score, t) : score[v] > score[w]} = Above(score, w)
  BY ScoresDiffer DEF Reaching, Above
<1>2. Above(score, w) \subseteq Reaching(score, t) \ {w}
  BY ScoresDiffer DEF Reaching, Above
<1>3. Cardinality(Reaching(score, t) \ {w}) = Cardinality(Reaching(score, t)) - 1
  BY ReachFinite, FS_RemoveElement
<1>4. Cardinality(Above(score, w)) <= Cardinality(Reaching(score, t)) - 1
  BY <1>2, <1>3, ReachFinite, FS_RemoveElement, FS_Subset
<1>5. Place(score, w) \in Nat \ {0}
  BY Places DEF Reaching
<1>6. Cardinality(Above(score, w)) \in Nat
  BY DetectionAssumption, FS_Subset, FS_CardinalityType DEF Above
<1> QED BY <1>1, <1>4, <1>5, <1>6, ReachFinite DEF Place

LEMMA PlacesFilled ==
  ASSUME NEW score \in Detectors, NEW t \in Int,
         NEW n \in 1..Cardinality(Reaching(score, t))
  PROVE  \E w \in Reaching(score, t) : Place(score, w) = n
<1> DEFINE S == Reaching(score, t)
           T == 1..Cardinality(S)
           f == [w \in S |-> Place(score, w)]
<1>1. f \in Injection(S, T)
  <2>1. f \in [S -> T]
    BY AboveReaches
  <2>2. \A v, w \in S : f[v] = f[w] => v = w
    BY Places DEF Reaching
  <2> QED BY <2>1, <2>2 DEF Injection, IsInjective
<1>2. IsFiniteSet(T) /\ Cardinality(T) = Cardinality(S)
  BY ReachFinite, UpTo
<1>3. f \in Surjection(S, T)
  <2> HIDE DEF f, T, S
  <2> QED BY <1>1, <1>2, FS_Injection
<1> QED BY <1>3 DEF Surjection

LEMMA RankedIs ==
  ASSUME NEW score \in Detectors, NEW t \in Int
  PROVE  /\ Ranked(score, t) \in Seq(Windows)
         /\ Len(Ranked(score, t)) = Cardinality(Reaching(score, t))
         /\ \A n \in 1..Len(Ranked(score, t)) :
              /\ Ranked(score, t)[n] \in Reaching(score, t)
              /\ Place(score, Ranked(score, t)[n]) = n
<1> DEFINE S == Reaching(score, t)
           N == Cardinality(S)
           At(n) == CHOOSE w \in S : Cardinality({v \in S : score[v] > score[w]}) = n - 1
<1>1. N \in Nat
  BY ReachFinite
<1>2. ASSUME NEW n \in 1..N PROVE At(n) \in S /\ Place(score, At(n)) = n
  <2>1. PICK w \in S : Place(score, w) = n
    BY PlacesFilled
  <2>2. Cardinality({v \in S : score[v] > score[w]}) = n - 1
    <3>1. Cardinality({v \in S : score[v] > score[w]}) = Cardinality(Above(score, w))
      BY AboveReaches
    <3>2. Cardinality(Above(score, w)) \in Nat
      BY DetectionAssumption, FS_Subset, FS_CardinalityType DEF Above
    <3> QED BY <2>1, <3>1, <3>2 DEF Place
  <2>3. At(n) \in S /\ Cardinality({v \in S : score[v] > score[At(n)]}) = n - 1
    BY <2>2
  <2> HIDE DEF At
  <2>4. Cardinality({v \in S : score[v] > score[At(n)]}) = Cardinality(Above(score, At(n)))
    BY <2>3, AboveReaches
  <2> QED BY <2>3, <2>4 DEF Place
<1>3. Ranked(score, t) = [n \in 1..N |-> At(n)]
  BY DEF Ranked
<1> HIDE DEF At, N
<1>4. S \subseteq Windows
  BY DEF Reaching
<1>5. Ranked(score, t) \in [1..N -> Windows]
  BY <1>2, <1>3, <1>4
<1>6. Ranked(score, t) \in Seq(Windows) /\ Len(Ranked(score, t)) = N
  BY <1>1, <1>5, LenProperties, SeqDef
<1> QED BY <1>2, <1>3, <1>6 DEF N

-----------------------------------------------------------------------------
(* Suppression. *)
Begins(s, t) == Len(s) <= Len(t) /\ \A a \in 1..Len(s) : s[a] = t[a]

Suppresses(dets, f) ==
  /\ f[0] = <<>>
  /\ \A n \in 1..Len(dets) :
       f[n] = IF OverlapsAny(f[n - 1], dets[n]) THEN f[n - 1]
                                                ELSE Append(f[n - 1], dets[n])

LEMMA NonMaxSteps ==
  ASSUME NEW dets \in Seq(Windows)
  PROVE  \E f \in [0..Len(dets) -> Seq(Windows)] :
           Suppresses(dets, f) /\ NonMax(dets) = f[Len(dets)]
<1> DEFINE N == Len(dets)
           Result(n, before) ==
             IF n = 0 THEN <<>>
             ELSE IF OverlapsAny(before, dets[n]) THEN before
                                                  ELSE Append(before, dets[n])
           step == [p \in Seq(Windows) \X (1..N) |-> Result(p[2], p[1])]
<1>1. N \in Nat /\ \A n \in 1..N : dets[n] \in Windows
  BY LenProperties, ElementOfSeq
<1>2. <<>> \in Seq(Windows)
  OBVIOUS
<1>3. \A s \in Seq(Windows), n \in 1..N : Result(n, s) \in Seq(Windows)
  BY <1>1, AppendProperties
<1>4. step \in [Seq(Windows) \X (1..N) -> Seq(Windows)]
  <2> HIDE DEF Result
  <2> QED BY <1>3
<1>5. \A s \in Seq(Windows), n \in 1..N : step[<<s, n>>] = Result(n, s)
  <2> HIDE DEF Result
  <2> QED OBVIOUS
<1> HIDE DEF step
<1>6. PICK g \in [0..N -> Seq(Windows)] : Follows(N, <<>>, step, g)
  <2> HIDE DEF N
  <2> QED BY <1>1, <1>2, <1>4, Recursion
<1>7. \A n \in 0..N : g[n] = Result(n, g[n - 1])
  <2> TAKE n \in 0..N
  <2>1. g[n] = IF n = 0 THEN <<>> ELSE step[<<g[n - 1], n>>]
    BY <1>6, Zenon DEF Follows
  <2>2. CASE n = 0
    BY <2>1, <2>2
  <2>3. CASE n # 0
    <3>1. n \in 1..N /\ n - 1 \in 0..N
      BY <1>1, <2>3
    <3>2. g[n - 1] \in Seq(Windows)
      BY <1>6, <3>1
    <3> HIDE DEF Result
    <3> QED BY <1>5, <2>1, <2>3, <3>1, <3>2
  <2> QED BY <2>2, <2>3
<1> HIDE DEF Result
<1>8. g = [n \in 0..N |-> Result(n, g[n - 1])]
  BY <1>6, <1>7
<1> DEFINE f == CHOOSE f : f = [n \in 0..N |-> Result(n, f[n - 1])]
<1>9. f = [n \in 0..N |-> Result(n, f[n - 1])]
  BY <1>8, Zenon
<1>10. NonMax(dets) = f[N]
  BY DEF NonMax, Result
<1> HIDE DEF f
<1>11. \A n \in 0..N : f[n] \in Seq(Windows)
  <2> DEFINE P == {n \in 0..N : f[n] \in Seq(Windows)}
  <2>1. 0 \in P
    BY <1>1, <1>9 DEF Result
  <2>2. ASSUME NEW n \in 1..N, n - 1 \in P PROVE n \in P
    <3>1. n \in 0..N
      OBVIOUS
    <3>2. f[n] = Result(n, f[n - 1])
      BY <1>9, <3>1, Zenon
    <3> QED BY <1>3, <2>2, <3>1, <3>2
  <2> HIDE DEF P
  <2>3. \A n \in 0..N : n \in P
    BY <1>1, <2>1, <2>2, Upwards
  <2> QED BY <2>3 DEF P
<1>12. f \in [0..N -> Seq(Windows)]
  BY <1>9, <1>11
<1>13. Suppresses(dets, f)
  <2>1. \A n \in 0..N : f[n] = Result(n, f[n - 1])
    BY <1>9
  <2> QED BY <1>1, <2>1 DEF Suppresses, Result
<1> QED BY <1>10, <1>12, <1>13

\* What is final after n detections stays at the front.
LEMMA FinalGrows ==
  ASSUME NEW dets \in Seq(Windows), NEW f \in [0..Len(dets) -> Seq(Windows)],
         Suppresses(dets, f), NEW m \in 0..Len(dets), NEW n \in m..Len(dets)
  PROVE  Begins(f[m], f[n])
<1> DEFINE K == Len(dets) - m
           P == {k \in 0..K : Begins(f[m], f[m + k])}
<1>1. Len(dets) \in Nat /\ \A k \in 1..Len(dets) : dets[k] \in Windows
  BY LenProperties, ElementOfSeq
<1>2. 0 \in P
  BY <1>1, LenProperties DEF Begins
<1>3. ASSUME NEW k \in 1..K, k - 1 \in P PROVE k \in P
  <2> DEFINE s == f[m]
             t == f[m + k - 1]
             w == dets[m + k]
  <2>1. m + k \in 1..Len(dets) /\ m + k - 1 \in 0..Len(dets)
    BY <1>1
  <2>2. f[m + k] = t \/ f[m + k] = Append(t, w)
    <3>1. \A a \in 1..Len(dets) : f[a] = f[a - 1] \/ f[a] = Append(f[a - 1], dets[a])
      BY DEF Suppresses
    <3>2. (m + k) - 1 = m + k - 1
      OBVIOUS
    <3> QED BY <2>1, <3>1, <3>2
  <2>3. s \in Seq(Windows) /\ t \in Seq(Windows) /\ w \in Windows
    BY <1>1, <2>1
  <2>4. Begins(s, t)
    BY <1>1, <1>3
  <2>5. Begins(s, f[m + k])
    <3> HIDE DEF s, t, w
    <3>1. Len(s) \in Nat /\ Len(t) \in Nat
      BY <2>3, LenProperties
    <3>2. CASE f[m + k] = t
      BY <2>4, <3>2
    <3>3. CASE f[m + k] = Append(t, w)
      <4>1. /\ Len(Append(t, w)) = Len(t) + 1
            /\ \A a \in 1..Len(t) : Append(t, w)[a] = t[a]
        BY <2>3, AppendProperties
      <4> QED BY <2>4, <3>1, <3>3, <4>1 DEF Begins
    <3> QED BY <2>2, <3>2, <3>3
  <2> QED BY <2>5
<1> HIDE DEF P
<1>4. K \in Nat /\ n - m \in 0..K
  BY <1>1
<1> HIDE DEF K
<1>5. n - m \in P
  BY <1>2, <1>3, <1>4, Upwards
<1>6. m + (n - m) = n
  BY <1>1
<1> QED BY <1>5, <1>6 DEF P

LEMMA NonMaxBegins ==
  ASSUME NEW dets \in Seq(Windows), NEW short \in Seq(Windows), Begins(short, dets)
  PROVE  Begins(NonMax(short), NonMax(dets))
<1> DEFINE N == Len(short)
           M == Len(dets)
<1>1. N \in Nat /\ M \in Nat /\ N <= M /\ \A n \in 1..N : short[n] = dets[n]
  BY LenProperties DEF Begins
<1>2. PICK f \in [0..M -> Seq(Windows)] : Suppresses(dets, f) /\ NonMax(dets) = f[M]
  BY NonMaxSteps
<1>3. PICK g \in [0..N -> Seq(Windows)] : Suppresses(short, g) /\ NonMax(short) = g[N]
  BY NonMaxSteps
<1> DEFINE P == {n \in 0..N : g[n] = f[n]}
<1>4. 0 \in P
  BY <1>1, <1>2, <1>3 DEF Suppresses
<1>5. ASSUME NEW n \in 1..N, n - 1 \in P PROVE n \in P
  <2>1. n \in 1..M
    BY <1>1
  <2>2. /\ g[n] = IF OverlapsAny(g[n - 1], short[n]) THEN g[n - 1]
                                                     ELSE Append(g[n - 1], short[n])
        /\ f[n] = IF OverlapsAny(f[n - 1], dets[n]) THEN f[n - 1]
                                                    ELSE Append(f[n - 1], dets[n])
    BY <1>2, <1>3, <2>1 DEF Suppresses
  <2>3. g[n - 1] = f[n - 1] /\ short[n] = dets[n]
    BY <1>1, <1>5
  <2> QED BY <2>2, <2>3
<1> HIDE DEF P
<1>6. \A n \in 0..N : n \in P
  BY <1>1, <1>4, <1>5, Upwards
<1>7. g[N] = f[N]
  BY <1>1, <1>6 DEF P
<1>8. Begins(f[N], f[M])
  <2>1. N \in 0..M /\ M \in N..M
    BY <1>1
  <2> HIDE DEF N
  <2> QED BY <1>2, <2>1, FinalGrows
<1> QED BY <1>2, <1>3, <1>7, <1>8

\* A detection is final just if none clashes that is before it and final.
LEMMA NonMaxKeeps ==
  ASSUME NEW dets \in Seq(Windows),
         \A j, k \in 1..Len(dets) : dets[j] = dets[k] => j = k
  PROVE  /\ NonMax(dets) \in Seq(Windows)
         /\ \A w \in Range(NonMax(dets)) : \E k \in 1..Len(dets) : w = dets[k]
         /\ \A k \in 1..Len(dets) :
              dets[k] \in Range(NonMax(dets)) <=>
                ~\E j \in 1..(k - 1) : /\ dets[j] \in Range(NonMax(dets))
                                      /\ <<dets[j], dets[k]>> \in Clash
<1> DEFINE N == Len(dets)
           Kept(n, s) ==
             /\ \A w \in Range(s) : \E k \in 1..n : w = dets[k]
             /\ \A k \in 1..n :
                  dets[k] \in Range(s) <=>
                    ~\E j \in 1..(k - 1) : /\ dets[j] \in Range(s)
                                          /\ <<dets[j], dets[k]>> \in Clash
<1>1. N \in Nat /\ \A n \in 1..N : dets[n] \in Windows
  BY LenProperties, ElementOfSeq
<1>2. PICK f \in [0..N -> Seq(Windows)] : Suppresses(dets, f) /\ NonMax(dets) = f[N]
  BY NonMaxSteps
<1> DEFINE P == {n \in 0..N : Kept(n, f[n])}
<1>3. 0 \in P
  <2>1. f[0] = <<>>
    BY <1>2 DEF Suppresses
  <2>2. Range(<<>>) = {}
    BY DEF Range
  <2> QED BY <1>1, <2>1, <2>2
<1>4. ASSUME NEW n \in 1..N, n - 1 \in P PROVE n \in P
  <2> DEFINE s == f[n - 1]
             w == dets[n]
  <2>1. s \in Seq(Windows) /\ w \in Windows
    BY <1>1
  <2>2. Kept(n - 1, s)
    BY <1>4
  <2>3. f[n] = IF OverlapsAny(s, w) THEN s ELSE Append(s, w)
    BY <1>2 DEF Suppresses
  <2>4. w \notin Range(s) /\ \A k \in 1..(n - 1) : dets[k] # w
    BY <1>1, <2>2
  <2>5. OverlapsAny(s, w) <=>
          \E j \in 1..(n - 1) : dets[j] \in Range(s) /\ <<dets[j], w>> \in Clash
    <3>1. OverlapsAny(s, w) <=> \E v \in Range(s) : <<v, w>> \in Clash
      BY DEF OverlapsAny, Range
    <3> HIDE DEF s, w
    <3> QED BY <2>2, <3>1
  <2>6. Range(f[n]) = IF OverlapsAny(s, w) THEN Range(s) ELSE Range(s) \cup {w}
    <3>1. Range(Append(s, w)) = Range(s) \cup {w}
      <4>1. /\ Append(s, w) \in Seq(Windows) /\ Len(Append(s, w)) = Len(s) + 1
            /\ \A a \in 1..Len(s) : Append(s, w)[a] = s[a]
            /\ Append(s, w)[Len(s) + 1] = w
        BY <2>1, AppendProperties
      <4>2. Len(s) \in Nat /\ DOMAIN s = 1..Len(s)
        BY <2>1, LenProperties
      <4>3. DOMAIN Append(s, w) = 1..(Len(s) + 1)
        BY <4>1, LenProperties
      <4> HIDE DEF s, w
      <4> QED BY <4>1, <4>2, <4>3 DEF Range
    <3> QED BY <2>3, <3>1
  <2>7. \A j \in 1..(n - 1) : dets[j] \in Range(f[n]) <=> dets[j] \in Range(s)
    BY <2>4, <2>6
  <2>8. w \in Range(f[n]) <=> ~OverlapsAny(s, w)
    BY <2>4, <2>6
  <2>9. \A v \in Range(f[n]) : \E k \in 1..n : v = dets[k]
    BY <1>1, <2>2, <2>6
  <2>10. ASSUME NEW k \in 1..n
         PROVE  dets[k] \in Range(f[n]) <=>
                  ~\E j \in 1..(k - 1) : /\ dets[j] \in Range(f[n])
                                        /\ <<dets[j], dets[k]>> \in Clash
    <3>1. CASE k = n
      BY <2>5, <2>7, <2>8, <3>1
    <3>2. CASE k # n
      <4>1. k \in 1..(n - 1) /\ \A j \in 1..(k - 1) : j \in 1..(n - 1)
        BY <3>2
      <4> QED BY <2>2, <2>7, <4>1
    <3> QED BY <3>1, <3>2
  <2> QED BY <2>9, <2>10
<1> HIDE DEF P
<1>5. \A n \in 0..N : n \in P
  BY <1>1, <1>3, <1>4, Upwards
<1>6. Kept(N, f[N])
  BY <1>1, <1>5 DEF P
<1> QED BY <1>1, <1>2, <1>6

LEMMA DetectionsBegin ==
  ASSUME NEW score \in Detectors, NEW t \in Int, NEW u \in Int, t <= u
  PROVE  /\ Detections(score, t) \in Seq(Windows)
         /\ Begins(Detections(score, u), Detections(score, t))
<1> DEFINE p == Ranked(score, t)
           q == Ranked(score, u)
<1>1. /\ p \in Seq(Windows) /\ Len(p) = Cardinality(Reaching(score, t))
      /\ \A n \in 1..Len(p) : p[n] \in Reaching(score, t) /\ Place(score, p[n]) = n
  BY RankedIs
<1>2. /\ q \in Seq(Windows) /\ Len(q) = Cardinality(Reaching(score, u))
      /\ \A n \in 1..Len(q) : q[n] \in Reaching(score, u) /\ Place(score, q[n]) = n
  BY RankedIs
<1>3. Reaching(score, u) \subseteq Reaching(score, t)
  BY ScoresDiffer DEF Reaching
<1>4. Len(q) <= Len(p)
  BY <1>1, <1>2, <1>3, ReachFinite, FS_Subset
<1>5. Len(p) \in Nat /\ Len(q) \in Nat
  BY <1>1, <1>2, LenProperties
<1> HIDE DEF p, q
<1>6. ASSUME NEW n \in 1..Len(q) PROVE q[n] = p[n]
  <2>1. n \in 1..Len(p)
    BY <1>4, <1>5
  <2>2. q[n] \in Windows /\ p[n] \in Windows
    BY <1>1, <1>2, <2>1 DEF Reaching
  <2> QED BY <1>1, <1>2, <2>1, <2>2, Places
<1>7. Begins(q, p)
  BY <1>4, <1>6 DEF Begins
<1>8. NonMax(p) \in Seq(Windows)
  <2>1. PICK f \in [0..Len(p) -> Seq(Windows)] : NonMax(p) = f[Len(p)]
    BY <1>1, NonMaxSteps
  <2> QED BY <1>5, <2>1
<1> QED BY <1>1, <1>2, <1>7, <1>8, NonMaxBegins DEF Detections, p, q

-----------------------------------------------------------------------------
(* Matching. *)
LEMMA MinIsLeast ==
  ASSUME NEW T, T \subseteq Nat, T # {}
  PROVE  Min(T) \in T /\ \A x \in T : Min(T) <= x
<1>1. \E x \in T : \A y \in T : x <= y
  BY LeastNumber
<1> QED BY <1>1 DEF Min

Free(boxes, t, before) == {a \in DOMAIN boxes \ before : <<t, boxes[a]>> \in Marks}

Matches(boxes, f) ==
  /\ f[0] = {}
  /\ \A t \in 1..NumTruths :
       f[t] = IF Free(boxes, t, f[t - 1]) = {} THEN f[t - 1]
              ELSE f[t - 1] \cup {Min(Free(boxes, t, f[t - 1]))}

LEMMA FreeIs ==
  ASSUME NEW boxes \in Seq(Windows), NEW t, NEW before
  PROVE  /\ Free(boxes, t, before) \subseteq 1..Len(boxes)
         /\ Free(boxes, t, before) # {} =>
              /\ Min(Free(boxes, t, before)) \in Free(boxes, t, before)
              /\ \A a \in Free(boxes, t, before) : Min(Free(boxes, t, before)) <= a
<1>1. DOMAIN boxes = 1..Len(boxes) /\ Len(boxes) \in Nat
  BY LenProperties
<1>2. Free(boxes, t, before) \subseteq 1..Len(boxes)
  BY <1>1 DEF Free
<1>3. Free(boxes, t, before) \subseteq Nat
  BY <1>1, <1>2
<1> QED BY <1>2, <1>3, MinIsLeast

LEMMA UsedSteps ==
  ASSUME NEW boxes \in Seq(Windows)
  PROVE  \E f \in [0..NumTruths -> SUBSET (1..Len(boxes))] :
           Matches(boxes, f) /\ Used(boxes) = f[NumTruths]
<1> DEFINE N == NumTruths
           S == SUBSET (1..Len(boxes))
           Result(t, before) ==
             IF t = 0 THEN {}
             ELSE LET free == {a \in DOMAIN boxes \ before : <<t, boxes[a]>> \in Marks}
                  IN  IF free = {} THEN before ELSE before \cup {Min(free)}
           step == [p \in S \X (1..N) |-> Result(p[2], p[1])]
<1>1. N \in Nat
  BY DetectionAssumption
<1>2. {} \in S
  OBVIOUS
<1>3. \A s \in S, t \in 1..N :
        Result(t, s) = IF Free(boxes, t, s) = {} THEN s
                       ELSE s \cup {Min(Free(boxes, t, s))}
  BY <1>1 DEF Free
<1>4. \A s \in S, t \in 1..N : Result(t, s) \in S
  <2> TAKE s \in S, t \in 1..N
  <2>1. Free(boxes, t, s) # {} => Min(Free(boxes, t, s)) \in 1..Len(boxes)
    BY FreeIs
  <2> DEFINE x == Min(Free(boxes, t, s))
  <2>2. Result(t, s) = s \/ (x \in 1..Len(boxes) /\ Result(t, s) = s \cup {x})
    <3> HIDE DEF Result
    <3> QED BY <1>3, <2>1
  <2> HIDE DEF Result, x
  <2> QED BY <2>2
<1>5. Result(0, {}) = {}
  OBVIOUS
<1>6. \A s : Result(0, s) = {}
  OBVIOUS
<1>7. Used(boxes) = (CHOOSE f : f = [t \in 0..N |-> Result(t, f[t - 1])])[N]
  BY DEF Used
<1> HIDE DEF Result, S
<1>8. step \in [S \X (1..N) -> S]
  BY <1>4
<1>9. \A s \in S, t \in 1..N : step[<<s, t>>] = Result(t, s)
  OBVIOUS
<1> HIDE DEF step, N
<1>10. PICK g \in [0..N -> S] : Follows(N, {}, step, g)
  BY <1>1, <1>2, <1>8, Recursion
<1>11. \A t \in 0..N : g[t] = Result(t, g[t - 1])
  <2> TAKE t \in 0..N
  <2>1. g[t] = IF t = 0 THEN {} ELSE step[<<g[t - 1], t>>]
    BY <1>10, Zenon DEF Follows
  <2>2. CASE t = 0
    BY <1>6, <2>1, <2>2
  <2>3. CASE t # 0
    <3>1. t \in 1..N /\ t - 1 \in 0..N
      BY <1>1, <2>3
    <3>2. g[t - 1] \in S
      BY <1>10, <3>1
    <3> QED BY <1>9, <2>1, <2>3, <3>1, <3>2
  <2> QED BY <2>2, <2>3
<1>12. g = [t \in 0..N |-> Result(t, g[t - 1])]
  BY <1>10, <1>11
<1> DEFINE f == CHOOSE f : f = [t \in 0..N |-> Result(t, f[t - 1])]
<1>13. f = [t \in 0..N |-> Result(t, f[t - 1])]
  BY <1>12, Zenon
<1>14. Used(boxes) = f[N]
  BY <1>7
<1> HIDE DEF f
<1>15. \A t \in 0..N : f[t] = Result(t, f[t - 1])
  <2> TAKE t \in 0..N
  <2> QED BY <1>13, Zenon
<1>16. \A t \in 0..N : f[t] \in S
  <2> DEFINE P == {t \in 0..N : f[t] \in S}
  <2>1. 0 \in P
    <3>1. 0 \in 0..N
      BY <1>1
    <3>2. f[0] = Result(0, f[0 - 1])
      BY <1>15, <3>1
    <3>3. f[0] = {}
      BY <1>6, <3>2
    <3> QED BY <1>2, <3>1, <3>3
  <2>2. ASSUME NEW t \in 1..N, t - 1 \in P PROVE t \in P
    <3>1. t \in 0..N
      OBVIOUS
    <3>2. f[t] = Result(t, f[t - 1])
      BY <1>15, <3>1
    <3> QED BY <1>4, <2>2, <3>1, <3>2
  <2> HIDE DEF P
  <2>3. \A t \in 0..N : t \in P
    BY <1>1, <2>1, <2>2, Upwards
  <2> QED BY <2>3 DEF P
<1>17. f \in [0..N -> S]
  BY <1>13, <1>16
<1>18. Matches(boxes, f)
  <2>1. f[0] = {}
    BY <1>1, <1>6, <1>15
  <2>2. ASSUME NEW t \in 1..N
        PROVE  f[t] = IF Free(boxes, t, f[t - 1]) = {} THEN f[t - 1]
                      ELSE f[t - 1] \cup {Min(Free(boxes, t, f[t - 1]))}
    <3>1. t \in 0..N /\ t - 1 \in 0..N
      BY <1>1
    <3> QED BY <1>3, <1>15, <1>16, <3>1
  <2> QED BY <2>1, <2>2 DEF Matches, N
<1> QED BY <1>14, <1>17, <1>18 DEF S, N

\* No truth box takes two detections, and no detection serves two.
LEMMA UsedIs ==
  ASSUME NEW boxes \in Seq(Windows)
  PROVE  /\ Used(boxes) \subseteq 1..Len(boxes)
         /\ IsFiniteSet(Used(boxes))
         /\ Cardinality(Used(boxes)) \in Nat
         /\ Cardinality(Used(boxes)) <= Len(boxes)
         /\ Cardinality(Used(boxes)) <= NumTruths
<1> DEFINE N == NumTruths
           L == Len(boxes)
<1>1. N \in Nat /\ L \in Nat
  BY DetectionAssumption, LenProperties
<1>2. PICK f \in [0..N -> SUBSET (1..Len(boxes))] :
        Matches(boxes, f) /\ Used(boxes) = f[N]
  BY UsedSteps
<1>3. IsFiniteSet(1..L) /\ Cardinality(1..L) = L
  <2>1. L \in Nat
    BY <1>1
  <2> QED BY <2>1, UpTo
<1>4. \A t \in 0..N : IsFiniteSet(f[t]) /\ Cardinality(f[t]) \in Nat
                       /\ Cardinality(f[t]) <= Len(boxes)
  BY <1>2, <1>3, FS_Subset, FS_CardinalityType
<1> DEFINE P == {t \in 0..N : Cardinality(f[t]) <= t}
<1>5. 0 \in P
  BY <1>1, <1>2, FS_EmptySet DEF Matches
<1>6. ASSUME NEW t \in 1..N, t - 1 \in P PROVE t \in P
  <2> DEFINE x == Min(Free(boxes, t, f[t - 1]))
             s == f[t - 1]
  <2>1. f[t] = s \/ f[t] = s \cup {x}
    BY <1>2 DEF Matches
  <2>2. t - 1 \in 0..N /\ t \in 0..N
    BY <1>1
  <2>3. IsFiniteSet(s) /\ Cardinality(s) \in Nat /\ Cardinality(s) <= t - 1
    BY <1>4, <1>6, <2>2
  <2> HIDE DEF x, s
  <2>4. Cardinality(s \cup {x}) = IF x \in s THEN Cardinality(s) ELSE Cardinality(s) + 1
    BY <2>3, FS_AddElement
  <2>5. Cardinality(f[t]) = Cardinality(s) \/ Cardinality(f[t]) = Cardinality(s) + 1
    BY <2>1, <2>4, Zenon
  <2>6. Cardinality(f[t]) <= t
    BY <2>3, <2>5
  <2> QED BY <2>2, <2>6
<1>7. N \in 0..N
  BY <1>1
<1> HIDE DEF P, N
<1>8. N \in P
  BY <1>1, <1>5, <1>6, <1>7, Upwards
<1> QED BY <1>1, <1>2, <1>4, <1>7, <1>8 DEF P, N

\* Worse detections take no truth box from better ones.
LEMMA UsedBegins ==
  ASSUME NEW boxes \in Seq(Windows), NEW short \in Seq(Windows), Begins(short, boxes)
  PROVE  Used(short) = Used(boxes) \cap (1..Len(short))
<1> DEFINE N == NumTruths
           L == Len(short)
<1>1. N \in Nat /\ L \in Nat /\ Len(boxes) \in Nat /\ L <= Len(boxes)
  BY DetectionAssumption, LenProperties DEF Begins
<1>2. PICK f \in [0..N -> SUBSET (1..Len(boxes))] :
        Matches(boxes, f) /\ Used(boxes) = f[N]
  BY UsedSteps
<1>3. PICK g \in [0..N -> SUBSET (1..L)] :
        Matches(short, g) /\ Used(short) = g[N]
  BY UsedSteps
<1> DEFINE P == {t \in 0..N : g[t] = f[t] \cap (1..L)}
<1>4. 0 \in P
  BY <1>1, <1>2, <1>3 DEF Matches
<1>5. ASSUME NEW t \in 1..N, t - 1 \in P PROVE t \in P
  <2> DEFINE F == Free(boxes, t, f[t - 1])
             G == Free(short, t, g[t - 1])
  <2>1. g[t - 1] = f[t - 1] \cap (1..L)
    BY <1>5
  <2>2. /\ f[t] = IF F = {} THEN f[t - 1] ELSE f[t - 1] \cup {Min(F)}
        /\ g[t] = IF G = {} THEN g[t - 1] ELSE g[t - 1] \cup {Min(G)}
    BY <1>2, <1>3 DEF Matches
  <2>3. G = F \cap (1..L)
    <3>1. DOMAIN boxes = 1..Len(boxes) /\ DOMAIN short = 1..L
      BY LenProperties
    <3>2. \A a \in 1..L : a \in 1..Len(boxes) /\ short[a] = boxes[a]
      BY <1>1 DEF Begins
    <3> HIDE DEF L
    <3> QED BY <2>1, <3>1, <3>2 DEF Free
  <2>4. F \subseteq 1..Len(boxes) /\ (F # {} => Min(F) \in F /\ \A a \in F : Min(F) <= a)
    BY FreeIs
  <2>5. G \subseteq 1..L /\ (G # {} => Min(G) \in G /\ \A a \in G : Min(G) <= a)
    BY FreeIs
  <2> HIDE DEF F, G
  <2>6. g[t] = f[t] \cap (1..L)
    <3>1. CASE F = {}
      BY <2>1, <2>2, <2>3, <3>1
    <3>2. CASE F # {} /\ Min(F) \in 1..L
      <4>1. G # {} /\ Min(F) \in G
        BY <2>3, <2>4, <3>2
      <4>2. Min(G) = Min(F)
        <5>1. Min(G) <= Min(F) /\ Min(F) <= Min(G)
          BY <2>3, <2>4, <2>5, <4>1
        <5>2. Min(G) \in 1..L /\ Min(F) \in 1..L
          BY <2>5, <3>2, <4>1
        <5> HIDE DEF L
        <5> QED BY <1>1, <5>1, <5>2
      <4> QED BY <2>1, <2>2, <3>2, <4>1, <4>2
    <3>3. CASE F # {} /\ Min(F) \notin 1..L
      <4>1. Min(F) \in 1..Len(boxes) /\ \A a \in F : Min(F) <= a
        BY <2>4, <3>3
      <4>2. ASSUME NEW a \in F PROVE a \notin 1..L
        <5>1. a \in 1..Len(boxes) /\ Min(F) <= a
          BY <2>4, <4>1, <4>2
        <5>2. L < Min(F)
          <6> HIDE DEF L
          <6> QED BY <1>1, <3>3, <4>1
        <5> HIDE DEF L
        <5> QED BY <1>1, <4>1, <5>1, <5>2
      <4>3. G = {}
        BY <2>3, <4>2
      <4> QED BY <1>1, <2>1, <2>2, <3>3, <4>3
    <3> QED BY <3>1, <3>2, <3>3
  <2> QED BY <2>6
<1>6. N \in 0..N
  BY <1>1
<1> HIDE DEF P, N
<1>7. N \in P
  BY <1>1, <1>4, <1>5, <1>6, Upwards
<1> QED BY <1>2, <1>3, <1>7 DEF P, N

-----------------------------------------------------------------------------
(* Percentages and their average. *)
LEMMA QuotientIs ==
  ASSUME NEW x \in Nat, NEW y \in Nat \ {0}
  PROVE  x \div y \in Nat /\ y * (x \div y) <= x /\ x < y * (x \div y) + y
OBVIOUS

LEMMA QuotientBelow ==
  ASSUME NEW x \in Nat, NEW y \in Nat \ {0}, NEW k \in Nat
  PROVE  /\ x \div y >= k <=> x >= k * y
         /\ x \div y < k <=> x < k * y
<1> DEFINE q == x \div y
<1>1. q \in Nat /\ y * q <= x /\ x < y * q + y
  BY QuotientIs
<1> HIDE DEF q
<1>2. ASSUME q >= k PROVE x >= k * y
  <2>1. y * q >= y * k
    BY <1>1, <1>2
  <2> QED BY <1>1, <2>1
<1>3. ASSUME q < k PROVE x < k * y
  <2>1. q + 1 <= k
    BY <1>1, <1>3
  <2>2. y * (q + 1) <= y * k
    BY <1>1, <2>1
  <2> QED BY <1>1, <2>2
<1>4. k * y \in Nat
  OBVIOUS
<1> HIDE DEF q
<1>5. (q >= k <=> x >= k * y) /\ (q < k <=> x < k * y)
  <2> DEFINE z == k * y
  <2>1. z \in Nat /\ (q >= k => x >= z) /\ (q < k => x < z)
    BY <1>2, <1>3, <1>4
  <2> HIDE DEF z
  <2>2. (q >= k <=> x >= z) /\ (q < k <=> x < z)
    BY <1>1, <2>1
  <2> QED BY <2>2 DEF z
<1> QED BY <1>5 DEF q

LEMMA PercentIs ==
  ASSUME NEW part \in Nat, NEW whole \in Nat, part <= whole
  PROVE  /\ Percent(part, whole) \in 0..100
         /\ Percent(part, whole) = 100 => part = whole
         /\ Percent(part, whole) = 0 => whole # 0 /\ 100 * part < whole
<1>1. CASE whole = 0
  BY <1>1 DEF Percent
<1>2. CASE whole # 0
  <2> DEFINE x == 100 * part
             q == x \div whole
  <2>1. x \in Nat /\ whole \in Nat \ {0} /\ x < 101 * whole
    BY <1>2
  <2>2. Percent(part, whole) = q
    BY <1>2 DEF Percent
  <2> HIDE DEF x
  <2>3. q \in Nat
    BY <2>1, QuotientIs
  <2>4. (q < 101 <=> x < 101 * whole) /\ (q < 1 <=> x < 1 * whole)
        /\ (q >= 100 <=> x >= 100 * whole)
    BY <2>1, QuotientBelow
  <2> HIDE DEF q
  <2> QED BY <1>2, <2>1, <2>2, <2>3, <2>4 DEF x
<1> QED BY <1>1, <1>2

LEMMA PercentGrows ==
  ASSUME NEW a \in Nat, NEW b \in Nat, a <= b, NEW whole \in Nat
  PROVE  Percent(a, whole) <= Percent(b, whole)
<1>1. CASE whole = 0
  BY <1>1 DEF Percent
<1>2. CASE whole # 0
  <2> DEFINE x == 100 * a
             y == 100 * b
             p == x \div whole
             q == y \div whole
  <2>1. x \in Nat /\ y \in Nat /\ x <= y /\ whole \in Nat \ {0}
    BY <1>2
  <2>2. Percent(a, whole) = p /\ Percent(b, whole) = q
    BY <1>2 DEF Percent
  <2> HIDE DEF x, y
  <2>3. p \in Nat /\ q \in Nat
    BY <2>1, QuotientIs
  <2> DEFINE z == p * whole
  <2>4. x >= z
    <3>1. p >= p
      BY <2>3
    <3> QED BY <2>1, <2>3, <3>1, QuotientBelow
  <2>5. z \in Nat
    BY <2>1, <2>3
  <2>6. y >= z => q >= p
    BY <2>1, <2>3, QuotientBelow
  <2> HIDE DEF z, p, q
  <2> QED BY <2>1, <2>2, <2>4, <2>5, <2>6
<1> QED BY <1>1, <1>2

LEMMA MaxOfTwo ==
  ASSUME NEW x \in 0..100, NEW y \in 0..100
  PROVE  Max({x, y}) \in 0..100
<1>1. \E m \in {x, y} : \A k \in {x, y} : m >= k
  OBVIOUS
<1>2. Max({x, y}) \in {x, y}
  BY <1>1 DEF Max
<1> QED BY <1>2

Precision(used, a) == Percent(Cardinality({b \in used : b <= a}), a)
FromBack(n) == Cardinality(Windows) - n + 1
Best(used, n, later) == Max({later.max_val, Precision(used, FromBack(n))})
Summed(used, n, later) ==
  IF n = 0 THEN [max_val |-> 0, sum |-> 0]
  ELSE IF FromBack(n) \in used
         THEN [max_val |-> Best(used, n, later), sum |-> later.sum + Best(used, n, later)]
         ELSE later

LEMMA PrecisionSumIs ==
  ASSUME NEW used
  PROVE  PrecisionSum(used) =
           (CHOOSE f : f = [n \in 0..Cardinality(Windows) |->
                              Summed(used, n, f[n - 1])])[Cardinality(Windows)].sum
BY DEF PrecisionSum, Summed, Best, Precision, FromBack

LEMMA PrecisionsBounded ==
  ASSUME NEW used, used \subseteq Nat \ {0}, IsFiniteSet(used), NEW a \in Nat \ {0}
  PROVE  Precision(used, a) \in 0..100
<1> DEFINE T == {b \in used : b <= a}
<1>1. T \subseteq 1..a
  <2>1. ASSUME NEW b \in T PROVE b \in 1..a
    <3>1. b \in Nat \ {0} /\ b <= a
      BY <2>1
    <3> QED BY <3>1
  <2> QED BY <2>1
<1>2. IsFiniteSet(1..a) /\ Cardinality(1..a) = a
  BY UpTo
<1>3. Cardinality(T) \in Nat /\ Cardinality(T) <= a
  <2> HIDE DEF T
  <2>1. IsFiniteSet(T) /\ Cardinality(T) <= Cardinality(1..a)
    BY <1>1, <1>2, FS_Subset
  <2>2. Cardinality(T) \in Nat
    BY <2>1, FS_CardinalityType
  <2> QED BY <1>2, <2>1, <2>2
<1> HIDE DEF T
<1>4. Percent(Cardinality(T), a) \in 0..100
  BY <1>3, PercentIs
<1> QED BY <1>4 DEF T, Precision

LEMMA PrecisionSumBounded ==
  ASSUME NEW used, used \subseteq Nat \ {0}, IsFiniteSet(used)
  PROVE  /\ PrecisionSum(used) \in Nat
         /\ PrecisionSum(used) <= 100 * Cardinality(used)
<1> DEFINE N == Cardinality(Windows)
           S == [max_val : 0..100, sum : Nat]
           none == [max_val |-> 0, sum |-> 0]
           step == [p \in S \X (1..N) |-> Summed(used, p[2], p[1])]
           later(n) == {b \in used : b > N - n}
<1>1. N \in Nat
  BY DetectionAssumption, FS_CardinalityType
<1>2. none \in S
  OBVIOUS
<1>3. ASSUME NEW s \in S, NEW n \in 1..N
      PROVE  /\ Summed(used, n, s) \in S
             /\ FromBack(n) \notin used => Summed(used, n, s).sum = s.sum
             /\ FromBack(n) \in used => Summed(used, n, s).sum <= s.sum + 100
  <2> DEFINE best == Best(used, n, s)
  <2>1. FromBack(n) \in Nat \ {0}
    BY <1>1 DEF FromBack
  <2>2. best \in 0..100
    BY <2>1, PrecisionsBounded, MaxOfTwo DEF Best
  <2>3. Summed(used, n, s) = IF FromBack(n) \in used
                               THEN [max_val |-> best, sum |-> s.sum + best] ELSE s
    BY DEF Summed
  <2> HIDE DEF best
  <2>4. s.sum \in Nat /\ s.sum + best \in Nat
    BY <2>2
  <2> QED BY <2>2, <2>3, <2>4
<1>4. \A s : Summed(used, 0, s) = none
  BY DEF Summed
<1> DEFINE f == CHOOSE f : f = [n \in 0..N |-> Summed(used, n, f[n - 1])]
<1>5. PrecisionSum(used) = f[N].sum
  BY PrecisionSumIs
<1> HIDE DEF f
<1>6. f = [n \in 0..N |-> Summed(used, n, f[n - 1])]
  <2>1. step \in [S \X (1..N) -> S]
    <3> HIDE DEF S
    <3> QED BY <1>3
  <2>2. \A s \in S, n \in 1..N : step[<<s, n>>] = Summed(used, n, s)
    <3> HIDE DEF S
    <3> QED OBVIOUS
  <2> HIDE DEF step, S, none, N
  <2>3. PICK g \in [0..N -> S] : Follows(N, none, step, g)
    BY <1>1, <1>2, <2>1, Recursion
  <2>4. \A n \in 0..N : g[n] = Summed(used, n, g[n - 1])
    <3> TAKE n \in 0..N
    <3>1. g[n] = IF n = 0 THEN none ELSE step[<<g[n - 1], n>>]
      BY <2>3, Zenon DEF Follows
    <3>2. CASE n = 0
      BY <1>4, <3>1, <3>2
    <3>3. CASE n # 0
      <4>1. n \in 1..N /\ n - 1 \in 0..N
        BY <1>1, <3>3
      <4>2. g[n - 1] \in S
        BY <2>3, <4>1
      <4> QED BY <2>2, <3>1, <3>3, <4>1, <4>2
    <3> QED BY <3>2, <3>3
  <2>5. g = [n \in 0..N |-> Summed(used, n, g[n - 1])]
    BY <2>3, <2>4
  <2> QED BY <2>5, Zenon DEF f
<1>7. \A n \in 0..N : f[n] = Summed(used, n, f[n - 1])
  <2> TAKE n \in 0..N
  <2> QED BY <1>6, Zenon
<1>8. \A n \in 0..N : IsFiniteSet(later(n)) /\ Cardinality(later(n)) \in Nat
  BY FS_Subset, FS_CardinalityType
<1> DEFINE P == {n \in 0..N : f[n] \in S /\ f[n].sum <= 100 * Cardinality(later(n))}
<1>9. 0 \in P
  <2>1. 0 \in 0..N
    BY <1>1
  <2>2. f[0] = none
    BY <1>4, <1>7, <2>1
  <2>3. Cardinality(later(0)) \in Nat
    BY <1>8, <2>1
  <2> HIDE DEF later
  <2> QED BY <1>2, <2>1, <2>2, <2>3
<1>10. ASSUME NEW n \in 1..N, n - 1 \in P PROVE n \in P
  <2> DEFINE s == f[n - 1]
             c == Cardinality(later(n - 1))
  <2>1. n \in 0..N /\ n - 1 \in 0..N
    BY <1>1
  <2>2. s \in S /\ s.sum <= 100 * c
    BY <1>10
  <2>3. f[n] = Summed(used, n, s)
    BY <1>7, <2>1
  <2>4. c \in Nat /\ IsFiniteSet(later(n - 1))
    BY <1>8, <2>1
  <2>5. Cardinality(later(n)) = IF FromBack(n) \in used THEN c + 1 ELSE c
    <3>1. later(n) = IF FromBack(n) \in used THEN later(n - 1) \cup {FromBack(n)}
                                         ELSE later(n - 1)
      <4>1. \A b \in used : b \in Nat
        OBVIOUS
      <4>2. \A b \in used : b > N - n <=> b > N - (n - 1) \/ b = N - n + 1
        BY <1>1, <4>1
      <4> HIDE DEF N
      <4> QED BY <4>2 DEF FromBack, N
    <3>2. FromBack(n) \notin later(n - 1)
      BY <1>1 DEF FromBack
    <3> HIDE DEF later
    <3> QED BY <2>4, <3>1, <3>2, FS_AddElement
  <2> HIDE DEF later, s
  <2>6. f[n] \in S
    BY <1>3, <2>2, <2>3
  <2>7. f[n].sum <= 100 * Cardinality(later(n))
    <3>1. s.sum \in Nat /\ f[n].sum \in Nat
      BY <2>2, <2>6
    <3> HIDE DEF c
    <3>2. CASE FromBack(n) \in used
      <4>1. f[n].sum <= s.sum + 100
        BY <1>3, <2>2, <2>3, <3>2
      <4> QED BY <2>2, <2>4, <2>5, <3>1, <3>2, <4>1
    <3>3. CASE FromBack(n) \notin used
      <4>1. f[n].sum = s.sum
        BY <1>3, <2>2, <2>3, <3>3
      <4> QED BY <2>2, <2>4, <2>5, <3>1, <3>3, <4>1
    <3> QED BY <3>2, <3>3
  <2> QED BY <2>1, <2>6, <2>7
<1>11. N \in 0..N
  BY <1>1
<1>12. later(N) = used
  <2>1. ASSUME NEW b \in used PROVE b > N - N
    <3>1. b \in Nat \ {0} /\ N - N = 0
      BY <1>1
    <3> QED BY <3>1
  <2> QED BY <2>1
<1> HIDE DEF P, N
<1>13. N \in P
  BY <1>1, <1>9, <1>10, <1>11, Upwards
<1> QED BY <1>5, <1>12, <1>13 DEF P

-----------------------------------------------------------------------------
(* Evaluations of one detector. *)
LEMMA EvaluationIs ==
  ASSUME NEW score \in Detectors, NEW t \in Int
  PROVE  LET D == Detections(score, t)
             h == Cardinality(Used(D))
         IN  /\ D \in Seq(Windows) /\ Len(D) \in Nat
             /\ Used(D) \subseteq 1..Len(D) /\ IsFiniteSet(Used(D))
             /\ h \in Nat /\ h <= Len(D) /\ h <= NumTruths
             /\ PrecisionSum(Used(D)) \in Nat /\ PrecisionSum(Used(D)) <= 100 * h
             /\ Evaluation(score, t) =
                  [precision |-> Percent(h, Len(D)), recall |-> Percent(h, NumTruths),
                   average |-> AveragePrecision(Used(D))]
             /\ Evaluation(score, t) \in Matrices
<1> DEFINE D == Detections(score, t)
           U == Used(D)
           h == Cardinality(U)
           sum == PrecisionSum(U)
<1>1. D \in Seq(Windows)
  BY DetectionsBegin
<1>2. Evaluation(score, t) =
        [precision |-> Percent(h, Len(D)), recall |-> Percent(h, NumTruths),
         average |-> AveragePrecision(U)]
  BY DEF Evaluation
<1>3. AveragePrecision(U) = IF NumTruths = 0 THEN 100 ELSE sum \div NumTruths
  BY DEF AveragePrecision
<1>4. Len(D) \in Nat /\ NumTruths \in Nat
  BY <1>1, LenProperties, DetectionAssumption
<1> HIDE DEF D
<1>5. /\ U \subseteq 1..Len(D) /\ IsFiniteSet(U)
      /\ h \in Nat /\ h <= Len(D) /\ h <= NumTruths
  BY <1>1, UsedIs
<1> HIDE DEF U
<1>6. U \subseteq Nat \ {0}
  <2>1. \A x \in 1..Len(D) : x \in Nat \ {0}
    BY <1>4
  <2> QED BY <1>5, <2>1
<1>7. sum \in Nat /\ sum <= 100 * h
  BY <1>5, <1>6, PrecisionSumBounded
<1> HIDE DEF sum, h
<1>8. AveragePrecision(U) \in 0..100
  <2>1. CASE NumTruths = 0
    BY <1>3, <2>1
  <2>2. CASE NumTruths # 0
    <3>1. sum < 101 * NumTruths
      BY <1>4, <1>5, <1>7, <2>2
    <3>2. sum \div NumTruths \in Nat /\ sum \div NumTruths < 101
      BY <1>4, <1>7, <2>2, <3>1, QuotientIs, QuotientBelow
    <3> QED BY <1>3, <2>2, <3>2
  <2> QED BY <2>1, <2>2
<1>9. Percent(h, Len(D)) \in 0..100 /\ Percent(h, NumTruths) \in 0..100
  BY <1>4, <1>5, PercentIs
<1>10. Evaluation(score, t) \in Matrices
  BY <1>2, <1>8, <1>9 DEF Matrices
<1> QED BY <1>1, <1>2, <1>4, <1>5, <1>7, <1>10 DEF D, U, h, sum

LEMMA FewerHits ==
  ASSUME NEW score \in Detectors, NEW t \in Int, NEW u \in Int, t <= u
  PROVE  /\ Len(Detections(score, u)) <= Len(Detections(score, t))
         /\ Used(Detections(score, u)) =
              Used(Detections(score, t)) \cap (1..Len(Detections(score, u)))
         /\ Cardinality(Used(Detections(score, u)))
              <= Cardinality(Used(Detections(score, t)))
<1> DEFINE D == Detections(score, t)
           E == Detections(score, u)
<1>1. D \in Seq(Windows) /\ E \in Seq(Windows) /\ Begins(E, D)
  BY DetectionsBegin
<1> HIDE DEF D, E
<1>2. Used(E) = Used(D) \cap (1..Len(E))
  BY <1>1, UsedBegins
<1>3. Cardinality(Used(E)) <= Cardinality(Used(D))
  BY <1>1, <1>2, UsedIs, FS_Subset
<1> QED BY <1>1, <1>2, <1>3 DEF D, E, Begins

LEMMA RecallIsLess ==
  ASSUME NEW score \in Detectors, NEW t \in Int, NEW u \in Int, t <= u
  PROVE  Evaluation(score, t).recall >= Evaluation(score, u).recall
<1> DEFINE g == Cardinality(Used(Detections(score, t)))
           h == Cardinality(Used(Detections(score, u)))
<1>1. /\ g \in Nat /\ Evaluation(score, t).recall = Percent(g, NumTruths)
      /\ g <= NumTruths
  BY EvaluationIs
<1>2. /\ h \in Nat /\ Evaluation(score, u).recall = Percent(h, NumTruths)
      /\ h <= NumTruths
  BY EvaluationIs
<1>3. h <= g
  BY FewerHits
<1> HIDE DEF g, h
<1>4. NumTruths \in Nat
  BY DetectionAssumption
<1>5. Percent(h, NumTruths) <= Percent(g, NumTruths)
  BY <1>1, <1>2, <1>3, <1>4, PercentGrows
<1>6. Percent(h, NumTruths) \in 0..100 /\ Percent(g, NumTruths) \in 0..100
  BY <1>1, <1>2, <1>4, PercentIs
<1> QED BY <1>1, <1>2, <1>5, <1>6

(* matIs100 holds if every detection is a hit, or there is none, and the hits
   are too few to show in the recall.  Raising the threshold keeps that. *)
LEMMA StaysAt100 ==
  ASSUME NEW score \in Detectors, NEW t \in Int, NEW u \in Int, t <= u,
         matIs100(Evaluation(score, t))
  PROVE  Evaluation(score, u) = Evaluation(score, t)
<1> DEFINE D == Detections(score, t)
           E == Detections(score, u)
           g == Cardinality(Used(D))
           h == Cardinality(Used(E))
           sum == PrecisionSum(Used(E))
<1>1. /\ Len(D) \in Nat /\ Used(D) \subseteq 1..Len(D)
      /\ g \in Nat /\ g <= Len(D) /\ g <= NumTruths
      /\ Evaluation(score, t) =
           [precision |-> Percent(g, Len(D)), recall |-> Percent(g, NumTruths),
            average |-> AveragePrecision(Used(D))]
  BY EvaluationIs
<1>2. /\ Len(E) \in Nat
      /\ h \in Nat /\ h <= Len(E) /\ h <= NumTruths
      /\ sum \in Nat /\ sum <= 100 * h
      /\ Evaluation(score, u) =
           [precision |-> Percent(h, Len(E)), recall |-> Percent(h, NumTruths),
            average |-> AveragePrecision(Used(E))]
  BY EvaluationIs
<1>3. Len(E) <= Len(D) /\ Used(E) = Used(D) \cap (1..Len(E)) /\ h <= g
  BY FewerHits
<1>4. AveragePrecision(Used(E)) = IF NumTruths = 0 THEN 100 ELSE sum \div NumTruths
  BY DEF AveragePrecision
<1>5. NumTruths \in Nat
  BY DetectionAssumption
<1> HIDE DEF D, E
<1>6. /\ Percent(g, Len(D)) = 100 /\ Percent(g, NumTruths) = 0
      /\ AveragePrecision(Used(D)) = 0
  BY <1>1 DEF matIs100
<1>7. g = Len(D) /\ NumTruths # 0 /\ 100 * g < NumTruths
  <2> HIDE DEF g
  <2> QED BY <1>1, <1>5, <1>6, PercentIs
<1>8. Used(D) = 1..Len(D)
  <2>1. IsFiniteSet(1..Len(D)) /\ Cardinality(1..Len(D)) = Len(D)
    BY <1>1, UpTo
  <2>2. Cardinality(1..Len(D)) = Cardinality(Used(D))
    BY <1>1, <1>7, <2>1
  <2> QED BY <1>1, <2>1, <2>2, FS_Subset
<1>9. h = Len(E)
  <2>1. Used(E) = 1..Len(E)
    BY <1>1, <1>2, <1>3, <1>8
  <2>2. Cardinality(1..Len(E)) = Len(E)
    BY <1>2, UpTo
  <2> QED BY <1>2, <2>1, <2>2
<1> HIDE DEF g, h, sum
<1>10. Percent(h, Len(E)) = 100
  <2>1. CASE Len(E) = 0
    BY <2>1 DEF Percent
  <2>2. CASE Len(E) # 0
    <3> DEFINE x == 100 * h
    <3>1. x \in Nat /\ x >= 100 * Len(E) /\ x < 101 * Len(E)
      BY <1>2, <1>9, <2>2
    <3>2. Percent(h, Len(E)) = x \div Len(E)
      BY <2>2 DEF Percent
    <3> HIDE DEF x
    <3>3. x \div Len(E) \in Nat /\ x \div Len(E) >= 100 /\ x \div Len(E) < 101
      BY <1>2, <2>2, <3>1, QuotientIs, QuotientBelow
    <3> QED BY <3>2, <3>3
  <2> QED BY <2>1, <2>2
<1>11. 100 * h < NumTruths
  BY <1>1, <1>2, <1>3, <1>5, <1>7
<1>12. Percent(h, NumTruths) = 0
  <2> DEFINE x == 100 * h
  <2>1. x \in Nat /\ x < 1 * NumTruths
    BY <1>2, <1>5, <1>11
  <2>2. Percent(h, NumTruths) = x \div NumTruths
    BY <1>7 DEF Percent
  <2> HIDE DEF x
  <2>3. x \div NumTruths \in Nat /\ x \div NumTruths < 1
    BY <1>5, <1>7, <2>1, QuotientIs, QuotientBelow
  <2> QED BY <2>2, <2>3
<1>13. AveragePrecision(Used(E)) = 0
  <2>1. sum < 1 * NumTruths
    BY <1>2, <1>5, <1>11
  <2>2. sum \div NumTruths \in Nat /\ sum \div NumTruths < 1
    BY <1>2, <1>5, <1>7, <2>1, QuotientIs, QuotientBelow
  <2> QED BY <1>4, <1>7, <2>2
<1> QED BY <1>1, <1>2, <1>6, <1>10, <1>12, <1>13

-----------------------------------------------------------------------------
(* The inductive invariants.  TInv needs no assumption on the step. *)
Nothing == [precision |-> 0, recall |-> 0, average |-> 0]

Types ==
  /\ pc \in {"open", "sweep", "done"}
  /\ files \in Seq(Detectors)
  /\ i \in Nat \ {0}
  /\ dThreshold \in Int
  /\ matrix \in Matrices
  /\ rows \in [DOMAIN files -> Seq([threshold : Int, matrix : Matrices])]

\* Which file the loop is at.
Position ==
  /\ pc = "open" => i <= Len(files) \/ files = <<>>
  /\ pc = "sweep" => i <= Len(files)
  /\ pc = "done" => i > Len(files)

TInv == Types /\ Position

\* The rows of a file are what it does at the thresholds from the first on.
RowsRight ==
  \A f \in DOMAIN files : \A r \in DOMAIN rows[f] :
    /\ rows[f][r].threshold = StartThreshold + (r - 1) * ThresholdStep
    /\ rows[f][r].threshold <= EndThreshold
    /\ rows[f][r].matrix = Evaluation(files[f], rows[f][r].threshold)

\* A file that was swept has no threshold left, one that was not has no row.
Swept ==
  \A f \in DOMAIN files :
    /\ f < i => StartThreshold + Len(rows[f]) * ThresholdStep > EndThreshold
    /\ f > i => rows[f] = <<>>
    /\ f = i /\ pc = "open" => rows[f] = <<>>

\* The result that may be used again is that of the last row of this file.
LastKept ==
  pc = "sweep" =>
    /\ dThreshold = StartThreshold + Len(rows[i]) * ThresholdStep
    /\ matrix = IF rows[i] = <<>> THEN Nothing ELSE rows[i][Len(rows[i])].matrix

SInv == TInv /\ RowsRight /\ Swept /\ LastKept

LEMMA TInit ==
  ASSUME Init PROVE TInv
<1>1. PICK n \in 0..MaxFiles : files \in [1..n -> Detectors]
  BY DEF Init
<1>2. n \in Nat
  BY SweepAssumption
<1>3. files \in Seq(Detectors) /\ Len(files) = n
  BY <1>1, <1>2, SeqDef, LenProperties
<1>4. rows \in [DOMAIN files -> Seq([threshold : Int, matrix : Matrices])]
  BY DEF Init
<1>5. matrix \in Matrices
  BY DEF Init, Matrices
<1>6. Len(files) # 0 \/ files = <<>>
  BY <1>3, EmptySeq
<1>7. pc = "open" /\ i = 1 /\ dThreshold \in Int
  BY SweepAssumption DEF Init
<1>8. Position
  <2>1. Len(files) >= 1 \/ files = <<>>
    BY <1>2, <1>3, <1>6
  <2> QED BY <1>7, <2>1 DEF Position
<1>9. i \in Nat \ {0} /\ pc \in {"open", "sweep", "done"} /\ dThreshold \in Int
  BY <1>7
<1>10. Types
  BY <1>3, <1>4, <1>5, <1>9, Zenon DEF Types
<1> QED BY <1>8, <1>10 DEF TInv

\* What a step of LogRow writes.
LEMMA LogRowIs ==
  ASSUME TInv, LogRow
  PROVE  LET row == [threshold |-> dThreshold, matrix |-> matrix']
             log == rows[i]
         IN  /\ i \in DOMAIN files /\ files[i] \in Detectors
             /\ dThreshold \in Int /\ dThreshold <= EndThreshold
             /\ matrix' \in Matrices /\ row \in [threshold : Int, matrix : Matrices]
             /\ log \in Seq([threshold : Int, matrix : Matrices])
             /\ Len(log) \in Nat
             /\ rows' \in [DOMAIN files -> Seq([threshold : Int, matrix : Matrices])]
             /\ rows'[i] = Append(log, row)
             /\ Len(rows'[i]) = Len(log) + 1
             /\ \A r \in 1..Len(log) : rows'[i][r] = log[r]
             /\ rows'[i][Len(log) + 1] = row
             /\ \A f \in DOMAIN files : f # i => rows'[f] = rows[f]
             /\ dThreshold' = dThreshold + ThresholdStep
<1> DEFINE Row == [threshold : Int, matrix : Matrices]
           row == [threshold |-> dThreshold, matrix |-> matrix']
           log == rows[i]
<1> USE DEF TInv, Types, Position
<1>1. i \in DOMAIN files /\ files[i] \in Detectors
  <2>1. i \in 1..Len(files)
    <3>1. Len(files) \in Nat
      BY LenProperties
    <3> QED BY <3>1 DEF LogRow
  <2> QED BY <2>1, LenProperties, ElementOfSeq
<1>2. dThreshold \in Int /\ dThreshold <= EndThreshold
  BY DEF LogRow, InRange
<1>3. matrix' \in Matrices
  <2>1. Evaluation(files[i], dThreshold) \in Matrices
    BY <1>1, <1>2, EvaluationIs
  <2> QED BY <2>1 DEF LogRow
<1>4. row \in Row /\ log \in Seq(Row)
  BY <1>1, <1>2, <1>3
<1>5. rows' = [rows EXCEPT ![i] = Append(log, row)]
  BY DEF LogRow
<1> HIDE DEF row, log, Row
<1>6. /\ Append(log, row) \in Seq(Row)
      /\ Len(log) \in Nat /\ Len(Append(log, row)) = Len(log) + 1
      /\ \A r \in 1..Len(log) : Append(log, row)[r] = log[r]
      /\ Append(log, row)[Len(log) + 1] = row
  BY <1>4, AppendProperties, LenProperties
<1>7. rows \in [DOMAIN files -> Seq(Row)]
  BY DEF Row
<1>8. /\ rows' \in [DOMAIN files -> Seq(Row)]
      /\ rows'[i] = Append(log, row)
      /\ \A f \in DOMAIN files : f # i => rows'[f] = rows[f]
  BY <1>1, <1>5, <1>6, <1>7
<1>9. dThreshold' = dThreshold + ThresholdStep
  BY DEF LogRow, NextThreshold
<1> QED BY <1>1, <1>2, <1>3, <1>4, <1>6, <1>8, <1>9 DEF row, log, Row

LEMMA TNext ==
  ASSUME TInv, [Next]_vars PROVE TInv'
<1>1. CASE NoneFound
  <2>1. Len(files) = 0
    BY <1>1 DEF NoneFound
  <2> QED BY <1>1, <2>1 DEF NoneFound, TInv, Types, Position
<1>2. CASE OpenFile
  <2>1. matrix' \in Matrices /\ dThreshold' \in Int
    BY <1>2, SweepAssumption DEF OpenFile, Matrices
  <2> QED BY <1>2, <2>1 DEF OpenFile, TInv, Types, Position
<1>3. CASE LogRow
  <2>1. /\ matrix' \in Matrices
        /\ rows' \in [DOMAIN files -> Seq([threshold : Int, matrix : Matrices])]
        /\ dThreshold' = dThreshold + ThresholdStep /\ dThreshold \in Int
    BY <1>3, LogRowIs
  <2>2. dThreshold' \in Int
    BY <2>1, SweepAssumption
  <2> QED BY <1>3, <2>1, <2>2 DEF LogRow, TInv, Types, Position
<1>4. CASE CloseFile
  <2>1. Len(files) \in Nat
    BY LenProperties DEF TInv, Types
  <2>2. Types'
    <3>1. /\ UNCHANGED <<files, dThreshold, matrix, rows>>
          /\ i' \in Nat \ {0} /\ pc' \in {"open", "sweep", "done"}
      BY <1>4 DEF CloseFile, TInv, Types
    <3> QED BY <3>1 DEF TInv, Types, Detectors, Matrices
  <2>3. i \in Nat /\ i' = i + 1 /\ Len(files') = Len(files)
        /\ pc' = IF i < Len(files) THEN "open" ELSE "done"
    BY <1>4 DEF CloseFile, TInv, Types
  <2>4. Position'
    BY <2>1, <2>3 DEF Position
  <2> QED BY <2>2, <2>4 DEF TInv
<1>5. CASE UNCHANGED vars
  BY <1>5 DEF vars, TInv, Types, Position, Detectors, Matrices
<1> QED BY <1>1, <1>2, <1>3, <1>4, <1>5 DEF Next

LEMMA SInit ==
  ASSUME Init, StepForward PROVE SInv
<1>1. TInv
  BY TInit
<1>2. \A f \in DOMAIN files : rows[f] = <<>>
  BY DEF Init
<1>3. i = 1 /\ pc = "open"
  BY DEF Init
<1>4. \A f \in DOMAIN files : f \in Nat \ {0}
  <2>1. DOMAIN files = 1..Len(files) /\ Len(files) \in Nat
    BY <1>1, LenProperties DEF TInv, Types
  <2> QED BY <2>1
<1>5. RowsRight
  BY <1>2 DEF RowsRight
<1>6. Swept
  BY <1>2, <1>3, <1>4 DEF Swept
<1>7. LastKept
  BY <1>3 DEF LastKept
<1> QED BY <1>1, <1>5, <1>6, <1>7 DEF SInv

LEMMA FileNumbers ==
  ASSUME Types
  PROVE  /\ Len(files) \in Nat /\ DOMAIN files = 1..Len(files)
         /\ \A f \in DOMAIN files :
              /\ f \in Nat \ {0} /\ files[f] \in Detectors
              /\ rows[f] \in Seq([threshold : Int, matrix : Matrices])
              /\ Len(rows[f]) \in Nat /\ DOMAIN rows[f] = 1..Len(rows[f])
<1>1. Len(files) \in Nat /\ DOMAIN files = 1..Len(files)
  BY LenProperties DEF Types
<1>2. \A f \in DOMAIN files : files[f] \in Detectors
  BY <1>1, ElementOfSeq DEF Types
<1>3. \A f \in DOMAIN files : rows[f] \in Seq([threshold : Int, matrix : Matrices])
  BY DEF Types
<1>4. \A f \in DOMAIN files : Len(rows[f]) \in Nat /\ DOMAIN rows[f] = 1..Len(rows[f])
  BY <1>3, LenProperties
<1>5. \A f \in DOMAIN files : f \in Nat \ {0}
  BY <1>1
<1> QED BY <1>1, <1>2, <1>3, <1>4, <1>5, Zenon

LEMMA OpenFileStep ==
  ASSUME SInv, OpenFile
  PROVE  RowsRight' /\ Swept' /\ LastKept'
<1>1. /\ pc = "open" /\ pc' = "sweep" /\ i <= Len(files)
      /\ matrix' = Nothing /\ dThreshold' = StartThreshold
      /\ UNCHANGED <<files, i, rows>>
  BY DEF OpenFile, Nothing
<1>2. RowsRight'
  BY <1>1 DEF SInv, RowsRight
<1>3. Swept'
  BY <1>1 DEF SInv, Swept
<1>4. i \in DOMAIN files
  BY <1>1, FileNumbers DEF SInv, TInv, Types
<1>5. rows[i] = <<>>
  BY <1>1, <1>4 DEF SInv, Swept
<1>6. Len(rows[i]) * ThresholdStep = 0
  BY <1>5, SweepAssumption
<1>7. LastKept'
  BY <1>1, <1>5, <1>6, SweepAssumption DEF LastKept
<1> QED BY <1>2, <1>3, <1>7

LEMMA LogRowStep ==
  ASSUME SInv, LogRow, StepForward
  PROVE  RowsRight' /\ Swept' /\ LastKept'
<1> DEFINE log == rows[i]
           L == Len(log)
           row == [threshold |-> dThreshold, matrix |-> matrix']
<1> USE DEF SInv
<1>1. TInv /\ Types
  BY DEF TInv
<1>2. /\ i \in DOMAIN files /\ files[i] \in Detectors
      /\ dThreshold \in Int /\ dThreshold <= EndThreshold
      /\ log \in Seq([threshold : Int, matrix : Matrices])
      /\ L \in Nat
      /\ rows' \in [DOMAIN files -> Seq([threshold : Int, matrix : Matrices])]
      /\ Len(rows'[i]) = L + 1
      /\ \A r \in 1..L : rows'[i][r] = log[r]
      /\ rows'[i][L + 1] = row
      /\ \A f \in DOMAIN files : f # i => rows'[f] = rows[f]
      /\ dThreshold' = dThreshold + ThresholdStep
  BY <1>1, LogRowIs
<1>3. UNCHANGED <<pc, files, i>> /\ pc = "sweep"
  BY DEF LogRow
<1>4. dThreshold = StartThreshold + L * ThresholdStep
  BY <1>3 DEF LastKept
<1>5. ThresholdStep \in Int /\ StartThreshold \in Int /\ ThresholdStep > 0
  BY SweepAssumption DEF StepForward
<1>6. DOMAIN log = 1..L /\ DOMAIN rows'[i] = 1..(L + 1)
  BY <1>2, LenProperties
<1>7. matrix' = Evaluation(files[i], dThreshold)
  <2>1. CASE ~matIs100(matrix)
    BY <2>1 DEF LogRow
  <2>2. CASE matIs100(matrix)
    <3>1. matrix' = matrix
      BY <2>2 DEF LogRow
    <3>2. log # <<>> /\ matrix = log[L].matrix
      <4>1. ~matIs100(Nothing)
        BY DEF matIs100, Nothing
      <4> QED BY <1>3, <2>2, <4>1 DEF LastKept
    <3>3. L \in 1..L
      <4>1. L # 0
        BY <1>2, <3>2, EmptySeq
      <4> QED BY <1>2, <4>1
    <3> DEFINE t == log[L].threshold
    <3>4. /\ t = StartThreshold + (L - 1) * ThresholdStep
          /\ matrix = Evaluation(files[i], t)
      BY <1>2, <1>6, <3>2, <3>3 DEF RowsRight
    <3> HIDE DEF t, log, L
    <3>5. t \in Int /\ t <= dThreshold
      <4>1. L * ThresholdStep = (L - 1) * ThresholdStep + ThresholdStep
        BY <1>2, <1>5
      <4>2. (L - 1) * ThresholdStep \in Int
        BY <1>2, <1>5
      <4> QED BY <1>4, <1>5, <3>4, <4>1, <4>2
    <3>6. Evaluation(files[i], dThreshold) = Evaluation(files[i], t)
      BY <1>2, <2>2, <3>4, <3>5, StaysAt100
    <3> QED BY <3>1, <3>4, <3>6
  <2> QED BY <2>1, <2>2
<1>8. RowsRight'
  <2> SUFFICES ASSUME NEW f \in DOMAIN files, NEW r \in DOMAIN rows'[f]
               PROVE  /\ rows'[f][r].threshold = StartThreshold + (r - 1) * ThresholdStep
                      /\ rows'[f][r].threshold <= EndThreshold
                      /\ rows'[f][r].matrix = Evaluation(files[f], rows'[f][r].threshold)
    BY <1>3 DEF RowsRight
  <2>1. CASE f # i
    BY <1>2, <2>1 DEF RowsRight
  <2>2. CASE f = i /\ r \in 1..L
    <3>1. rows'[f][r] = rows[f][r] /\ r \in DOMAIN rows[f]
      BY <1>2, <1>6, <2>2
    <3> QED BY <3>1 DEF RowsRight
  <2>3. CASE f = i /\ r = L + 1
    <3>1. rows'[f][r] = row /\ r - 1 = L
      BY <1>2, <2>3
    <3> QED BY <1>2, <1>4, <1>7, <2>3, <3>1
  <2>4. f = i => r \in 1..L \/ r = L + 1
    <3> HIDE DEF L
    <3> QED BY <1>2, <1>6
  <2> QED BY <2>1, <2>2, <2>3, <2>4
<1>9. Swept'
  <2>1. i \in Nat /\ \A f \in DOMAIN files : f \in Nat
    BY <1>1, FileNumbers DEF Types
  <2>2. \A f \in DOMAIN files : f < i \/ f > i => rows'[f] = rows[f]
    BY <1>2, <2>1
  <2> QED BY <1>3, <2>2 DEF Swept
<1>10. LastKept'
  <2>1. rows'[i] # <<>>
    <3>1. Len(rows'[i]) # 0
      BY <1>2
    <3> QED BY <3>1
  <2>2. rows'[i][Len(rows'[i])].matrix = matrix'
    BY <1>2
  <2>3. dThreshold' = StartThreshold + (L + 1) * ThresholdStep
    <3> HIDE DEF L
    <3> QED BY <1>2, <1>4, <1>5
  <2>4. dThreshold' = StartThreshold + Len(rows'[i]) * ThresholdStep
    BY <1>2, <2>3
  <2> QED BY <1>3, <2>1, <2>2, <2>4 DEF LastKept
<1> QED BY <1>8, <1>9, <1>10

LEMMA CloseFileStep ==
  ASSUME SInv, CloseFile
  PROVE  RowsRight' /\ Swept' /\ LastKept'
<1>1. /\ pc = "sweep" /\ ~InRange /\ i' = i + 1 /\ pc' \in {"open", "done"}
      /\ UNCHANGED <<files, dThreshold, matrix, rows>>
  BY DEF CloseFile
<1>2. RowsRight'
  BY <1>1 DEF SInv, RowsRight
<1>3. i \in Nat /\ \A f \in DOMAIN files : f \in Nat
  BY FileNumbers DEF SInv, TInv, Types
<1>4. StartThreshold + Len(rows[i]) * ThresholdStep > EndThreshold
  BY <1>1, SweepAssumption DEF SInv, TInv, Types, LastKept, InRange
<1>5. \A f \in DOMAIN files : (f < i + 1 <=> f < i \/ f = i) /\ (f > i + 1 => f > i)
                              /\ (f = i + 1 => f > i)
  BY <1>3
<1>6. Swept'
  BY <1>1, <1>4, <1>5 DEF SInv, Swept
<1>7. LastKept'
  BY <1>1 DEF LastKept
<1> QED BY <1>2, <1>6, <1>7

LEMMA SNext ==
  ASSUME SInv, [Next]_vars, StepForward PROVE SInv'
<1>1. TInv'
  BY TNext DEF SInv
<1>2. RowsRight' /\ Swept' /\ LastKept'
  <2>1. CASE NoneFound
    <3>1. /\ DOMAIN files' = {} /\ pc' = "done"
      BY <2>1 DEF NoneFound
    <3> QED BY <3>1 DEF RowsRight, Swept, LastKept
  <2>2. CASE OpenFile
    BY <2>2, OpenFileStep
  <2>3. CASE LogRow
    BY <2>3, LogRowStep
  <2>4. CASE CloseFile
    BY <2>4, CloseFileStep
  <2>5. CASE UNCHANGED vars
    BY <2>5 DEF vars, SInv, RowsRight, Swept, LastKept
  <2> QED BY <2>1, <2>2, <2>3, <2>4, <2>5 DEF Next
<1> QED BY <1>1, <1>2 DEF SInv

-----------------------------------------------------------------------------
(* The theorems. *)
LEMMA SuppressionIs ==
  ASSUME NEW score \in Detectors, NEW t \in Int
  PROVE  LET final == Range(Detections(score, t))
         IN  \A w \in Windows :
               w \in final <=> /\ score[w] >= t
                               /\ ~\E b \in final : /\ score[b] > score[w]
                                                    /\ <<b, w>> \in Clash
<1> DEFINE p == Ranked(score, t)
           final == Range(Detections(score, t))
<1>1. /\ p \in Seq(Windows) /\ Len(p) = Cardinality(Reaching(score, t))
      /\ \A n \in 1..Len(p) : p[n] \in Reaching(score, t) /\ Place(score, p[n]) = n
  BY RankedIs
<1>2. final = Range(NonMax(p))
  BY DEF Detections
<1> HIDE DEF p, final
<1>3. \A j, k \in 1..Len(p) : p[j] = p[k] => j = k
  BY <1>1
<1>4. /\ \A w \in final : \E k \in 1..Len(p) : w = p[k]
      /\ \A k \in 1..Len(p) :
           p[k] \in final <=>
             ~\E j \in 1..(k - 1) : p[j] \in final /\ <<p[j], p[k]>> \in Clash
  BY <1>1, <1>2, <1>3, NonMaxKeeps
<1>5. \A w \in Reaching(score, t) : w \in Windows /\ score[w] >= t
  BY DEF Reaching
<1>6. \A j, k \in 1..Len(p) : score[p[j]] > score[p[k]] <=> j < k
  BY <1>1, <1>5, Places
<1>7. Len(p) \in Nat
  BY <1>1, LenProperties
<1>8. ASSUME NEW k \in 1..Len(p)
      PROVE  p[k] \in final <=> ~\E b \in final : /\ score[b] > score[p[k]]
                                                /\ <<b, p[k]>> \in Clash
  <2>1. ASSUME NEW b \in final, score[b] > score[p[k]], <<b, p[k]>> \in Clash
        PROVE  p[k] \notin final
    <3>1. PICK j \in 1..Len(p) : b = p[j]
      BY <1>4
    <3>2. j \in 1..(k - 1)
      BY <1>6, <1>7, <2>1, <3>1
    <3> QED BY <1>4, <2>1, <3>1, <3>2
  <2>2. ASSUME NEW j \in 1..(k - 1), p[j] \in final, <<p[j], p[k]>> \in Clash
        PROVE  score[p[j]] > score[p[k]]
    <3>1. j \in 1..Len(p) /\ j < k
      BY <1>7
    <3> QED BY <1>6, <3>1
  <2> QED BY <1>4, <2>1, <2>2
<1>9. ASSUME NEW w \in Windows
      PROVE  w \in final <=> /\ score[w] >= t
                            /\ ~\E b \in final : /\ score[b] > score[w]
                                                 /\ <<b, w>> \in Clash
  <2>1. CASE w \in Reaching(score, t)
    <3>1. Place(score, w) \in 1..Len(p)
      BY <1>1, <2>1, AboveReaches
    <3>2. p[Place(score, w)] = w
      BY <1>1, <1>5, <3>1, Places
    <3> QED BY <1>5, <1>8, <2>1, <3>1, <3>2
  <2>2. CASE w \notin Reaching(score, t)
    <3>1. ~(score[w] >= t)
      BY <2>2 DEF Reaching
    <3>2. w \notin final
      BY <1>1, <1>4, <2>2
    <3> QED BY <3>1, <3>2
  <2> QED BY <2>1, <2>2
<1> QED BY <1>9 DEF final

(* For any windows, geometry and detectors, and at every threshold, the greedy
   suppression of object_detector::operator() keeps just the windows that reach
   the threshold and clash with no better one that is kept. *)
THEOREM SuppressionKeepsUndominated == Spec => []SuppressionRight
<1>1. TInv => SuppressionRight
  <2> SUFFICES ASSUME TInv, pc = "sweep"
               PROVE  LET score == files[i]
                          final == Range(Detections(score, dThreshold))
                      IN  \A w \in Windows :
                            w \in final <=> /\ score[w] >= dThreshold
                                            /\ ~\E b \in final : /\ score[b] > score[w]
                                                                 /\ <<b, w>> \in Clash
    BY DEF SuppressionRight
  <2>1. i \in DOMAIN files
    BY FileNumbers DEF TInv, Types, Position
  <2>2. files[i] \in Detectors /\ dThreshold \in Int
    BY <2>1, FileNumbers DEF TInv, Types
  <2> QED BY <2>2, SuppressionIs
<1> QED BY TInit, TNext, <1>1, PTL DEF Spec

LEMMA RowsAscend ==
  ASSUME SInv, StepForward, NEW f \in DOMAIN files,
         NEW a \in DOMAIN rows[f], NEW b \in DOMAIN rows[f], a < b
  PROVE  /\ rows[f][a].threshold \in Int /\ rows[f][b].threshold \in Int
         /\ rows[f][a].threshold <= rows[f][b].threshold
<1>1. a \in Nat /\ b \in Nat
  BY FileNumbers DEF SInv, TInv
<1>2. /\ rows[f][a].threshold = StartThreshold + (a - 1) * ThresholdStep
      /\ rows[f][b].threshold = StartThreshold + (b - 1) * ThresholdStep
  BY DEF SInv, RowsRight
<1>3. StartThreshold \in Int /\ ThresholdStep \in Nat
  BY SweepAssumption DEF StepForward
<1>4. (b - 1) * ThresholdStep = (a - 1) * ThresholdStep + (b - a) * ThresholdStep
  BY <1>1, <1>3
<1>5. /\ (b - a) * ThresholdStep \in Nat /\ (a - 1) * ThresholdStep \in Int
      /\ (b - 1) * ThresholdStep \in Int
  BY <1>1, <1>3
<1> QED BY <1>2, <1>3, <1>4, <1>5

(* In the log of a file the recall never rises: for any detectors, marks and
   geometry, raising the threshold takes detections from the end of the list
   only, and with them hits. *)
THEOREM RecallNeverRises ==
  ASSUME StepForward
  PROVE  Spec => []RecallFalls
<1>1. SInv => RecallFalls
  <2> SUFFICES ASSUME SInv, NEW f \in DOMAIN files,
                      NEW a \in DOMAIN rows[f], NEW b \in DOMAIN rows[f], a < b
               PROVE  rows[f][a].matrix.recall >= rows[f][b].matrix.recall
    BY DEF RecallFalls
  <2>1. /\ rows[f][a].matrix = Evaluation(files[f], rows[f][a].threshold)
        /\ rows[f][b].matrix = Evaluation(files[f], rows[f][b].threshold)
    BY DEF SInv, RowsRight
  <2>2. files[f] \in Detectors
    BY FileNumbers DEF SInv, TInv
  <2>3. /\ rows[f][a].threshold \in Int /\ rows[f][b].threshold \in Int
        /\ rows[f][a].threshold <= rows[f][b].threshold
    BY RowsAscend
  <2> QED BY <2>1, <2>2, <2>3, RecallIsLess
<1>2. SInv /\ [Next]_vars => SInv'
  BY SNext
<1>3. Init => SInv
  BY SInit
<1> QED BY <1>1, <1>2, <1>3, PTL DEF Spec

LEMMA AllThresholds ==
  ASSUME SInv, StepForward, pc = "done", StartThreshold <= EndThreshold,
         NEW f \in DOMAIN files
  PROVE  Len(rows[f]) = (EndThreshold - StartThreshold) \div ThresholdStep + 1
<1> DEFINE x == EndThreshold - StartThreshold
           L == Len(rows[f])
           q == x \div ThresholdStep
<1>1. L \in Nat /\ DOMAIN rows[f] = 1..L /\ f \in 1..Len(files) /\ Len(files) \in Nat
  BY FileNumbers DEF SInv, TInv
<1>2. x \in Nat /\ ThresholdStep \in Nat \ {0} /\ StartThreshold \in Int /\ EndThreshold \in Int
  BY SweepAssumption DEF StepForward
<1>3. f < i
  BY <1>1 DEF SInv, TInv, Types, Position
<1>4. StartThreshold + L * ThresholdStep > EndThreshold
  BY <1>3 DEF SInv, Swept
<1>5. L # 0
  <2> HIDE DEF L
  <2> QED BY <1>2, <1>4
<1>6. StartThreshold + (L - 1) * ThresholdStep <= EndThreshold
  <2>1. L \in DOMAIN rows[f]
    BY <1>1, <1>5
  <2> HIDE DEF L
  <2> QED BY <2>1 DEF SInv, RowsRight
<1> HIDE DEF L
<1> DEFINE y == L * ThresholdStep
           z == (L - 1) * ThresholdStep
<1>7. y \in Nat /\ z \in Nat
  BY <1>1, <1>2, <1>5
<1> HIDE DEF y, z
<1>8. x < y /\ x >= z
  BY <1>2, <1>4, <1>6, <1>7 DEF y, z
<1> HIDE DEF x
<1>9. q < L /\ q >= L - 1
  BY <1>1, <1>2, <1>5, <1>8, QuotientBelow DEF y, z
<1>10. q \in Nat
  BY <1>2, QuotientIs
<1> HIDE DEF q
<1>11. L = q + 1
  BY <1>1, <1>9, <1>10
<1> QED BY <1>11 DEF L, q, x

(* Every row of the log is what its detector does at the threshold of the row,
   the skipped evaluations included, and in the end each file has a row for
   every threshold of the range. *)
THEOREM RowsAreEvaluations ==
  ASSUME StepForward
  PROVE  Spec => []LogRight
<1>1. SInv => LogRight
  <2> SUFFICES ASSUME SInv PROVE LogRight
    OBVIOUS
  <2>1. ASSUME NEW f \in DOMAIN files, NEW r \in DOMAIN rows[f]
        PROVE  /\ rows[f][r].matrix = Evaluation(files[f], rows[f][r].threshold)
               /\ rows[f][r].matrix \in Matrices
               /\ rows[f][r].threshold = StartThreshold + (r - 1) * ThresholdStep
    <3>1. /\ rows[f][r].matrix = Evaluation(files[f], rows[f][r].threshold)
          /\ rows[f][r].threshold = StartThreshold + (r - 1) * ThresholdStep
      BY DEF SInv, RowsRight
    <3>2. rows[f][r] \in [threshold : Int, matrix : Matrices]
      <4>1. /\ rows[f] \in Seq([threshold : Int, matrix : Matrices])
            /\ r \in 1..Len(rows[f])
        BY FileNumbers DEF SInv, TInv
      <4> QED BY <4>1, ElementOfSeq
    <3> QED BY <3>1, <3>2
  <2>2. pc = "done" /\ StartThreshold <= EndThreshold =>
          \A f \in DOMAIN files :
            Len(rows[f]) = (EndThreshold - StartThreshold) \div ThresholdStep + 1
    BY AllThresholds
  <2> QED BY <2>1, <2>2 DEF LogRight
<1>2. SInv /\ [Next]_vars => SInv'
  BY SNext
<1>3. Init => SInv
  BY SInit
<1> QED BY <1>1, <1>2, <1>3, PTL DEF Spec
=============================================================================

------------------------ MODULE CuttingPlanes_proofs ------------------------
(***************************************************************************)
(* Training by cutting planes, for any training set, grid of weights, size *)
(* of the cache and patience with planes.  The labellings taken are the    *)
(* worst known (ChosenIsWorst), the minimum over the planes is a lower     *)
(* bound (LowerBound) that never falls (LowerBoundRises), and training     *)
(* that stops by its gap is near the optimum (NearOptimal).  For any       *)
(* images, the detector's own oracle is what the planes assume, and finds  *)
(* the worst labelling where nothing hinders it (GreedyIsExact).           *)
(***************************************************************************)
EXTENDS DetectorTraining, FiniteSetTheorems, SequenceTheorems,
        WellFoundedInduction, TLAPS

-----------------------------------------------------------------------------
(* Induction over the subsets of a finite set, in the form of a least one: a
   family of them has a member that no other one is part of. *)
LEMMA SmallestSubset ==
  ASSUME NEW S, IsFiniteSet(S), NEW T \in SUBSET (SUBSET S), T # {}
  PROVE  \E x \in T : \A y \in T : y \subseteq x => y = x
<1>1. IsWellFoundedOn(StrictSubsetOrdering(S), FiniteSubsetsOf(S))
  BY FS_StrictSubsetOrderingWellFounded
<1>2. FiniteSubsetsOf(S) = SUBSET S
  BY FS_FiniteSubsetsOfFinite
<1>3. PICK x \in T : \A y \in T : <<y, x>> \notin StrictSubsetOrdering(S)
  BY <1>1, <1>2, WFMin
<1>4. ASSUME NEW y \in T, y \subseteq x PROVE y = x
  BY <1>3, <1>4 DEF StrictSubsetOrdering
<1> QED BY <1>4

(* A finite set of integers that is not empty has a greatest and a least
   element. *)
HasGreatest(U) == \E m \in U : \A y \in U : m >= y
LEMMA MaxIsGreatest ==
  ASSUME NEW S, IsFiniteSet(S), S # {}, \A x \in S : x \in Int
  PROVE  Max(S) \in S /\ \A y \in S : Max(S) >= y
<1> DEFINE T == {U \in SUBSET S : U # {} /\ ~HasGreatest(U)}
<1>1. T = {}
  <2> SUFFICES ASSUME T # {} PROVE FALSE
    OBVIOUS
  <2>1. PICK U \in T : \A V \in T : V \subseteq U => V = U
    <3>1. T \in SUBSET (SUBSET S)
      OBVIOUS
    <3> HIDE DEF T
    <3> QED BY <3>1, SmallestSubset
  <2>2. PICK x \in U : TRUE
    OBVIOUS
  <2>3. U \ {x} # {} /\ U \ {x} \notin T
    <3>1. CASE U \ {x} = {}
      <4>1. U = {x} /\ x \in Int
        BY <3>1, <2>2
      <4> QED BY <4>1, <2>1 DEF HasGreatest
    <3>2. U \ {x} \notin T
      BY <2>1, <2>2
    <3> QED BY <3>1, <3>2
  <2>4. PICK m \in U \ {x} : \A y \in U \ {x} : m >= y
    BY <2>3 DEF HasGreatest
  <2>5. U \subseteq Int /\ m \in Int /\ x \in Int
    BY <2>2, <2>4
  <2>6. CASE m >= x
    <3>1. \A y \in U : m >= y
      BY <2>4, <2>6
    <3> QED BY <3>1, <2>4 DEF HasGreatest
  <2>7. CASE ~(m >= x)
    <3>1. \A y \in U : x >= y
      BY <2>4, <2>5, <2>7
    <3> QED BY <3>1, <2>2 DEF HasGreatest
  <2> QED BY <2>6, <2>7
<1>2. HasGreatest(S)
  BY <1>1
<1> QED BY <1>2 DEF Max, HasGreatest

LEMMA MinIsLeast ==
  ASSUME NEW S, IsFiniteSet(S), S # {}, \A x \in S : x \in Int
  PROVE  Min(S) \in S /\ \A y \in S : Min(S) <= y
<1> DEFINE N == {-x : x \in S}
           f == [x \in S |-> -x]
<1>1. (\A x \in N : x \in Int) /\ N # {}
  OBVIOUS
<1>2. f \in Surjection(S, N)
  BY DEF Surjection
<1>3. IsFiniteSet(N)
  BY <1>2, FS_Surjection
<1>4. PICK m \in N : \A y \in N : m >= y
  BY <1>1, <1>3, MaxIsGreatest
<1>5. PICK l \in S : m = -l
  BY <1>4
<1>6. \A y \in S : l <= y
  <2>1. \A y \in S : -l >= -y
    BY <1>4, <1>5
  <2> QED BY <2>1, <1>5
<1>7. \E x \in S : \A y \in S : x <= y
  BY <1>6
<1> QED BY <1>7 DEF Min

-----------------------------------------------------------------------------
(* Induction up to a number, over a set of numbers, and recursion up to it. *)
LEMMA LeastNumber ==
  ASSUME NEW T, T \subseteq Nat, T # {}
  PROVE  \E x \in T : \A y \in T : x <= y
<1>1. PICK x \in T : \A y \in T : ~(<<y, x>> \in OpToRel(<, Nat))
  BY NatLessThanWellFounded, WFMin
<1>2. ASSUME NEW y \in T PROVE x <= y
  <2>1. ~(y < x)
    BY <1>1, <1>2 DEF OpToRel
  <2> QED BY <2>1
<1> QED BY <1>2

LEMMA Upwards ==
  ASSUME NEW N \in Nat, NEW P, 0 \in P, \A n \in 1..N : n - 1 \in P => n \in P
  PROVE  \A n \in 0..N : n \in P
<1> DEFINE bad == {n \in 0..N : n \notin P}
<1> SUFFICES ASSUME bad # {} PROVE FALSE
  OBVIOUS
<1>1. PICK m \in bad : \A n \in bad : m <= n
  <2>1. bad \subseteq Nat
    OBVIOUS
  <2> QED BY <2>1, LeastNumber
<1>2. m \in 1..N
  BY <1>1
<1>3. m - 1 \notin bad
  BY <1>1, <1>2
<1>4. m - 1 \in P
  BY <1>2, <1>3
<1> QED BY <1>1, <1>2, <1>4

Follows(N, a, step, f) ==
  f = [n \in 0..N |-> IF n = 0 THEN a ELSE step[<<f[n - 1], n>>]]

LEMMA Recursion ==
  ASSUME NEW N \in Nat, NEW S, NEW a \in S, NEW step \in [S \X (1..N) -> S]
  PROVE  \E f \in [0..N -> S] : Follows(N, a, step, f)
<1> DEFINE P == {m \in 0..N : \E f \in [0..m -> S] : Follows(m, a, step, f)}
<1>1. 0 \in P
  <2> DEFINE f == [n \in 0..0 |-> a]
  <2>1. f \in [0..0 -> S] /\ Follows(0, a, step, f)
    BY DEF Follows
  <2> QED BY <2>1
<1>2. ASSUME NEW m \in 1..N, m - 1 \in P PROVE m \in P
  <2>1. PICK f \in [0..(m - 1) -> S] : Follows(m - 1, a, step, f)
    BY <1>2
  <2> DEFINE g == [n \in 0..m |-> IF n = m THEN step[<<f[m - 1], m>>] ELSE f[n]]
  <2>2. g \in [0..m -> S]
    <3>1. f[m - 1] \in S
      BY <2>1
    <3>2. step[<<f[m - 1], m>>] \in S
      BY <3>1
    <3> QED BY <2>1, <3>2
  <2>3. \A n \in 0..m : g[n] = IF n = 0 THEN a ELSE step[<<g[n - 1], n>>]
    <3> SUFFICES ASSUME NEW n \in 0..m PROVE g[n] = IF n = 0 THEN a ELSE step[<<g[n - 1], n>>]
      OBVIOUS
    <3>1. CASE n = m
      <4>1. g[n - 1] = f[m - 1]
        BY <3>1
      <4> QED BY <3>1, <4>1
    <3>2. CASE n # m
      <4>1. n \in 0..(m - 1)
        BY <3>2
      <4>2. g[n] = f[n] /\ (n # 0 => g[n - 1] = f[n - 1])
        BY <4>1
      <4>3. f[n] = IF n = 0 THEN a ELSE step[<<f[n - 1], n>>]
        BY <2>1, <4>1, Zenon DEF Follows
      <4> QED BY <4>2, <4>3
    <3> QED BY <3>1, <3>2
  <2>4. Follows(m, a, step, g)
    <3>1. g = [n \in 0..m |-> g[n]]
      OBVIOUS
    <3> HIDE DEF g
    <3> QED BY <2>3, <3>1 DEF Follows
  <2> QED BY <2>2, <2>4
<1> HIDE DEF P
<1>3. N \in P
  BY <1>1, <1>2, Upwards
<1> QED BY <1>3 DEF P

LEMMA UpTo ==
  ASSUME NEW n \in Nat
  PROVE  IsFiniteSet(1..n) /\ Cardinality(1..n) = n
<1>1. IsFiniteSet(1..n) /\ Cardinality(1..n) = IF 1 > n THEN 0 ELSE n - 1 + 1
  BY FS_Interval
<1> QED BY <1>1

-----------------------------------------------------------------------------
(* Sum is a recursive function on the subsets of the domain, of which only the
   defining equation matters. *)
Least(t) == CHOOSE x \in t : TRUE
Adds(f, U, g) ==
  g = [t \in SUBSET U |-> IF t = {} THEN 0 ELSE f[Least(t)] + g[t \ {Least(t)}]]

LEMMA SumByParts ==
  ASSUME NEW f
  PROVE  Sum(f) = (CHOOSE g : Adds(f, DOMAIN f, g))[DOMAIN f]
BY DEF Sum, MapThenSumSet, MapThenFoldSet, Adds, Least

LEMMA AddsAtMostOnce ==
  ASSUME NEW f, NEW U, IsFiniteSet(U), NEW V, IsFiniteSet(V),
         NEW g, NEW h, Adds(f, U, g), Adds(f, V, h), NEW t \in SUBSET (U \cap V)
  PROVE  g[t] = h[t]
<1> DEFINE T == {u \in SUBSET (U \cap V) : g[u] # h[u]}
<1> SUFFICES ASSUME T # {} PROVE FALSE
  OBVIOUS
<1>1. IsFiniteSet(U \cap V)
  BY FS_Subset
<1>2. PICK u \in T : \A v \in T : v \subseteq u => v = u
  <2>1. T \in SUBSET (SUBSET (U \cap V))
    OBVIOUS
  <2> HIDE DEF T
  <2> QED BY <1>1, <2>1, SmallestSubset
<1>3. u \in SUBSET U /\ u \in SUBSET V
  OBVIOUS
<1>4. u # {}
  <2>1. g[{}] = 0 /\ h[{}] = 0
    BY DEF Adds
  <2> QED BY <2>1
<1>5. Least(u) \in u
  BY <1>4 DEF Least
<1>6. g[u \ {Least(u)}] = h[u \ {Least(u)}]
  BY <1>2, <1>5
<1>7. g[u] = f[Least(u)] + g[u \ {Least(u)}]
  BY <1>3, <1>4 DEF Adds
<1>8. h[u] = f[Least(u)] + h[u \ {Least(u)}]
  BY <1>3, <1>4 DEF Adds
<1> QED BY <1>6, <1>7, <1>8

LEMMA AddsOnce ==
  ASSUME NEW f, NEW S, IsFiniteSet(S)
  PROVE  \E g : Adds(f, S, g)
<1> DEFINE T == {U \in SUBSET S : ~\E g : Adds(f, U, g)}
<1> SUFFICES ASSUME T # {} PROVE FALSE
  OBVIOUS
<1>1. PICK U \in T : \A V \in T : V \subseteq U => V = U
  <2>1. T \in SUBSET (SUBSET S)
    OBVIOUS
  <2> HIDE DEF T
  <2> QED BY <2>1, SmallestSubset
<1> DEFINE part(V) == CHOOSE g : Adds(f, V, g)
           x == Least(U)
           h == [t \in SUBSET U |-> IF t = U THEN (IF U = {} THEN 0 ELSE f[x] + part(U \ {x})[U \ {x}])
                                    ELSE part(t)[t]]
<1>2. \A V \in SUBSET U : V # U => Adds(f, V, part(V))
  <2> TAKE V \in SUBSET U
  <2> HAVE V # U
  <2>1. \E g : Adds(f, V, g)
    BY <1>1
  <2> QED BY <2>1
<1>3. \A V \in SUBSET U : IsFiniteSet(V)
  BY FS_Subset
<1> HIDE DEF part
<1>4. ASSUME NEW t \in SUBSET U
      PROVE  h[t] = IF t = {} THEN 0 ELSE f[Least(t)] + h[t \ {Least(t)}]
  <2>1. CASE t = {}
    <3>1. CASE U = {}
      BY <2>1, <3>1
    <3>2. CASE U # {}
      <4>1. Adds(f, {}, part({}))
        BY <1>2, <3>2
      <4>2. part({})[{}] = 0
        BY <4>1 DEF Adds
      <4> QED BY <4>2, <2>1, <3>2
    <3> QED BY <3>1, <3>2
  <2>2. CASE t # {}
    <3> DEFINE y == Least(t)
               r == t \ {y}
    <3>1. y \in t
      BY <2>2 DEF Least
    <3>2. r \in SUBSET U /\ r # U
      BY <3>1
    <3>3. h[r] = part(r)[r]
      BY <3>2
    <3>4. CASE t = U
      <4>1. h[t] = f[x] + part(U \ {x})[U \ {x}] /\ y = x
        BY <3>4, <2>2
      <4> QED BY <4>1, <3>3, <3>4, <2>2
    <3>5. CASE t # U
      <4>1. h[t] = part(t)[t] /\ Adds(f, t, part(t)) /\ Adds(f, r, part(r))
        BY <3>5, <3>2, <1>2
      <4>2. part(t)[t] = f[y] + part(t)[r]
        BY <4>1, <2>2 DEF Adds
      <4>3. part(t)[r] = part(r)[r]
        <5>1. r \in SUBSET (t \cap r) /\ IsFiniteSet(t) /\ IsFiniteSet(r)
          BY <1>3, <3>2
        <5> QED BY <4>1, <5>1, AddsAtMostOnce
      <4> QED BY <4>1, <4>2, <4>3, <3>3, <2>2
    <3> QED BY <3>4, <3>5
  <2> QED BY <2>1, <2>2
<1>5. h = [t \in SUBSET U |-> IF t = {} THEN 0 ELSE f[Least(t)] + h[t \ {Least(t)}]]
  <2> HIDE DEF x
  <2>1. h = [t \in SUBSET U |-> h[t]]
    OBVIOUS
  <2> HIDE DEF h
  <2> QED BY <2>1, <1>4
<1>6. Adds(f, U, h)
  BY <1>5 DEF Adds
<1> QED BY <1>6

(* Sums of integers are integers, and a sum of what is nowhere greater is not
   greater. *)
LEMMA SumOfParts ==
  ASSUME NEW S, IsFiniteSet(S), NEW f, DOMAIN f = S
  PROVE  \E g : Adds(f, S, g) /\ Sum(f) = g[S]
BY AddsOnce, SumByParts

LEMMA SumMonotone ==
  ASSUME NEW S, IsFiniteSet(S), NEW a \in [S -> Int], NEW b \in [S -> Int],
         \A s \in S : a[s] <= b[s]
  PROVE  /\ Sum(a) \in Int /\ Sum(b) \in Int /\ Sum(a) <= Sum(b)
         /\ (\A s \in S : a[s] >= 0) => Sum(a) >= 0
<1>1. PICK g : Adds(a, S, g) /\ Sum(a) = g[S]
  BY SumOfParts
<1>2. PICK h : Adds(b, S, h) /\ Sum(b) = h[S]
  BY SumOfParts
<1> DEFINE Right(t) == /\ g[t] \in Int /\ h[t] \in Int /\ g[t] <= h[t]
                       /\ (\A s \in S : a[s] >= 0) => g[t] >= 0
           T == {t \in SUBSET S : ~Right(t)}
<1>3. T = {}
  <2> SUFFICES ASSUME T # {} PROVE FALSE
    OBVIOUS
  <2>1. PICK t \in T : \A u \in T : u \subseteq t => u = t
    <3>1. T \in SUBSET (SUBSET S)
      OBVIOUS
    <3> HIDE DEF T
    <3> QED BY <3>1, SmallestSubset
  <2>2. t # {}
    <3>1. g[{}] = 0 /\ h[{}] = 0
      BY <1>1, <1>2 DEF Adds
    <3> QED BY <3>1
  <2> DEFINE x == Least(t)
             r == t \ {x}
  <2>3. x \in t /\ x \in S
    BY <2>2 DEF Least
  <2>4. Right(r)
    BY <2>1, <2>3
  <2>5. g[t] = a[x] + g[r] /\ h[t] = b[x] + h[r]
    BY <1>1, <1>2, <2>2 DEF Adds
  <2>6. a[x] \in Int /\ b[x] \in Int /\ a[x] <= b[x]
    BY <2>3
  <2>7. Right(t)
    <3> HIDE DEF x, r
    <3>1. g[t] \in Int /\ h[t] \in Int /\ g[t] <= h[t]
      BY <2>4, <2>5, <2>6
    <3>2. ASSUME \A s \in S : a[s] >= 0 PROVE g[t] >= 0
      <4>1. a[x] >= 0 /\ g[r] >= 0 /\ g[r] \in Int
        BY <2>3, <2>4, <3>2
      <4> QED BY <4>1, <2>5, <2>6
    <3> QED BY <3>1, <3>2
  <2> QED BY <2>7
<1>4. Right(S)
  BY <1>3
<1> QED BY <1>4, <1>1, <1>2

-----------------------------------------------------------------------------
(* The score of a set of windows is a sum in any order. *)
LEMMA ScoreByParts ==
  ASSUME NEW f, NEW S, IsFiniteSet(S)
  PROVE  \E g : Adds(f, S, g) /\ ScoreOf(f, S) = g[S]
<1>1. ScoreOf(f, S) = (CHOOSE g : Adds(f, S, g))[S]
  BY DEF ScoreOf, MapThenSumSet, MapThenFoldSet, Adds, Least
<1> QED BY <1>1, AddsOnce

LEMMA ScoreOfLeast ==
  ASSUME NEW f, NEW S, IsFiniteSet(S)
  PROVE  /\ S = {} => ScoreOf(f, S) = 0
         /\ S # {} => ScoreOf(f, S) = f[Least(S)] + ScoreOf(f, S \ {Least(S)})
<1> DEFINE R == S \ {Least(S)}
<1>1. PICK g : Adds(f, S, g) /\ ScoreOf(f, S) = g[S]
  BY ScoreByParts
<1>2. IsFiniteSet(R)
  BY FS_Subset
<1>3. PICK h : Adds(f, R, h) /\ ScoreOf(f, R) = h[R]
  BY <1>2, ScoreByParts
<1>4. g[R] = h[R]
  BY <1>1, <1>2, <1>3, AddsAtMostOnce
<1>5. S = {} => g[S] = 0
  BY <1>1 DEF Adds
<1>6. S # {} => g[S] = f[Least(S)] + g[R]
  BY <1>1 DEF Adds
<1> QED BY <1>1, <1>3, <1>4, <1>5, <1>6

LEMMA ScoreOfAny ==
  ASSUME NEW W, IsFiniteSet(W), NEW f \in [W -> Int]
  PROVE  \A S \in SUBSET W :
           /\ ScoreOf(f, S) \in Int
           /\ \A b \in S : ScoreOf(f, S) = f[b] + ScoreOf(f, S \ {b})
<1> DEFINE Right(S) == /\ ScoreOf(f, S) \in Int
                       /\ \A b \in S : ScoreOf(f, S) = f[b] + ScoreOf(f, S \ {b})
           T == {S \in SUBSET W : ~Right(S)}
<1> SUFFICES ASSUME T # {} PROVE FALSE
  OBVIOUS
<1>1. PICK S \in T : \A R \in T : R \subseteq S => R = S
  <2>1. T \in SUBSET (SUBSET W)
    OBVIOUS
  <2> HIDE DEF T
  <2> QED BY <2>1, SmallestSubset
<1>2. \A R \in SUBSET S : R # S => Right(R)
  BY <1>1
<1>3. IsFiniteSet(S)
  BY FS_Subset
<1>4. S # {}
  <2> SUFFICES ASSUME S = {} PROVE FALSE
    OBVIOUS
  <2>1. ScoreOf(f, S) = 0
    BY <1>3, ScoreOfLeast
  <2> QED BY <2>1
<1> DEFINE y == Least(S)
<1>5. y \in S /\ f[y] \in Int
  BY <1>4 DEF Least
<1>6. ScoreOf(f, S) = f[y] + ScoreOf(f, S \ {y})
  BY <1>3, <1>4, ScoreOfLeast
<1> HIDE DEF y
<1>7. ScoreOf(f, S) \in Int
  <2>1. ScoreOf(f, S \ {y}) \in Int
    BY <1>2, <1>5
  <2> QED BY <2>1, <1>5, <1>6
<1>8. ASSUME NEW b \in S PROVE ScoreOf(f, S) = f[b] + ScoreOf(f, S \ {b})
  <2>1. CASE b = y
    BY <2>1, <1>6
  <2>2. CASE b # y
    <3> DEFINE R == S \ {b, y}
    <3>1. b \in S \ {y} /\ y \in S \ {b} /\ f[b] \in Int
      BY <2>2, <1>5
    <3>2. (S \ {y}) \ {b} = R /\ (S \ {b}) \ {y} = R
      OBVIOUS
    <3> HIDE DEF R
    <3>3. ScoreOf(f, S \ {y}) = f[b] + ScoreOf(f, R)
      BY <3>1, <3>2, <1>2, <1>5
    <3>4. ScoreOf(f, S \ {b}) = f[y] + ScoreOf(f, R)
      BY <3>1, <3>2, <1>2
    <3>5. ScoreOf(f, R) \in Int
      BY <3>2, <1>2, <1>5
    <3> QED BY <3>1, <3>3, <3>4, <3>5, <1>5, <1>6
  <2> QED BY <2>1, <2>2
<1> QED BY <1>1, <1>7, <1>8

\* A part counts by itself.
LEMMA ScoreOfUnion ==
  ASSUME NEW W, IsFiniteSet(W), NEW f \in [W -> Int],
         NEW A \in SUBSET W, NEW B \in SUBSET W, A \cap B = {}
  PROVE  ScoreOf(f, A \cup B) = ScoreOf(f, A) + ScoreOf(f, B)
<1> DEFINE Right(R) == ScoreOf(f, R \cup B) = ScoreOf(f, R) + ScoreOf(f, B)
           T == {R \in SUBSET A : ~Right(R)}
<1> SUFFICES ASSUME T # {} PROVE FALSE
  OBVIOUS
<1>1. PICK R \in T : \A Q \in T : Q \subseteq R => Q = R
  <2>1. T \in SUBSET (SUBSET A) /\ IsFiniteSet(A)
    BY FS_Subset
  <2> HIDE DEF T
  <2> QED BY <2>1, SmallestSubset
<1>2. R \in SUBSET W /\ R \cup B \in SUBSET W /\ ScoreOf(f, B) \in Int
  BY ScoreOfAny
<1>3. R # {}
  <2>1. ScoreOf(f, {}) = 0
    BY ScoreOfLeast, FS_EmptySet
  <2>2. {} \cup B = B
    OBVIOUS
  <2>3. ScoreOf(f, {} \cup B) = ScoreOf(f, B)
    BY <2>2
  <2>4. Right({})
    BY <2>1, <2>3, <1>2
  <2> QED BY <2>4, <1>1
<1>4. PICK b \in R : TRUE
  BY <1>3
<1>5. Right(R \ {b})
  BY <1>1, <1>4
<1>6. (R \cup B) \ {b} = (R \ {b}) \cup B
  BY <1>4
<1>7. ScoreOf(f, R \cup B) = f[b] + ScoreOf(f, (R \ {b}) \cup B)
  BY <1>2, <1>4, <1>6, ScoreOfAny
<1>8. ScoreOf(f, R) = f[b] + ScoreOf(f, R \ {b})
  BY <1>2, <1>4, ScoreOfAny
<1>9. ScoreOf(f, R \ {b}) \in Int /\ f[b] \in Int
  BY <1>2, <1>4, ScoreOfAny
<1>10. Right(R)
  BY <1>2, <1>5, <1>7, <1>8, <1>9
<1> QED BY <1>10

LEMMA ScoreOfSign ==
  ASSUME NEW W, IsFiniteSet(W), NEW f \in [W -> Int], NEW A \in SUBSET W
  PROVE  /\ (\A b \in A : f[b] >= 0) => ScoreOf(f, A) >= 0
         /\ (\A b \in A : f[b] <= 0) => ScoreOf(f, A) <= 0
<1> DEFINE Right(R) == /\ (\A b \in A : f[b] >= 0) => ScoreOf(f, R) >= 0
                       /\ (\A b \in A : f[b] <= 0) => ScoreOf(f, R) <= 0
           T == {R \in SUBSET A : ~Right(R)}
<1> SUFFICES ASSUME T # {} PROVE FALSE
  OBVIOUS
<1>1. PICK R \in T : \A Q \in T : Q \subseteq R => Q = R
  <2>1. T \in SUBSET (SUBSET A) /\ IsFiniteSet(A)
    BY FS_Subset
  <2> HIDE DEF T
  <2> QED BY <2>1, SmallestSubset
<1>2. R # {}
  <2>1. ScoreOf(f, {}) = 0
    BY ScoreOfLeast, FS_EmptySet
  <2> QED BY <2>1
<1>3. PICK b \in R : TRUE
  BY <1>2
<1>4. Right(R \ {b})
  BY <1>1, <1>3
<1>5. ScoreOf(f, R) = f[b] + ScoreOf(f, R \ {b})
  BY <1>3, ScoreOfAny
<1>6. ScoreOf(f, R \ {b}) \in Int /\ f[b] \in Int
  BY <1>3, ScoreOfAny
<1>7. Right(R)
  BY <1>3, <1>4, <1>5, <1>6
<1> QED BY <1>7

\* To take what counts for something, and nothing that counts against, is best.
LEMMA ScoreOfBest ==
  ASSUME NEW W, IsFiniteSet(W), NEW f \in [W -> Int],
         NEW A \in SUBSET W, NEW B \in SUBSET W,
         \A b \in A \ B : f[b] <= 0, \A b \in B \ A : f[b] >= 0
  PROVE  ScoreOf(f, A) <= ScoreOf(f, B)
<1>1. ScoreOf(f, A) = ScoreOf(f, A \cap B) + ScoreOf(f, A \ B)
  <2>1. (A \cap B) \cup (A \ B) = A /\ (A \cap B) \cap (A \ B) = {}
    OBVIOUS
  <2> QED BY <2>1, ScoreOfUnion
<1>2. ScoreOf(f, B) = ScoreOf(f, A \cap B) + ScoreOf(f, B \ A)
  <2>1. (A \cap B) \cup (B \ A) = B /\ (A \cap B) \cap (B \ A) = {}
    OBVIOUS
  <2> QED BY <2>1, ScoreOfUnion
<1>3. ScoreOf(f, A \ B) <= 0 /\ ScoreOf(f, B \ A) >= 0
  BY ScoreOfSign
<1>4. /\ ScoreOf(f, A \cap B) \in Int /\ ScoreOf(f, A \ B) \in Int
      /\ ScoreOf(f, B \ A) \in Int
  BY ScoreOfAny
<1> QED BY <1>1, <1>2, <1>3, <1>4

-----------------------------------------------------------------------------
(* Images and the detections that are reported on them. *)
LEMMA ImageIs ==
  ASSUME NEW image, IsImage(image)
  PROVE  /\ Len(image.truth) \in Nat /\ Truths(image) = 1..Len(image.truth)
         /\ \A t \in Truths(image) : image.truth[t] \in WindowsOf(image)
         /\ WindowsOf(image) \subseteq Nat /\ IsFiniteSet(WindowsOf(image))
         /\ \A b \in WindowsOf(image) : image.hits[b] \in 0..Len(image.truth)
<1>1. image.truth \in Seq(WindowsOf(image)) /\ image.hits \in Seq(0..Len(image.truth))
  BY DEF IsImage
<1>2. Len(image.truth) \in Nat /\ Truths(image) = 1..Len(image.truth)
  BY <1>1, LenProperties DEF Truths
<1>3. Len(image.hits) \in Nat /\ WindowsOf(image) = 1..Len(image.hits)
  BY <1>1, LenProperties DEF WindowsOf
<1>4. \A t \in Truths(image) : image.truth[t] \in WindowsOf(image)
  BY <1>1, <1>2, ElementOfSeq
<1>5. \A b \in WindowsOf(image) : image.hits[b] \in 0..Len(image.truth)
  BY <1>1, <1>3, ElementOfSeq
<1> QED BY <1>2, <1>3, <1>4, <1>5, UpTo

Before(image, score, b) == {a \in Reported(image, score) : Ahead(score, a, b)}
Place(image, score, b) == Cardinality(Before(image, score, b)) + 1

LEMMA ReportedIs ==
  ASSUME NEW image, IsImage(image), NEW score \in [WindowsOf(image) -> Int]
  PROVE  /\ Reported(image, score) \subseteq WindowsOf(image)
         /\ IsFiniteSet(Reported(image, score))
         /\ Cardinality(Reported(image, score)) \in Nat
BY ImageIs, FS_Subset, FS_CardinalityType DEF Reported

\* To be ahead is a strict order of all windows.
LEMMA PlacesDiffer ==
  ASSUME NEW image, IsImage(image), NEW score \in [WindowsOf(image) -> Int]
  PROVE  \A a, b \in Reported(image, score) :
           /\ Place(image, score, b) \in 1..Cardinality(Reported(image, score))
           /\ Place(image, score, a) = Place(image, score, b) => a = b
<1> DEFINE R == Reported(image, score)
<1>1. R \subseteq WindowsOf(image) /\ IsFiniteSet(R) /\ Cardinality(R) \in Nat
  BY ReportedIs
<1>2. \A b \in R : b \in Nat /\ score[b] \in Int
  BY <1>1, ImageIs
<1>3. \A b \in R : /\ IsFiniteSet(Before(image, score, b))
                   /\ Cardinality(Before(image, score, b)) \in Nat
  BY <1>1, FS_Subset, FS_CardinalityType DEF Before
<1>4. ASSUME NEW b \in R PROVE Place(image, score, b) \in 1..Cardinality(R)
  <2>1. Before(image, score, b) \subseteq R \ {b}
    BY <1>2 DEF Before, Ahead
  <2>2. IsFiniteSet(R \ {b}) /\ Cardinality(R \ {b}) = Cardinality(R) - 1
    BY <1>1, FS_RemoveElement
  <2>3. Cardinality(Before(image, score, b)) <= Cardinality(R) - 1
    BY <2>1, <2>2, FS_Subset
  <2> QED BY <1>1, <1>3, <2>3 DEF Place
<1>5. ASSUME NEW a \in R, NEW b \in R, Ahead(score, a, b)
      PROVE  Place(image, score, a) # Place(image, score, b)
  <2>1. Before(image, score, a) \cup {a} \subseteq Before(image, score, b)
    BY <1>2, <1>5 DEF Before, Ahead
  <2>2. a \notin Before(image, score, a)
    BY <1>2 DEF Before, Ahead
  <2>3. Cardinality(Before(image, score, a) \cup {a})
          = Cardinality(Before(image, score, a)) + 1
    BY <1>3, <2>2, FS_AddElement
  <2>4. Cardinality(Before(image, score, a) \cup {a}) <= Cardinality(Before(image, score, b))
    BY <1>3, <2>1, FS_Subset
  <2> QED BY <1>3, <2>3, <2>4 DEF Place
<1>6. \A a, b \in R : a # b => Ahead(score, a, b) \/ Ahead(score, b, a)
  BY <1>2 DEF Ahead
<1> QED BY <1>4, <1>5, <1>6

\* The reported windows one by one.
LEMMA DetsIs ==
  ASSUME NEW image, IsImage(image), NEW score \in [WindowsOf(image) -> Int]
  PROVE  /\ Len(Dets(image, score)) = Cardinality(Reported(image, score))
         /\ Len(Dets(image, score)) \in Nat
         /\ \A n \in 1..Len(Dets(image, score)) :
              Dets(image, score)[n] \in Reported(image, score)
         /\ \A m, n \in 1..Len(Dets(image, score)) :
              Dets(image, score)[m] = Dets(image, score)[n] => m = n
         /\ \A b \in Reported(image, score) :
              \E n \in 1..Len(Dets(image, score)) : b = Dets(image, score)[n]
<1> DEFINE R == Reported(image, score)
           N == Cardinality(R)
           At(n) == CHOOSE b \in R : Cardinality({a \in R : Ahead(score, a, b)}) = n - 1
           f == [b \in R |-> Place(image, score, b)]
<1>1. IsFiniteSet(R) /\ N \in Nat
  BY ReportedIs
<1>2. \A b \in R : /\ Cardinality({a \in R : Ahead(score, a, b)}) \in Nat
                   /\ Place(image, score, b) = Cardinality({a \in R : Ahead(score, a, b)}) + 1
  BY <1>1, FS_Subset, FS_CardinalityType DEF Place, Before
<1>3. \A n \in 1..N : \E b \in R : Place(image, score, b) = n
  <2>1. f \in Injection(R, 1..N)
    BY PlacesDiffer DEF Injection, IsInjective
  <2>2. IsFiniteSet(1..N) /\ Cardinality(1..N) = N
    BY <1>1, UpTo
  <2>3. f \in Surjection(R, 1..N)
    <3> DEFINE T == 1..N
    <3>1. f \in Injection(R, T) /\ IsFiniteSet(T) /\ Cardinality(T) = Cardinality(R)
      BY <2>1, <2>2
    <3> HIDE DEF f, T, R
    <3>2. f \in Surjection(R, T)
      BY <1>1, <3>1, FS_Injection
    <3> QED BY <3>2 DEF T
  <2> QED BY <2>3 DEF Surjection
<1>4. ASSUME NEW n \in 1..N PROVE At(n) \in R /\ Place(image, score, At(n)) = n
  <2>1. \E b \in R : Cardinality({a \in R : Ahead(score, a, b)}) = n - 1
    BY <1>2, <1>3
  <2>2. At(n) \in R /\ Cardinality({a \in R : Ahead(score, a, At(n))}) = n - 1
    BY <2>1
  <2> HIDE DEF At
  <2> QED BY <1>2, <2>2
<1>5. Dets(image, score) = [n \in 1..N |-> At(n)]
  BY DEF Dets
<1> HIDE DEF At, f
<1>6. Dets(image, score) \in [1..N -> R]
  BY <1>4, <1>5
<1>7. Len(Dets(image, score)) = N
  BY <1>1, <1>6, LenProperties, SeqDef
<1>8. \A n \in 1..N : Dets(image, score)[n] \in R /\ Place(image, score, Dets(image, score)[n]) = n
  BY <1>4, <1>5
<1>9. \A b \in R : Place(image, score, b) \in 1..N
  BY PlacesDiffer
<1>10. \A b \in R : \E n \in 1..N : b = Dets(image, score)[n]
  BY <1>8, <1>9, PlacesDiffer
<1> HIDE DEF N, R
<1> QED BY <1>1, <1>7, <1>8, <1>10 DEF N, R

-----------------------------------------------------------------------------
(* The two passes, step by step. *)
Gains(image, score) ==
  [final : SUBSET Reported(image, score), gain : [Truths(image) -> Int],
   hit : SUBSET Truths(image)]
Findings(image, score) ==
  [psi : SUBSET Reported(image, score), hit : SUBSET (0..Len(image.truth)), loss : Int]

LEMMA GainKeeps ==
  ASSUME NEW image, IsImage(image), NEW score \in [WindowsOf(image) -> Int]
  PROVE  /\ NoGain(image) \in Gains(image, score)
         /\ \A p \in Gains(image, score), b \in Reported(image, score) :
              Gain(image, score, p, b) \in Gains(image, score)
<1>1. NoGain(image) \in Gains(image, score)
  BY DEF NoGain, Gains
<1>2. ASSUME NEW p \in Gains(image, score), NEW b \in Reported(image, score)
      PROVE  Gain(image, score, p, b) \in Gains(image, score)
  <2> DEFINE t == image.hits[b]
             more == score[b] + (IF t \in p.hit THEN LossPerFalse ELSE 0)
  <2>1. score[b] \in Int /\ t \in 0..Len(image.truth) /\ more \in Int
    BY ReportedIs, ImageIs, OracleAssumption
  <2>2. /\ p.final \in SUBSET Reported(image, score) /\ p.gain \in [Truths(image) -> Int]
        /\ p.hit \in SUBSET Truths(image)
        /\ p = [final |-> p.final, gain |-> p.gain, hit |-> p.hit]
    BY DEF Gains
  <2>3. CASE ~Passed(image, p.final, b)
    BY <2>3 DEF Gain
  <2>4. CASE Passed(image, p.final, b) /\ t = 0
    <3>1. Gain(image, score, p, b) = [p EXCEPT !.final = p.final \cup {b}]
      BY <2>4 DEF Gain
    <3>2. [p EXCEPT !.final = p.final \cup {b}]
            = [final |-> p.final \cup {b}, gain |-> p.gain, hit |-> p.hit]
      BY <2>2
    <3> QED BY <3>1, <3>2, <2>2 DEF Gains
  <2>5. CASE Passed(image, p.final, b) /\ t # 0
    <3>1. Gain(image, score, p, b)
            = [final |-> p.final \cup {b}, gain |-> [p.gain EXCEPT ![t] = p.gain[t] + more],
               hit |-> p.hit \cup {t}]
      BY <2>5 DEF Gain
    <3>2. t \in Truths(image)
      BY <2>1, <2>5, ImageIs
    <3> HIDE DEF t, more
    <3>3. [p.gain EXCEPT ![t] = p.gain[t] + more] \in [Truths(image) -> Int]
      BY <3>2, <2>1, <2>2
    <3> QED BY <3>1, <3>2, <3>3, <2>2 DEF Gains
  <2> QED BY <2>3, <2>4, <2>5
<1> QED BY <1>1, <1>2

LEMMA GainSteps ==
  ASSUME NEW image, IsImage(image), NEW score \in [WindowsOf(image) -> Int]
  PROVE  \E f \in [0..Len(Dets(image, score)) -> Gains(image, score)] :
           /\ f[0] = NoGain(image)
           /\ \A n \in 1..Len(Dets(image, score)) :
                f[n] = Gain(image, score, f[n - 1], Dets(image, score)[n])
           /\ TruthScoreHits(image, score) = f[Len(Dets(image, score))].gain
<1> DEFINE dets == Dets(image, score)
           N == Len(dets)
           G == Gains(image, score)
           Result(n, p) == IF n = 0 THEN NoGain(image) ELSE Gain(image, score, p, dets[n])
           step == [q \in G \X (1..N) |-> Gain(image, score, q[1], dets[q[2]])]
           pass == CHOOSE f : f = [n \in 0..N |-> Result(n, f[n - 1])]
<1>1. N \in Nat /\ \A n \in 1..N : dets[n] \in Reported(image, score)
  BY DetsIs
<1>2. TruthScoreHits(image, score) = pass[N].gain
  BY DEF TruthScoreHits
<1> HIDE DEF dets, N, pass
<1>3. NoGain(image) \in G /\ step \in [G \X (1..N) -> G]
  BY <1>1, GainKeeps
<1>4. \A p \in G, n \in 1..N : step[<<p, n>>] = Gain(image, score, p, dets[n])
  OBVIOUS
<1> HIDE DEF step, G
<1>5. PICK g \in [0..N -> G] : Follows(N, NoGain(image), step, g)
  BY <1>1, <1>3, Recursion
<1>6. \A n \in 0..N : g[n] = Result(n, g[n - 1])
  <2> TAKE n \in 0..N
  <2>1. g[n] = IF n = 0 THEN NoGain(image) ELSE step[<<g[n - 1], n>>]
    BY <1>5, Zenon DEF Follows
  <2>2. CASE n = 0
    BY <2>1, <2>2
  <2>3. CASE n # 0
    <3>1. n \in 1..N /\ n - 1 \in 0..N
      BY <1>1, <2>3
    <3>2. g[n - 1] \in G
      BY <1>5, <3>1
    <3> QED BY <1>4, <2>1, <2>3, <3>1, <3>2
  <2> QED BY <2>2, <2>3
<1> HIDE DEF Result
<1>7. g = [n \in 0..N |-> Result(n, g[n - 1])]
  BY <1>5, <1>6
<1>8. pass = [n \in 0..N |-> Result(n, pass[n - 1])]
  BY <1>7, Zenon DEF pass
<1>9. \A n \in 0..N : pass[n] = Result(n, pass[n - 1])
  BY <1>8, Zenon
<1>10. \A n \in 1..N : /\ n \in 0..N
                       /\ pass[n] = Gain(image, score, pass[n - 1], dets[n])
  <2>1. \A n \in 1..N : n \in 0..N /\ n # 0
    BY <1>1
  <2> QED BY <2>1, <1>9, Zenon DEF Result
<1>11. pass[0] = NoGain(image)
  <2>1. 0 \in 0..N
    BY <1>1
  <2> QED BY <2>1, <1>9 DEF Result
<1>12. \A n \in 0..N : pass[n] \in G
  <2> DEFINE P == {n \in 0..N : pass[n] \in G}
  <2>1. 0 \in P
    BY <1>1, <1>3, <1>11
  <2>2. \A n \in 1..N : n - 1 \in P => n \in P
    BY <1>1, <1>10, GainKeeps DEF G
  <2> HIDE DEF P
  <2>3. \A n \in 0..N : n \in P
    BY <1>1, <2>1, <2>2, Upwards
  <2> QED BY <2>3 DEF P
<1>13. pass \in [0..N -> G]
  BY <1>8, <1>12
<1> QED BY <1>2, <1>10, <1>11, <1>13 DEF N, dets, G

LEMMA FindKeeps ==
  ASSUME NEW image, IsImage(image), NEW score \in [WindowsOf(image) -> Int], NEW gain
  PROVE  /\ NothingFound(image) \in Findings(image, score)
         /\ \A p \in Findings(image, score), b \in Reported(image, score) :
              Find(image, gain, p, b) \in Findings(image, score)
<1>1. LossPerMissed \in Nat /\ LossPerFalse \in Nat /\ Len(image.truth) \in Nat
  BY OracleAssumption, ImageIs
<1>2. NothingFound(image) \in Findings(image, score)
  BY <1>1 DEF NothingFound, Findings
<1>3. ASSUME NEW p \in Findings(image, score), NEW b \in Reported(image, score)
      PROVE  Find(image, gain, p, b) \in Findings(image, score)
  <2> DEFINE t == image.hits[b]
             add(loss) == [psi |-> p.psi \cup {b}, hit |-> p.hit \cup {t},
                           loss |-> p.loss + loss]
  <2>1. t \in 0..Len(image.truth)
    BY ReportedIs, ImageIs
  <2>2. /\ p.psi \in SUBSET Reported(image, score)
        /\ p.hit \in SUBSET (0..Len(image.truth)) /\ p.loss \in Int
    BY DEF Findings
  <2>3. \A loss \in Int : add(loss) \in Findings(image, score)
    BY <2>1, <2>2 DEF Findings
  <2>4. \/ Find(image, gain, p, b) = p
        \/ Find(image, gain, p, b) = add(-LossPerMissed)
        \/ Find(image, gain, p, b) = add(LossPerFalse)
    BY DEF Find
  <2> QED BY <1>1, <2>3, <2>4
<1> QED BY <1>2, <1>3

LEMMA FindSteps ==
  ASSUME NEW image, IsImage(image), NEW score \in [WindowsOf(image) -> Int]
  PROVE  \E f \in [0..Len(Dets(image, score)) -> Findings(image, score)] :
           /\ f[0] = NothingFound(image)
           /\ \A n \in 1..Len(Dets(image, score)) :
                f[n] = Find(image, TruthScoreHits(image, score), f[n - 1],
                            Dets(image, score)[n])
           /\ Oracle(image, score) = [psi |-> f[Len(Dets(image, score))].psi,
                                      loss |-> f[Len(Dets(image, score))].loss]
<1> DEFINE dets == Dets(image, score)
           gain == TruthScoreHits(image, score)
           N == Len(dets)
           G == Findings(image, score)
           Result(n, p) == IF n = 0 THEN NothingFound(image) ELSE Find(image, gain, p, dets[n])
           step == [q \in G \X (1..N) |-> Find(image, gain, q[1], dets[q[2]])]
           pass == CHOOSE f : f = [n \in 0..N |-> Result(n, f[n - 1])]
<1>1. N \in Nat /\ \A n \in 1..N : dets[n] \in Reported(image, score)
  BY DetsIs
<1>2. Oracle(image, score) = [psi |-> pass[N].psi, loss |-> pass[N].loss]
  BY DEF Oracle
<1> HIDE DEF dets, N, pass, gain
<1>3. NothingFound(image) \in G /\ step \in [G \X (1..N) -> G]
  BY <1>1, FindKeeps
<1>4. \A p \in G, n \in 1..N : step[<<p, n>>] = Find(image, gain, p, dets[n])
  OBVIOUS
<1> HIDE DEF step, G
<1>5. PICK g \in [0..N -> G] : Follows(N, NothingFound(image), step, g)
  BY <1>1, <1>3, Recursion
<1>6. \A n \in 0..N : g[n] = Result(n, g[n - 1])
  <2> TAKE n \in 0..N
  <2>1. g[n] = IF n = 0 THEN NothingFound(image) ELSE step[<<g[n - 1], n>>]
    BY <1>5, Zenon DEF Follows
  <2>2. CASE n = 0
    BY <2>1, <2>2
  <2>3. CASE n # 0
    <3>1. n \in 1..N /\ n - 1 \in 0..N
      BY <1>1, <2>3
    <3>2. g[n - 1] \in G
      BY <1>5, <3>1
    <3> QED BY <1>4, <2>1, <2>3, <3>1, <3>2
  <2> QED BY <2>2, <2>3
<1> HIDE DEF Result
<1>7. g = [n \in 0..N |-> Result(n, g[n - 1])]
  BY <1>5, <1>6
<1>8. pass = [n \in 0..N |-> Result(n, pass[n - 1])]
  BY <1>7, Zenon DEF pass
<1>9. \A n \in 0..N : pass[n] = Result(n, pass[n - 1])
  BY <1>8, Zenon
<1>10. \A n \in 1..N : /\ n \in 0..N
                       /\ pass[n] = Find(image, gain, pass[n - 1], dets[n])
  <2>1. \A n \in 1..N : n \in 0..N /\ n # 0
    BY <1>1
  <2> QED BY <2>1, <1>9, Zenon DEF Result
<1>11. pass[0] = NothingFound(image)
  <2>1. 0 \in 0..N
    BY <1>1
  <2> QED BY <2>1, <1>9 DEF Result
<1>12. \A n \in 0..N : pass[n] \in G
  <2> DEFINE P == {n \in 0..N : pass[n] \in G}
  <2>1. 0 \in P
    BY <1>1, <1>3, <1>11
  <2>2. \A n \in 1..N : n - 1 \in P => n \in P
    BY <1>1, <1>10, FindKeeps DEF G
  <2> HIDE DEF P
  <2>3. \A n \in 0..N : n \in P
    BY <1>1, <2>1, <2>2, Upwards
  <2> QED BY <2>3 DEF P
<1>13. pass \in [0..N -> G]
  BY <1>8, <1>12
<1> QED BY <1>2, <1>10, <1>11, <1>13 DEF N, dets, G, gain

-----------------------------------------------------------------------------
(* What the second pass finds is permitted, and its loss is the one it says. *)
Found(image, S) == {image.hits[b] : b \in S} \ {0}

LEMMA FoundIs ==
  ASSUME NEW image, IsImage(image), NEW S \in SUBSET WindowsOf(image)
  PROVE  /\ IsFiniteSet(S) /\ Cardinality(S) \in Nat
         /\ Found(image, S) \subseteq 1..Len(image.truth)
         /\ IsFiniteSet(Found(image, S)) /\ Cardinality(Found(image, S)) \in Nat
         /\ Cardinality(Found(image, S)) <= Cardinality(S)
         /\ Cardinality(Found(image, S)) <= Len(image.truth)
<1>1. IsFiniteSet(S) /\ Cardinality(S) \in Nat
  BY ImageIs, FS_Subset, FS_CardinalityType
<1>2. Found(image, S) \subseteq 1..Len(image.truth)
  BY ImageIs DEF Found
<1>3. /\ IsFiniteSet(1..Len(image.truth))
      /\ Cardinality(1..Len(image.truth)) = Len(image.truth)
  BY ImageIs, UpTo
<1>4. /\ IsFiniteSet(Found(image, S)) /\ Cardinality(Found(image, S)) \in Nat
      /\ Cardinality(Found(image, S)) <= Len(image.truth)
  BY <1>2, <1>3, FS_Subset, FS_CardinalityType
<1>5. Cardinality(Found(image, S)) <= Cardinality(S)
  <2> DEFINE H == {image.hits[b] : b \in S}
  <2>1. IsFiniteSet(H) /\ Cardinality(H) <= Cardinality(S)
    <3>1. [b \in S |-> image.hits[b]] \in Surjection(S, H)
      BY DEF Surjection
    <3> HIDE DEF H
    <3> QED BY <1>1, <3>1, FS_Surjection
  <2>2. Found(image, S) \subseteq H
    BY DEF Found
  <2> HIDE DEF H
  <2>3. Cardinality(Found(image, S)) <= Cardinality(H) /\ Cardinality(H) \in Nat
    BY <2>1, <2>2, FS_Subset, FS_CardinalityType
  <2> QED BY <1>1, <1>4, <2>1, <2>3
<1> QED BY <1>1, <1>2, <1>4, <1>5

LEMMA LossIs ==
  ASSUME NEW image, IsImage(image), NEW S \in SUBSET WindowsOf(image)
  PROVE  /\ LossOf(image, S)
              = LossPerMissed * (Len(image.truth) - Cardinality(Found(image, S)))
                  + LossPerFalse * (Cardinality(S) - Cardinality(Found(image, S)))
         /\ LossOf(image, S) \in Nat
<1>1. LossOf(image, S)
        = LossPerMissed * (Len(image.truth) - Cardinality(Found(image, S)))
            + LossPerFalse * (Cardinality(S) - Cardinality(Found(image, S)))
  BY DEF LossOf, Found
<1>2. /\ Len(image.truth) - Cardinality(Found(image, S)) \in Nat
      /\ Cardinality(S) - Cardinality(Found(image, S)) \in Nat
  BY FoundIs, ImageIs
<1>3. LossPerMissed \in Nat /\ LossPerFalse \in Nat
  BY OracleAssumption
<1>4. \A a, b, c, d \in Nat : a * b + c * d \in Nat
  OBVIOUS
<1> QED BY <1>1, <1>2, <1>3, <1>4

LEMMA LossOfMore ==
  ASSUME NEW image, IsImage(image), NEW S \in SUBSET WindowsOf(image),
         NEW b \in WindowsOf(image), b \notin S
  PROVE  LossOf(image, S \cup {b})
           = LossOf(image, S)
               + (IF image.hits[b] \in Found(image, S) \cup {0} THEN LossPerFalse
                                                                ELSE -LossPerMissed)
<1> DEFINE t == image.hits[b]
           L == Len(image.truth)
           F == Cardinality(Found(image, S))
           N == Cardinality(S)
<1>1. S \cup {b} \in SUBSET WindowsOf(image)
  OBVIOUS
<1>2. L \in Nat /\ F \in Nat /\ N \in Nat
  BY FoundIs, ImageIs
<1>3. LossPerMissed \in Nat /\ LossPerFalse \in Nat
  BY OracleAssumption
<1>4. Cardinality(S \cup {b}) = N + 1
  BY FoundIs, FS_AddElement
<1>5. LossOf(image, S) = LossPerMissed * (L - F) + LossPerFalse * (N - F)
  BY LossIs
<1>8. LossOf(image, S \cup {b})
        = LossPerMissed * (L - Cardinality(Found(image, S \cup {b})))
            + LossPerFalse * (Cardinality(S \cup {b}) - Cardinality(Found(image, S \cup {b})))
  <2> DEFINE R == S \cup {b}
  <2>1. R \in SUBSET WindowsOf(image)
    BY <1>1
  <2> HIDE DEF R
  <2>2. LossOf(image, R) = LossPerMissed * (L - Cardinality(Found(image, R)))
                             + LossPerFalse * (Cardinality(R) - Cardinality(Found(image, R)))
    BY <2>1, LossIs
  <2> QED BY <2>2 DEF R
<1>6. CASE t \in Found(image, S) \cup {0}
  <2>1. Found(image, S \cup {b}) = Found(image, S)
    BY <1>6 DEF Found
  <2>2. LossOf(image, S \cup {b}) = LossPerMissed * (L - F) + LossPerFalse * (N + 1 - F)
    <3>1. Cardinality(Found(image, S \cup {b})) = F
      BY <2>1
    <3> QED BY <1>2, <1>3, <1>8, <1>4, <3>1
  <2>3. \A x, a, c \in Int : x + a * (c + 1) = x + a * c + a
    OBVIOUS
  <2>4. N + 1 - F = (N - F) + 1 /\ N - F \in Int /\ LossPerMissed * (L - F) \in Int
    BY <1>2, <1>3
  <2>5. LossPerMissed * (L - F) + LossPerFalse * ((N - F) + 1)
          = LossPerMissed * (L - F) + LossPerFalse * (N - F) + LossPerFalse
    BY <2>3, <2>4, <1>3
  <2> QED BY <1>5, <1>6, <2>2, <2>4, <2>5
<1>7. CASE t \notin Found(image, S) \cup {0}
  <2>1. Found(image, S \cup {b}) = Found(image, S) \cup {t}
    BY <1>7 DEF Found
  <2>2. Cardinality(Found(image, S \cup {b})) = F + 1
    BY <2>1, <1>7, FoundIs, FS_AddElement
  <2>3. LossOf(image, S \cup {b})
          = LossPerMissed * (L - (F + 1)) + LossPerFalse * (N + 1 - (F + 1))
    <3> QED BY <1>2, <1>3, <1>8, <1>4, <2>2
  <2>4. \A x, a, c \in Int : a * (c - 1) + x = a * c + x + (-a)
    OBVIOUS
  <2>5. /\ L - (F + 1) = (L - F) - 1 /\ N + 1 - (F + 1) = N - F
        /\ L - F \in Int /\ LossPerFalse * (N - F) \in Int
    BY <1>2, <1>3
  <2>6. LossPerMissed * ((L - F) - 1) + LossPerFalse * (N - F)
          = LossPerMissed * (L - F) + LossPerFalse * (N - F) + (-LossPerMissed)
    BY <2>4, <2>5, <1>3
  <2> QED BY <1>5, <1>7, <2>3, <2>5, <2>6
<1> QED BY <1>6, <1>7

\* What holds after each step of the second pass.
Sound(image, p) ==
  /\ Cardinality(p.psi) <= MaxNumDets
  /\ \A b \in p.psi : image.hits[b] # 0 \/ b \notin image.ignored
  /\ \A a, b \in p.psi : a # b => <<a, b>> \notin image.overlaps
  /\ p.hit \ {0} = Found(image, p.psi)
  /\ p.loss = LossOf(image, p.psi)

LEMMA SoundStart ==
  ASSUME NEW image, IsImage(image)
  PROVE  Sound(image, NothingFound(image))
<1>1. Cardinality({}) = 0 /\ Found(image, {}) = {}
  BY FS_EmptySet DEF Found
<1>2. LossOf(image, {}) = LossPerMissed * (Len(image.truth) - 0) + LossPerFalse * (0 - 0)
  BY <1>1, LossIs
<1>3. LossPerMissed \in Nat /\ LossPerFalse \in Nat /\ MaxNumDets \in Nat
  BY OracleAssumption
<1>4. Len(image.truth) \in Nat
  BY ImageIs
<1>5. LossOf(image, {}) = LossPerMissed * Len(image.truth)
  <2>1. Len(image.truth) - 0 = Len(image.truth) /\ LossPerFalse * (0 - 0) = 0
    BY <1>3, <1>4
  <2>2. LossPerMissed * Len(image.truth) \in Int
    BY <1>3, <1>4
  <2> QED BY <1>2, <2>1, <2>2
<1> QED BY <1>1, <1>3, <1>5 DEF Sound, NothingFound

Wanted(image, gain, b) ==
  IF image.hits[b] = 0 THEN b \notin image.ignored ELSE Worthwhile(gain[image.hits[b]])

LEMMA FindIs ==
  ASSUME NEW image, NEW gain, NEW p, NEW b
  PROVE  \/ /\ ~(Passed(image, p.psi, b) /\ Wanted(image, gain, b))
            /\ Find(image, gain, p, b) = p
         \/ /\ Passed(image, p.psi, b) /\ Wanted(image, gain, b)
            /\ Find(image, gain, p, b).psi = p.psi \cup {b}
            /\ Find(image, gain, p, b).hit = p.hit \cup {image.hits[b]}
            /\ Find(image, gain, p, b).loss
                 = p.loss + (IF image.hits[b] \in p.hit \cup {0} THEN LossPerFalse
                                                                ELSE -LossPerMissed)
<1> DEFINE t == image.hits[b]
           q == Find(image, gain, p, b)
<1>1. CASE ~(Passed(image, p.psi, b) /\ Wanted(image, gain, b))
  <2>1. q = p
    BY <1>1 DEF Find, Wanted
  <2> QED BY <1>1, <2>1
<1>2. CASE Passed(image, p.psi, b) /\ Wanted(image, gain, b)
  <2>1. CASE t \notin p.hit \cup {0}
    <3>1. q = [psi |-> p.psi \cup {b}, hit |-> p.hit \cup {t},
               loss |-> p.loss + (-LossPerMissed)]
      BY <1>2, <2>1 DEF Find, Wanted
    <3> HIDE DEF q
    <3>2. /\ q.psi = p.psi \cup {b} /\ q.hit = p.hit \cup {t}
          /\ q.loss = p.loss + (-LossPerMissed)
      BY <3>1
    <3> QED BY <3>2, <1>2, <2>1 DEF q
  <2>2. CASE t \in p.hit \cup {0}
    <3>1. q = [psi |-> p.psi \cup {b}, hit |-> p.hit \cup {t},
               loss |-> p.loss + LossPerFalse]
      BY <1>2, <2>2 DEF Find, Wanted
    <3> HIDE DEF q
    <3>2. /\ q.psi = p.psi \cup {b} /\ q.hit = p.hit \cup {t}
          /\ q.loss = p.loss + LossPerFalse
      BY <3>1
    <3> QED BY <3>2, <1>2, <2>2 DEF q
  <2> QED BY <2>1, <2>2
<1> QED BY <1>1, <1>2

LEMMA SoundStep ==
  ASSUME NEW image, IsImage(image), NEW score \in [WindowsOf(image) -> Int], NEW gain,
         NEW p \in Findings(image, score), Sound(image, p),
         NEW b \in Reported(image, score), b \notin p.psi
  PROVE  Sound(image, Find(image, gain, p, b))
<1> DEFINE t == image.hits[b]
           q == Find(image, gain, p, b)
           psi == p.psi \cup {b}
<1>1. p.psi \in SUBSET WindowsOf(image) /\ b \in WindowsOf(image)
  BY ReportedIs DEF Findings
<1>2. CASE q = p
  BY <1>2
<1>3. ASSUME Passed(image, p.psi, b), Wanted(image, gain, b),
             q.psi = psi, q.hit = p.hit \cup {t},
             q.loss = p.loss + (IF t \in p.hit \cup {0} THEN LossPerFalse ELSE -LossPerMissed)
      PROVE Sound(image, q)
  <2> HIDE DEF q
  <2>2. Cardinality(psi) <= MaxNumDets
    <3>1. Cardinality(psi) = Cardinality(p.psi) + 1 /\ Cardinality(p.psi) \in Nat
      BY <1>1, FoundIs, FS_AddElement
    <3>2. Cardinality(p.psi) < MaxNumDets /\ MaxNumDets \in Nat
      BY <1>3, OracleAssumption DEF Passed
    <3> QED BY <3>1, <3>2
  <2>3. \A c \in psi : image.hits[c] # 0 \/ c \notin image.ignored
    BY <1>3 DEF Sound, Wanted
  <2>4. \A a, c \in psi : a # c => <<a, c>> \notin image.overlaps
    <3>1. \A a \in p.psi : <<a, b>> \notin image.overlaps
      BY <1>3 DEF Passed, OverlapsAny
    <3>2. \A a \in p.psi : <<b, a>> \notin image.overlaps
      BY <3>1, <1>1 DEF IsImage
    <3> QED BY <3>1, <3>2 DEF Sound
  <2>5. (p.hit \cup {t}) \ {0} = Found(image, psi)
    BY DEF Sound, Found
  <2>6. q.loss = LossOf(image, psi)
    <3>1. t \in p.hit \cup {0} <=> t \in Found(image, p.psi) \cup {0}
      BY DEF Sound
    <3>2. LossOf(image, psi)
            = LossOf(image, p.psi)
                + (IF t \in Found(image, p.psi) \cup {0} THEN LossPerFalse
                                                         ELSE -LossPerMissed)
      BY <1>1, LossOfMore
    <3> QED BY <1>3, <3>1, <3>2 DEF Sound
  <2> HIDE DEF psi
  <2> QED BY <1>3, <2>2, <2>3, <2>4, <2>5, <2>6 DEF Sound
<1> HIDE DEF q
<1> QED BY <1>2, <1>3, FindIs DEF q

LEMMA OracleIsSound ==
  ASSUME NEW image, IsImage(image), NEW score \in [WindowsOf(image) -> Int]
  PROVE  /\ Oracle(image, score).psi \in Permitted(image)
         /\ Oracle(image, score).loss = LossOf(image, Oracle(image, score).psi)
<1> DEFINE dets == Dets(image, score)
           N == Len(dets)
           gain == TruthScoreHits(image, score)
<1>1. PICK f \in [0..N -> Findings(image, score)] :
        /\ f[0] = NothingFound(image)
        /\ \A n \in 1..N : f[n] = Find(image, gain, f[n - 1], dets[n])
        /\ Oracle(image, score) = [psi |-> f[N].psi, loss |-> f[N].loss]
  BY FindSteps
<1>2. /\ N \in Nat /\ \A n \in 1..N : dets[n] \in Reported(image, score)
      /\ \A m, n \in 1..N : dets[m] = dets[n] => m = n
  BY DetsIs
<1> HIDE DEF dets, N, gain
<1> DEFINE Seen1(n) == {dets[k] : k \in 1..n}
           P == {n \in 0..N : Sound(image, f[n]) /\ f[n].psi \subseteq Seen1(n)}
<1>3. 0 \in P
  BY <1>1, <1>2, SoundStart DEF NothingFound
<1>4. ASSUME NEW n \in 1..N, n - 1 \in P PROVE n \in P
  <2>1. /\ f[n - 1] \in Findings(image, score) /\ n \in 0..N
        /\ dets[n] \in Reported(image, score)
    BY <1>1, <1>2
  <2>2. Sound(image, f[n - 1]) /\ f[n - 1].psi \subseteq Seen1(n - 1)
    BY <1>4
  <2>3. dets[n] \notin Seen1(n - 1)
    BY <1>2
  <2>4. Sound(image, f[n])
    BY <1>1, <2>1, <2>2, <2>3, SoundStep
  <2>5. f[n].psi \subseteq f[n - 1].psi \cup {dets[n]}
    <3>1. f[n] = f[n - 1] \/ f[n].psi = f[n - 1].psi \cup {dets[n]}
      BY <1>1, FindIs
    <3> QED BY <3>1
  <2>6. Seen1(n) = Seen1(n - 1) \cup {dets[n]}
    <3>1. 1..n = (1..(n - 1)) \cup {n}
      BY <1>2
    <3> QED BY <3>1
  <2> QED BY <2>1, <2>2, <2>4, <2>5, <2>6
<1> HIDE DEF P
<1>5. N \in P
  <2>1. N \in Nat /\ N \in 0..N
    BY <1>2
  <2>2. \A n \in 0..N : n \in P
    BY <2>1, <1>3, <1>4, Upwards
  <2> QED BY <2>1, <2>2
<1>6. Sound(image, f[N]) /\ f[N] \in Findings(image, score)
  BY <1>1, <1>2, <1>5 DEF P
<1>7. f[N].psi \in SUBSET WindowsOf(image)
  BY <1>6, ReportedIs DEF Findings
<1> QED BY <1>1, <1>6, <1>7 DEF Sound, Permitted

-----------------------------------------------------------------------------
(* Where nothing hinders the passes: what they have added up after n detections. *)
Benefit(image, score) == [b \in WindowsOf(image) |-> score[b] + LossPerFalse]
Of(image, S, t) == {b \in S : image.hits[b] = t}
First(image, score, n) == {Dets(image, score)[k] : k \in 1..n}

LEMMA FirstIs ==
  ASSUME NEW image, IsImage(image), NEW score \in [WindowsOf(image) -> Int]
  PROVE  /\ First(image, score, 0) = {}
         /\ First(image, score, Len(Dets(image, score))) = Reported(image, score)
         /\ \A n \in 1..Len(Dets(image, score)) :
              /\ Dets(image, score)[n] \notin First(image, score, n - 1)
              /\ First(image, score, n)
                   = First(image, score, n - 1) \cup {Dets(image, score)[n]}
         /\ \A n \in 0..Len(Dets(image, score)) :
              /\ First(image, score, n) \subseteq Reported(image, score)
              /\ \A S \in SUBSET First(image, score, n) : Cardinality(S) <= n
<1> DEFINE dets == Dets(image, score)
           N == Len(dets)
<1>1. /\ N \in Nat /\ \A n \in 1..N : dets[n] \in Reported(image, score)
      /\ \A m, n \in 1..N : dets[m] = dets[n] => m = n
      /\ \A b \in Reported(image, score) : \E n \in 1..N : b = dets[n]
  BY DetsIs
<1> HIDE DEF dets, N
<1>2. \A n : First(image, score, n) = {dets[k] : k \in 1..n}
  BY DEF First, dets
<1>3. First(image, score, 0) = {}
  BY <1>2
<1>4. First(image, score, N) = Reported(image, score)
  <2>1. First(image, score, N) = {dets[k] : k \in 1..N}
    BY <1>2
  <2> QED BY <2>1, <1>1
<1>5. ASSUME NEW n \in 1..N
      PROVE  /\ dets[n] \notin First(image, score, n - 1)
             /\ First(image, score, n) = First(image, score, n - 1) \cup {dets[n]}
  <2>1. 1..n = (1..(n - 1)) \cup {n} /\ \A k \in 1..(n - 1) : k \in 1..N /\ k # n
    BY <1>1
  <2> QED BY <1>1, <1>2, <2>1
<1>6. ASSUME NEW n \in 0..N
      PROVE  /\ First(image, score, n) \subseteq Reported(image, score)
             /\ \A S \in SUBSET First(image, score, n) : Cardinality(S) <= n
  <2> DEFINE Q == First(image, score, n)
  <2>1. n \in Nat /\ \A k \in 1..n : k \in 1..N
    BY <1>1
  <2>2. IsFiniteSet(1..n) /\ Cardinality(1..n) = n
    BY <2>1, UpTo
  <2>3. [k \in 1..n |-> dets[k]] \in Surjection(1..n, Q)
    BY <1>2 DEF Surjection
  <2>4. IsFiniteSet(Q) /\ Cardinality(Q) <= n /\ Cardinality(Q) \in Nat
    <3> HIDE DEF Q
    <3> QED BY <2>2, <2>3, FS_Surjection, FS_CardinalityType
  <2>5. \A S \in SUBSET Q : Cardinality(S) <= Cardinality(Q) /\ Cardinality(S) \in Nat
    BY <2>4, FS_Subset, FS_CardinalityType
  <2>6. Q \subseteq Reported(image, score)
    BY <1>1, <1>2, <2>1
  <2> QED BY <2>1, <2>4, <2>5, <2>6
<1> QED BY <1>3, <1>4, <1>5, <1>6 DEF N, dets

LEMMA NothingHinders ==
  ASSUME NEW image, IsImage(image), NEW score \in [WindowsOf(image) -> Int],
         Unhindered(image, score), NEW n \in 1..Len(Dets(image, score)),
         NEW S \in SUBSET First(image, score, n - 1)
  PROVE  Passed(image, S, Dets(image, score)[n])
<1>1. /\ Len(Dets(image, score)) = Cardinality(Reported(image, score))
      /\ Len(Dets(image, score)) \in Nat
  BY DetsIs
<1>2. n - 1 \in 0..Len(Dets(image, score))
  BY <1>1
<1>3. Cardinality(S) <= n - 1
  BY <1>2, FirstIs
<1>4. IsFiniteSet(S) /\ Cardinality(S) \in Nat
  <2>1. S \in SUBSET Reported(image, score)
    BY <1>2, FirstIs
  <2> QED BY <2>1, ReportedIs, FS_Subset, FS_CardinalityType
<1>5. MaxNumDets \in Nat
  BY OracleAssumption
<1> QED BY <1>1, <1>3, <1>4, <1>5 DEF Passed, OverlapsAny, Unhindered

LEMMA BenefitIs ==
  ASSUME NEW image, IsImage(image), NEW score \in [WindowsOf(image) -> Int]
  PROVE  /\ Benefit(image, score) \in [WindowsOf(image) -> Int]
         /\ \A b \in WindowsOf(image) :
              /\ Benefit(image, score)[b] = score[b] + LossPerFalse
              /\ score[b] \in Int
              /\ Benefit(image, score)[b] >= 0 <=> b \in Reported(image, score)
BY OracleAssumption DEF Benefit, Reported

AddedUp(image, score, p, S) ==
  /\ p.final \subseteq S /\ p.hit = Found(image, S)
  /\ \A t \in Truths(image) :
       p.gain[t] = ScoreOf(Benefit(image, score), Of(image, S, t))
                     - (IF t \in Found(image, S) THEN LossPerFalse ELSE 0)

LEMMA GainsAddUp ==
  ASSUME NEW image, IsImage(image), NEW score \in [WindowsOf(image) -> Int],
         NEW p \in Gains(image, score), NEW S \in SUBSET WindowsOf(image),
         AddedUp(image, score, p, S),
         NEW b \in WindowsOf(image), b \notin S, Passed(image, p.final, b)
  PROVE  AddedUp(image, score, Gain(image, score, p, b), S \cup {b})
<1> DEFINE t == image.hits[b]
           q == Gain(image, score, p, b)
           Q == S \cup {b}
           c == Benefit(image, score)
           W == WindowsOf(image)
<1>1. /\ t \in 0..Len(image.truth) /\ Truths(image) = 1..Len(image.truth)
      /\ Len(image.truth) \in Nat /\ IsFiniteSet(W)
  BY ImageIs
<1>2. /\ p.hit \in SUBSET Truths(image) /\ p.gain \in [Truths(image) -> Int]
      /\ p = [final |-> p.final, gain |-> p.gain, hit |-> p.hit]
  BY DEF Gains
<1>3. LossPerFalse \in Int /\ score[b] \in Int /\ c[b] = score[b] + LossPerFalse
  BY OracleAssumption, BenefitIs
<1>4. c \in [W -> Int]
  BY BenefitIs
<1>5. \A u \in Truths(image) : u # t => /\ Of(image, Q, u) = Of(image, S, u)
                                        /\ u \in Found(image, Q) <=> u \in Found(image, S)
  BY DEF Of, Found
<1>6. CASE t = 0
  <2>1. q.final = p.final \cup {b} /\ q.gain = p.gain /\ q.hit = p.hit
    <3>1. q = [p EXCEPT !.final = p.final \cup {b}]
      BY <1>6 DEF Gain
    <3> HIDE DEF q
    <3> QED BY <3>1, <1>2
  <2>2. Found(image, Q) = Found(image, S)
    BY <1>6 DEF Found
  <2>3. \A u \in Truths(image) : u # t
    BY <1>1, <1>6
  <2> HIDE DEF q, Q, c
  <2>4. \A u \in Truths(image) :
          q.gain[u] = ScoreOf(c, Of(image, Q, u))
                        - (IF u \in Found(image, Q) THEN LossPerFalse ELSE 0)
    BY <1>5, <2>1, <2>2, <2>3 DEF AddedUp, c
  <2>5. q.final \subseteq Q /\ q.hit = Found(image, Q)
    BY <2>1, <2>2 DEF AddedUp, Q
  <2> QED BY <2>4, <2>5 DEF AddedUp, q, Q, c
<1>7. CASE t # 0
  <2> DEFINE more == score[b] + (IF t \in p.hit THEN LossPerFalse ELSE 0)
  <2>1. /\ q.final = p.final \cup {b} /\ q.hit = p.hit \cup {t}
        /\ q.gain = [p.gain EXCEPT ![t] = p.gain[t] + more]
    <3>1. q = [final |-> p.final \cup {b}, gain |-> [p.gain EXCEPT ![t] = p.gain[t] + more],
               hit |-> p.hit \cup {t}]
      BY <1>7 DEF Gain
    <3> HIDE DEF q, more
    <3> QED BY <3>1
  <2>2. Found(image, Q) = Found(image, S) \cup {t} /\ t \in Truths(image)
    BY <1>1, <1>7 DEF Found
  <2>3. p.hit = Found(image, S) /\ p.final \subseteq S
    BY DEF AddedUp
  <2>4. Of(image, Q, t) = Of(image, S, t) \cup {b} /\ Of(image, Q, t) \ {b} = Of(image, S, t)
    BY DEF Of
  <2>5. /\ ScoreOf(c, Of(image, Q, t)) = c[b] + ScoreOf(c, Of(image, S, t))
        /\ ScoreOf(c, Of(image, S, t)) \in Int
    <3>1. Of(image, Q, t) \in SUBSET W /\ Of(image, S, t) \in SUBSET W /\ b \in Of(image, Q, t)
      BY DEF Of
    <3> HIDE DEF c, Q, W
    <3> QED BY <3>1, <2>4, <1>1, <1>4, ScoreOfAny
  <2>6. p.gain[t] = ScoreOf(c, Of(image, S, t)) - (IF t \in p.hit THEN LossPerFalse ELSE 0)
    BY <2>2, <2>3 DEF AddedUp
  <2>7. q.gain[t] = p.gain[t] + more /\ \A u \in Truths(image) : u # t => q.gain[u] = p.gain[u]
    <3> HIDE DEF q, more
    <3> QED BY <1>2, <2>1, <2>2
  <2>8. q.gain[t] = ScoreOf(c, Of(image, Q, t)) - LossPerFalse
    <3> HIDE DEF q, c, Q, t
    <3>1. CASE t \in p.hit
      BY <1>3, <2>5, <2>6, <2>7, <3>1
    <3>2. CASE t \notin p.hit
      BY <1>3, <2>5, <2>6, <2>7, <3>2
    <3> QED BY <3>1, <3>2
  <2> HIDE DEF q, Q, c, t
  <2>9. ASSUME NEW u \in Truths(image)
        PROVE  q.gain[u] = ScoreOf(c, Of(image, Q, u))
                             - (IF u \in Found(image, Q) THEN LossPerFalse ELSE 0)
    <3>1. CASE u = t
      BY <2>2, <2>8, <3>1
    <3>2. CASE u # t
      <4>1. q.gain[u] = p.gain[u] /\ Of(image, Q, u) = Of(image, S, u)
        BY <1>5, <2>7, <3>2
      <4>2. u \in Found(image, Q) <=> u \in Found(image, S)
        BY <1>5, <3>2
      <4> QED BY <4>1, <4>2 DEF AddedUp, c
    <3> QED BY <3>1, <3>2
  <2>10. q.final \subseteq Q /\ q.hit = Found(image, Q)
    BY <2>1, <2>2, <2>3 DEF Q
  <2> QED BY <2>9, <2>10 DEF AddedUp, q, Q, c
<1> QED BY <1>6, <1>7

LEMMA HitsAreAddedUp ==
  ASSUME NEW image, IsImage(image), NEW score \in [WindowsOf(image) -> Int],
         Unhindered(image, score), NEW t \in Truths(image)
  PROVE  TruthScoreHits(image, score)[t]
           = ScoreOf(Benefit(image, score), Of(image, Reported(image, score), t))
               - (IF t \in Found(image, Reported(image, score)) THEN LossPerFalse ELSE 0)
<1> DEFINE dets == Dets(image, score)
           N == Len(dets)
           At(n) == First(image, score, n)
<1>1. PICK f \in [0..N -> Gains(image, score)] :
        /\ f[0] = NoGain(image)
        /\ \A n \in 1..N : f[n] = Gain(image, score, f[n - 1], dets[n])
        /\ TruthScoreHits(image, score) = f[N].gain
  BY GainSteps
<1>2. N \in Nat /\ \A n \in 1..N : dets[n] \in Reported(image, score)
  BY DetsIs
<1>3. \A n \in 0..N : At(n) \in SUBSET WindowsOf(image)
  BY FirstIs, ReportedIs
<1> DEFINE P == {n \in 0..N : AddedUp(image, score, f[n], At(n))}
<1>4. 0 \in P
  <2>1. At(0) = {} /\ Found(image, {}) = {}
    BY FirstIs DEF Found
  <2>2. \A u : Of(image, {}, u) = {}
    BY DEF Of
  <2>3. ScoreOf(Benefit(image, score), {}) = 0
    BY ScoreOfLeast, FS_EmptySet
  <2>4. AddedUp(image, score, NoGain(image), {})
    BY <2>1, <2>2, <2>3 DEF AddedUp, NoGain
  <2>5. 0 \in 0..N
    BY <1>2
  <2> QED BY <2>1, <2>4, <2>5, <1>1
<1>5. ASSUME NEW n \in 1..N, n - 1 \in P PROVE n \in P
  <2>1. n - 1 \in 0..N /\ n \in 0..N /\ AddedUp(image, score, f[n - 1], At(n - 1))
    BY <1>2, <1>5
  <2>2. dets[n] \notin At(n - 1) /\ At(n) = At(n - 1) \cup {dets[n]}
    BY FirstIs
  <2>3. f[n - 1].final \in SUBSET At(n - 1)
    BY <2>1 DEF AddedUp
  <2>4. Passed(image, f[n - 1].final, dets[n])
    BY <2>3, NothingHinders
  <2>5. f[n - 1] \in Gains(image, score) /\ dets[n] \in WindowsOf(image)
    BY <1>1, <1>2, <2>1, ReportedIs
  <2>6. At(n - 1) \in SUBSET WindowsOf(image)
    BY <1>3, <2>1
  <2> HIDE DEF At, dets
  <2>7. AddedUp(image, score, Gain(image, score, f[n - 1], dets[n]), At(n - 1) \cup {dets[n]})
    BY <2>1, <2>2, <2>4, <2>5, <2>6, GainsAddUp
  <2> QED BY <1>1, <2>1, <2>2, <2>7
<1> HIDE DEF P
<1>6. N \in P
  <2> HIDE DEF N
  <2>1. N \in Nat /\ N \in 0..N
    BY <1>2
  <2>2. \A n \in 0..N : n \in P
    BY <2>1, <1>4, <1>5, Upwards
  <2> QED BY <2>1, <2>2
<1>7. AddedUp(image, score, f[N], Reported(image, score))
  BY <1>6, FirstIs DEF P
<1> QED BY <1>1, <1>7 DEF AddedUp

LEMMA WantedAreFound ==
  ASSUME NEW image, IsImage(image), NEW score \in [WindowsOf(image) -> Int],
         Unhindered(image, score)
  PROVE  Oracle(image, score).psi
           = {b \in Reported(image, score) :
                Wanted(image, TruthScoreHits(image, score), b)}
<1> DEFINE dets == Dets(image, score)
           N == Len(dets)
           gain == TruthScoreHits(image, score)
           At(n) == First(image, score, n)
           Wants(n) == {b \in At(n) : Wanted(image, gain, b)}
<1>1. PICK f \in [0..N -> Findings(image, score)] :
        /\ f[0] = NothingFound(image)
        /\ \A n \in 1..N : f[n] = Find(image, gain, f[n - 1], dets[n])
        /\ Oracle(image, score) = [psi |-> f[N].psi, loss |-> f[N].loss]
  BY FindSteps
<1>2. N \in Nat
  BY DetsIs
<1> DEFINE P == {n \in 0..N : f[n].psi = Wants(n)}
<1>3. 0 \in P
  <2>1. At(0) = {}
    BY FirstIs
  <2> QED BY <1>1, <1>2, <2>1 DEF NothingFound
<1>4. ASSUME NEW n \in 1..N, n - 1 \in P PROVE n \in P
  <2>1. n \in 0..N /\ f[n - 1].psi = Wants(n - 1)
    BY <1>2, <1>4
  <2>2. At(n) = At(n - 1) \cup {dets[n]}
    BY FirstIs
  <2>3. Passed(image, f[n - 1].psi, dets[n])
    BY <2>1, NothingHinders
  <2>4. f[n].psi = IF Wanted(image, gain, dets[n]) THEN f[n - 1].psi \cup {dets[n]}
                                                   ELSE f[n - 1].psi
    <3>1. f[n] = Find(image, gain, f[n - 1], dets[n])
      BY <1>1
    <3> HIDE DEF gain, dets
    <3>2. CASE Wanted(image, gain, dets[n])
      <4>1. Find(image, gain, f[n - 1], dets[n]).psi = f[n - 1].psi \cup {dets[n]}
        BY <2>3, <3>2, FindIs
      <4> QED BY <3>1, <3>2, <4>1
    <3>3. CASE ~Wanted(image, gain, dets[n])
      <4>1. Find(image, gain, f[n - 1], dets[n]) = f[n - 1]
        BY <3>3, FindIs
      <4> QED BY <3>1, <3>3, <4>1
    <3> QED BY <3>2, <3>3
  <2> HIDE DEF At, dets, gain
  <2> QED BY <2>1, <2>2, <2>4
<1> HIDE DEF P
<1>5. N \in P
  <2> HIDE DEF N
  <2>1. N \in 0..N /\ \A n \in 0..N : n \in P
    BY <1>2, <1>3, <1>4, Upwards
  <2> QED BY <2>1
<1> QED BY <1>1, <1>5, FirstIs DEF P

-----------------------------------------------------------------------------
(* No labelling that is permitted is worth more than the wanted windows: with
   one truth box after the other, what a labelling has for the box is replaced
   by what the passes have for it. *)
Worth(image, score, S) == LossOf(image, S) + ScoreOf(score, S)

LEMMA BenefitOf ==
  ASSUME NEW image, IsImage(image), NEW score \in [WindowsOf(image) -> Int],
         NEW A \in SUBSET WindowsOf(image)
  PROVE  ScoreOf(Benefit(image, score), A)
           = ScoreOf(score, A) + LossPerFalse * Cardinality(A)
<1> DEFINE c == Benefit(image, score)
           W == WindowsOf(image)
           Right(R) == ScoreOf(c, R) = ScoreOf(score, R) + LossPerFalse * Cardinality(R)
           T == {R \in SUBSET A : ~Right(R)}
<1> SUFFICES ASSUME T # {} PROVE FALSE
  OBVIOUS
<1>1. IsFiniteSet(W) /\ IsFiniteSet(A)
  BY ImageIs, FS_Subset
<1>2. c \in [W -> Int] /\ LossPerFalse \in Int
  BY BenefitIs, OracleAssumption
<1>3. PICK R \in T : \A Q \in T : Q \subseteq R => Q = R
  <2>1. T \in SUBSET (SUBSET A)
    OBVIOUS
  <2> HIDE DEF T
  <2> QED BY <1>1, <2>1, SmallestSubset
<1>4. R # {}
  <2>1. ScoreOf(c, {}) = 0 /\ ScoreOf(score, {}) = 0 /\ Cardinality({}) = 0
    BY ScoreOfLeast, FS_EmptySet
  <2>2. Right({})
    BY <2>1, <1>2
  <2> QED BY <2>2, <1>3
<1>5. PICK b \in R : TRUE
  BY <1>4
<1> DEFINE Q == R \ {b}
<1>6. Right(Q) /\ Q \in SUBSET W /\ R \in SUBSET W /\ b \in W
  BY <1>3, <1>5
<1>7. Cardinality(R) = Cardinality(Q) + 1 /\ Cardinality(Q) \in Nat
  <2>1. IsFiniteSet(R) /\ IsFiniteSet(Q)
    BY <1>1, FS_Subset
  <2>2. Cardinality(R) \in Nat /\ Cardinality(Q) \in Nat /\ Cardinality(Q) = Cardinality(R) - 1
    BY <1>5, <2>1, FS_RemoveElement, FS_CardinalityType
  <2> QED BY <2>2
<1>8. ScoreOf(c, R) = c[b] + ScoreOf(c, Q) /\ ScoreOf(c, Q) \in Int
  <2> HIDE DEF c, W
  <2> QED BY <1>1, <1>2, <1>5, <1>6, ScoreOfAny
<1>9. ScoreOf(score, R) = score[b] + ScoreOf(score, Q) /\ ScoreOf(score, Q) \in Int
  BY <1>1, <1>5, <1>6, ScoreOfAny
<1>10. c[b] = score[b] + LossPerFalse /\ score[b] \in Int
  BY <1>6, BenefitIs
<1> HIDE DEF c, W, Q
<1>11. LossPerFalse * (Cardinality(Q) + 1) = LossPerFalse * Cardinality(Q) + LossPerFalse
  <2>1. \A x, y \in Int : x * (y + 1) = x * y + x
    OBVIOUS
  <2> QED BY <2>1, <1>2, <1>7
<1>12. LossPerFalse * Cardinality(Q) \in Int
  BY <1>2, <1>7
<1>13. Right(R)
  BY <1>2, <1>6, <1>7, <1>8, <1>9, <1>10, <1>11, <1>12
<1> QED BY <1>3, <1>13

LEMMA WorthIs ==
  ASSUME NEW image, IsImage(image), NEW score \in [WindowsOf(image) -> Int],
         NEW S \in SUBSET WindowsOf(image)
  PROVE  /\ Worth(image, score, S)
              = LossPerMissed * Len(image.truth) + ScoreOf(Benefit(image, score), S)
                  - (LossPerMissed + LossPerFalse) * Cardinality(Found(image, S))
         /\ Worth(image, score, S) \in Int
<1> DEFINE L == Len(image.truth)
           F == Cardinality(Found(image, S))
           N == Cardinality(S)
           s == ScoreOf(score, S)
           c == ScoreOf(Benefit(image, score), S)
<1>1. L \in Int /\ F \in Int /\ N \in Int /\ LossPerMissed \in Int /\ LossPerFalse \in Int
  BY FoundIs, ImageIs, OracleAssumption
<1>2. s \in Int
  BY ImageIs, ScoreOfAny
<1>3. c = s + LossPerFalse * N
  BY BenefitOf
<1>4. Worth(image, score, S) = LossPerMissed * (L - F) + LossPerFalse * (N - F) + s
  BY LossIs DEF Worth
<1> HIDE DEF L, F, N, s, c
<1>5. \A m, p, l, f, n, z \in Int :
        m * (l - f) + p * (n - f) + z = m * l + (z + p * n) - (m + p) * f
  OBVIOUS
<1>6. Worth(image, score, S) = LossPerMissed * L + c - (LossPerMissed + LossPerFalse) * F
  BY <1>1, <1>2, <1>3, <1>4, <1>5
<1>7. Worth(image, score, S) \in Int
  <2>1. \A m, l, f, p, n, z \in Int : m * (l - f) + p * (n - f) + z \in Int
    OBVIOUS
  <2> QED BY <1>1, <1>2, <1>4, <2>1
<1> QED BY <1>6, <1>7 DEF L, F, c

\* What a group of windows adds that hit the same truth box, or none.
LEMMA GroupWorth ==
  ASSUME NEW image, IsImage(image), NEW score \in [WindowsOf(image) -> Int],
         NEW t \in 0..Len(image.truth),
         NEW Q \in SUBSET WindowsOf(image), Of(image, Q, t) = {},
         NEW A \in SUBSET WindowsOf(image), Of(image, A, t) = A
  PROVE  Worth(image, score, Q \cup A)
           = Worth(image, score, Q) + ScoreOf(Benefit(image, score), A)
               - (IF t = 0 \/ A = {} THEN 0 ELSE LossPerMissed + LossPerFalse)
<1> DEFINE c == Benefit(image, score)
           K == LossPerMissed + LossPerFalse
           W == WindowsOf(image)
           F(S) == Cardinality(Found(image, S))
<1>1. Q \cap A = {} /\ Q \cup A \in SUBSET W
  BY DEF Of
<1>2. IsFiniteSet(W) /\ c \in [W -> Int] /\ K \in Int
  BY ImageIs, BenefitIs, OracleAssumption
<1>3. ScoreOf(c, Q \cup A) = ScoreOf(c, Q) + ScoreOf(c, A)
  <2> HIDE DEF c, W
  <2> QED BY <1>1, <1>2, ScoreOfUnion
<1>4. ScoreOf(c, Q) \in Int /\ ScoreOf(c, A) \in Int
  <2> HIDE DEF c, W
  <2> QED BY <1>1, <1>2, ScoreOfAny
<1>5. /\ Worth(image, score, Q) = LossPerMissed * Len(image.truth) + ScoreOf(c, Q) - K * F(Q)
      /\ Worth(image, score, Q \cup A)
           = LossPerMissed * Len(image.truth) + ScoreOf(c, Q \cup A) - K * F(Q \cup A)
  BY <1>1, WorthIs
<1>6. F(Q) \in Int /\ LossPerMissed * Len(image.truth) \in Int /\ K * F(Q) \in Int
  <2>1. F(Q) \in Int /\ LossPerMissed \in Int /\ Len(image.truth) \in Int
    BY FoundIs, ImageIs, OracleAssumption
  <2>2. \A x, y \in Int : x * y \in Int
    OBVIOUS
  <2> HIDE DEF F, K
  <2> QED BY <1>2, <2>1, <2>2
<1>7. CASE t = 0 \/ A = {}
  <2>1. Found(image, Q \cup A) = Found(image, Q)
    BY <1>7 DEF Found, Of
  <2>2. F(Q \cup A) = F(Q)
    BY <2>1
  <2> HIDE DEF F, K, c
  <2> QED BY <1>3, <1>4, <1>5, <1>6, <1>7, <2>2 DEF c
<1>8. CASE ~(t = 0 \/ A = {})
  <2>1. Found(image, Q \cup A) = Found(image, Q) \cup {t} /\ t \notin Found(image, Q)
    BY <1>8 DEF Found, Of
  <2>2. F(Q \cup A) = F(Q) + 1
    BY <2>1, FoundIs, FS_AddElement
  <2>3. K * (F(Q) + 1) = K * F(Q) + K
    <3>1. \A x, y \in Int : x * (y + 1) = x * y + x
      OBVIOUS
    <3> HIDE DEF F, K
    <3> QED BY <1>2, <1>6, <3>1
  <2> HIDE DEF F, K, c
  <2>4. Worth(image, score, Q \cup A) = Worth(image, score, Q) + ScoreOf(c, A) - K
    BY <1>2, <1>3, <1>4, <1>5, <1>6, <2>2, <2>3
  <2> QED BY <1>8, <2>4 DEF K, c
<1> QED BY <1>7, <1>8


LEMMA GroupBest ==
  ASSUME NEW image, IsImage(image), NEW score \in [WindowsOf(image) -> Int],
         Unhindered(image, score), NEW t \in 0..Len(image.truth),
         NEW Q \in SUBSET WindowsOf(image), Of(image, Q, t) = {},
         NEW S \in SUBSET WindowsOf(image),
         \A b \in S : image.hits[b] # 0 \/ b \notin image.ignored
  PROVE  Worth(image, score, Q \cup Of(image, S, t))
           <= Worth(image, score, Q \cup Of(image, Oracle(image, score).psi, t))
<1> DEFINE c == Benefit(image, score)
           R == Reported(image, score)
           W == WindowsOf(image)
           gain == TruthScoreHits(image, score)
           A == Of(image, S, t)
           B == Of(image, Oracle(image, score).psi, t)
           D == Of(image, R, t)
           K == LossPerMissed + LossPerFalse
           V(X) == Worth(image, score, X)
<1>1. /\ IsFiniteSet(W) /\ c \in [W -> Int] /\ R \subseteq W
      /\ \A b \in W : c[b] \in Int /\ (c[b] >= 0 <=> b \in R)
  <2>1. c \in [W -> Int] /\ \A b \in W : c[b] >= 0 <=> b \in R
    BY BenefitIs
  <2>2. IsFiniteSet(W) /\ R \subseteq W
    BY ImageIs, ReportedIs
  <2> HIDE DEF c, R, W
  <2> QED BY <2>1, <2>2
<1>2. LossPerMissed \in Nat /\ LossPerFalse \in Nat /\ K \in Nat
  BY OracleAssumption
<1>3. B = {b \in D : Wanted(image, gain, b)}
  BY WantedAreFound DEF Of
<1>4. /\ A \in SUBSET W /\ B \in SUBSET W /\ D \in SUBSET W
      /\ Of(image, A, t) = A /\ Of(image, B, t) = B
  <2>1. A \in SUBSET W /\ D \in SUBSET W /\ Of(image, A, t) = A
    BY ReportedIs DEF Of
  <2>2. B \in SUBSET D /\ Of(image, B, t) = B
    BY <1>3 DEF Of
  <2> QED BY <2>1, <2>2
<1>5. /\ V(Q \cup A) = V(Q) + ScoreOf(c, A) - (IF t = 0 \/ A = {} THEN 0 ELSE K)
      /\ V(Q \cup B) = V(Q) + ScoreOf(c, B) - (IF t = 0 \/ B = {} THEN 0 ELSE K)
  BY <1>4, GroupWorth
<1>6. /\ V(Q) \in Int /\ ScoreOf(c, A) \in Int /\ ScoreOf(c, B) \in Int
      /\ ScoreOf(c, D) \in Int /\ ScoreOf(c, {}) = 0
  <2>1. V(Q) \in Int
    BY WorthIs
  <2>2. ScoreOf(c, {}) = 0
    BY ScoreOfLeast, FS_EmptySet
  <2> HIDE DEF c, A, B, D, W
  <2> QED BY <1>1, <1>4, <2>1, <2>2, ScoreOfAny
<1>7. CASE t = 0
  <2>1. \A b \in A \ B : c[b] <= 0
    <3> SUFFICES ASSUME NEW b \in A \ B PROVE c[b] <= 0
      OBVIOUS
    <3>1. image.hits[b] = 0 /\ b \in S /\ b \in W
      BY <1>7 DEF Of
    <3>2. Wanted(image, gain, b)
      BY <3>1 DEF Wanted
    <3>3. b \notin R
      <4>1. b \in R => b \in D
        BY <3>1, <1>7 DEF Of
      <4> QED BY <4>1, <1>3, <3>2
    <3> HIDE DEF c, R, W
    <3> QED BY <3>1, <3>3, <1>1
  <2>2. \A b \in B \ A : c[b] >= 0
    <3>1. B \subseteq R
      BY <1>3 DEF Of
    <3> HIDE DEF c, R, W, B
    <3> QED BY <3>1, <1>1
  <2> HIDE DEF c, A, B, W, V
  <2>3. ScoreOf(c, A) <= ScoreOf(c, B)
    BY <1>1, <1>4, <2>1, <2>2, ScoreOfBest
  <2> QED BY <1>5, <1>6, <1>7, <2>3 DEF V, A, B
<1>8. CASE t # 0
  <2>1. t \in Truths(image)
    BY <1>8, ImageIs
  <2>2. gain[t] = ScoreOf(c, D) - (IF t \in Found(image, R) THEN LossPerFalse ELSE 0)
    BY <2>1, HitsAreAddedUp
  <2>3. t \in Found(image, R) <=> D # {}
    BY <1>8 DEF Found, Of
  <2>4. \A b \in D : Wanted(image, gain, b) <=> Worthwhile(gain[t])
    BY <1>8 DEF Of, Wanted
  <2>5. ScoreOf(c, A) <= ScoreOf(c, D)
    <3>1. \A b \in A \ D : b \in W /\ b \notin R
      BY DEF Of
    <3>2. \A b \in D \ A : b \in W /\ b \in R
      BY <1>1 DEF Of
    <3> HIDE DEF c, A, D, W, R
    <3>3. (\A b \in A \ D : c[b] <= 0) /\ (\A b \in D \ A : c[b] >= 0)
      BY <1>1, <3>1, <3>2
    <3> QED BY <1>1, <1>4, <3>3, ScoreOfBest
  <2> HIDE DEF c, A, B, D, K, V, gain, R
  <2>6. CASE Worthwhile(gain[t])
    <3>1. B = D
      BY <1>3, <2>4, <2>6
    <3>2. gain[t] > LossPerMissed
      BY <2>6 DEF Worthwhile
    <3>3. D # {}
      <4> SUFFICES ASSUME D = {} PROVE FALSE
        OBVIOUS
      <4>1. gain[t] = 0
        BY <1>6, <2>2, <2>3
      <4> QED BY <4>1, <3>2, <1>2
    <3>4. ScoreOf(c, D) - K > 0
      BY <1>2, <1>6, <2>2, <2>3, <3>2, <3>3 DEF K
    <3>5. V(Q \cup B) = V(Q) + ScoreOf(c, D) - K
      BY <1>5, <1>8, <3>1, <3>3
    <3>6. CASE A = {}
      <4>1. V(Q \cup A) = V(Q)
        BY <1>5, <1>6, <3>6
      <4> QED BY <4>1, <3>4, <3>5, <1>2, <1>6 DEF V, A, B
    <3>7. CASE A # {}
      <4>1. V(Q \cup A) = V(Q) + ScoreOf(c, A) - K
        BY <1>5, <1>8, <3>7
      <4> QED BY <4>1, <2>5, <3>5, <1>2, <1>6 DEF V, A, B
    <3> QED BY <3>6, <3>7
  <2>7. CASE ~Worthwhile(gain[t])
    <3>1. B = {}
      BY <1>3, <2>4, <2>7
    <3>2. V(Q \cup B) = V(Q)
      BY <1>5, <1>6, <3>1
    <3>3. ScoreOf(c, D) - K <= 0
      <4>1. CASE D = {}
        BY <4>1, <1>2, <1>6
      <4>2. CASE D # {}
        <5>1. ScoreOf(c, D) - LossPerFalse <= LossPerMissed
          BY <4>2, <1>2, <1>6, <2>2, <2>3, <2>7 DEF Worthwhile
        <5> QED BY <5>1, <1>2, <1>6 DEF K
      <4> QED BY <4>1, <4>2
    <3>4. CASE A = {}
      <4>1. V(Q \cup A) = V(Q)
        BY <1>5, <1>6, <3>4
      <4> QED BY <4>1, <3>2, <1>6 DEF V, A, B
    <3>5. CASE A # {}
      <4>1. V(Q \cup A) = V(Q) + ScoreOf(c, A) - K
        BY <1>5, <1>8, <3>5
      <4> QED BY <4>1, <2>5, <3>2, <3>3, <1>2, <1>6 DEF V, A, B
    <3> QED BY <3>4, <3>5
  <2> QED BY <2>6, <2>7
<1> QED BY <1>7, <1>8

\* With the windows of the passes for the truth boxes below j, and its own others.
Exchanged(image, score, S, j) ==
  {b \in Oracle(image, score).psi : image.hits[b] < j} \cup {b \in S : image.hits[b] >= j}

LEMMA NoneIsWorthMore ==
  ASSUME NEW image, IsImage(image), NEW score \in [WindowsOf(image) -> Int],
         Unhindered(image, score), NEW S \in Permitted(image)
  PROVE  Worth(image, score, S) <= Worth(image, score, Oracle(image, score).psi)
<1> DEFINE psi == Oracle(image, score).psi
           L == Len(image.truth)
           W == WindowsOf(image)
           X(j) == Exchanged(image, score, S, j)
           V(Z) == Worth(image, score, Z)
           P == {j \in 0..(L + 1) : V(S) <= V(X(j))}
<1>1. /\ S \in SUBSET W /\ psi \in SUBSET W
      /\ \A b \in S : image.hits[b] # 0 \/ b \notin image.ignored
  BY OracleIsSound DEF Permitted
<1>2. L \in Nat /\ \A b \in W : image.hits[b] \in 0..L
  BY ImageIs
<1>3. X(0) = S /\ X(L + 1) = psi
  <2>1. \A b \in W : /\ ~(image.hits[b] < 0) /\ image.hits[b] >= 0
                     /\ image.hits[b] < L + 1 /\ ~(image.hits[b] >= L + 1)
    BY <1>2
  <2> HIDE DEF L, W, psi
  <2> QED BY <1>1, <2>1 DEF Exchanged, psi
<1>4. \A j \in 0..(L + 1) : X(j) \in SUBSET W /\ V(X(j)) \in Int
  <2> TAKE j \in 0..(L + 1)
  <2>1. X(j) \in SUBSET W
    BY <1>1 DEF Exchanged
  <2> QED BY <2>1, WorthIs
<1>5. 0 \in P
  <2>1. 0 \in 0..(L + 1)
    BY <1>2
  <2>2. V(S) = V(X(0)) /\ V(S) \in Int
    BY <1>1, <1>3, WorthIs
  <2> HIDE DEF V, X
  <2> QED BY <2>1, <2>2
<1>6. ASSUME NEW j \in 1..(L + 1), j - 1 \in P PROVE j \in P
  <2> DEFINE t == j - 1
             Q == {b \in psi : image.hits[b] < t} \cup {b \in S : image.hits[b] > t}
  <2>1. t \in 0..L /\ t \in 0..(L + 1) /\ j \in 0..(L + 1) /\ V(S) <= V(X(t))
    BY <1>2, <1>6
  <2>2. Q \in SUBSET W /\ Of(image, Q, t) = {}
    <3>1. Q \in SUBSET W
      BY <1>1
    <3>2. \A b \in Q : image.hits[b] < t \/ image.hits[b] > t
      OBVIOUS
    <3>3. \A b \in Q : image.hits[b] \in Int /\ t \in Int
      BY <1>2, <2>1, <3>1
    <3> HIDE DEF Q, t
    <3>4. \A b \in Q : image.hits[b] # t
      BY <3>2, <3>3
    <3> QED BY <3>1, <3>4 DEF Of
  <2>3. X(t) = Q \cup Of(image, S, t)
    <3>1. \A b \in S : image.hits[b] >= t <=> image.hits[b] > t \/ image.hits[b] = t
      BY <1>1, <1>2, <2>1
    <3> HIDE DEF t
    <3> QED BY <3>1 DEF Exchanged, Of
  <2>4. X(j) = Q \cup Of(image, psi, t)
    <3>1. \A b \in psi : image.hits[b] < j <=> image.hits[b] < t \/ image.hits[b] = t
      BY <1>1, <1>2, <2>1
    <3>2. \A b \in S : image.hits[b] >= j <=> image.hits[b] > t
      BY <1>1, <1>2, <2>1
    <3> HIDE DEF t
    <3> QED BY <3>1, <3>2 DEF Exchanged, Of
  <2>5. V(Q \cup Of(image, S, t)) <= V(Q \cup Of(image, psi, t))
    <3> HIDE DEF Q, t
    <3> QED BY <1>1, <2>1, <2>2, GroupBest
  <2>6. V(X(t)) \in Int /\ V(X(j)) \in Int /\ V(S) \in Int
    BY <1>1, <1>4, <2>1, WorthIs
  <2> HIDE DEF Q, X, V, t
  <2>7. V(S) <= V(X(j))
    BY <2>1, <2>3, <2>4, <2>5, <2>6
  <2> QED BY <2>1, <2>7
<1> HIDE DEF P
<1>7. L + 1 \in P
  <2>1. L + 1 \in Nat /\ L + 1 \in 0..(L + 1)
    BY <1>2
  <2>2. \A j \in 0..(L + 1) : j \in P
    BY <2>1, <1>5, <1>6, Upwards
  <2> QED BY <2>1, <2>2
<1> QED BY <1>3, <1>7 DEF P

LEMMA WorstIs ==
  ASSUME NEW image, IsImage(image), NEW score \in [WindowsOf(image) -> Int]
  PROVE  /\ WorstCase(image, score) \in Int
         /\ \A S \in Permitted(image) :
              LossOf(image, S) + ScoreOf(score, S) <= WorstCase(image, score)
         /\ \E S \in Permitted(image) :
              LossOf(image, S) + ScoreOf(score, S) = WorstCase(image, score)
<1> DEFINE P == Permitted(image)
           V(S) == LossOf(image, S) + ScoreOf(score, S)
           all == {V(S) : S \in P}
<1>1. P \in SUBSET (SUBSET WindowsOf(image)) /\ IsFiniteSet(P)
  <2>1. IsFiniteSet(SUBSET WindowsOf(image))
    BY ImageIs, FS_SUBSET
  <2>2. P \subseteq SUBSET WindowsOf(image)
    BY DEF Permitted
  <2> QED BY <2>1, <2>2, FS_Subset
<1>2. P # {}
  BY OracleIsSound
<1>3. \A S \in P : V(S) \in Int
  BY <1>1, WorthIs DEF Worth
<1>4. WorstCase(image, score) = Max(all)
  BY DEF WorstCase
<1> HIDE DEF P, V
<1>5. IsFiniteSet(all) /\ all # {} /\ \A x \in all : x \in Int
  <2>1. [S \in P |-> V(S)] \in Surjection(P, all)
    BY DEF Surjection
  <2>2. IsFiniteSet(all)
    <3> HIDE DEF all
    <3> QED BY <1>1, <2>1, FS_Surjection
  <2> QED BY <2>2, <1>2, <1>3
<1>6. Max(all) \in all /\ \A x \in all : Max(all) >= x
  <2> HIDE DEF all
  <2> QED BY <1>5, MaxIsGreatest
<1>7. /\ Max(all) \in Int /\ \A S \in P : V(S) <= Max(all)
      /\ \E S \in P : V(S) = Max(all)
  BY <1>3, <1>6
<1> QED BY <1>4, <1>7 DEF P, V

(* The separation oracle on any image, at any scores: what it finds is permitted,
   has the loss it says, is nowhere worse than the worst labelling, and is the
   worst one where neither overlaps nor max_num_dets hinder it. *)
LEMMA OracleIsRight ==
  ASSUME NEW image, IsImage(image), NEW score \in [WindowsOf(image) -> Int]
  PROVE  LET found == Oracle(image, score)
         IN  /\ found.psi \in Permitted(image)
             /\ found.loss = LossOf(image, found.psi)
             /\ \A other \in [WindowsOf(image) -> Int] :
                  found.loss + ScoreOf(other, found.psi) <= WorstCase(image, other)
             /\ Unhindered(image, score) =>
                  found.loss + ScoreOf(score, found.psi) = WorstCase(image, score)
<1> DEFINE found == Oracle(image, score)
<1>1. found.psi \in Permitted(image) /\ found.loss = LossOf(image, found.psi)
  BY OracleIsSound
<1>2. \A other \in [WindowsOf(image) -> Int] :
        found.loss + ScoreOf(other, found.psi) <= WorstCase(image, other)
  <2> HIDE DEF found
  <2> QED BY <1>1, WorstIs
<1>3. ASSUME Unhindered(image, score)
      PROVE  found.loss + ScoreOf(score, found.psi) = WorstCase(image, score)
  <2> DEFINE x == found.loss + ScoreOf(score, found.psi)
  <2>1. x = Worth(image, score, found.psi)
    BY <1>1 DEF Worth
  <2>2. x \in Int
    <3>1. found.psi \in SUBSET WindowsOf(image)
      BY <1>1 DEF Permitted
    <3> QED BY <2>1, <3>1, WorthIs
  <2>3. PICK S \in Permitted(image) :
          LossOf(image, S) + ScoreOf(score, S) = WorstCase(image, score)
    BY WorstIs
  <2>4. WorstCase(image, score) <= x
    <3>1. Worth(image, score, S) <= Worth(image, score, found.psi)
      BY <1>3, NoneIsWorthMore
    <3> QED BY <2>1, <2>3, <3>1 DEF Worth
  <2>5. x <= WorstCase(image, score) /\ WorstCase(image, score) \in Int
    BY <1>2, WorstIs
  <2> HIDE DEF x
  <2>6. x = WorstCase(image, score)
    BY <2>2, <2>4, <2>5
  <2> QED BY <2>6 DEF x
<1> QED BY <1>1, <1>2, <1>3

-----------------------------------------------------------------------------
(* Problems that are made of images. *)
LEMMA TruthIsPermitted ==
  ASSUME NEW image, IsImage(image), PossibleLabels(image)
  PROVE  TruthOf(image) \in Permitted(image) /\ TruthOf(image) \in SUBSET WindowsOf(image)
<1> DEFINE S == TruthOf(image)
           L == Len(image.truth)
<1>1. /\ L \in Nat /\ Truths(image) = 1..L
      /\ \A t \in Truths(image) : image.truth[t] \in WindowsOf(image)
  BY ImageIs
<1>2. S \in SUBSET WindowsOf(image)
  BY <1>1 DEF TruthOf
<1>3. Cardinality(S) <= MaxNumDets
  <2>1. IsFiniteSet(1..L) /\ Cardinality(1..L) = L
    BY <1>1, UpTo
  <2>2. [t \in 1..L |-> image.truth[t]] \in Surjection(1..L, S)
    BY <1>1 DEF TruthOf, Surjection
  <2>3. Cardinality(S) <= L /\ Cardinality(S) \in Nat
    <3> HIDE DEF S, L
    <3> QED BY <2>1, <2>2, FS_Surjection, FS_CardinalityType
  <2>4. L <= MaxNumDets /\ MaxNumDets \in Nat
    BY OracleAssumption DEF PossibleLabels
  <2> HIDE DEF S, L
  <2> QED BY <1>1, <2>3, <2>4
<1>4. \A b \in S : image.hits[b] # 0
  BY DEF TruthOf, PossibleLabels
<1>5. \A a, b \in S : a # b => <<a, b>> \notin image.overlaps
  BY DEF TruthOf, PossibleLabels
<1> QED BY <1>2, <1>3, <1>4, <1>5 DEF Permitted

LEMMA MarginIs ==
  ASSUME NEW image \in Images, NEW v \in Weights
  PROVE  /\ \A psi : Margin(image, psi, v) \in Int
         /\ \A S \in SUBSET WindowsOf(image) :
              /\ ScoreOf(Scores[image][v], S) \in Int
              /\ Margin(image, S, v) = ScoreOf(Scores[image][v], S)
                                         - ScoreOf(Scores[image][v], TruthOf(image))
<1>1. IsImage(image) /\ PossibleLabels(image) /\ Scores[image][v] \in [WindowsOf(image) -> Int]
  BY ImagesAssumption
<1>2. \A S \in SUBSET WindowsOf(image) : ScoreOf(Scores[image][v], S) \in Int
  BY <1>1, ImageIs, ScoreOfAny
<1>3. TruthOf(image) \in SUBSET WindowsOf(image)
  BY <1>1, TruthIsPermitted
<1> QED BY <1>2, <1>3 DEF Margin

LEMMA SeenIs ==
  ASSUME NEW image \in Images
  PROVE  LET seen == Seen[image]
             At(v) == Scores[image][v]
         IN  /\ seen.truth = TruthOf(image)
             /\ seen.margin \in [Labellings -> [Weights -> Int]]
             /\ \A psi \in Labellings, v \in Weights : seen.margin[psi][v] = Margin(image, psi, v)
             /\ seen.oracle = [v \in Weights |-> seen.oracle[v]]
             /\ \A v \in Weights : seen.oracle[v] = {Oracle(image, At(v))}
             /\ seen.worst = [v \in Weights |-> seen.worst[v]]
             /\ \A v \in Weights :
                  seen.worst[v] = WorstCase(image, At(v)) - ScoreOf(At(v), TruthOf(image))
<1> DEFINE seen == Seen[image]
           At(v) == Scores[image][v]
<1>1. /\ seen.truth = TruthOf(image)
      /\ seen.margin = [psi \in Labellings |-> [v \in Weights |-> Margin(image, psi, v)]]
      /\ seen.oracle = [v \in Weights |-> {Oracle(image, At(v))}]
      /\ seen.worst
           = [v \in Weights |-> WorstCase(image, At(v)) - ScoreOf(At(v), TruthOf(image))]
  BY DEF Seen
<1>2. \A psi, v : v \in Weights => Margin(image, psi, v) \in Int
  BY MarginIs
<1> HIDE DEF seen, At
<1>3. /\ seen.margin \in [Labellings -> [Weights -> Int]]
      /\ \A psi \in Labellings, v \in Weights : seen.margin[psi][v] = Margin(image, psi, v)
  BY <1>1, <1>2
<1>4. /\ seen.oracle = [v \in Weights |-> seen.oracle[v]]
      /\ \A v \in Weights : seen.oracle[v] = {Oracle(image, At(v))}
  BY <1>1
<1>5. /\ seen.worst = [v \in Weights |-> seen.worst[v]]
      /\ \A v \in Weights :
           seen.worst[v] = WorstCase(image, At(v)) - ScoreOf(At(v), TruthOf(image))
  BY <1>1
<1> QED BY <1>1, <1>3, <1>4, <1>5 DEF seen, At

(* The planes may assume what they do of the oracle: a problem made of any images
   whose labels are possible is one of TrainingProblems, its truth outscores
   nothing, no labelling that the oracle finds at some weights is worse than the
   worst one at others, and the worst one is not better than the truth
   (separation_oracle, get_truth_joint_feature_vector). *)
THEOREM ImagesMakeProblems ==
  ASSUME NEW images \in [Samples -> Images], NEW strength \in Nat, NEW rounds \in Nat \ {0}
  PROVE  /\ ProblemOf(images, strength, rounds) \in TrainingProblems
         /\ WorstBounds(ProblemOf(images, strength, rounds))
<1> DEFINE p == ProblemOf(images, strength, rounds)
<1>1. ASSUME NEW s \in Samples
      PROVE  /\ images[s] \in Images
             /\ p.truth[s] = Seen[images[s]].truth /\ p.margin[s] = Seen[images[s]].margin
             /\ p.oracle[s] = Seen[images[s]].oracle /\ p.worst[s] = Seen[images[s]].worst
  BY DEF ProblemOf
<1>2. /\ p.truth = [s \in Samples |-> p.truth[s]] /\ p.margin = [s \in Samples |-> p.margin[s]]
      /\ p.oracle = [s \in Samples |-> p.oracle[s]] /\ p.worst = [s \in Samples |-> p.worst[s]]
      /\ p = [truth |-> p.truth, margin |-> p.margin, oracle |-> p.oracle,
              worst |-> p.worst, strength |-> strength, max_iterations |-> rounds]
  BY DEF ProblemOf
<1> HIDE DEF p
<1>3. ASSUME NEW s \in Samples
      PROVE  /\ p.truth[s] \in Labellings
             /\ p.margin[s] \in [Labellings -> [Weights -> Int]]
             /\ p.oracle[s] \in [Weights -> SUBSET Entries]
             /\ p.worst[s] \in [Weights -> Int]
             /\ \A v \in Weights :
                  /\ p.margin[s][p.truth[s]][v] = 0
                  /\ p.worst[s][v] >= 0
                  /\ \A u \in Weights : \A e \in p.oracle[s][u] :
                       e.loss + p.margin[s][e.psi][v] <= p.worst[s][v]
  <2> DEFINE image == images[s]
             truth == TruthOf(image)
             At(v) == Scores[image][v]
  <2>1. /\ image \in Images /\ IsImage(image) /\ PossibleLabels(image)
        /\ SUBSET WindowsOf(image) \subseteq Labellings
        /\ \A v \in Weights : At(v) \in [WindowsOf(image) -> Int]
    BY <1>1, ImagesAssumption
  <2>2. truth \in Permitted(image) /\ truth \in SUBSET WindowsOf(image)
    BY <2>1, TruthIsPermitted
  <2> HIDE DEF image
  <2>11. /\ p.truth[s] = truth /\ p.margin[s] \in [Labellings -> [Weights -> Int]]
         /\ \A psi \in Labellings, v \in Weights : p.margin[s][psi][v] = Margin(image, psi, v)
         /\ p.oracle[s] = [v \in Weights |-> p.oracle[s][v]]
         /\ \A v \in Weights : p.oracle[s][v] = {Oracle(image, At(v))}
         /\ p.worst[s] = [v \in Weights |-> p.worst[s][v]]
         /\ \A v \in Weights :
              p.worst[s][v] = WorstCase(image, At(v)) - ScoreOf(At(v), truth)
    <3>1. /\ p.truth[s] = Seen[image].truth /\ p.margin[s] = Seen[image].margin
          /\ p.oracle[s] = Seen[image].oracle /\ p.worst[s] = Seen[image].worst
      BY <1>1 DEF image
    <3> DEFINE seen == Seen[image]
    <3>2. /\ seen.truth = truth /\ seen.margin \in [Labellings -> [Weights -> Int]]
          /\ \A psi \in Labellings, v \in Weights : seen.margin[psi][v] = Margin(image, psi, v)
          /\ seen.oracle = [v \in Weights |-> seen.oracle[v]]
          /\ \A v \in Weights : seen.oracle[v] = {Oracle(image, At(v))}
          /\ seen.worst = [v \in Weights |-> seen.worst[v]]
          /\ \A v \in Weights :
               seen.worst[v] = WorstCase(image, At(v)) - ScoreOf(At(v), truth)
      BY <2>1, SeenIs
    <3> HIDE DEF seen, At, truth
    <3> QED BY <3>1, <3>2 DEF seen
  <2>3. \A v \in Weights : \A S \in SUBSET WindowsOf(image) :
          /\ S \in Labellings /\ ScoreOf(At(v), S) \in Int
          /\ p.margin[s][S][v] = ScoreOf(At(v), S) - ScoreOf(At(v), truth)
    BY <2>1, <2>11, MarginIs
  <2>4. \A v \in Weights : p.worst[s][v] = WorstCase(image, At(v)) - ScoreOf(At(v), truth)
    BY <2>11
  <2>5. \A v \in Weights : \A e \in p.oracle[s][v] :
          /\ e = Oracle(image, At(v)) /\ e.psi \in SUBSET WindowsOf(image) /\ e.loss \in Int
          /\ \A u \in Weights : e.loss + ScoreOf(At(u), e.psi) <= WorstCase(image, At(u))
    <3> SUFFICES ASSUME NEW v \in Weights, NEW e \in p.oracle[s][v]
                 PROVE  /\ e = Oracle(image, At(v))
                        /\ e.psi \in SUBSET WindowsOf(image) /\ e.loss \in Int
                        /\ \A u \in Weights :
                             e.loss + ScoreOf(At(u), e.psi) <= WorstCase(image, At(u))
      OBVIOUS
    <3>1. e = Oracle(image, At(v))
      BY <2>11
    <3> HIDE DEF At
    <3>2. /\ e.psi \in Permitted(image) /\ e.loss = LossOf(image, e.psi)
          /\ \A other \in [WindowsOf(image) -> Int] :
               e.loss + ScoreOf(other, e.psi) <= WorstCase(image, other)
      BY <2>1, <3>1, OracleIsRight
    <3>3. e.psi \in SUBSET WindowsOf(image)
      BY <3>2 DEF Permitted
    <3>4. e.loss \in Int
      BY <2>1, <3>2, <3>3, LossIs
    <3> QED BY <2>1, <3>1, <3>2, <3>3, <3>4
  <2>6. \A v \in Weights : /\ WorstCase(image, At(v)) \in Int
                           /\ ScoreOf(At(v), truth) <= WorstCase(image, At(v))
    <3> TAKE v \in Weights
    <3>1. /\ WorstCase(image, At(v)) \in Int
          /\ LossOf(image, truth) + ScoreOf(At(v), truth) <= WorstCase(image, At(v))
      BY <2>1, <2>2, WorstIs
    <3>2. LossOf(image, truth) \in Nat /\ ScoreOf(At(v), truth) \in Int
      BY <2>1, <2>2, <2>3, LossIs
    <3> HIDE DEF At, truth
    <3> QED BY <3>1, <3>2
  <2>7. /\ p.truth[s] \in Labellings /\ p.margin[s] \in [Labellings -> [Weights -> Int]]
        /\ p.truth[s] = truth
    BY <2>1, <2>2, <2>11
  <2>8. p.oracle[s] \in [Weights -> SUBSET Entries]
    <3>1. \A v \in Weights : Oracle(image, At(v)) \in Entries
      <4> TAKE v \in Weights
      <4> DEFINE e == Oracle(image, At(v))
      <4>1. e \in p.oracle[s][v]
        BY <2>11
      <4>2. e = [psi |-> e.psi, loss |-> e.loss]
        BY DEF Oracle
      <4> HIDE DEF e, At
      <4>3. e.psi \in Labellings /\ e.loss \in Int
        BY <2>1, <2>5, <4>1
      <4> QED BY <4>2, <4>3 DEF Entries, Losses, e
    <3>2. \A v \in Weights : p.oracle[s][v] \in SUBSET Entries
      BY <2>11, <3>1
    <3> QED BY <2>11, <3>2
  <2>9. p.worst[s] \in [Weights -> Int]
    <3>1. \A v \in Weights :
            WorstCase(image, At(v)) - ScoreOf(At(v), truth) \in Int
      <4> HIDE DEF At, truth
      <4> QED BY <2>2, <2>3, <2>6
    <3> QED BY <2>11, <3>1
  <2> HIDE DEF At, truth
  <2>10. \A v \in Weights :
           /\ p.margin[s][p.truth[s]][v] = 0 /\ p.worst[s][v] >= 0
           /\ \A u \in Weights : \A e \in p.oracle[s][u] :
                e.loss + p.margin[s][e.psi][v] <= p.worst[s][v]
    <3> TAKE v \in Weights
    <3>1. ScoreOf(At(v), truth) \in Int /\ p.margin[s][truth][v] = 0
      BY <2>2, <2>3
    <3>2. p.worst[s][v] >= 0
      BY <2>4, <2>6, <3>1
    <3>3. ASSUME NEW u \in Weights, NEW e \in p.oracle[s][u]
          PROVE  e.loss + p.margin[s][e.psi][v] <= p.worst[s][v]
      <4>1. /\ e.loss \in Int /\ ScoreOf(At(v), e.psi) \in Int
            /\ p.margin[s][e.psi][v] = ScoreOf(At(v), e.psi) - ScoreOf(At(v), truth)
            /\ e.loss + ScoreOf(At(v), e.psi) <= WorstCase(image, At(v))
        BY <2>3, <2>5
      <4> QED BY <4>1, <3>1, <2>4, <2>6
    <3> QED BY <2>7, <3>1, <3>2, <3>3
  <2> QED BY <2>7, <2>8, <2>9, <2>10
<1>4. p \in TrainingProblems
  <2>1. /\ p.truth \in [Samples -> Labellings]
        /\ p.margin \in [Samples -> [Labellings -> [Weights -> Int]]]
        /\ p.oracle \in [Samples -> [Weights -> SUBSET Entries]]
        /\ p.worst \in [Samples -> [Weights -> Int]]
    BY <1>2, <1>3
  <2> QED BY <1>2, <2>1 DEF TrainingProblems
<1>5. WorstBounds(p)
  BY <1>3 DEF WorstBounds
<1> QED BY <1>4, <1>5 DEF p

LEMMA GreedyIs == TypeOK => GreedyIsExact
<1> SUFFICES ASSUME TypeOK, NEW s \in Samples
             PROVE  LET image == TrainingSets[problem][s]
                        score == Scores[image][w]
                        found == Oracle(image, score)
                    IN  /\ found.psi \in Permitted(image)
                        /\ found.loss = LossOf(image, found.psi)
                        /\ \A v \in Weights :
                             found.loss + ScoreOf(Scores[image][v], found.psi)
                               <= WorstCase(image, Scores[image][v])
                        /\ Unhindered(image, score) =>
                             found.loss + ScoreOf(score, found.psi) = WorstCase(image, score)
  BY DEF GreedyIsExact
<1> DEFINE image == TrainingSets[problem][s]
           score == Scores[image][w]
<1>1. problem \in DOMAIN Problems /\ w \in Weights
  BY DEF TypeOK
<1>2. image \in Images
  BY <1>1, DetectorAssumption
<1> HIDE DEF image
<1>3. /\ IsImage(image) /\ score \in [WindowsOf(image) -> Int]
      /\ \A v \in Weights : Scores[image][v] \in [WindowsOf(image) -> Int]
  BY <1>1, <1>2, ImagesAssumption
<1> HIDE DEF score
<1>4. LET found == Oracle(image, score)
      IN  /\ found.psi \in Permitted(image)
          /\ found.loss = LossOf(image, found.psi)
          /\ \A other \in [WindowsOf(image) -> Int] :
               found.loss + ScoreOf(other, found.psi) <= WorstCase(image, other)
          /\ Unhindered(image, score) =>
               found.loss + ScoreOf(score, found.psi) = WorstCase(image, score)
  BY <1>3, OracleIsRight
<1> QED BY <1>3, <1>4 DEF image, score

-----------------------------------------------------------------------------
(* The cache of a sample. *)
LEMMA Bounded ==
  ASSUME NEW n \in Nat, NEW r, DOMAIN r = 1..n, \A i \in 1..n : r[i] \in Int, n > 0
  PROVE  \E i \in 1..n : /\ \A j \in 1..n : r[j] <= r[i]
                         /\ \A j \in 1..(i - 1) : r[j] < r[i]
<1> DEFINE V == {r[i] : i \in 1..n}
           I(m) == {i \in 1..n : r[i] = m}
<1>1. IsFiniteSet(1..n)
  BY FS_Interval
<1>2. IsFiniteSet(V) /\ V # {} /\ \A x \in V : x \in Int
  <2>1. [i \in 1..n |-> r[i]] \in Surjection(1..n, V)
    BY DEF Surjection
  <2>2. IsFiniteSet(V)
    BY <2>1, <1>1, FS_Surjection
  <2> QED BY <2>2
<1>3. PICK m \in V : \A x \in V : m >= x
  <2> HIDE DEF V
  <2> QED BY <1>2, MaxIsGreatest
<1>4. IsFiniteSet(I(m)) /\ I(m) # {} /\ \A x \in I(m) : x \in Int
  <2>1. I(m) \in SUBSET (1..n)
    OBVIOUS
  <2>2. IsFiniteSet(I(m))
    BY <2>1, <1>1, FS_Subset
  <2>3. I(m) # {}
    BY <1>3
  <2>4. \A x \in I(m) : x \in Int
    BY <2>1
  <2> HIDE DEF I, V
  <2> QED BY <2>2, <2>3, <2>4
<1>5. PICK i \in I(m) : \A x \in I(m) : i <= x
  <2> HIDE DEF I
  <2> QED BY <1>4, MinIsLeast
<1>6. i \in 1..n /\ \A j \in 1..n : r[j] <= r[i]
  BY <1>3, <1>5
<1>7. ASSUME NEW j \in 1..(i - 1) PROVE r[j] < r[i]
  <2>1. j \in 1..n /\ j \notin I(m)
    BY <1>5, <1>6
  <2>2. r[j] # r[i] /\ r[j] <= r[i] /\ r[j] \in Int /\ r[i] \in Int
    BY <2>1, <1>5, <1>6
  <2> QED BY <2>2
<1> QED BY <1>6, <1>7

LEMMA BestIsBest ==
  ASSUME NEW n \in Nat, NEW r, DOMAIN r = 1..n, \A i \in 1..n : r[i] \in Int, n > 0
  PROVE  Best(r) \in 1..n /\ \A j \in 1..n : r[j] <= r[Best(r)]
<1>1. \E i \in DOMAIN r : IsBest(r, i)
  BY Bounded DEF IsBest
<1>2. IsBest(r, Best(r))
  BY <1>1 DEF Best
<1> QED BY <1>2 DEF IsBest

Kept(c) == c \in Caches /\ CacheInOrder(c)
Holding(c) == {c.data[i] : i \in DOMAIN c.data}

LEMMA KeptArrays ==
  ASSUME NEW c, Kept(c)
  PROVE  /\ c.data \in Seq(Entries) /\ c.lru \in Seq(Nat)
         /\ Len(c.data) \in Nat /\ Len(c.lru) = Len(c.data)
         /\ DOMAIN c.data = 1..Len(c.data) /\ DOMAIN c.lru = 1..Len(c.data)
         /\ Len(c.data) <= MaxCacheSize
         /\ c.last \in Int \cup {Infinity}
         /\ \A i, j \in 1..Len(c.data) : i # j => c.lru[i] # c.lru[j]
BY DEF Kept, Caches, CacheInOrder

LEMMA LeastRecentIsKept ==
  ASSUME NEW c, Kept(c), Len(c.data) > 0
  PROVE  /\ LeastRecent(c) \in 1..Len(c.data)
         /\ \A j \in 1..Len(c.data) : c.lru[LeastRecent(c)] <= c.lru[j]
<1> DEFINE n == Len(c.data)
           r == [i \in 1..n |-> -c.lru[i]]
<1>1. n \in Nat /\ c.lru \in Seq(Nat) /\ DOMAIN c.lru = 1..n /\ n > 0
  BY KeptArrays
<1>2. \A i \in 1..n : c.lru[i] \in Nat
  BY <1>1
<1>3. PICK i \in 1..n : /\ \A j \in 1..n : r[j] <= r[i]
                        /\ \A j \in 1..(i - 1) : r[j] < r[i]
  <2>1. DOMAIN r = 1..n /\ \A a \in 1..n : r[a] \in Int
    BY <1>2
  <2> HIDE DEF r, n
  <2> QED BY <1>1, <2>1, Bounded
<1>4. \A j \in 1..n : c.lru[i] <= c.lru[j]
  <2>1. \A j \in 1..n : -c.lru[j] <= -c.lru[i]
    BY <1>3
  <2> QED BY <2>1, <1>2
<1>5. \A j \in 1..(i - 1) : c.lru[i] < c.lru[j]
  <2>1. \A j \in 1..(i - 1) : j \in 1..n
    BY <1>1
  <2>2. \A j \in 1..(i - 1) : -c.lru[j] < -c.lru[i]
    BY <1>3, <2>1
  <2> QED BY <2>1, <2>2, <1>2
<1>6. \E a \in DOMAIN c.lru : /\ \A j \in DOMAIN c.lru : c.lru[a] <= c.lru[j]
                              /\ \A j \in 1..(a - 1) : c.lru[a] < c.lru[j]
  BY <1>1, <1>4, <1>5
<1> QED BY <1>1, <1>6 DEF LeastRecent

LEMMA MaxLruIsAbove ==
  ASSUME NEW c, Kept(c)
  PROVE  MaxLru(c) \in Nat /\ \A i \in 1..Len(c.data) : c.lru[i] <= MaxLru(c)
<1> DEFINE n == Len(c.data)
<1>1. n \in Nat /\ c.lru \in Seq(Nat) /\ DOMAIN c.lru = 1..n /\ Len(c.lru) = n
  BY KeptArrays
<1>2. CASE n = 0
  BY <1>1, <1>2 DEF MaxLru
<1>3. CASE n > 0
  <2> DEFINE V == ToSet(c.lru)
  <2>1. V = {c.lru[i] : i \in 1..n}
    BY <1>1 DEF ToSet
  <2>2. IsFiniteSet(V)
    <3>1. c.lru \in Surjection(1..n, V)
      BY <1>1, <2>1 DEF Surjection
    <3>2. IsFiniteSet(1..n)
      BY <1>1, FS_Interval
    <3> QED BY <3>1, <3>2, FS_Surjection
  <2>3. V # {} /\ (\A x \in V : x \in Nat) /\ c.lru # <<>>
    BY <2>1, <1>1, <1>3
  <2>4. Max(V) \in V /\ \A x \in V : Max(V) >= x
    <3>1. \A x \in V : x \in Int
      BY <2>3
    <3> HIDE DEF V
    <3> QED BY <2>2, <2>3, <3>1, MaxIsGreatest
  <2>5. MaxLru(c) = Max(V)
    BY <2>3 DEF MaxLru
  <2>6. ASSUME NEW i \in 1..n PROVE c.lru[i] <= MaxLru(c)
    <3>1. c.lru[i] \in V /\ c.lru[i] \in Nat
      BY <2>1, <1>1
    <3>2. Max(V) \in Nat /\ Max(V) >= c.lru[i]
      BY <2>4, <2>3, <3>1
    <3> QED BY <2>5, <3>1, <3>2
  <2> QED BY <2>3, <2>4, <2>5, <2>6
<1> QED BY <1>1, <1>2, <1>3

LEMMA UseKeeps ==
  ASSUME NEW c, Kept(c), NEW i \in 1..Len(c.data)
  PROVE  Kept(Use(c, i)) /\ Use(c, i).data = c.data
<1> DEFINE n == Len(c.data)
           m == MaxLru(c) + 1
           lru == [c.lru EXCEPT ![i] = m]
<1>1. /\ c.data \in Seq(Entries) /\ c.lru \in Seq(Nat) /\ n \in Nat
      /\ Len(c.lru) = n /\ DOMAIN c.lru = 1..n /\ n <= MaxCacheSize
      /\ \A a, b \in 1..n : a # b => c.lru[a] # c.lru[b]
  BY KeptArrays
<1>2. m \in Nat /\ \A a \in 1..n : c.lru[a] < m
  <2>1. MaxLru(c) \in Nat /\ \A a \in 1..n : c.lru[a] <= MaxLru(c)
    BY MaxLruIsAbove
  <2>2. \A a \in 1..n : c.lru[a] \in Nat
    BY <1>1
  <2> QED BY <2>1, <2>2
<1> HIDE DEF m
<1>3. lru \in Seq(Nat) /\ Len(lru) = n /\ DOMAIN lru = 1..n
  <2> HIDE DEF n
  <2>1. i \in 1..n
    BY DEF n
  <2> QED BY <1>1, <1>2, <2>1
<1>4. \A a, b \in 1..n : a # b => lru[a] # lru[b]
  <2>1. \A x \in 1..n : lru[x] = IF x = i THEN m ELSE c.lru[x]
    BY <1>1
  <2>2. \A x \in 1..n : c.lru[x] \in Nat
    BY <1>1
  <2> HIDE DEF lru, n
  <2> SUFFICES ASSUME NEW a \in 1..n, NEW b \in 1..n, a # b PROVE lru[a] # lru[b]
    OBVIOUS
  <2>3. c.lru[a] # c.lru[b] /\ c.lru[a] # m /\ c.lru[b] # m
    BY <1>1, <1>2, <2>2
  <2> QED BY <2>1, <2>3
<1>5. Use(c, i) = [c EXCEPT !.lru = lru]
  BY DEF Use, m
<1> HIDE DEF lru
<1>6. c \in Caches
  BY DEF Kept
<1>7. /\ Use(c, i) \in Caches /\ Use(c, i).data = c.data /\ Use(c, i).lru = lru
  BY <1>3, <1>5, <1>6 DEF Caches
<1> QED BY <1>1, <1>3, <1>4, <1>7 DEF Kept, CacheInOrder

LEMMA KeepKeeps ==
  ASSUME NEW c, Kept(c), NEW e \in Entries
  PROVE  Kept(Keep(c, e)) /\ Holding(Keep(c, e)) \subseteq Holding(c) \cup {e}
<1> DEFINE n == Len(c.data)
           m == MaxLru(c) + 1
<1>1. /\ c.data \in Seq(Entries) /\ c.lru \in Seq(Nat) /\ n \in Nat
      /\ DOMAIN c.data = 1..n
      /\ Len(c.lru) = n /\ DOMAIN c.lru = 1..n /\ n <= MaxCacheSize
      /\ \A a, b \in 1..n : a # b => c.lru[a] # c.lru[b]
  BY KeptArrays
<1>2. m \in Nat /\ \A a \in 1..n : c.lru[a] < m
  <2>1. MaxLru(c) \in Nat /\ \A a \in 1..n : c.lru[a] <= MaxLru(c)
    BY MaxLruIsAbove
  <2>2. \A a \in 1..n : c.lru[a] \in Nat
    BY <1>1
  <2> QED BY <2>1, <2>2
<1>3. c \in Caches /\ MaxCacheSize \in Nat \ {0}
  BY CacheAssumption DEF Kept
<1>4. CASE n >= MaxCacheSize
  <2> DEFINE i == LeastRecent(c)
             k == Use(c, i)
             data == [c.data EXCEPT ![i] = e]
  <2>1. i \in 1..n
    BY <1>1, <1>3, <1>4, LeastRecentIsKept
  <2>2. Kept(k) /\ k.data = c.data
    BY <2>1, UseKeeps
  <2>3. Keep(c, e) = [c EXCEPT !.data = data, !.lru = [c.lru EXCEPT ![i] = m]]
    BY <1>4 DEF Keep
  <2>4. k = [c EXCEPT !.lru = [c.lru EXCEPT ![i] = m]]
    BY DEF Use
  <2>5. data \in Seq(Entries) /\ Len(data) = n /\ DOMAIN data = 1..n
        /\ \A a \in 1..n : data[a] = IF a = i THEN e ELSE c.data[a]
    BY <1>1, <2>1
  <2> HIDE DEF i, data, m
  <2>6. /\ Keep(c, e).data = data /\ Keep(c, e).lru = k.lru
        /\ Keep(c, e).last = k.last /\ Keep(c, e) \in Caches
    <3>1. c = [data |-> c.data, lru |-> c.lru, last |-> c.last]
      BY <1>3 DEF Caches
    <3>2. Keep(c, e) = [data |-> data, lru |-> [c.lru EXCEPT ![i] = m], last |-> c.last]
      BY <2>3, <3>1
    <3>3. k = [data |-> c.data, lru |-> [c.lru EXCEPT ![i] = m], last |-> c.last]
      BY <2>4, <3>1
    <3>4. [c.lru EXCEPT ![i] = m] \in Seq(Nat) /\ c.last \in Int \cup {Infinity}
      BY <3>3, <2>2 DEF Kept, Caches
    <3> QED BY <3>2, <3>3, <3>4, <2>5 DEF Caches
  <2>7. CacheInOrder(Keep(c, e))
    BY <2>2, <2>5, <2>6 DEF Kept, CacheInOrder
  <2>8. Holding(Keep(c, e)) \subseteq Holding(c) \cup {e}
    BY <2>5, <2>6, <1>1 DEF Holding
  <2> QED BY <2>6, <2>7, <2>8 DEF Kept
<1>5. CASE n < MaxCacheSize
  <2> DEFINE data == Append(c.data, e)
             lru == Append(c.lru, m)
  <2>1. Keep(c, e) = [c EXCEPT !.data = data, !.lru = lru]
    BY <1>1, <1>3, <1>5 DEF Keep
  <2>2. /\ data \in Seq(Entries) /\ Len(data) = n + 1 /\ DOMAIN data = 1..(n + 1)
        /\ \A a \in 1..n : data[a] = c.data[a]
        /\ data[n + 1] = e
    BY <1>1
  <2> HIDE DEF m
  <2>3. /\ lru \in Seq(Nat) /\ Len(lru) = n + 1 /\ DOMAIN lru = 1..(n + 1)
        /\ \A a \in 1..n : lru[a] = c.lru[a]
        /\ lru[n + 1] = m
    BY <1>1, <1>2
  <2> HIDE DEF data, lru
  <2>4. Keep(c, e) \in Caches /\ Keep(c, e).data = data /\ Keep(c, e).lru = lru
    BY <2>1, <2>2, <2>3, <1>3 DEF Caches
  <2>5. \A a, b \in 1..(n + 1) : a # b => lru[a] # lru[b]
    <3> SUFFICES ASSUME NEW a \in 1..(n + 1), NEW b \in 1..(n + 1), a # b
                 PROVE  lru[a] # lru[b]
      OBVIOUS
    <3>1. \A x \in 1..n : c.lru[x] \in Nat /\ c.lru[x] # m
      <4>1. \A x \in 1..n : c.lru[x] \in Nat
        BY <1>1
      <4> QED BY <4>1, <1>2
    <3>2. (a \in 1..n \/ a = n + 1) /\ (b \in 1..n \/ b = n + 1)
      <4> HIDE DEF n
      <4> QED BY <1>1
    <3> QED BY <3>1, <3>2, <2>3, <1>1
  <2>6. CacheInOrder(Keep(c, e))
    <3>1. n + 1 <= MaxCacheSize
      <4> HIDE DEF n
      <4> QED BY <1>1, <1>3, <1>5
    <3> HIDE DEF n
    <3> QED BY <2>2, <2>3, <2>4, <2>5, <3>1 DEF CacheInOrder
  <2>7. Holding(Keep(c, e)) \subseteq Holding(c) \cup {e}
    <3>1. \A a \in 1..(n + 1) : a \in 1..n \/ a = n + 1
      BY <1>1
    <3>2. \A a \in 1..(n + 1) : data[a] = e \/ data[a] \in Holding(c)
      BY <3>1, <2>2, <1>1 DEF Holding
    <3> QED BY <3>2, <2>2, <2>4 DEF Holding
  <2> QED BY <2>4, <2>6, <2>7 DEF Kept
<1> QED BY <1>1, <1>3, <1>4, <1>5

(* The entry used last, and that the next one used does not drive it out. *)
Newest(c, e) ==
  \E i \in DOMAIN c.data :
    c.data[i] = e /\ \A j \in DOMAIN c.lru : c.lru[j] <= c.lru[i]

LEMMA UsedIsNewest ==
  ASSUME NEW c, Kept(c), NEW i \in 1..Len(c.data)
  PROVE  Newest(Use(c, i), c.data[i])
<1> DEFINE n == Len(c.data)
           m == MaxLru(c) + 1
<1>1. /\ c.data \in Seq(Entries) /\ c.lru \in Seq(Nat) /\ n \in Nat
      /\ DOMAIN c.data = 1..n /\ DOMAIN c.lru = 1..n /\ Len(c.lru) = n
  BY KeptArrays
<1>2. m \in Nat /\ \A a \in 1..n : c.lru[a] <= m
  <2>1. MaxLru(c) \in Nat /\ \A a \in 1..n : c.lru[a] <= MaxLru(c)
    BY MaxLruIsAbove
  <2>2. \A a \in 1..n : c.lru[a] \in Nat
    BY <1>1
  <2> QED BY <2>1, <2>2
<1>3. Use(c, i).data = c.data /\ Use(c, i).lru = [c.lru EXCEPT ![i] = m]
  BY DEF Kept, Use, Caches
<1> HIDE DEF m
<1>4. /\ DOMAIN Use(c, i).lru = 1..n /\ Use(c, i).lru[i] = m
      /\ \A j \in 1..n : Use(c, i).lru[j] <= m
  BY <1>1, <1>2, <1>3
<1> QED BY <1>1, <1>3, <1>4 DEF Newest

LEMMA KeptIsNewest ==
  ASSUME NEW c, Kept(c), NEW e \in Entries
  PROVE  /\ Newest(Keep(c, e), e)
         /\ \A old : Newest(c, old) /\ MaxCacheSize > 1 => old \in Holding(Keep(c, e))
<1> DEFINE n == Len(c.data)
           m == MaxLru(c) + 1
<1>1. /\ c \in Caches /\ c.data \in Seq(Entries) /\ c.lru \in Seq(Nat) /\ n \in Nat
      /\ DOMAIN c.data = 1..n /\ DOMAIN c.lru = 1..n /\ Len(c.lru) = n
      /\ n <= MaxCacheSize /\ MaxCacheSize \in Nat \ {0}
      /\ \A a, b \in 1..n : a # b => c.lru[a] # c.lru[b]
  BY KeptArrays, CacheAssumption DEF Kept
<1>2. \A a \in 1..n : c.lru[a] \in Nat
  BY <1>1
<1>3. m \in Nat /\ \A a \in 1..n : c.lru[a] <= m
  <2>1. MaxLru(c) \in Nat /\ \A a \in 1..n : c.lru[a] <= MaxLru(c)
    BY MaxLruIsAbove
  <2> QED BY <2>1, <1>2
<1>4. CASE n >= MaxCacheSize
  <2> DEFINE l == LeastRecent(c)
  <2>1. l \in 1..n /\ \A j \in 1..n : c.lru[l] <= c.lru[j]
    BY <1>1, <1>4, LeastRecentIsKept
  <2>2. Keep(c, e) = [c EXCEPT !.data = [c.data EXCEPT ![l] = e],
                               !.lru = [c.lru EXCEPT ![l] = m]]
    BY <1>4 DEF Keep
  <2> HIDE DEF l, m
  <2>3. /\ Keep(c, e).data = [c.data EXCEPT ![l] = e]
        /\ Keep(c, e).lru = [c.lru EXCEPT ![l] = m]
    BY <1>1, <2>2 DEF Caches
  <2>4. /\ DOMAIN Keep(c, e).data = 1..n /\ DOMAIN Keep(c, e).lru = 1..n
        /\ Keep(c, e).data[l] = e /\ Keep(c, e).lru[l] = m
        /\ \A j \in 1..n : j # l => Keep(c, e).data[j] = c.data[j]
        /\ \A j \in 1..n : Keep(c, e).lru[j] <= m
    BY <1>1, <1>3, <2>1, <2>3
  <2>5. Newest(Keep(c, e), e)
    BY <2>1, <2>4 DEF Newest
  <2>6. ASSUME NEW old, Newest(c, old), MaxCacheSize > 1
        PROVE  old \in Holding(Keep(c, e))
    <3>1. PICK i \in 1..n : c.data[i] = old /\ \A j \in 1..n : c.lru[j] <= c.lru[i]
      BY <2>6, <1>1 DEF Newest
    <3>2. PICK j \in 1..n : j # i
      <4>1. 1 \in 1..n /\ 2 \in 1..n
        <5> HIDE DEF n
        <5> QED BY <1>1, <1>4, <2>6
      <4> QED BY <4>1
    <3>3. c.lru[j] # c.lru[i] /\ c.lru[j] <= c.lru[i] /\ c.lru[l] <= c.lru[j]
      BY <1>1, <2>1, <3>1, <3>2
    <3>4. l # i
      <4>1. c.lru[i] \in Nat /\ c.lru[j] \in Nat /\ c.lru[l] \in Nat
        BY <1>2, <2>1
      <4> HIDE DEF n
      <4> QED BY <3>3, <4>1
    <3> QED BY <3>1, <3>4, <2>4 DEF Holding
  <2> QED BY <2>5, <2>6
<1>5. CASE n < MaxCacheSize
  <2>1. Keep(c, e) = [c EXCEPT !.data = Append(c.data, e), !.lru = Append(c.lru, m)]
    BY <1>1, <1>5 DEF Keep
  <2> HIDE DEF m
  <2>2. Keep(c, e).data = Append(c.data, e) /\ Keep(c, e).lru = Append(c.lru, m)
    BY <1>1, <2>1 DEF Caches
  <2>3. /\ DOMAIN Keep(c, e).data = 1..(n + 1) /\ DOMAIN Keep(c, e).lru = 1..(n + 1)
        /\ Keep(c, e).data[n + 1] = e /\ Keep(c, e).lru[n + 1] = m
        /\ \A j \in 1..n : /\ Keep(c, e).data[j] = c.data[j]
                           /\ Keep(c, e).lru[j] = c.lru[j]
    BY <1>1, <1>3, <2>2
  <2>4. \A j \in 1..(n + 1) : j \in 1..n \/ j = n + 1
    BY <1>1
  <2>5. \A j \in 1..(n + 1) : Keep(c, e).lru[j] <= m
    BY <2>3, <2>4, <1>3
  <2>6. n + 1 \in 1..(n + 1) /\ \A j \in 1..n : j \in 1..(n + 1)
    BY <1>1
  <2> HIDE DEF n
  <2>7. Newest(Keep(c, e), e)
    BY <2>3, <2>5, <2>6 DEF Newest
  <2>8. ASSUME NEW old, Newest(c, old) PROVE old \in Holding(Keep(c, e))
    <3>1. PICK i \in 1..n : c.data[i] = old
      BY <2>8, <1>1 DEF Newest
    <3> QED BY <3>1, <2>3, <2>6 DEF Holding
  <2> QED BY <2>7, <2>8
<1> QED BY <1>1, <1>4, <1>5

-----------------------------------------------------------------------------
(* The inductive invariant: besides what the theorems say of single states,
   every labelling that was ever kept is one the oracle has found, so no plane
   is above the worst risk; the planes alone support the lower bound; and what
   the latest oracle calls have found is no worse than what was taken. *)
Current == Given[problem]
Value(s, e, v) == e.loss + Current.margin[s][e.psi][v]

Rounds ==
  /\ converged => pc = "done"
  /\ pc = "solve" => counter < Current.max_iterations
Known(s, e) == \A v \in Weights : Value(s, e, v) <= Current.worst[s][v]
KeptIsKnown == \A s \in Samples : \A e \in Holding(cache[s]) : Known(s, e)
PlanesBelow ==
  /\ IsFiniteSet(planes)
  /\ \A p \in planes : \A v \in Weights : p.value[v] <= WorstRisk(v)
PlanesSupport == Holds(planes, cp_obj)
OracleHeard ==
  pc = "status" /\ skip_cache =>
    \A s \in Samples : \E e \in Current.oracle[s][w] :
      Value(s, e, w) <= Value(s, chosen[s], w)
TakenIsWorst ==
  pc = "status" =>
    \A s \in Samples :
      /\ Value(s, chosen[s], w) >= 0
      /\ \A e \in Holding(cache[s]) : Value(s, e, w) <= Value(s, chosen[s], w)

IInv ==
  /\ TypeOK /\ Rounds /\ KeptIsKnown /\ PlanesBelow /\ PlanesSupport
  /\ OracleHeard /\ TakenIsWorst /\ LowerBound /\ NearOptimal

(* The constants and the current problem. *)
LEMMA Problem ==
  ASSUME TypeOK
  PROVE  /\ Current.truth \in [Samples -> Labellings]
         /\ Current.margin \in [Samples -> [Labellings -> [Weights -> Int]]]
         /\ Current.oracle \in [Samples -> [Weights -> SUBSET Entries]]
         /\ Current.worst \in [Samples -> [Weights -> Int]]
         /\ Current.strength \in Nat /\ Current.max_iterations \in Nat \ {0}
         /\ w \in Weights
         /\ \A s \in Samples : \A v \in Weights :
              /\ Current.margin[s][Current.truth[s]][v] = 0
              /\ Current.worst[s][v] >= 0
              /\ \A u \in Weights : \A e \in Current.oracle[s][u] :
                   e.loss + Current.margin[s][e.psi][v] <= Current.worst[s][v]
<1>1. Current \in TrainingProblems
  BY CuttingPlanesAssumption DEF TypeOK, Current, Given
<1>2. \A s \in Samples : \A v \in Weights :
        /\ Current.margin[s][Current.truth[s]][v] = 0
        /\ Current.worst[s][v] >= 0
        /\ \A u \in Weights : \A e \in Current.oracle[s][u] :
             e.loss + Current.margin[s][e.psi][v] <= Current.worst[s][v]
  BY WorstAssumption DEF TypeOK, Current, Given, WorstBounds
<1> QED BY <1>1, <1>2 DEF TrainingProblems, TypeOK

LEMMA Units == Unit \in Nat \ {0} /\ 2 * C \in Nat \ {0}
<1>1. Cardinality(Samples) \in Nat \ {0}
  BY CuttingPlanesAssumption, FS_CardinalityType, FS_EmptySet
<1>2. 2 * C \in Nat \ {0}
  BY CuttingPlanesAssumption
<1>3. \A a, b \in Nat \ {0} : a * b \in Nat \ {0}
  OBVIOUS
<1> QED BY <1>1, <1>2, <1>3 DEF Unit

(* To compare risks is to compare values. *)
LEMMA Scaled ==
  ASSUME NEW u \in Nat \ {0}, NEW a \in Int, NEW b \in Int
  PROVE  /\ u * a \in Int
         /\ u * a <= u * b <=> a <= b
         /\ u * a < u * b <=> a < b
         /\ u * a >= 0 <=> a >= 0
         /\ u * a < 0 <=> a < 0
<1>1. u * a \in Int /\ u * b \in Int
  OBVIOUS
<1>2. a <= b => u * a <= u * b
  OBVIOUS
<1>3. a < b => u * a < u * b
  OBVIOUS
<1>4. b < a => u * b < u * a
  OBVIOUS
<1>5. 0 < a => 0 < u * a
  OBVIOUS
<1>6. a < 0 => u * a < 0
  OBVIOUS
<1>7. a = 0 => u * a = 0
  OBVIOUS
<1> QED BY <1>1, <1>2, <1>3, <1>4, <1>5, <1>6, <1>7

LEMMA Values ==
  ASSUME TypeOK, NEW s \in Samples, NEW e \in Entries, NEW v \in Weights
  PROVE  Value(s, e, v) \in Int /\ Risk(s, e, v) = Unit * Value(s, e, v)
<1>1. e.psi \in Labellings /\ e.loss \in Int
  BY DEF Entries, Losses
<1>2. Current.margin[s][e.psi][v] \in Int
  BY <1>1, Problem
<1> QED BY <1>1, <1>2 DEF Value, Risk, Current

-----------------------------------------------------------------------------
(* What a call for a sample yields. *)
Call(s, found) ==
  separation_oracle_cached(cache[s], converged, skip_cache,
    saved_current_risk_gap, Risks(s), found, Risk(s, found, w), Truth(s))

LEMMA CallKeeps ==
  ASSUME TypeOK, NEW s \in Samples, NEW found \in Current.oracle[s][w], ~converged
  PROVE  LET out == Call(s, found).out
             after == Call(s, found).cache
         IN  /\ out \in Entries /\ Kept(after)
             /\ \A e \in Holding(after) \cup {out} :
                  e = Truth(s) \/ e = found \/ e \in Holding(cache[s])
             /\ Value(s, out, w) >= 0
             /\ \A e \in Holding(after) : Value(s, e, w) <= Value(s, out, w)
             /\ skip_cache => Value(s, found, w) <= Value(s, out, w)
<1> DEFINE c == cache[s]
           n == Len(c.data)
           r == Risks(s)
           b == Best(r)
           now == [c EXCEPT !.last = Risk(s, found, w)]
           val(e) == Value(s, e, w)
<1>1. found \in Entries /\ Truth(s) \in Entries /\ w \in Weights /\ val(Truth(s)) = 0
  <2>1. found \in Entries /\ w \in Weights
    BY Problem
  <2>2. Truth(s) = [psi |-> Current.truth[s], loss |-> 0]
    BY DEF Truth, Current
  <2>3. Current.truth[s] \in Labellings /\ Current.margin[s][Current.truth[s]][w] = 0
    BY Problem
  <2> QED BY <2>1, <2>2, <2>3 DEF Entries, Losses, Value
<1>2. Kept(c)
  BY DEF TypeOK, Kept
<1>3. /\ n \in Nat /\ DOMAIN c.data = 1..n /\ c.data \in Seq(Entries)
      /\ \A i \in 1..n : c.data[i] \in Entries
  <2>1. n \in Nat /\ DOMAIN c.data = 1..n /\ c.data \in Seq(Entries)
    BY <1>2, KeptArrays
  <2> QED BY <2>1
<1>4. Unit \in Nat \ {0}
  BY Units
<1>5. \A e \in Entries : val(e) \in Int /\ Risk(s, e, w) = Unit * val(e)
  BY <1>1, Values
<1> HIDE DEF c, n, val
<1>6. /\ DOMAIN r = 1..n /\ (r = <<>> <=> n = 0)
      /\ \A i \in 1..n : r[i] = Unit * val(c.data[i]) /\ r[i] \in Int
  <2>1. r = [i \in 1..n |-> Risk(s, c.data[i], w)]
    BY <1>3 DEF Risks, c
  <2>2. \A i \in 1..n : r[i] = Unit * val(c.data[i])
    BY <2>1, <1>3, <1>5
  <2>3. \A i \in 1..n : val(c.data[i]) \in Int
    BY <1>3, <1>5
  <2>4. \A i \in 1..n : Unit * val(c.data[i]) \in Int
    BY <2>3, <1>4, Scaled
  <2>5. r = <<>> <=> n = 0
    BY <2>1, <1>3
  <2> QED BY <2>1, <2>2, <2>4, <2>5
<1>7. n > 0 => /\ b \in 1..n /\ c.data[b] \in Holding(c) /\ c.data[b] \in Entries
               /\ r[b] = Unit * val(c.data[b])
               /\ \A e \in Holding(c) : val(e) <= val(c.data[b])
  <2> SUFFICES ASSUME n > 0
               PROVE  /\ b \in 1..n /\ c.data[b] \in Holding(c) /\ c.data[b] \in Entries
                      /\ r[b] = Unit * val(c.data[b])
                      /\ \A e \in Holding(c) : val(e) <= val(c.data[b])
    OBVIOUS
  <2>1. b \in 1..n /\ \A j \in 1..n : r[j] <= r[b]
    <3> HIDE DEF r
    <3> QED BY <1>3, <1>6, BestIsBest
  <2>2. c.data[b] \in Holding(c) /\ c.data[b] \in Entries
    BY <2>1, <1>3 DEF Holding
  <2>3. ASSUME NEW j \in 1..n PROVE val(c.data[j]) <= val(c.data[b])
    <3>1. val(c.data[j]) \in Int /\ val(c.data[b]) \in Int
      BY <1>3, <1>5, <2>1
    <3>2. Unit * val(c.data[j]) <= Unit * val(c.data[b])
      BY <2>1, <1>6
    <3> QED BY <3>1, <3>2, <1>4, Scaled
  <2>4. \A e \in Holding(c) : \E j \in 1..n : e = c.data[j]
    BY <1>3 DEF Holding
  <2> QED BY <2>1, <2>2, <2>3, <2>4, <1>6
<1>8. n = 0 => Holding(c) = {}
  BY <1>3 DEF Holding
<1> HIDE DEF r, b
<1>9. Kept(now) /\ now.data = c.data /\ Len(now.data) = n /\ Holding(now) = Holding(c)
  <2>1. Risk(s, found, w) \in Int
    BY <1>1, <1>4, <1>5, Scaled
  <2>2. now \in Caches /\ now.data = c.data /\ now.lru = c.lru
    BY <2>1, <1>2 DEF Kept, Caches
  <2> QED BY <2>2, <1>2 DEF Kept, CacheInOrder, Holding, n
<1> HIDE DEF now
<1> DEFINE out == Call(s, found).out
           after == Call(s, found).cache
           Goal == /\ out \in Entries /\ Kept(after)
                   /\ \A e \in Holding(after) \cup {out} :
                        e = Truth(s) \/ e = found \/ e \in Holding(c)
                   /\ val(out) >= 0
                   /\ \A e \in Holding(after) : val(e) <= val(out)
                   /\ skip_cache => val(found) <= val(out)
<1> SUFFICES Goal
  BY DEF c, val
<1>10. Holding(c) \subseteq Entries
  BY <1>3 DEF Holding
<1>11. CASE CacheAnswers(c, converged, skip_cache, saved_current_risk_gap, r)
  <2>1. ~skip_cache /\ n > 0 /\ r[b] >= 0
    <3>1. ~skip_cache /\ GoodEnough(c, r, saved_current_risk_gap)
      BY <1>11 DEF CacheAnswers
    <3>2. r # <<>> /\ r[b] >= 0
      BY <3>1 DEF GoodEnough, b
    <3> QED BY <3>1, <3>2, <1>3, <1>6
  <2>2. out = c.data[b] /\ after = Use(c, b)
    BY <1>11 DEF Call, separation_oracle_cached, c, r, b
  <2>3. Kept(after) /\ Holding(after) = Holding(c)
    <3>1. b \in 1..Len(c.data)
      BY <1>7, <2>1 DEF n
    <3>2. Kept(Use(c, b)) /\ Use(c, b).data = c.data
      BY <1>2, <3>1, UseKeeps
    <3> QED BY <3>2, <2>2 DEF Holding
  <2>4. val(out) >= 0
    BY <2>1, <2>2, <1>7, <1>5, <1>4, Scaled
  <2> HIDE DEF out, after
  <2> QED BY <2>1, <2>2, <2>3, <2>4, <1>7
<1>12. CASE ~CacheAnswers(c, converged, skip_cache, saved_current_risk_gap, r)
  <2> DEFINE risk == Risk(s, found, w)
  <2>1. Call(s, found) = AfterOracle(c, r, found, risk, Truth(s))
    BY <1>12 DEF Call, separation_oracle_cached, c, r
  <2>2. risk = Unit * val(found) /\ val(found) \in Int
    BY <1>1, <1>5
  <2> HIDE DEF risk
  <2>3. CASE Hopeless(r, risk)
    <3>1. out = Truth(s) /\ after = now
      BY <2>1, <2>3 DEF AfterOracle, now, risk
    <3>2. risk < 0 /\ (n = 0 \/ r[b] < 0)
      BY <2>3, <1>6 DEF Hopeless, b
    <3>3. val(found) < 0
      BY <3>2, <2>2, <1>4, Scaled
    <3>4. \A e \in Holding(c) : val(e) <= 0
      <4>1. CASE n = 0
        BY <4>1, <1>8
      <4>2. CASE n > 0
        <5>1. val(c.data[b]) \in Int /\ r[b] = Unit * val(c.data[b]) /\ r[b] < 0
          BY <4>2, <1>7, <1>5, <3>2
        <5>2. val(c.data[b]) < 0
          BY <5>1, <1>4, Scaled
        <5>3. \A e \in Holding(c) : val(e) \in Int /\ val(e) <= val(c.data[b])
          BY <4>2, <1>7, <1>5, <1>10
        <5> QED BY <5>1, <5>2, <5>3
      <4> QED BY <4>1, <4>2, <1>3
    <3> HIDE DEF out, after
    <3> QED BY <3>1, <3>3, <3>4, <1>1, <1>9, <2>2
  <2>4. CASE ~Hopeless(r, risk) /\ Beaten(r, risk)
    <3>1. out = now.data[b] /\ after = Use(now, b)
      <4>1. out = c.data[b] /\ after = Use(now, b)
        BY <2>1, <2>4 DEF AfterOracle, now, risk, b
      <4> QED BY <4>1, <1>9
    <3>2. n > 0 /\ risk < r[b]
      BY <2>4, <1>6, <1>3 DEF Beaten, b
    <3>3. val(c.data[b]) \in Int /\ r[b] = Unit * val(c.data[b])
      BY <3>2, <1>7, <1>5
    <3>4. val(found) < val(c.data[b])
      BY <3>2, <3>3, <2>2, <1>4, Scaled
    <3>5. val(c.data[b]) >= 0
      <4>1. ~(risk < 0) \/ ~(r[b] < 0)
        BY <2>4, <3>2 DEF Hopeless, b
      <4>2. ~(val(found) < 0) \/ ~(val(c.data[b]) < 0)
        BY <4>1, <3>3, <2>2, <1>4, Scaled
      <4> QED BY <4>2, <3>3, <3>4, <2>2
    <3>6. Kept(after) /\ Holding(after) = Holding(c)
      <4>1. b \in 1..Len(now.data)
        BY <1>7, <1>9, <3>2
      <4>2. Kept(Use(now, b)) /\ Use(now, b).data = now.data
        BY <1>9, <4>1, UseKeeps
      <4> QED BY <4>2, <3>1, <1>9 DEF Holding
    <3> HIDE DEF out, after
    <3> QED BY <3>1, <3>2, <3>3, <3>4, <3>5, <3>6, <1>7, <1>9, <2>2
  <2>5. CASE ~Hopeless(r, risk) /\ ~Beaten(r, risk)
    <3>1. out = found /\ after = Keep(now, found)
      BY <2>1, <2>5 DEF AfterOracle, now, risk
    <3>2. n > 0 => val(c.data[b]) \in Int /\ val(c.data[b]) <= val(found)
      <4> SUFFICES ASSUME n > 0
                   PROVE  val(c.data[b]) \in Int /\ val(c.data[b]) <= val(found)
        OBVIOUS
      <4>1. val(c.data[b]) \in Int /\ r[b] = Unit * val(c.data[b])
        BY <1>7, <1>5
      <4>2. ~(risk < r[b])
        BY <2>5, <1>6 DEF Beaten, b
      <4>3. ~(val(found) < val(c.data[b]))
        BY <4>1, <4>2, <2>2, <1>4, Scaled
      <4> QED BY <4>1, <4>3, <2>2
    <3>3. val(found) >= 0
      <4>1. ~(risk < 0) \/ (n > 0 /\ ~(r[b] < 0))
        BY <2>5, <1>6, <1>3 DEF Hopeless, b
      <4>2. ~(val(found) < 0) \/ (n > 0 /\ ~(val(c.data[b]) < 0))
        BY <4>1, <1>7, <1>5, <2>2, <1>4, Scaled
      <4> QED BY <4>2, <3>2, <2>2
    <3>4. \A e \in Holding(c) : val(e) <= val(found)
      <4>1. CASE n = 0
        BY <4>1, <1>8
      <4>2. CASE n > 0
        BY <4>2, <1>7, <1>5, <1>10, <3>2, <2>2
      <4> QED BY <4>1, <4>2, <1>3
    <3>5. Kept(after) /\ Holding(after) \subseteq Holding(c) \cup {found}
      <4>1. Kept(Keep(now, found)) /\ Holding(Keep(now, found)) \subseteq Holding(now) \cup {found}
        BY <1>1, <1>9, KeepKeeps
      <4> QED BY <4>1, <3>1, <1>9
    <3> HIDE DEF out, after
    <3> QED BY <3>1, <3>3, <3>4, <3>5, <1>1, <2>2
  <2> QED BY <2>3, <2>4, <2>5
<1> QED BY <1>11, <1>12

-----------------------------------------------------------------------------
(* What the nuclear norm adds to a plane is nowhere above the norm itself. *)
LEMMA NuclearParts ==
  ASSUME TypeOK, NEW u \in Weights, NEW v \in Weights
  PROVE  /\ NuclearPart(u, v) \in Int /\ NuclearPart(v, v) \in Int
         /\ NuclearPart(v, v) >= 0 /\ NuclearPart(u, v) <= NuclearPart(v, v)
<1> DEFINE k == 2 * Cardinality(Samples) * Current.strength
<1>1. k \in Nat
  <2>1. Cardinality(Samples) \in Nat /\ Current.strength \in Nat
    BY CuttingPlanesAssumption, FS_CardinalityType, Problem
  <2>2. \A a, b \in Nat : 2 * a * b \in Nat
    OBVIOUS
  <2> QED BY <2>1, <2>2
<1>2. /\ Gradient[u][v] \in Int /\ Gradient[v][v] \in Int
      /\ Gradient[v][v] >= 0 /\ Gradient[u][v] <= Gradient[v][v]
  BY GradientAssumption
<1>3. NuclearPart(u, v) = k * Gradient[u][v] /\ NuclearPart(v, v) = k * Gradient[v][v]
  BY DEF NuclearPart, Current
<1> HIDE DEF k
<1>4. CASE k = 0
  BY <1>2, <1>3, <1>4
<1>5. CASE k # 0
  BY <1>1, <1>2, <1>3, <1>5, Scaled
<1> QED BY <1>4, <1>5

(* Planes and objectives. *)

LEMMA WorstRisks ==
  ASSUME TypeOK, NEW v \in Weights
  PROVE  WorstRisk(v) \in Int /\ WorstRisk(v) >= 0
<1> DEFINE a == [s \in Samples |-> Current.worst[s][v]]
<1>1. a \in [Samples -> Int] /\ \A s \in Samples : a[s] >= 0
  BY Problem
<1>2. Sum(a) \in Int /\ Sum(a) >= 0
  <2>1. \A s \in Samples : a[s] <= a[s]
    BY <1>1
  <2> HIDE DEF a
  <2> QED BY <1>1, <2>1, CuttingPlanesAssumption, SumMonotone
<1>3. WorstRisk(v) = 2 * C * Sum(a) + NuclearPart(v, v)
  BY DEF WorstRisk, Current
<1> HIDE DEF a
<1>4. 2 * C * Sum(a) \in Int /\ 2 * C * Sum(a) >= 0
  BY <1>2, Units, Scaled
<1> QED BY <1>3, <1>4, NuclearParts

(* A plane made of labellings that the oracle has found is nowhere above the
   worst risk, *)
LEMMA PlaneBelow ==
  ASSUME TypeOK, NEW labels \in [Samples -> Entries],
         \A s \in Samples : Known(s, labels[s]), NEW v \in Weights
  PROVE  Plane(labels)[v] \in Int /\ Plane(labels)[v] <= WorstRisk(v)
<1> DEFINE a == [s \in Samples |-> Value(s, labels[s], v)]
           b == [s \in Samples |-> Current.worst[s][v]]
<1>1. a \in [Samples -> Int] /\ b \in [Samples -> Int]
  BY Values, Problem
<1>2. \A s \in Samples : a[s] <= b[s]
  BY DEF Known
<1>3. Sum(a) \in Int /\ Sum(b) \in Int /\ Sum(a) <= Sum(b)
  <2> HIDE DEF a, b
  <2> QED BY <1>1, <1>2, CuttingPlanesAssumption, SumMonotone
<1>4. /\ Plane(labels)[v] = 2 * C * Sum(a) + NuclearPart(w, v)
      /\ WorstRisk(v) = 2 * C * Sum(b) + NuclearPart(v, v)
  BY DEF Plane, WorstRisk, Value, Current
<1> HIDE DEF a, b
<1>5. 2 * C * Sum(a) \in Int /\ 2 * C * Sum(b) \in Int /\ 2 * C * Sum(a) <= 2 * C * Sum(b)
  BY <1>3, Units, Scaled
<1> QED BY <1>4, <1>5, Problem, NuclearParts

(* and at the weights where the oracle found the worst labellings, or taken ones
   are no better, not below it. *)
LEMMA PlaneAbove ==
  ASSUME TypeOK, NEW labels \in [Samples -> Entries],
         \A s \in Samples : Current.worst[s][w] <= Value(s, labels[s], w)
  PROVE  Plane(labels)[w] \in Int /\ WorstRisk(w) <= Plane(labels)[w]
<1> DEFINE a == [s \in Samples |-> Value(s, labels[s], w)]
           b == [s \in Samples |-> Current.worst[s][w]]
<1>1. a \in [Samples -> Int] /\ b \in [Samples -> Int]
  BY Values, Problem
<1>2. \A s \in Samples : b[s] <= a[s]
  OBVIOUS
<1>3. Sum(a) \in Int /\ Sum(b) \in Int /\ Sum(b) <= Sum(a)
  <2> HIDE DEF a, b
  <2> QED BY <1>1, <1>2, CuttingPlanesAssumption, SumMonotone
<1>4. /\ Plane(labels)[w] = 2 * C * Sum(a) + NuclearPart(w, w)
      /\ WorstRisk(w) = 2 * C * Sum(b) + NuclearPart(w, w)
  BY Problem DEF Plane, WorstRisk, Value, Current
<1> HIDE DEF a, b
<1>5. 2 * C * Sum(a) \in Int /\ 2 * C * Sum(b) \in Int /\ 2 * C * Sum(b) <= 2 * C * Sum(a)
  BY <1>3, Units, Scaled
<1> QED BY <1>4, <1>5, Problem, NuclearParts

LEMMA Regular ==
  ASSUME NEW v \in Weights
  PROVE  Regularizer(v) \in Nat
<1>1. Cardinality(Samples) \in Nat /\ Norm[v] \in Nat
  BY CuttingPlanesAssumption, FS_CardinalityType
<1> QED BY <1>1 DEF Regularizer

LEMMA ObjectiveIsGreatest ==
  ASSUME TypeOK, IsFiniteSet(planes), planes # {}, NEW v \in Weights
  PROVE  /\ Objective(v) \in Int
         /\ \E p \in planes : Objective(v) = Regularizer(v) + p.value[v]
         /\ \A p \in planes : Objective(v) >= Regularizer(v) + p.value[v]
<1> DEFINE V == {p.value[v] : p \in planes}
<1>1. \A p \in planes : p.value[v] \in Int
  BY DEF TypeOK
<1>2. IsFiniteSet(V) /\ V # {} /\ \A x \in V : x \in Int
  <2>1. [p \in planes |-> p.value[v]] \in Surjection(planes, V)
    BY DEF Surjection
  <2>2. IsFiniteSet(V)
    BY <2>1, FS_Surjection
  <2> QED BY <2>2, <1>1
<1>3. Max(V) \in V /\ \A x \in V : Max(V) >= x
  <2> HIDE DEF V
  <2> QED BY <1>2, MaxIsGreatest
<1>4. Objective(v) = Regularizer(v) + Max(V)
  BY DEF Objective
<1>5. Regularizer(v) \in Int
  BY Regular
<1>6. PICK p \in planes : Max(V) = p.value[v]
  BY <1>3
<1>7. \A q \in planes : Max(V) >= q.value[v]
  BY <1>3
<1> HIDE DEF V
<1> QED BY <1>1, <1>4, <1>5, <1>6, <1>7

(* The least value of a function on the grid. *)
LEMMA LeastOnGrid ==
  ASSUME NEW f \in [Weights -> Int]
  PROVE  LET m == Min({f[v] : v \in Weights})
         IN  m \in Int /\ (\E v \in Weights : f[v] = m) /\ \A v \in Weights : m <= f[v]
<1> DEFINE V == {f[v] : v \in Weights}
<1>1. IsFiniteSet(V)
  <2>1. f \in Surjection(Weights, V)
    BY DEF Surjection
  <2> QED BY <2>1, CuttingPlanesAssumption, FS_Surjection
<1>2. V # {} /\ \A x \in V : x \in Int
  BY CuttingPlanesAssumption
<1>3. Min(V) \in V /\ \A x \in V : Min(V) <= x
  <2> HIDE DEF V
  <2> QED BY <1>1, <1>2, MinIsLeast
<1> QED BY <1>2, <1>3

LEMMA TrueObjectives ==
  ASSUME TypeOK
  PROVE  /\ \A v \in Weights : /\ TrueObjective(v) = Regularizer(v) + WorstRisk(v)
                                /\ TrueObjective(v) \in Int
         /\ TrueMinimum \in Int
         /\ \E v \in Weights : TrueMinimum = TrueObjective(v)
<1>1. \A v \in Weights : /\ TrueObjective(v) = Regularizer(v) + WorstRisk(v)
                         /\ TrueObjective(v) \in Int
  <2> TAKE v \in Weights
  <2>1. TrueObjective(v) = Regularizer(v) + WorstRisk(v)
    BY DEF TrueObjective
  <2> QED BY <2>1, Regular, WorstRisks
<1> DEFINE f == [v \in Weights |-> TrueObjective(v)]
<1>2. f \in [Weights -> Int] /\ TrueMinimum = Min({f[v] : v \in Weights})
  BY <1>1 DEF TrueMinimum
<1>3. TrueMinimum \in Int /\ \E v \in Weights : f[v] = TrueMinimum
  <2> HIDE DEF f
  <2> QED BY <1>2, LeastOnGrid
<1> QED BY <1>1, <1>3

-----------------------------------------------------------------------------
LEMMA InitIInv == Init => IInv
<1> SUFFICES ASSUME Init PROVE IInv
  OBVIOUS
<1>1. TypeOK
  <2>1. Given[problem] \in TrainingProblems /\ problem \in DOMAIN Problems
    BY CuttingPlanesAssumption DEF Init, Given
  <2>2. \A s \in Samples : Given[problem].truth[s] \in Labellings
    BY <2>1 DEF TrainingProblems
  <2>3. chosen \in [Samples -> Entries]
    BY <2>2 DEF Init, Truth, Entries, Losses
  <2>4. cache \in [Samples -> Caches] /\ \A s \in Samples : CacheInOrder(cache[s])
    BY CacheAssumption DEF Init, NewCache, Caches, CacheInOrder
  <2>5. planes \subseteq [value : [Weights -> Int], miss : 0..(InactiveThresh - 1)]
    BY CuttingPlanesAssumption DEF Init, FlatPlane
  <2>6. Given[problem].max_iterations \in Nat
    BY <2>1 DEF TrainingProblems
  <2>7. counter \in 0..Given[problem].max_iterations /\ count_below_eps \in 0..1
    BY <2>6 DEF Init
  <2>8. /\ pc \in {"risk", "status", "solve", "done"} /\ w \in Weights /\ cp_obj \in Int
        /\ saved_current_risk_gap \in Int /\ skip_cache \in BOOLEAN /\ converged \in BOOLEAN
    <3>1. /\ pc = "risk" /\ w \in Weights /\ cp_obj = 0 /\ saved_current_risk_gap = 0
          /\ skip_cache = TRUE /\ converged = FALSE
      BY CuttingPlanesAssumption DEF Init
    <3>2. TRUE \in BOOLEAN /\ FALSE \in BOOLEAN
      OBVIOUS
    <3>3. pc \in {"risk", "status", "solve", "done"} /\ cp_obj \in Int /\ saved_current_risk_gap \in Int
      BY <3>1, SMT
    <3>4. skip_cache \in BOOLEAN /\ converged \in BOOLEAN
      BY <3>1, <3>2, Zenon
    <3> QED BY <3>1, <3>3, <3>4, Zenon
  <2> QED BY <2>1, <2>3, <2>4, <2>5, <2>7, <2>8 DEF TypeOK
<1>2. Rounds
  BY DEF Init, Rounds
<1>3. KeptIsKnown
  BY DEF Init, NewCache, KeptIsKnown, Holding
<1>4. \A p \in planes : \A v \in Weights : p.value[v] = 0
  BY DEF Init, FlatPlane
<1>5. PlanesBelow
  <2>1. IsFiniteSet(planes)
    BY FS_Singleton DEF Init
  <2> QED BY <2>1, <1>1, <1>4, WorstRisks DEF PlanesBelow
<1>6. PlanesSupport
  BY <1>4, Regular DEF Init, PlanesSupport, Holds
<1>7. OracleHeard /\ TakenIsWorst /\ NearOptimal
  BY DEF Init, OracleHeard, TakenIsWorst, NearOptimal
<1>8. LowerBound
  <2>1. PICK v \in Weights : TrueMinimum = Regularizer(v) + WorstRisk(v)
    BY <1>1, TrueObjectives
  <2> QED BY <1>1, <2>1, Regular, WorstRisks DEF Init, LowerBound
<1> QED BY <1>1, <1>2, <1>3, <1>5, <1>6, <1>7, <1>8 DEF IInv

(* What the problem alone determines stays. *)
LEMMA SameProblem ==
  ASSUME problem' = problem
  PROVE  /\ Current' = Current /\ TrueMinimum' = TrueMinimum
         /\ \A s, e, v : Value(s, e, v)' = Value(s, e, v) /\ Known(s, e)' = Known(s, e)
         /\ \A v : WorstRisk(v)' = WorstRisk(v) /\ TrueObjective(v)' = TrueObjective(v)
BY DEF Current, TrueMinimum, TrueObjective, Value, Known, WorstRisk, NuclearPart,
       Regularizer, Given

(* A round asks for all samples. *)
LEMMA RiskStep == IInv /\ get_risk => IInv'
<1> SUFFICES ASSUME IInv, get_risk PROVE IInv'
  OBVIOUS
<1>1. PICK found \in [Samples -> UNION {Given[problem].oracle[s][w] : s \in Samples}] :
        /\ \A s \in Samples : found[s] \in Given[problem].oracle[s][w]
        /\ cache' = [s \in Samples |-> Call(s, found[s]).cache]
        /\ chosen' = [s \in Samples |-> Call(s, found[s]).out]
  BY DEF get_risk, Call
<1>2. /\ pc = "risk" /\ pc' = IF counter > 0 THEN "status" ELSE "solve"
      /\ planes' = planes \cup {[value |-> Plane(chosen'), miss |-> 0]}
      /\ UNCHANGED <<problem, w, cp_obj, counter, svm>>
  BY DEF get_risk
<1>3. TypeOK /\ ~converged
  BY <1>2 DEF IInv, Rounds
<1>4. \A s \in Samples :
        LET out == chosen'[s]
        IN  /\ out \in Entries /\ Kept(cache'[s])
            /\ found[s] \in Current.oracle[s][w]
            /\ \A e \in Holding(cache'[s]) \cup {out} :
                  e = Truth(s) \/ e = found[s] \/ e \in Holding(cache[s])
            /\ Value(s, out, w) >= 0
            /\ \A e \in Holding(cache'[s]) : Value(s, e, w) <= Value(s, out, w)
            /\ skip_cache => Value(s, found[s], w) <= Value(s, out, w)
  <2> TAKE s \in Samples
  <2>1. found[s] \in Current.oracle[s][w]
    BY <1>1 DEF Current
  <2>2. cache'[s] = Call(s, found[s]).cache /\ chosen'[s] = Call(s, found[s]).out
    BY <1>1
  <2> QED BY <2>1, <2>2, <1>3, CallKeeps
<1>5. \A s \in Samples : Known(s, Truth(s)) /\ Known(s, found[s])
  <2> TAKE s \in Samples
  <2>1. Known(s, Truth(s))
    <3>1. Truth(s) = [psi |-> Current.truth[s], loss |-> 0]
      BY DEF Truth, Current
    <3>2. \A v \in Weights : /\ Current.margin[s][Current.truth[s]][v] = 0
                             /\ Current.worst[s][v] >= 0
                             /\ Current.worst[s][v] \in Int
      BY <1>3, Problem
    <3> QED BY <3>1, <3>2 DEF Known, Value
  <2>2. Known(s, found[s])
    <3>1. found[s] \in Current.oracle[s][w] /\ w \in Weights
      BY <1>3, <1>4, Problem
    <3> QED BY <1>3, <3>1, Problem DEF Known, Value
  <2> QED BY <2>1, <2>2
<1>6. \A s \in Samples : \A e \in Holding(cache'[s]) \cup {chosen'[s]} : Known(s, e)
  BY <1>4, <1>5 DEF IInv, KeptIsKnown
<1>7. chosen' \in [Samples -> Entries]
  BY <1>1, <1>4
<1>8. \A v \in Weights : Plane(chosen')[v] \in Int /\ Plane(chosen')[v] <= WorstRisk(v)
  BY <1>3, <1>6, <1>7, PlaneBelow
<1>9. TypeOK'
  <2>1. cache' \in [Samples -> Caches] /\ \A s \in Samples : CacheInOrder(cache'[s])
    BY <1>1, <1>4 DEF Kept
  <2>2. Plane(chosen') \in [Weights -> Int]
    BY <1>8 DEF Plane
  <2>3. planes' \subseteq [value : [Weights -> Int], miss : 0..(InactiveThresh - 1)]
    BY <2>2, <1>2, <1>3, CuttingPlanesAssumption DEF TypeOK
  <2> QED BY <2>1, <2>3, <1>2, <1>3, <1>7 DEF TypeOK, svm
<1>10. Rounds'
  <2>1. Current' = Current /\ counter' = counter /\ converged' = converged
    BY <1>2, SameProblem DEF svm
  <2>2. counter \in 0..Current.max_iterations /\ Current.max_iterations \in Nat \ {0}
    BY <1>3, Problem DEF TypeOK, Current
  <2>3. pc' = "solve" => counter < Current.max_iterations
    BY <1>2, <2>2
  <2> QED BY <1>3, <2>1, <2>3 DEF Rounds
<1>11. KeptIsKnown'
  BY <1>2, <1>6, SameProblem DEF KeptIsKnown
<1>12. PlanesBelow'
  <2>1. IsFiniteSet(planes')
    BY <1>2, FS_AddElement DEF IInv, PlanesBelow
  <2>2. \A p \in planes' : \A v \in Weights : p.value[v] <= WorstRisk(v)
    BY <1>2, <1>8 DEF IInv, PlanesBelow
  <2> QED BY <2>1, <2>2, <1>2, SameProblem DEF PlanesBelow
<1>13. PlanesSupport'
  BY <1>2 DEF IInv, PlanesSupport, Holds, Regularizer
<1>14. OracleHeard'
  <2>1. skip_cache' = skip_cache /\ w' = w
    BY <1>2 DEF svm
  <2> QED BY <2>1, <1>2, <1>4, SameProblem DEF OracleHeard
<1>15. TakenIsWorst'
  BY <1>2, <1>4, SameProblem DEF TakenIsWorst
<1>16. LowerBound'
  BY <1>2, SameProblem DEF IInv, LowerBound
<1>17. NearOptimal'
  BY <1>2, <1>3 DEF NearOptimal, svm
<1> QED BY <1>9, <1>10, <1>11, <1>12, <1>13, <1>14, <1>15, <1>16, <1>17 DEF IInv

(* The decision to stop looks at the plane that was just added. *)
LEMMA StopStep == IInv /\ (OutOfIterations \/ Converge \/ CountBelow \/ GapTooBig) => IInv'
<1> SUFFICES ASSUME IInv, OutOfIterations \/ Converge \/ CountBelow \/ GapTooBig
             PROVE  IInv'
  OBVIOUS
<1>1. /\ pc = "status" /\ pc' \in {"solve", "done"}
      /\ UNCHANGED <<problem, w, cache, chosen, planes, cp_obj, counter>>
      /\ TypeOK /\ ~converged
  BY DEF IInv, Rounds, OutOfIterations, Converge, CountBelow, GapTooBig, Status
<1>2. RiskGap = Plane(chosen)[w] - (cp_obj - Regularizer(w)) /\ RiskGap \in Int
  <2> DEFINE a == [s \in Samples |-> Value(s, chosen[s], w)]
  <2>1. w \in Weights /\ cp_obj \in Int /\ Regularizer(w) \in Int /\ chosen \in [Samples -> Entries]
    BY <1>1, Regular DEF TypeOK
  <2>2. a \in [Samples -> Int] /\ \A s \in Samples : a[s] <= a[s]
    BY <1>1, <2>1, Values
  <2>3. Sum(a) \in Int
    <3> HIDE DEF a
    <3> QED BY <2>2, CuttingPlanesAssumption, SumMonotone
  <2>4. Plane(chosen)[w] = 2 * C * Sum(a) + NuclearPart(w, w)
    BY <2>1 DEF Plane, Value, Current
  <2> HIDE DEF a
  <2>5. 2 * C * Sum(a) \in Int /\ NuclearPart(w, w) \in Int
    BY <1>1, <2>1, <2>3, Units, Scaled, NuclearParts
  <2>6. Plane(chosen)[w] \in Int
    BY <2>4, <2>5
  <2> QED BY <2>1, <2>6 DEF RiskGap
<1>3. TypeOK'
  <2>1. /\ saved_current_risk_gap' \in Int /\ count_below_eps' \in 0..1
        /\ skip_cache' \in BOOLEAN /\ converged' \in BOOLEAN
    <3>1. CASE OutOfIterations
      BY <1>1, <3>1 DEF OutOfIterations, svm, TypeOK
    <3>2. CASE Converge
      BY <1>1, <1>2, <3>2 DEF Converge, Status, TypeOK
    <3>3. CASE CountBelow
      BY <1>1, <1>2, <3>3 DEF CountBelow, Status, TypeOK
    <3>4. CASE GapTooBig
      <4>1. /\ saved_current_risk_gap' = RiskGap /\ count_below_eps' = 0
            /\ skip_cache' = FALSE /\ converged' = converged
        BY <3>4 DEF GapTooBig, Status
      <4>2. converged \in BOOLEAN /\ FALSE \in BOOLEAN /\ 0 \in 0..1
        BY <1>1 DEF TypeOK
      <4> QED BY <4>1, <4>2, <1>2, Zenon
    <3> QED BY <3>1, <3>2, <3>3, <3>4
  <2> QED BY <1>1, <2>1 DEF TypeOK, CacheInOrder
<1>4. Rounds'
  <2>1. Current' = Current
    BY <1>1, SameProblem
  <2>2. converged' => pc' = "done"
    BY <1>1 DEF OutOfIterations, Converge, CountBelow, GapTooBig, svm
  <2>3. pc' = "solve" => counter < Current.max_iterations
    BY DEF OutOfIterations, Converge, CountBelow, GapTooBig, Status, Current
  <2> QED BY <1>1, <2>1, <2>2, <2>3 DEF Rounds
<1>5. KeptIsKnown' /\ PlanesBelow' /\ PlanesSupport' /\ LowerBound'
  <2>1. KeptIsKnown'
    BY <1>1, SameProblem DEF IInv, KeptIsKnown
  <2>2. PlanesBelow'
    BY <1>1, SameProblem DEF IInv, PlanesBelow
  <2>3. PlanesSupport'
    BY <1>1 DEF IInv, PlanesSupport, Holds, Regularizer
  <2>4. LowerBound'
    BY <1>1, SameProblem DEF IInv, LowerBound
  <2> QED BY <2>1, <2>2, <2>3, <2>4
<1>6. OracleHeard' /\ TakenIsWorst'
  BY <1>1 DEF OracleHeard, TakenIsWorst
<1>7. NearOptimal'
  <2> SUFFICES ASSUME converged', ExactAt(w)' PROVE TrueObjective(w)' - TrueMinimum' < Epsilon
    BY DEF NearOptimal
  <2>1. Converge
    BY <1>1 DEF OutOfIterations, Converge, CountBelow, GapTooBig, svm
  <2>2. RiskGap < Epsilon /\ skip_cache
    BY <2>1 DEF Converge, SmallOnTruth
  <2>3. \A s \in Samples : \A e \in Current.oracle[s][w] : Value(s, e, w) = Current.worst[s][w]
    BY <1>1 DEF ExactAt, Value, Current, Given
  <2>4. ASSUME NEW s \in Samples PROVE Current.worst[s][w] <= Value(s, chosen[s], w)
    <3>1. PICK e \in Current.oracle[s][w] : Value(s, e, w) <= Value(s, chosen[s], w)
      BY <1>1, <2>2 DEF IInv, OracleHeard
    <3> QED BY <2>3, <3>1
  <2>5. w \in Weights /\ chosen \in [Samples -> Entries] /\ cp_obj \in Int
    BY <1>1 DEF TypeOK
  <2>6. WorstRisk(w) <= Plane(chosen)[w] /\ Plane(chosen)[w] \in Int
    BY <1>1, <2>4, <2>5, PlaneAbove
  <2>7. /\ TrueObjective(w) = Regularizer(w) + WorstRisk(w)
        /\ WorstRisk(w) \in Int /\ Regularizer(w) \in Int
        /\ TrueMinimum \in Int /\ cp_obj <= TrueMinimum /\ Epsilon \in Int
    BY <1>1, <2>5, TrueObjectives, WorstRisks, Regular, CuttingPlanesAssumption
       DEF IInv, LowerBound
  <2>8. TrueObjective(w) - TrueMinimum < Epsilon
    BY <1>2, <2>2, <2>5, <2>6, <2>7
  <2>9. TrueObjective(w)' = TrueObjective(w) /\ TrueMinimum' = TrueMinimum
    BY <1>1, SameProblem DEF TrueObjective, Regularizer, Given
  <2> QED BY <2>8, <2>9
<1> QED BY <1>3, <1>4, <1>5, <1>6, <1>7 DEF IInv

-----------------------------------------------------------------------------
(* The new lower bound is the least of the objective, and the planes that stay
   support it. *)
LEMMA Solved ==
  ASSUME IInv, Solve
  PROVE  /\ cp_obj' \in Int /\ cp_obj' >= cp_obj /\ cp_obj' <= TrueMinimum
         /\ w' \in Weights
<1>1. TypeOK /\ IsFiniteSet(planes) /\ cp_obj \in Int
  BY DEF IInv, PlanesBelow, TypeOK
<1>2. \A v \in Weights : \E p \in planes : Regularizer(v) + p.value[v] >= cp_obj
  BY DEF IInv, PlanesSupport, Holds
<1>3. planes # {}
  BY <1>2, CuttingPlanesAssumption
<1>4. \A v \in Weights :
        /\ Objective(v) \in Int
        /\ \E p \in planes : Objective(v) = Regularizer(v) + p.value[v]
        /\ \A p \in planes : Objective(v) >= Regularizer(v) + p.value[v]
  BY <1>1, <1>3, ObjectiveIsGreatest
<1> DEFINE f == [v \in Weights |-> Objective(v)]
<1>5. /\ cp_obj' \in Int /\ \E v \in Weights : Objective(v) = cp_obj'
      /\ \A v \in Weights : cp_obj' <= Objective(v)
  <2>1. f \in [Weights -> Int] /\ cp_obj' = Min({f[v] : v \in Weights})
    BY <1>4 DEF Solve
  <2>2. cp_obj' \in Int /\ (\E v \in Weights : f[v] = cp_obj') /\ \A v \in Weights : cp_obj' <= f[v]
    <3> HIDE DEF f
    <3> QED BY <2>1, LeastOnGrid
  <2> QED BY <2>2
<1>6. w' \in Weights
  <2>1. w' = CHOOSE v \in Weights : Objective(v) = cp_obj'
    BY DEF Solve
  <2> QED BY <1>5, <2>1
<1>7. \A v \in Weights : \A p \in planes : p.value[v] \in Int /\ Regularizer(v) \in Int
  BY <1>1, Regular DEF TypeOK
<1>8. cp_obj' >= cp_obj
  <2>1. PICK v \in Weights : Objective(v) = cp_obj'
    BY <1>5
  <2>2. PICK p \in planes : Regularizer(v) + p.value[v] >= cp_obj
    BY <1>2
  <2>3. Objective(v) >= Regularizer(v) + p.value[v]
    BY <1>4
  <2> QED BY <2>1, <2>2, <2>3, <1>1, <1>5, <1>7
<1>9. cp_obj' <= TrueMinimum
  <2>1. PICK v \in Weights : TrueMinimum = TrueObjective(v)
    BY <1>1, TrueObjectives
  <2>2. TrueMinimum = Regularizer(v) + WorstRisk(v) /\ WorstRisk(v) \in Int
    BY <1>1, <2>1, TrueObjectives, WorstRisks
  <2>3. PICK p \in planes : Objective(v) = Regularizer(v) + p.value[v]
    BY <1>4
  <2>4. p.value[v] <= WorstRisk(v)
    BY DEF IInv, PlanesBelow
  <2>5. cp_obj' <= Objective(v)
    BY <1>5
  <2> QED BY <2>2, <2>3, <2>4, <2>5, <1>5, <1>7
<1> QED BY <1>5, <1>6, <1>8, <1>9

LEMMA SolveStep == IInv /\ Solve => IInv'
<1> SUFFICES ASSUME IInv, Solve PROVE IInv'
  OBVIOUS
<1>1. /\ pc = "solve" /\ pc' = "risk" /\ counter' = counter + 1
      /\ UNCHANGED <<problem, cache, chosen, svm>>
      /\ TypeOK /\ ~converged
  BY DEF IInv, Rounds, Solve
<1>2. PICK active \in SUBSET planes :
        /\ Holds(active, cp_obj')
        /\ planes' = {p \in {[q EXCEPT !.miss = Misses(q, q \in active)] : q \in planes} :
                        p.miss < InactiveThresh}
  BY DEF Solve, Supports
<1>3. cp_obj' \in Int /\ cp_obj' <= TrueMinimum /\ w' \in Weights
  BY Solved
<1>4. planes \subseteq [value : [Weights -> Int], miss : 0..(InactiveThresh - 1)]
      /\ InactiveThresh \in Nat \ {0}
  BY <1>1, CuttingPlanesAssumption DEF TypeOK
<1> DEFINE new(q) == [q EXCEPT !.miss = Misses(q, q \in active)]
<1>5. \A q \in planes :
        /\ new(q) \in [value : [Weights -> Int], miss : Nat] /\ new(q).value = q.value
        /\ q \in active => new(q).miss = 0
  BY <1>4 DEF Misses
<1>6. \A p \in planes' : \E q \in planes : p = new(q) /\ p.miss < InactiveThresh
  BY <1>2
<1>7. \A q \in active : new(q) \in planes'
  <2> TAKE q \in active
  <2>1. q \in planes /\ new(q).miss < InactiveThresh
    <3>1. q \in planes
      OBVIOUS
    <3>2. new(q).miss = 0
      BY <1>5, <3>1
    <3> HIDE DEF new
    <3> QED BY <1>4, <3>1, <3>2
  <2>2. new(q) \in {new(r) : r \in planes}
    BY <2>1
  <2> QED BY <1>2, <2>1, <2>2
<1> HIDE DEF new
<1>8. TypeOK'
  <2>1. planes' \subseteq [value : [Weights -> Int], miss : 0..(InactiveThresh - 1)]
    <3> SUFFICES ASSUME NEW p \in planes'
                 PROVE  p \in [value : [Weights -> Int], miss : 0..(InactiveThresh - 1)]
      OBVIOUS
    <3>1. p \in [value : [Weights -> Int], miss : Nat] /\ p.miss < InactiveThresh
      BY <1>5, <1>6
    <3>2. p.miss \in 0..(InactiveThresh - 1)
      BY <3>1, <1>4
    <3> QED BY <3>1, <3>2
  <2>2. counter' \in 0..Given[problem'].max_iterations
    <3>1. counter \in 0..Current.max_iterations /\ counter < Current.max_iterations
          /\ Current.max_iterations \in Nat
      BY <1>1, Problem DEF IInv, Rounds, TypeOK, Current
    <3> QED BY <1>1, <3>1 DEF Current
  <2> QED BY <1>1, <1>3, <2>1, <2>2 DEF TypeOK, svm, CacheInOrder
<1>9. Rounds'
  BY <1>1 DEF Rounds, svm
<1>10. KeptIsKnown'
  BY <1>1, SameProblem DEF IInv, KeptIsKnown
<1>11. PlanesBelow'
  <2>1. IsFiniteSet(planes')
    <3> DEFINE all == {new(q) : q \in planes}
    <3>1. [q \in planes |-> new(q)] \in Surjection(planes, all)
      BY DEF Surjection
    <3>2. IsFiniteSet(all)
      BY <3>1, FS_Surjection DEF IInv, PlanesBelow
    <3>3. planes' \in SUBSET all
      BY <1>6
    <3> QED BY <3>2, <3>3, FS_Subset
  <2>2. ASSUME NEW p \in planes', NEW v \in Weights PROVE p.value[v] <= WorstRisk(v)
    BY <1>5, <1>6 DEF IInv, PlanesBelow
  <2> QED BY <1>1, <2>1, <2>2, SameProblem DEF PlanesBelow
<1>12. PlanesSupport'
  <2>1. \A v \in Weights : \E q \in planes' : Regularizer(v) + q.value[v] >= cp_obj'
    <3> TAKE v \in Weights
    <3>1. PICK p \in active : Regularizer(v) + p.value[v] >= cp_obj'
      BY <1>2 DEF Holds
    <3>2. new(p) \in planes' /\ new(p).value = p.value
      BY <1>5, <1>7
    <3> QED BY <3>1, <3>2
  <2> QED BY <2>1 DEF PlanesSupport, Holds, Regularizer
<1>13. OracleHeard' /\ TakenIsWorst'
  BY <1>1 DEF OracleHeard, TakenIsWorst
<1>14. LowerBound'
  BY <1>1, <1>3, SameProblem DEF LowerBound
<1>15. NearOptimal'
  BY <1>1 DEF NearOptimal, svm
<1> QED BY <1>8, <1>9, <1>10, <1>11, <1>12, <1>13, <1>14, <1>15 DEF IInv

LEMMA NextIInv == IInv /\ [Next]_vars => IInv'
<1> SUFFICES ASSUME IInv, [Next]_vars PROVE IInv'
  OBVIOUS
<1>1. CASE Next
  BY <1>1, RiskStep, StopStep, SolveStep DEF Next
<1>2. CASE UNCHANGED vars
  <2>1. UNCHANGED <<pc, problem, w, cache, chosen, planes, cp_obj, counter,
                    saved_current_risk_gap, skip_cache, count_below_eps, converged>>
    BY <1>2 DEF vars, svm
  <2>2. TypeOK' /\ Rounds' /\ PlanesSupport'
    BY <2>1 DEF IInv, TypeOK, CacheInOrder, Rounds, Current, Given, PlanesSupport, Holds, Regularizer
  <2>3. KeptIsKnown' /\ PlanesBelow' /\ OracleHeard' /\ TakenIsWorst' /\ LowerBound'
    BY <2>1, SameProblem DEF IInv, KeptIsKnown, PlanesBelow, OracleHeard, TakenIsWorst, LowerBound
  <2>4. NearOptimal'
    <3>1. ExactAt(w)' = ExactAt(w)
      BY <2>1 DEF ExactAt, Given
    <3>2. TrueObjective(w)' = TrueObjective(w) /\ TrueMinimum' = TrueMinimum
      BY <2>1, SameProblem DEF TrueObjective, Regularizer, Given
    <3> QED BY <2>1, <3>1, <3>2 DEF IInv, NearOptimal
  <2> QED BY <2>2, <2>3, <2>4 DEF IInv
<1> QED BY <1>1, <1>2

LEMMA Inductive == Spec => []IInv
BY InitIInv, NextIInv, PTL DEF Spec

-----------------------------------------------------------------------------
(* Whatever the training set, the oracle and the grid: the variables keep their
   types, no cache outgrows its limit, its arrays stay in step and its entries'
   last uses differ, and at most one small gap in a row is counted. *)
THEOREM TypeCorrect == Spec => []TypeOK
<1>1. IInv => TypeOK
  BY DEF IInv
<1> QED BY Inductive, <1>1, PTL

(* However the oracle errs and whenever the cache answers for it, no kept
   labelling and not the truth is worse at w than the one taken for a plane. *)
THEOREM TheWorstIsTaken == Spec => []ChosenIsWorst
<1>1. ASSUME IInv PROVE ChosenIsWorst
  <2> SUFFICES ASSUME pc = "status", NEW s \in Samples
               PROVE  /\ Risk(s, chosen[s], w) >= 0
                      /\ \A i \in DOMAIN cache[s].data :
                           Risk(s, cache[s].data[i], w) <= Risk(s, chosen[s], w)
    BY DEF ChosenIsWorst
  <2>1. TypeOK /\ w \in Weights /\ chosen[s] \in Entries
    BY <1>1 DEF IInv, TypeOK
  <2>2. Kept(cache[s])
    BY <2>1 DEF TypeOK, Kept
  <2>3. Value(s, chosen[s], w) \in Int /\ Risk(s, chosen[s], w) = Unit * Value(s, chosen[s], w)
        /\ Value(s, chosen[s], w) >= 0
    BY <1>1, <2>1, Values DEF IInv, TakenIsWorst
  <2>4. Risk(s, chosen[s], w) >= 0
    BY <2>3, Units, Scaled
  <2>5. ASSUME NEW i \in DOMAIN cache[s].data
        PROVE  Risk(s, cache[s].data[i], w) <= Risk(s, chosen[s], w)
    <3> DEFINE e == cache[s].data[i]
    <3>1. e \in Entries /\ e \in Holding(cache[s])
      <4>1. DOMAIN cache[s].data = 1..Len(cache[s].data) /\ cache[s].data \in Seq(Entries)
        BY <2>2, KeptArrays
      <4> QED BY <4>1 DEF Holding
    <3> HIDE DEF e
    <3>2. Value(s, e, w) <= Value(s, chosen[s], w)
      BY <1>1, <3>1 DEF IInv, TakenIsWorst
    <3>3. Value(s, e, w) \in Int /\ Risk(s, e, w) = Unit * Value(s, e, w)
      BY <2>1, <3>1, Values
    <3>4. Risk(s, e, w) <= Risk(s, chosen[s], w)
      BY <2>3, <3>2, <3>3, Units, Scaled
    <3> QED BY <3>4 DEF e
  <2> QED BY <2>4, <2>5
<1> QED BY Inductive, <1>1, PTL

(* The minimum over the planes never exceeds that of the training problem,
   though planes are made of what an approximate oracle or its cache offers. *)
THEOREM MinimumIsBelow == Spec => []LowerBound
<1>1. IInv => LowerBound
  BY DEF IInv
<1> QED BY Inductive, <1>1, PTL

(* The lower bound never falls, though planes that were inactive for long are
   dropped, the flat one among them; nor does it rise above the minimum that it
   is to bound, though the oracle and its cache may miss the worst labellings. *)
THEOREM BoundNeverFalls == Spec => LowerBoundRises
<1>1. ASSUME IInv, [Next]_vars PROVE [cp_obj <= cp_obj']_vars
  <2>1. cp_obj \in Int
    BY <1>1 DEF IInv, TypeOK
  <2>2. CASE Solve
    BY <1>1, <2>2, Solved
  <2>3. CASE Next /\ ~Solve
    <3>1. cp_obj' = cp_obj
      BY <2>3 DEF Next, get_risk, OutOfIterations, Converge, CountBelow, GapTooBig, Status
    <3> QED BY <2>1, <3>1
  <2> QED BY <1>1, <2>2, <2>3
<1> QED BY Inductive, MinimumIsBelow, <1>1, PTL DEF Spec, LowerBoundRises

(* Training that stops by its gap ends within epsilon of the optimum, if the
   oracle is exact at the weights where it stops, however it erred and however
   old the cache's answers were before. *)
THEOREM StopsNearOptimum == Spec => []NearOptimal
<1>1. IInv => NearOptimal
  BY DEF IInv
<1> QED BY Inductive, <1>1, PTL

(* What the oracle answers at w, whichever images are trained on, is a permitted
   labelling with its loss, nowhere worse than the worst one, and the worst one
   where nothing hinders the two greedy passes (separation_oracle). *)
THEOREM GreedyFindsWorst == Spec => []GreedyIsExact
<1>1. Spec => []TypeOK
  BY TypeCorrect
<1> QED BY <1>1, GreedyIs, PTL

-----------------------------------------------------------------------------
(* Gaps, and what a cache remembers.  Between a solution and the next decision
   every older plane is at most the lower bound at w, where one of them meets
   it; and the labelling taken last is the truth or the cache's newest. *)
OldPlanes ==
  pc = "risk" /\ counter > 0 =>
    \A p \in planes : Regularizer(w) + p.value[w] <= cp_obj
NewPlane ==
  pc = "status" =>
    /\ \A p \in planes :
         p.value # Plane(chosen) => Regularizer(w) + p.value[w] <= cp_obj
    /\ RiskGap > 0 =>
         \E p \in planes : Regularizer(w) + p.value[w] = cp_obj
ChosenIsNewest ==
  \A s \in Samples : chosen[s] = Truth(s) \/ Newest(cache[s], chosen[s])

GInv == IInv /\ OldPlanes /\ NewPlane /\ ChosenIsNewest

LEMMA PlaneIs ==
  ASSUME TypeOK, NEW labels \in [Samples -> Entries]
  PROVE  /\ Plane(labels) \in [Weights -> Int]
         /\ (\A s \in Samples : Value(s, labels[s], w) >= 0) => Plane(labels)[w] >= 0
<1>1. ASSUME NEW v \in Weights
      PROVE  /\ Plane(labels)[v] \in Int
             /\ (\A s \in Samples : Value(s, labels[s], v) >= 0)
                  => Plane(labels)[v] >= NuclearPart(w, v)
  <2> DEFINE a == [s \in Samples |-> Value(s, labels[s], v)]
  <2>1. a \in [Samples -> Int] /\ \A s \in Samples : a[s] <= a[s]
    BY Values
  <2>2. Sum(a) \in Int /\ ((\A s \in Samples : a[s] >= 0) => Sum(a) >= 0)
    <3> HIDE DEF a
    <3> QED BY <2>1, CuttingPlanesAssumption, SumMonotone
  <2>3. Plane(labels)[v] = 2 * C * Sum(a) + NuclearPart(w, v)
    BY DEF Plane, Value, Current
  <2>4. (\A s \in Samples : Value(s, labels[s], v) >= 0) => \A s \in Samples : a[s] >= 0
    OBVIOUS
  <2> HIDE DEF a
  <2>5. 2 * C * Sum(a) \in Int /\ ((\A s \in Samples : a[s] >= 0) => 2 * C * Sum(a) >= 0)
    BY <2>2, Units, Scaled
  <2>6. NuclearPart(w, v) \in Int
    BY Problem, NuclearParts
  <2> QED BY <2>3, <2>4, <2>5, <2>6
<1>2. Plane(labels) = [v \in Weights |-> Plane(labels)[v]]
  BY DEF Plane
<1>3. w \in Weights /\ NuclearPart(w, w) \in Int /\ NuclearPart(w, w) >= 0
  BY Problem, NuclearParts
<1> QED BY <1>1, <1>2, <1>3

LEMMA GapIs ==
  ASSUME TypeOK
  PROVE  /\ RiskGap = Plane(chosen)[w] - (cp_obj - Regularizer(w)) /\ RiskGap \in Int
         /\ Plane(chosen)[w] \in Int /\ cp_obj \in Int /\ Regularizer(w) \in Int
         /\ \A p \in planes : p.value[w] \in Int
<1>1. w \in Weights /\ cp_obj \in Int /\ Regularizer(w) \in Int /\ chosen \in [Samples -> Entries]
  BY Regular DEF TypeOK
<1>2. Plane(chosen)[w] \in Int
  BY <1>1, PlaneIs
<1>3. \A p \in planes : p.value[w] \in Int
  BY <1>1 DEF TypeOK
<1> QED BY <1>1, <1>2, <1>3 DEF RiskGap

LEMMA GainIs == GInv => GapIsGain
<1> SUFFICES ASSUME GInv, pc = "status", RiskGap > 0
             PROVE  /\ \A p \in planes : p.value # Plane(chosen) =>
                         p.value[w] + RiskGap <= Plane(chosen)[w]
                    /\ \E p \in planes : /\ p.value # Plane(chosen)
                                         /\ p.value[w] + RiskGap = Plane(chosen)[w]
  BY DEF GapIsGain
<1>1. TypeOK
  BY DEF GInv, IInv
<1>2. ASSUME NEW p \in planes, p.value # Plane(chosen)
      PROVE  p.value[w] + RiskGap <= Plane(chosen)[w]
  <2>1. Regularizer(w) + p.value[w] <= cp_obj
    BY <1>2 DEF GInv, NewPlane
  <2> QED BY <1>1, <2>1, GapIs
<1>3. PICK p \in planes : Regularizer(w) + p.value[w] = cp_obj
  BY DEF GInv, NewPlane
<1>4. p.value[w] + RiskGap = Plane(chosen)[w] /\ p.value[w] # Plane(chosen)[w]
  BY <1>1, <1>3, GapIs
<1> QED BY <1>2, <1>4

(* What a call leaves in a cache. *)
LEMMA CallRemembers ==
  ASSUME TypeOK, NEW s \in Samples, NEW found \in Current.oracle[s][w], ~converged
  PROVE  LET out == Call(s, found).out
             after == Call(s, found).cache
         IN  /\ out = Truth(s) \/ Newest(after, out)
             /\ \A old : Newest(cache[s], old) /\ MaxCacheSize > 1 =>
                           old \in Holding(after)
<1> DEFINE c == cache[s]
           n == Len(c.data)
           r == Risks(s)
           b == Best(r)
           risk == Risk(s, found, w)
           now == [c EXCEPT !.last = risk]
<1>1. Kept(c) /\ found \in Entries /\ w \in Weights
  BY Problem DEF TypeOK, Kept
<1>2. n \in Nat /\ DOMAIN c.data = 1..n /\ \A i \in 1..n : c.data[i] \in Entries
  <2>1. n \in Nat /\ DOMAIN c.data = 1..n /\ c.data \in Seq(Entries)
    BY <1>1, KeptArrays
  <2> QED BY <2>1
<1>3. risk \in Int /\ \A i \in 1..n : Risk(s, c.data[i], w) \in Int
  BY <1>1, <1>2, Values, Units, Scaled
<1>4. /\ DOMAIN r = 1..n /\ (r = <<>> <=> n = 0) /\ \A i \in 1..n : r[i] \in Int
  <2>1. r = [i \in 1..n |-> Risk(s, c.data[i], w)]
    BY <1>2 DEF Risks
  <2> HIDE DEF c, n
  <2>2. r = <<>> <=> n = 0
    BY <2>1, <1>2
  <2> QED BY <2>1, <2>2, <1>3
<1>5. r # <<>> => b \in 1..n
  <2> HIDE DEF c, n, r
  <2> QED BY <1>2, <1>4, BestIsBest
<1>6. /\ Kept(now) /\ now.data = c.data /\ now.lru = c.lru
      /\ \A old : Newest(c, old) => Newest(now, old)
  <2>1. now \in Caches /\ now.data = c.data /\ now.lru = c.lru
    BY <1>1, <1>3 DEF Kept, Caches
  <2> HIDE DEF now
  <2> QED BY <2>1, <1>1 DEF Kept, CacheInOrder, Newest
<1>7. \A old : Newest(c, old) => old \in Holding(c)
  BY DEF Newest, Holding
<1> DEFINE out == Call(s, found).out
           after == Call(s, found).cache
           Goal == /\ out = Truth(s) \/ Newest(after, out)
                   /\ \A old : Newest(c, old) /\ MaxCacheSize > 1 => old \in Holding(after)
<1> SUFFICES Goal
  OBVIOUS
<1> HIDE DEF c, n, r, b, risk, now
<1>8. CASE CacheAnswers(c, converged, skip_cache, saved_current_risk_gap, r)
  <2>1. r # <<>>
    BY <1>8 DEF CacheAnswers, GoodEnough
  <2>2. out = c.data[b] /\ after = Use(c, b)
    BY <1>8 DEF Call, separation_oracle_cached, c, r, b
  <2>3. b \in 1..Len(c.data)
    BY <2>1, <1>5 DEF n
  <2>4. Newest(Use(c, b), c.data[b]) /\ Use(c, b).data = c.data
    BY <2>3, <1>1, UsedIsNewest, UseKeeps
  <2> HIDE DEF out, after
  <2> QED BY <2>2, <2>4, <1>7 DEF Holding
<1>9. CASE ~CacheAnswers(c, converged, skip_cache, saved_current_risk_gap, r)
  <2>1. Call(s, found) = AfterOracle(c, r, found, risk, Truth(s))
    BY <1>9 DEF Call, separation_oracle_cached, c, r, risk
  <2>2. CASE Hopeless(r, risk)
    <3>1. out = Truth(s) /\ after = now
      BY <2>1, <2>2 DEF AfterOracle, now
    <3> HIDE DEF out, after
    <3> QED BY <3>1, <1>6, <1>7 DEF Holding
  <2>3. CASE ~Hopeless(r, risk) /\ Beaten(r, risk)
    <3>1. out = c.data[b] /\ after = Use(now, b)
      BY <2>1, <2>3 DEF AfterOracle, now, b
    <3>2. b \in 1..Len(now.data)
      BY <2>3, <1>5, <1>6 DEF Beaten, n
    <3>3. Newest(Use(now, b), now.data[b]) /\ Use(now, b).data = now.data
      BY <3>2, <1>6, UsedIsNewest, UseKeeps
    <3> HIDE DEF out, after
    <3> QED BY <3>1, <3>3, <1>6, <1>7 DEF Holding
  <2>4. CASE ~Hopeless(r, risk) /\ ~Beaten(r, risk)
    <3>1. out = found /\ after = Keep(now, found)
      BY <2>1, <2>4 DEF AfterOracle, now
    <3>2. /\ Newest(Keep(now, found), found)
          /\ \A old : Newest(now, old) /\ MaxCacheSize > 1 => old \in Holding(Keep(now, found))
      BY <1>1, <1>6, KeptIsNewest
    <3> HIDE DEF out, after
    <3> QED BY <3>1, <3>2, <1>6
  <2> QED BY <2>2, <2>3, <2>4
<1> QED BY <1>8, <1>9

(* No plane is above the minimum at its place, before and after some go. *)
LEMMA SolutionIsLowest ==
  ASSUME IInv, Solve
  PROVE  /\ \A p \in planes : Regularizer(w') + p.value[w'] <= cp_obj'
         /\ \A p \in planes' : Regularizer(w') + p.value[w'] <= cp_obj'
         /\ {p.value : p \in planes'} \subseteq {p.value : p \in planes}
<1>1. TypeOK /\ IsFiniteSet(planes)
  BY DEF IInv, PlanesBelow
<1>2. planes # {}
  BY CuttingPlanesAssumption DEF IInv, PlanesSupport, Holds
<1>3. \A v \in Weights :
        /\ Objective(v) \in Int
        /\ \A p \in planes : Objective(v) >= Regularizer(v) + p.value[v]
  BY <1>1, <1>2, ObjectiveIsGreatest
<1> DEFINE f == [v \in Weights |-> Objective(v)]
<1>4. \E v \in Weights : Objective(v) = cp_obj'
  <2>1. f \in [Weights -> Int] /\ cp_obj' = Min({f[v] : v \in Weights})
    BY <1>3 DEF Solve
  <2>2. \E v \in Weights : f[v] = cp_obj'
    <3> HIDE DEF f
    <3> QED BY <2>1, LeastOnGrid
  <2> QED BY <2>2
<1>5. w' \in Weights /\ Objective(w') = cp_obj'
  <2>1. w' = CHOOSE v \in Weights : Objective(v) = cp_obj'
    BY DEF Solve
  <2> QED BY <1>4, <2>1
<1>6. \A p \in planes : Regularizer(w') + p.value[w'] <= cp_obj'
  <2>1. \A p \in planes : Regularizer(w') + p.value[w'] \in Int
    BY <1>1, <1>5, Regular DEF TypeOK
  <2> QED BY <2>1, <1>3, <1>5
<1>7. \A p \in planes' : \E q \in planes : p.value = q.value
  <2>1. PICK active \in SUBSET planes :
          planes' = {p \in {[q EXCEPT !.miss = Misses(q, q \in active)] : q \in planes} :
                       p.miss < InactiveThresh}
    BY DEF Solve
  <2> SUFFICES ASSUME NEW p \in planes' PROVE \E q \in planes : p.value = q.value
    OBVIOUS
  <2>2. PICK q \in planes : p = [q EXCEPT !.miss = Misses(q, q \in active)]
    BY <2>1
  <2>3. q \in [value : [Weights -> Int], miss : 0..(InactiveThresh - 1)]
    BY <1>1 DEF TypeOK
  <2> QED BY <2>2, <2>3
<1> QED BY <1>6, <1>7

LEMMA GStep == GInv /\ IInv' /\ Next => GInv'
<1> SUFFICES ASSUME GInv, IInv', Next PROVE OldPlanes' /\ NewPlane' /\ ChosenIsNewest'
  BY DEF GInv
<1>1. TypeOK /\ PlanesSupport /\ w \in Weights
  BY DEF GInv, IInv, TypeOK
<1>2. CASE get_risk
  <2>1. PICK found \in [Samples -> UNION {Given[problem].oracle[s][w] : s \in Samples}] :
          /\ \A s \in Samples : found[s] \in Given[problem].oracle[s][w]
          /\ cache' = [s \in Samples |-> Call(s, found[s]).cache]
          /\ chosen' = [s \in Samples |-> Call(s, found[s]).out]
    BY <1>2 DEF get_risk, Call
  <2>2. /\ pc = "risk" /\ pc' = IF counter > 0 THEN "status" ELSE "solve"
        /\ planes' = planes \cup {[value |-> Plane(chosen'), miss |-> 0]}
        /\ UNCHANGED <<problem, w, cp_obj, counter>>
    BY <1>2 DEF get_risk
  <2>3. ~converged
    BY <2>2 DEF GInv, IInv, Rounds
  <2>4. Plane(chosen)' = Plane(chosen') /\ Regularizer(w)' = Regularizer(w)
    BY <2>2 DEF Plane, NuclearPart, Given, Regularizer
  <2>5. OldPlanes'
    BY <2>2 DEF OldPlanes
  <2>6. NewPlane'
    <3> SUFFICES ASSUME pc' = "status"
                 PROVE  /\ \A p \in planes' : p.value # Plane(chosen') =>
                             Regularizer(w) + p.value[w] <= cp_obj
                        /\ RiskGap' > 0 => \E p \in planes' : Regularizer(w) + p.value[w] = cp_obj
      BY <2>2, <2>4 DEF NewPlane
    <3>1. \A p \in planes : Regularizer(w) + p.value[w] <= cp_obj
      BY <2>2 DEF GInv, OldPlanes
    <3>2. PICK p \in planes : Regularizer(w) + p.value[w] >= cp_obj
      BY <1>1 DEF PlanesSupport, Holds
    <3>3. Regularizer(w) + p.value[w] = cp_obj
      BY <3>1, <3>2, <1>1, GapIs
    <3> QED BY <3>1, <3>3, <2>2
  <2>7. ASSUME NEW s \in Samples
        PROVE  chosen'[s] = Truth(s)' \/ Newest(cache'[s], chosen'[s])
    <3>1. found[s] \in Current.oracle[s][w] /\ Truth(s)' = Truth(s)
      BY <2>1, <2>2 DEF Current, Truth, Given
    <3>2. cache'[s] = Call(s, found[s]).cache /\ chosen'[s] = Call(s, found[s]).out
      BY <2>1
    <3> QED BY <3>1, <3>2, <1>1, <2>3, CallRemembers
  <2> QED BY <2>5, <2>6, <2>7 DEF ChosenIsNewest
<1>3. CASE OutOfIterations \/ Converge \/ CountBelow \/ GapTooBig
  <2>1. pc' \in {"solve", "done"} /\ UNCHANGED <<problem, cache, chosen>>
    BY <1>3 DEF OutOfIterations, Converge, CountBelow, GapTooBig, Status
  <2> QED BY <2>1 DEF GInv, OldPlanes, NewPlane, ChosenIsNewest, Truth, Given
<1>4. CASE Solve
  <2>1. pc' = "risk" /\ UNCHANGED <<problem, cache, chosen>>
    BY <1>4 DEF Solve
  <2>2. \A p \in planes' : Regularizer(w') + p.value[w'] <= cp_obj'
    BY <1>4, SolutionIsLowest DEF GInv
  <2>3. OldPlanes'
    BY <2>2 DEF OldPlanes, Regularizer
  <2> QED BY <2>1, <2>3 DEF GInv, NewPlane, ChosenIsNewest, Truth, Given
<1> QED BY <1>2, <1>3, <1>4 DEF Next

LEMMA GInvHolds == Spec => []GInv
<1>1. Init => GInv
  <2> SUFFICES ASSUME Init PROVE OldPlanes /\ NewPlane /\ ChosenIsNewest
    BY InitIInv DEF GInv
  <2>1. pc = "risk" /\ counter = 0 /\ chosen = [s \in Samples |-> Truth(s)]
    BY DEF Init
  <2> QED BY <2>1 DEF OldPlanes, NewPlane, ChosenIsNewest
<1>2. GInv /\ [Next]_vars => GInv'
  <2> SUFFICES ASSUME GInv, [Next]_vars PROVE GInv'
    OBVIOUS
  <2>1. IInv'
    BY NextIInv DEF GInv
  <2>2. CASE Next
    BY <2>1, <2>2, GStep
  <2>3. CASE UNCHANGED vars
    <3>1. UNCHANGED <<pc, problem, w, cache, chosen, planes, cp_obj, counter>>
      BY <2>3 DEF vars
    <3>2. /\ Plane(chosen)' = Plane(chosen) /\ Regularizer(w)' = Regularizer(w)
          /\ RiskGap' = RiskGap /\ \A s : Truth(s)' = Truth(s)
      BY <3>1 DEF Plane, NuclearPart, Given, Regularizer, RiskGap, Truth
    <3> QED BY <2>1, <3>1, <3>2 DEF GInv, OldPlanes, NewPlane, ChosenIsNewest
  <2> QED BY <2>2, <2>3
<1> QED BY <1>1, <1>2, PTL DEF Spec

(* A positive gap is just what the newest plane adds at w to those that are left,
   however many went and wherever the labellings came from: no plane is made
   twice by a round that goes on for its gap. *)
THEOREM GapsAreGains == Spec => []GapIsGain
BY GInvHolds, GainIs, PTL

(* The labellings taken in the last two rounds are both in the cache, if it holds
   two, or the truth: the full cache never replaces the one used last. *)
THEOREM LatestAreKept == Spec => LatestStay
<1> DEFINE Stay == \A s \in Samples :
                     LET kept == ToSet(cache'[s].data) \cup {Truth(s)}
                     IN  /\ chosen'[s] \in kept
                         /\ MaxCacheSize > 1 => chosen[s] \in kept
<1>1. ASSUME GInv, GInv', [Next]_vars PROVE [Stay]_vars
  <2> SUFFICES ASSUME Next, NEW s \in Samples
               PROVE  /\ chosen'[s] \in Holding(cache'[s]) \cup {Truth(s)}
                      /\ MaxCacheSize > 1 => chosen[s] \in Holding(cache'[s]) \cup {Truth(s)}
    <3>1. \A s \in Samples : ToSet(cache'[s].data) = Holding(cache'[s])
      BY DEF ToSet, Holding
    <3> QED BY <1>1, <3>1
  <2>1. problem' = problem
    BY DEF Next, get_risk, OutOfIterations, Converge, CountBelow, GapTooBig, Status, Solve
  <2>2. Truth(s)' = Truth(s)
    BY <2>1 DEF Truth, Given
  <2>3. chosen'[s] \in Holding(cache'[s]) \cup {Truth(s)}
    BY <1>1, <2>2 DEF GInv, ChosenIsNewest, Newest, Holding
  <2>4. chosen[s] = Truth(s) \/ Newest(cache[s], chosen[s])
    BY <1>1 DEF GInv, ChosenIsNewest
  <2>5. CASE get_risk
    <3>1. PICK found \in [Samples -> UNION {Given[problem].oracle[t][w] : t \in Samples}] :
            /\ \A t \in Samples : found[t] \in Given[problem].oracle[t][w]
            /\ cache' = [t \in Samples |-> Call(t, found[t]).cache]
      BY <2>5 DEF get_risk, Call
    <3>2. found[s] \in Current.oracle[s][w] /\ cache'[s] = Call(s, found[s]).cache
      BY <3>1 DEF Current
    <3>3. TypeOK /\ ~converged
      BY <1>1, <2>5 DEF get_risk, GInv, IInv, Rounds
    <3>4. Newest(cache[s], chosen[s]) /\ MaxCacheSize > 1 => chosen[s] \in Holding(cache'[s])
      BY <3>2, <3>3, CallRemembers
    <3> QED BY <2>3, <2>4, <3>4
  <2>6. CASE ~get_risk
    <3>1. UNCHANGED <<cache, chosen>>
      BY <2>6 DEF Next, OutOfIterations, Converge, CountBelow, GapTooBig, Status, Solve
    <3> QED BY <2>3, <3>1
  <2> QED BY <2>5, <2>6
<1> HIDE DEF Stay
<1>2. Spec => [][Stay]_vars
  BY GInvHolds, <1>1, PTL DEF Spec
<1> QED BY <1>2 DEF LatestStay, Stay

-----------------------------------------------------------------------------
(* The refinement. *)
LEMMA MapIs ==
  /\ Method!Planes = [Weights -> Int]
  /\ \A v \in Weights : [u \in Weights |-> Regularizer(u)][v] = Regularizer(v)
BY DEF Method!Planes

LatestIsPlane == Plane(chosen) \in [Weights -> Int]
LEMMA LatestPlane == TypeOK => LatestIsPlane
BY PlaneIs DEF TypeOK, LatestIsPlane

LEMMA MethodStarts == Init => Method!Init
<1> SUFFICES ASSUME Init PROVE Method!Init
  OBVIOUS
<1>1. TypeOK /\ pc = "risk" /\ w = Zero /\ cp_obj = 0
  BY InitIInv DEF Init, IInv
<1>2. Plane(chosen) \in [Weights -> Int]
  BY <1>1, PlaneIs DEF TypeOK
<1>3. \A v \in Weights : WorstRisk(v) \in Nat
  BY <1>1, WorstRisks
<1>4. {p.value : p \in planes} = {FlatPlane}
  BY DEF Init
<1> QED BY <1>1, <1>2, <1>3, <1>4, MapIs DEF Method!Init, WorstRisk, Current, FlatPlane

LEMMA CutMaps == GInv /\ IInv' /\ get_risk => Method!Cut
<1> SUFFICES ASSUME GInv, IInv', get_risk PROVE Method!Cut
  OBVIOUS
<1>1. PICK found \in [Samples -> UNION {Given[problem].oracle[s][w] : s \in Samples}] :
        /\ \A s \in Samples : found[s] \in Given[problem].oracle[s][w]
        /\ chosen' = [s \in Samples |-> Call(s, found[s]).out]
  BY DEF get_risk, Call
<1>2. /\ pc = "risk" /\ pc' \in {"status", "solve"}
      /\ planes' = planes \cup {[value |-> Plane(chosen'), miss |-> 0]}
      /\ UNCHANGED <<problem, w, cp_obj>>
      /\ TypeOK /\ ~converged /\ w \in Weights /\ chosen' \in [Samples -> Entries]
  BY DEF get_risk, GInv, IInv, Rounds, TypeOK
<1>3. Plane(chosen)' = Plane(chosen') /\ \A v : Regularizer(v)' = Regularizer(v)
  BY <1>2 DEF Plane, NuclearPart, Given, Regularizer
<1>4. {p.value : p \in planes'} = {p.value : p \in planes} \cup {Plane(chosen')}
  <2> DEFINE new == [value |-> Plane(chosen'), miss |-> 0]
  <2>1. new.value = Plane(chosen') /\ planes' = planes \cup {new}
    BY <1>2
  <2> HIDE DEF new
  <2> QED BY <2>1
<1>5. Plane(chosen') \in [Weights -> Int]
  BY <1>2, PlaneIs
<1>6. \A v \in Weights : Plane(chosen')[v] <= WorstRisk(v)
  <2>1. [value |-> Plane(chosen'), miss |-> 0] \in planes'
    BY <1>2
  <2> QED BY <2>1, <1>2, SameProblem DEF IInv, PlanesBelow
<1>7. Plane(chosen')[w] >= 0
  <2>1. ASSUME NEW s \in Samples PROVE Value(s, chosen'[s], w) >= 0
    <3>1. found[s] \in Current.oracle[s][w] /\ chosen'[s] = Call(s, found[s]).out
      BY <1>1 DEF Current
    <3> QED BY <3>1, <1>2, CallKeeps
  <2> QED BY <2>1, <1>2, PlaneIs
<1>8. ASSUME pc' = "status", skip_cache', ExactAt(w)'
      PROVE  Plane(chosen')[w] = WorstRisk(w)
  <2>1. \A s \in Samples : \A e \in Current.oracle[s][w] : Value(s, e, w) = Current.worst[s][w]
    BY <1>2, <1>8 DEF ExactAt, Value, Current, Given
  <2>2. ASSUME NEW s \in Samples PROVE Current.worst[s][w] <= Value(s, chosen'[s], w)
    <3>1. PICK e \in Current.oracle[s][w] : Value(s, e, w) <= Value(s, chosen'[s], w)
      BY <1>2, <1>8, SameProblem DEF IInv, OracleHeard
    <3> QED BY <2>1, <3>1
  <2>3. WorstRisk(w) <= Plane(chosen')[w]
    BY <1>2, <2>2, PlaneAbove
  <2> QED BY <2>3, <1>2, <1>5, <1>6, WorstRisks
<1> QED BY <1>2, <1>3, <1>4, <1>5, <1>6, <1>7, <1>8, MapIs, SameProblem
        DEF Method!Cut, WorstRisk, Current

LEMMA DecisionMaps ==
  GInv /\ (OutOfIterations \/ Converge \/ CountBelow \/ GapTooBig) => Method!Next
<1> SUFFICES ASSUME GInv, OutOfIterations \/ Converge \/ CountBelow \/ GapTooBig
             PROVE  Method!Next
  OBVIOUS
<1>1. /\ pc = "status" /\ UNCHANGED <<problem, w, chosen, planes, cp_obj>>
      /\ TypeOK /\ ~converged /\ pc' # "status" /\ w \in Weights
  BY DEF GInv, IInv, Rounds, TypeOK, OutOfIterations, Converge, CountBelow, GapTooBig, Status
<1>2. RiskGap \in Int /\ Method!Gap = RiskGap
  BY <1>1, GapIs, MapIs DEF Method!Gap, RiskGap
<1>3. /\ Plane(chosen)' = Plane(chosen) /\ ExactAt(w)' = ExactAt(w)
      /\ \A v : Regularizer(v)' = Regularizer(v) /\ WorstRisk(v)' = WorstRisk(v)
  BY <1>1, SameProblem DEF Plane, NuclearPart, Given, Regularizer, ExactAt
<1>4. Epsilon \in Int
  BY CuttingPlanesAssumption
<1>5. CASE OutOfIterations
  <2>1. pc' = "done" /\ ~converged'
    BY <1>1, <1>5 DEF OutOfIterations, svm
  <2> QED BY <2>1, <1>1, <1>3 DEF Method!Next, Method!GiveUp, Method!Decide, Stopped, WorstRisk, Current
<1>6. CASE Converge
  <2>1. pc' = "done" /\ converged' /\ RiskGap < Epsilon /\ skip_cache
    BY <1>6 DEF Converge, SmallOnTruth
  <2>2. CASE ExactAt(w)
    BY <2>1, <2>2, <1>1, <1>2, <1>3
       DEF Method!Next, Method!Stop, Method!Decide, Stopped, WorstRisk, Current
  <2>3. CASE ~ExactAt(w)
    BY <2>1, <2>3, <1>1, <1>3
       DEF Method!Next, Method!GiveUp, Method!Decide, Stopped, WorstRisk, Current
  <2> QED BY <2>2, <2>3
<1>7. CASE CountBelow \/ GapTooBig
  <2>1. pc' = "solve" /\ (~skip_cache \/ ~(RiskGap < Epsilon))
    BY <1>7, <1>2, <1>4 DEF CountBelow, GapTooBig, SmallOnTruth
  <2> QED BY <2>1, <1>1, <1>2, <1>3 DEF Method!Next, Method!GoOn, Method!Decide, WorstRisk, Current
<1> QED BY <1>5, <1>6, <1>7

LEMMA SolveMaps == GInv /\ IInv' /\ Solve => Method!Solve
<1> SUFFICES ASSUME GInv, IInv', Solve PROVE Method!Solve
  OBVIOUS
<1>1. /\ pc = "solve" /\ pc' = "risk" /\ UNCHANGED <<problem, chosen>> /\ w' \in Weights
  BY DEF Solve, IInv, TypeOK
<1>2. /\ Plane(chosen)' \in [Weights -> Int]
      /\ \A v : Regularizer(v)' = Regularizer(v) /\ WorstRisk(v)' = WorstRisk(v)
  <2>1. TypeOK'
    BY DEF IInv
  <2>2. LatestIsPlane'
    BY <2>1, LatestPlane, PTL
  <2> QED BY <1>1, <2>2, SameProblem DEF Regularizer, LatestIsPlane
<1>3. \A p \in planes : Regularizer(w') + p.value[w'] <= cp_obj'
  BY SolutionIsLowest DEF GInv
<1>4. {p.value : p \in planes'} \subseteq {p.value : p \in planes}
  BY SolutionIsLowest DEF GInv
<1>5. \A v \in Weights : \E p \in planes' : Regularizer(v) + p.value[v] >= cp_obj'
  BY <1>2 DEF IInv, PlanesSupport, Holds
<1> QED BY <1>1, <1>2, <1>3, <1>4, <1>5, MapIs DEF Method!Solve, WorstRisk, Current

LEMMA StepMaps == GInv /\ IInv' /\ [Next]_vars => [Method!Next]_(Method!vars)
<1> SUFFICES ASSUME GInv, IInv', [Next]_vars PROVE Method!Next \/ UNCHANGED Method!vars
  OBVIOUS
<1>1. CASE UNCHANGED vars
  <2>1. UNCHANGED <<pc, problem, w, chosen, planes, cp_obj, skip_cache, converged>>
    BY <1>1 DEF vars, svm
  <2>2. /\ Plane(chosen)' = Plane(chosen) /\ ExactAt(w)' = ExactAt(w) /\ Stopped' = Stopped
        /\ \A v : WorstRisk(v)' = WorstRisk(v)
    BY <2>1, SameProblem DEF Plane, NuclearPart, Given, ExactAt, Stopped
  <2> QED BY <2>1, <2>2 DEF Method!vars, WorstRisk, Current
<1>2. CASE get_risk
  BY <1>2, CutMaps DEF Method!Next
<1>3. CASE OutOfIterations \/ Converge \/ CountBelow \/ GapTooBig
  BY <1>3, DecisionMaps
<1>4. CASE Solve
  BY <1>4, SolveMaps DEF Method!Next
<1> QED BY <1>1, <1>2, <1>3, <1>4 DEF Next

(* With its caches, an approximate oracle and the planes that go, training is the
   method that oca promises: every step of it is one of the method or changes
   nothing that it speaks of. *)
THEOREM TrainingIsCuttingPlaneMethod == Spec => IsCuttingPlaneMethod
<1>1. Spec => []GInv /\ []IInv
  BY GInvHolds, Inductive, PTL
<1>2. GInv /\ IInv' /\ [Next]_vars => [Method!Next]_(Method!vars)
  BY StepMaps
<1>3. Init => Method!Init
  BY MethodStarts
<1> QED BY <1>1, <1>2, <1>3, PTL DEF Spec, IsCuttingPlaneMethod, Method!Spec
=============================================================================

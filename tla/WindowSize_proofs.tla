-------------------------- MODULE WindowSize_proofs --------------------------
(***************************************************************************)
(* Proofs about WindowSize, for any folds, boxes, grid and size asked for. *)
(*                                                                         *)
(* Round is pinned down by two squares, its number and the next one, that  *)
(* a quotient lies between.  What follows of a window's area and its shape *)
(* comes from multiplying such bounds and taking roots of the products.    *)
(* The drift follows from the area growing with the target alone, fold by  *)
(* fold: a session repeats the comparison of the one before it.            *)
(***************************************************************************)
EXTENDS WindowSize, TLAPS, NaturalsInduction, WellFoundedInduction

(* Natural numbers: the least one of a set, products and squares. *)
LEMMA LeastNumber ==
  ASSUME NEW T, T \subseteq Nat, T # {}
  PROVE  \E x \in T : \A y \in T : x <= y
<1>1. PICK x \in T : \A y \in T : ~(<<y, x>> \in OpToRel(<, Nat))
  BY NatLessThanWellFounded, WFMin
<1>2. ASSUME NEW y \in T PROVE x <= y
  <2>1. ~(y < x)
    BY <1>1, <1>2 DEF OpToRel
  <2> QED BY <2>1
<1> QED BY <1>2

LEMMA ProductIsNat ==
  ASSUME NEW a \in Nat, NEW b \in Nat
  PROVE  a * b \in Nat
OBVIOUS

LEMMA ProductsGrow ==
  ASSUME NEW a \in Nat, NEW b \in Nat, NEW c \in Nat, NEW d \in Nat, a <= b, c <= d
  PROVE  a * c <= b * d
<1>1. a * c <= b * c
  OBVIOUS
<1>2. b * c <= b * d
  OBVIOUS
<1> QED BY <1>1, <1>2

LEMMA FactorGrows ==
  ASSUME NEW a \in Nat, NEW b \in Nat, NEW c \in Nat, c > 0, a < b
  PROVE  a * c < b * c
OBVIOUS

LEMMA RootGrows ==
  ASSUME NEW a \in Nat, NEW b \in Nat, a * a <= b * b
  PROVE  a <= b
<1> SUFFICES ASSUME b < a PROVE FALSE
  OBVIOUS
<1>1. b * b <= b * a
  BY ProductsGrow
<1>2. b * a < a * a
  BY FactorGrows
<1> QED BY <1>1, <1>2

LEMMA RootIncreases ==
  ASSUME NEW a \in Nat, NEW b \in Nat, a * a < b * b
  PROVE  a < b
<1> SUFFICES ASSUME b <= a PROVE FALSE
  OBVIOUS
<1>1. b * b <= a * a
  BY ProductsGrow
<1> QED BY <1>1

-----------------------------------------------------------------------------
(* The number that a root is rounded to. *)
Rounds(x, a, b) ==
  /\ x > 0 => (2 * x - 1) * (2 * x - 1) * b <= 4 * a
  /\ 4 * a < (2 * x + 1) * (2 * x + 1) * b

LEMMA RoundIs ==
  ASSUME NEW a \in Nat, NEW b \in Nat, b > 0
  PROVE  Round(a, b) \in Nat /\ Rounds(Round(a, b), a, b)
<1> DEFINE T == {x \in Nat : 4 * a < (2 * x + 1) * (2 * x + 1) * b}
<1>1. a \in T
  <2>1. 4 * a < (2 * a + 1) * (2 * a + 1)
    <3>1. a * a \in Nat
      OBVIOUS
    <3>2. (2 * a + 1) * (2 * a + 1) = 4 * (a * a) + 4 * a + 1
      OBVIOUS
    <3> QED BY <3>1, <3>2
  <2>2. (2 * a + 1) * (2 * a + 1) * 1 <= (2 * a + 1) * (2 * a + 1) * b
    <3>1. (2 * a + 1) * (2 * a + 1) \in Nat
      OBVIOUS
    <3> QED BY <3>1, ProductsGrow
  <2> QED BY <2>1, <2>2
<1>2. PICK x \in T : \A y \in T : x <= y
  <2>1. T \subseteq Nat /\ T # {}
    BY <1>1
  <2> QED BY <2>1, LeastNumber
<1>3. x \in 0..a
  BY <1>1, <1>2
<1>4. ASSUME x > 0 PROVE (2 * x - 1) * (2 * x - 1) * b <= 4 * a
  <2>1. x - 1 \in Nat /\ x - 1 \notin T
    BY <1>2, <1>4
  <2>2. ~(4 * a < (2 * (x - 1) + 1) * (2 * (x - 1) + 1) * b)
    BY <2>1
  <2>3. 2 * (x - 1) + 1 = 2 * x - 1
    BY <1>3
  <2>4. (2 * x - 1) * (2 * x - 1) * b \in Int
    BY <1>3
  <2> QED BY <2>2, <2>3, <2>4
<1>5. Rounds(x, a, b)
  BY <1>2, <1>4 DEF Rounds
<1>6. Rounds(Round(a, b), a, b) /\ Round(a, b) \in 0..a
  BY <1>3, <1>5 DEF Rounds, Round
<1> QED BY <1>6

(* A larger quotient is not rounded to a smaller number. *)
LEMMA RoundGrows ==
  ASSUME NEW a \in Nat, NEW c \in Nat, NEW b \in Nat, b > 0, a <= c
  PROVE  Round(a, b) <= Round(c, b)
<1> DEFINE x == Round(a, b)
           y == Round(c, b)
<1>1. x \in Nat /\ y \in Nat /\ Rounds(x, a, b) /\ Rounds(y, c, b)
  BY RoundIs
<1> HIDE DEF x, y
<1> SUFFICES ASSUME y < x PROVE FALSE
  BY <1>1 DEF x, y
<1>2. (2 * x - 1) * (2 * x - 1) * b <= 4 * a
  BY <1>1 DEF Rounds
<1>3. 4 * c < (2 * y + 1) * (2 * y + 1) * b
  BY <1>1 DEF Rounds
<1>4. (2 * y + 1) * (2 * y + 1) <= (2 * x - 1) * (2 * x - 1)
  <2>1. 2 * y + 1 \in Nat /\ 2 * x - 1 \in Nat /\ 2 * y + 1 <= 2 * x - 1
    BY <1>1
  <2> QED BY <2>1, ProductsGrow
<1>5. (2 * y + 1) * (2 * y + 1) * b <= (2 * x - 1) * (2 * x - 1) * b
  <2>1. (2 * y + 1) * (2 * y + 1) \in Nat /\ (2 * x - 1) * (2 * x - 1) \in Nat
    <3>1. 2 * y + 1 \in Nat /\ 2 * x - 1 \in Nat
      BY <1>1
    <3> QED BY <3>1, ProductIsNat
  <2> QED BY <2>1, <1>4, ProductsGrow
<1>6. /\ (2 * x - 1) * (2 * x - 1) * b \in Int
      /\ (2 * y + 1) * (2 * y + 1) * b \in Int
  BY <1>1
<1> QED BY <1>2, <1>3, <1>5, <1>6

-----------------------------------------------------------------------------
(* The window of one session: it is a window, it fits, and it grows with the
   target. *)
LEMMA AreaIs ==
  ASSUME NEW win \in Window
  PROVE  Area(win) \in Nat /\ Area(win) > 0
<1>1. win.width \in Nat /\ win.height \in Nat /\ win.width > 0 /\ win.height > 0
  BY DEF Window
<1>2. win.width * win.height > 0
  BY <1>1
<1> QED BY <1>1, <1>2 DEF Area

LEMMA BestIsWindow ==
  ASSUME NEW m \in Window, NEW target \in Nat
  PROVE  pickBestHogWindowSize(m, target) \in Window
<1>1. m.width \in Nat \ {0} /\ m.height \in Nat \ {0}
  BY DEF Window
<1>2. target * m.width \in Nat /\ target * m.height \in Nat
  BY <1>1
<1>3. Round(target * m.width, m.height) \in Nat
  BY <1>1, <1>2, RoundIs
<1>4. Round(target * m.height, m.width) \in Nat
  BY <1>1, <1>2, RoundIs
<1> QED BY <1>3, <1>4 DEF pickBestHogWindowSize, NotZero, Window

LEMMA BestGrows ==
  ASSUME NEW m \in Window, NEW t \in Nat, NEW u \in Nat, t <= u
  PROVE  Area(pickBestHogWindowSize(m, t)) <= Area(pickBestHogWindowSize(m, u))
<1>1. m.width \in Nat \ {0} /\ m.height \in Nat \ {0}
  BY DEF Window
<1>2. /\ t * m.width \in Nat /\ u * m.width \in Nat /\ t * m.width <= u * m.width
      /\ t * m.height \in Nat /\ u * m.height \in Nat /\ t * m.height <= u * m.height
  BY <1>1, ProductsGrow, ProductIsNat
<1>3. Round(t * m.width, m.height) <= Round(u * m.width, m.height)
  BY <1>1, <1>2, RoundGrows
<1>4. Round(t * m.height, m.width) <= Round(u * m.height, m.width)
  BY <1>1, <1>2, RoundGrows
<1>5. /\ Round(t * m.width, m.height) \in Nat /\ Round(u * m.width, m.height) \in Nat
      /\ Round(t * m.height, m.width) \in Nat /\ Round(u * m.height, m.width) \in Nat
  BY <1>1, <1>2, RoundIs
<1> DEFINE a == pickBestHogWindowSize(m, t)
           b == pickBestHogWindowSize(m, u)
<1>6. a.width <= b.width
  BY <1>3, <1>5 DEF pickBestHogWindowSize, NotZero
<1>7. a.height <= b.height
  BY <1>4, <1>5 DEF pickBestHogWindowSize, NotZero
<1>8. /\ a.width \in Nat /\ b.width \in Nat
      /\ a.height \in Nat /\ b.height \in Nat
  BY BestIsWindow DEF Window
<1> HIDE DEF a, b
<1>9. a.width * a.height <= b.width * b.height
  BY <1>6, <1>7, <1>8, ProductsGrow
<1> QED BY <1>9 DEF Area, a, b

(* Two bounds of one quotient each, multiplied: the window's area. *)
LEMMA AreaFits ==
  ASSUME NEW w \in Nat, NEW h \in Nat, w > 0, h > 0,
         NEW W \in Nat, NEW H \in Nat, W > 0, H > 0, NEW t \in Nat,
         Rounds(w, t * W, H), Rounds(h, t * H, W)
  PROVE  /\ (2 * w - 1) * (2 * h - 1) <= 4 * t
         /\ 4 * t < (2 * w + 1) * (2 * h + 1)
<1> DEFINE k == W * H
           a == 2 * w - 1
           b == 2 * h - 1
           c == 2 * w + 1
           d == 2 * h + 1
<1>1. k \in Nat /\ k > 0
  OBVIOUS
<1>2. a \in Nat /\ b \in Nat /\ c \in Nat /\ d \in Nat /\ c > 0 /\ d > 0
  OBVIOUS
<1>3. /\ t * W \in Nat /\ t * H \in Nat
      /\ a * a * H \in Nat /\ b * b * W \in Nat /\ c * c * H \in Nat /\ d * d * W \in Nat
  BY <1>2, ProductIsNat
<1>4. a * a * H <= 4 * (t * W) /\ b * b * W <= 4 * (t * H)
  BY DEF Rounds
<1>5. 4 * (t * W) < c * c * H /\ 4 * (t * H) < d * d * W
  BY DEF Rounds
<1>6. 4 * (t * W) \in Nat /\ 4 * (t * H) \in Nat
  BY <1>3
<1> HIDE DEF a, b, c, d
<1>7. (4 * (t * W)) * (4 * (t * H)) = ((4 * t) * (4 * t)) * k
  OBVIOUS
<1>8. a * b <= 4 * t
  <2>1. (a * a * H) * (b * b * W) <= (4 * (t * W)) * (4 * (t * H))
    BY <1>3, <1>4, <1>6, ProductsGrow
  <2>2. (a * a * H) * (b * b * W) = ((a * b) * (a * b)) * k
    BY <1>2
  <2>3. a * b \in Nat /\ (a * b) * (a * b) \in Nat /\ 4 * t \in Nat /\ (4 * t) * (4 * t) \in Nat
    BY <1>2, ProductIsNat
  <2> HIDE DEF k
  <2>4. ~((4 * t) * (4 * t) < (a * b) * (a * b))
    <3> SUFFICES ASSUME (4 * t) * (4 * t) < (a * b) * (a * b) PROVE FALSE
      OBVIOUS
    <3> DEFINE x == (4 * t) * (4 * t)
               y == (a * b) * (a * b)
    <3>1. x \in Nat /\ y \in Nat /\ x < y
      BY <2>3
    <3>2. y * k <= x * k
      BY <1>7, <2>1, <2>2
    <3> HIDE DEF x, y
    <3>3. x * k < y * k
      BY <1>1, <3>1, FactorGrows
    <3>4. x * k \in Nat /\ y * k \in Nat
      BY <1>1, <3>1, ProductIsNat
    <3> QED BY <3>2, <3>3, <3>4
  <2>5. (a * b) * (a * b) <= (4 * t) * (4 * t)
    BY <2>3, <2>4
  <2> QED BY <2>3, <2>5, RootGrows
<1>9. 4 * t < c * d
  <2>1. (4 * (t * W)) * (4 * (t * H)) <= (c * c * H) * (4 * (t * H))
    BY <1>3, <1>5, <1>6, ProductsGrow
  <2>2. (c * c * H) * (4 * (t * H)) < (c * c * H) * (d * d * W)
    <3>1. c * c * H > 0
      BY <1>2
    <3>2. (4 * (t * H)) * (c * c * H) < (d * d * W) * (c * c * H)
      BY <1>3, <1>5, <1>6, <3>1, FactorGrows
    <3> QED BY <3>2, <1>3, <1>6
  <2>3. (c * c * H) * (d * d * W) = ((c * d) * (c * d)) * k
    BY <1>2
  <2>4. c * d \in Nat /\ (c * d) * (c * d) \in Nat /\ 4 * t \in Nat /\ (4 * t) * (4 * t) \in Nat
    BY <1>2, ProductIsNat
  <2> HIDE DEF k
  <2>5. ((4 * t) * (4 * t)) * k < ((c * d) * (c * d)) * k
    <3>1. /\ (4 * (t * W)) * (4 * (t * H)) \in Nat /\ (c * c * H) * (4 * (t * H)) \in Nat
          /\ (c * c * H) * (d * d * W) \in Nat
      BY <1>3, <1>6, ProductIsNat
    <3>2. (4 * (t * W)) * (4 * (t * H)) < (c * c * H) * (d * d * W)
      BY <3>1, <2>1, <2>2
    <3> QED BY <1>7, <2>3, <3>2
  <2>6. (4 * t) * (4 * t) < (c * d) * (c * d)
    <3> DEFINE x == (4 * t) * (4 * t)
               y == (c * d) * (c * d)
    <3>1. x \in Nat /\ y \in Nat /\ x * k < y * k
      BY <2>4, <2>5
    <3> HIDE DEF x, y
    <3>2. ASSUME y <= x PROVE FALSE
      <4>1. y * k <= x * k
        BY <1>1, <3>1, <3>2, ProductsGrow
      <4>2. x * k \in Nat /\ y * k \in Nat
        BY <1>1, <3>1, ProductIsNat
      <4> QED BY <3>1, <4>1, <4>2
    <3>3. x < y
      BY <3>1, <3>2
    <3> QED BY <3>3 DEF x, y
  <2> QED BY <2>4, <2>6, RootIncreases
<1> QED BY <1>8, <1>9 DEF a, b, c, d

(* The lower bound of one side against the upper one of the other: the shape. *)
LEMMA ShapeFits ==
  ASSUME NEW w \in Nat, NEW h \in Nat, w > 0,
         NEW W \in Nat, NEW H \in Nat, W > 0, H > 0, NEW t \in Nat,
         Rounds(w, t * W, H), Rounds(h, t * H, W)
  PROVE  (2 * w - 1) * H < (2 * h + 1) * W
<1> DEFINE a == 2 * w - 1
           d == 2 * h + 1
<1>1. a \in Nat /\ d \in Nat
  OBVIOUS
<1>2. a * a * H <= 4 * (t * W) /\ 4 * (t * H) < d * d * W
  BY DEF Rounds
<1>3. /\ t * W \in Nat /\ t * H \in Nat /\ 4 * (t * W) \in Nat /\ 4 * (t * H) \in Nat
      /\ a * a * H \in Nat /\ d * d * W \in Nat
  BY <1>1, ProductIsNat
<1> HIDE DEF a, d
<1>4. (a * a * H) * H <= (4 * (t * W)) * H
  BY <1>2, <1>3, ProductsGrow
<1>5. (4 * (t * H)) * W < (d * d * W) * W
  BY <1>2, <1>3, FactorGrows
<1>6. (4 * (t * W)) * H = (4 * (t * H)) * W
  OBVIOUS
<1>7. (a * a * H) * H = (a * H) * (a * H) /\ (d * d * W) * W = (d * W) * (d * W)
  BY <1>1
<1>8. /\ a * H \in Nat /\ d * W \in Nat /\ (a * H) * (a * H) \in Nat
      /\ (d * W) * (d * W) \in Nat /\ (4 * (t * W)) * H \in Nat
  BY <1>1, <1>3, ProductIsNat
<1>9. (a * H) * (a * H) < (d * W) * (d * W)
  BY <1>4, <1>5, <1>6, <1>7, <1>8
<1>10. a * H < d * W
  BY <1>8, <1>9, RootIncreases
<1> QED BY <1>10 DEF a, d

Fits(win, m, target) ==
  /\ 4 * (Area(win) - target) < 2 * (win.width + win.height)
  /\ 4 * (target - Area(win)) <= 2 * (win.width + win.height)
  /\ 2 * (win.width * m.height - win.height * m.width) < m.width + m.height
  /\ 2 * (win.height * m.width - win.width * m.height) < m.width + m.height

LEMMA BestFits ==
  ASSUME NEW m \in Window, NEW target \in Nat, ~Thin(m, target)
  PROVE  Fits(pickBestHogWindowSize(m, target), m, target)
<1> DEFINE W == m.width
           H == m.height
           w == Round(target * W, H)
           h == Round(target * H, W)
<1>1. W \in Nat /\ H \in Nat /\ W > 0 /\ H > 0
  BY DEF Window
<1>2. /\ target * W \in Nat /\ target * H \in Nat
      /\ 4 * (target * W) >= H /\ 4 * (target * H) >= W
  <2>1. target * W \in Nat /\ target * H \in Nat
    BY <1>1, ProductIsNat
  <2>2. 4 * target * W = 4 * (target * W) /\ 4 * target * H = 4 * (target * H)
    BY <1>1
  <2> QED BY <2>1, <2>2, <1>1 DEF Thin
<1>3. w \in Nat /\ Rounds(w, target * W, H)
  BY <1>1, <1>2, RoundIs
<1>4. h \in Nat /\ Rounds(h, target * H, W)
  BY <1>1, <1>2, RoundIs
<1>5. pickBestHogWindowSize(m, target) = [width |-> NotZero(w), height |-> NotZero(h)]
  BY DEF pickBestHogWindowSize
<1> HIDE DEF W, H, w, h
<1>6. w > 0 /\ h > 0
  BY <1>1, <1>2, <1>3, <1>4 DEF Rounds
<1>7. (2 * w - 1) * (2 * h - 1) <= 4 * target /\ 4 * target < (2 * w + 1) * (2 * h + 1)
  BY <1>1, <1>3, <1>4, <1>6, AreaFits
<1>8. (2 * w - 1) * H < (2 * h + 1) * W
  BY <1>1, <1>3, <1>4, <1>6, ShapeFits
<1>9. (2 * h - 1) * W < (2 * w + 1) * H
  BY <1>1, <1>3, <1>4, <1>6, ShapeFits
<1>10. w * h \in Nat /\ w * H \in Nat /\ h * W \in Nat
  BY <1>1, <1>3, <1>4, ProductIsNat
<1>11. /\ (2 * w - 1) * (2 * h - 1) = 4 * (w * h) - 2 * w - 2 * h + 1
       /\ (2 * w + 1) * (2 * h + 1) = 4 * (w * h) + 2 * w + 2 * h + 1
  BY <1>3, <1>4
<1>12. /\ (2 * w - 1) * H = 2 * (w * H) - H /\ (2 * w + 1) * H = 2 * (w * H) + H
       /\ (2 * h - 1) * W = 2 * (h * W) - W /\ (2 * h + 1) * W = 2 * (h * W) + W
  BY <1>1, <1>3, <1>4
<1>13. /\ 4 * (w * h - target) < 2 * (w + h)
       /\ 4 * (target - w * h) <= 2 * (w + h)
  BY <1>3, <1>4, <1>7, <1>10, <1>11
<1>14. /\ 2 * (w * H - h * W) < W + H
       /\ 2 * (h * W - w * H) < W + H
  BY <1>1, <1>8, <1>9, <1>10, <1>12
<1>15. NotZero(w) = w /\ NotZero(h) = h
  BY <1>6 DEF NotZero
<1> QED BY <1>5, <1>13, <1>14, <1>15 DEF Fits, Area, W, H

-----------------------------------------------------------------------------
(* The sessions so far: the window of each is the best one for the window before
   it, and the windows of each fold have all grown, or all shrunk, from one C or
   epsilon to the next, as the last one of the first grid point has from the one
   that was asked for. *)
Session(p, f) == chosen[<<p, f>>] = pickBestHogWindowSize(mean[f], Area(Before(p, f)))
Chained ==
  /\ window = Before(pair, skippedFold)
  /\ \A p \in 1..Pairs : \A f \in 1..Folded : Done(p, f) => Session(p, f)

Growing ==
  /\ pair > 1 => Area(start) <= Area(chosen[<<1, Folded>>])
  /\ \A s \in Later : Grows(s[1], s[2])
Shrinking ==
  /\ pair > 1 => Area(start) >= Area(chosen[<<1, Folded>>])
  /\ \A s \in Later : Shrinks(s[1], s[2])

IInv == TypeOK /\ Chained /\ (Growing \/ Shrinking)

LEMMA ConstantsOK ==
  /\ Folded \in Nat \ {0} /\ Pairs \in Nat
  /\ Means \subseteq [1..Folded -> Window] /\ Sizes \subseteq Window
BY WindowAssumption

(* Every area is a number, that of a session to come included. *)
LEMMA AreasAre ==
  ASSUME TypeOK
  PROVE  /\ Area(start) \in Nat
         /\ \A p \in 1..Pairs : \A f \in 1..Folded : Area(chosen[<<p, f>>]) \in Nat
<1>1. Area(start) \in Nat
  BY AreaIs DEF TypeOK
<1>2. ASSUME NEW p \in 1..Pairs, NEW f \in 1..Folded PROVE Area(chosen[<<p, f>>]) \in Nat
  <2>1. chosen[<<p, f>>] \in Window \cup {NoWindow}
    BY DEF TypeOK
  <2>2. Area(NoWindow) \in Nat
    BY DEF Area, NoWindow
  <2> QED BY <2>1, <2>2, AreaIs
<1> QED BY <1>1, <1>2

LEMMA BeforeIs ==
  ASSUME TypeOK, NEW p \in 1..Pairs, NEW f \in 1..Folded
  PROVE  Area(Before(p, f)) \in Nat
<1>1. CASE f > 1
  <2>1. Before(p, f) = chosen[<<p, f - 1>>] /\ f - 1 \in 1..Folded
    BY <1>1, ConstantsOK DEF Before
  <2> QED BY <2>1, AreasAre
<1>2. CASE f = 1 /\ p > 1
  <2>1. Before(p, f) = chosen[<<p - 1, Folded>>] /\ p - 1 \in 1..Pairs /\ Folded \in 1..Folded
    BY <1>2, ConstantsOK DEF Before
  <2> QED BY <2>1, AreasAre
<1>3. CASE f = 1 /\ p = 1
  <2>1. Before(p, f) = start
    BY <1>3 DEF Before
  <2> QED BY <2>1, AreasAre
<1> QED BY <1>1, <1>2, <1>3

LEMMA Starts ==
  ASSUME Init
  PROVE  IInv
<1>1. TypeOK
  BY ConstantsOK DEF Init, TypeOK
<1>2. Chained
  BY ConstantsOK DEF Init, Chained, Before, Done
<1>3. Growing
  BY ConstantsOK DEF Init, Growing, Later, Done
<1> QED BY <1>1, <1>2, <1>3 DEF IInv

-----------------------------------------------------------------------------
(* A session: its entry is new, and no entry that it reads or that is done
   changes. *)
LEMMA SessionIsWindow ==
  ASSUME IInv, runTrainingSession
  PROVE  window' \in Window
<1>1. mean[skippedFold] \in Window
  BY ConstantsOK DEF IInv, TypeOK, runTrainingSession
<1>2. Area(window) \in Nat
  BY AreaIs DEF IInv, TypeOK
<1> QED BY <1>1, <1>2, BestIsWindow DEF runTrainingSession

LEMMA SessionKeeps ==
  ASSUME IInv, runTrainingSession
  PROVE  /\ chosen'[<<pair, skippedFold>>] = window'
         /\ \A p \in 1..Pairs : \A f \in 1..Folded :
              <<p, f>> # <<pair, skippedFold>> => chosen'[<<p, f>>] = chosen[<<p, f>>]
BY ConstantsOK DEF IInv, TypeOK, runTrainingSession

LEMMA SessionReads ==
  ASSUME IInv, runTrainingSession, NEW p \in 1..Pairs, NEW f \in 1..Folded,
         Done(p, f) \/ (p = pair /\ f = skippedFold)
  PROVE  Before(p, f)' = Before(p, f)
<1>1. start' = start /\ pair \in 1..Pairs /\ skippedFold \in 1..Folded
  BY ConstantsOK DEF IInv, TypeOK, runTrainingSession
<1>2. CASE f > 1
  <2>1. f - 1 \in 1..Folded /\ <<p, f - 1>> # <<pair, skippedFold>>
    BY <1>1, <1>2, ConstantsOK DEF Done
  <2>2. chosen'[<<p, f - 1>>] = chosen[<<p, f - 1>>]
    BY <2>1, SessionKeeps
  <2> QED BY <1>2, <2>2 DEF Before
<1>3. CASE f = 1 /\ p > 1
  <2>1. p - 1 \in 1..Pairs /\ Folded \in 1..Folded /\ <<p - 1, Folded>> # <<pair, skippedFold>>
    BY <1>1, <1>3, ConstantsOK DEF Done
  <2>2. chosen'[<<p - 1, Folded>>] = chosen[<<p - 1, Folded>>]
    BY <2>1, SessionKeeps
  <2> QED BY <1>3, <2>2 DEF Before
<1>4. CASE f = 1 /\ p = 1
  BY <1>1, <1>4 DEF Before
<1> QED BY <1>2, <1>3, <1>4

LEMMA SessionChains ==
  ASSUME IInv, runTrainingSession
  PROVE  Chained'
<1>1. /\ pair' = pair /\ skippedFold' = skippedFold + 1 /\ mean' = mean
      /\ pair \in 1..Pairs /\ skippedFold \in 1..Folded
  BY ConstantsOK DEF IInv, TypeOK, runTrainingSession
<1>2. window' = (Before(pair, skippedFold))'
  <2>1. (Before(pair, skippedFold))' = chosen'[<<pair, skippedFold>>]
    BY <1>1 DEF Before
  <2> QED BY <2>1, SessionKeeps
<1>3. ASSUME NEW p \in 1..Pairs, NEW f \in 1..Folded, Done(p, f)'
      PROVE  Session(p, f)'
  <2>1. Done(p, f) \/ (p = pair /\ f = skippedFold)
    BY <1>1, <1>3 DEF Done
  <2>2. Before(p, f)' = Before(p, f)
    BY <2>1, SessionReads
  <2>3. CASE p = pair /\ f = skippedFold
    <3>1. window' = pickBestHogWindowSize(mean[f], Area(Before(p, f)))
      BY <2>3 DEF IInv, Chained, runTrainingSession
    <3>2. chosen'[<<p, f>>] = window'
      BY <2>3, SessionKeeps
    <3> QED BY <1>1, <2>2, <3>1, <3>2 DEF Session
  <2>4. CASE Done(p, f) /\ ~(p = pair /\ f = skippedFold)
    <3>1. Session(p, f)
      BY <2>4 DEF IInv, Chained
    <3>2. chosen'[<<p, f>>] = chosen[<<p, f>>]
      BY <2>4, SessionKeeps
    <3> QED BY <1>1, <2>2, <3>1, <3>2 DEF Session
  <2> QED BY <2>1, <2>3, <2>4
<1> QED BY <1>2, <1>3 DEF Chained

(* Of two windows of a fold that were chosen one after the other, the second
   compares with the first as the windows compare that they were chosen from. *)
LEMMA SessionIsLater ==
  ASSUME IInv, runTrainingSession, pair > 1
  PROVE  /\ chosen'[<<pair, skippedFold>>] =
              pickBestHogWindowSize(mean[skippedFold], Area(Before(pair, skippedFold)))
         /\ chosen[<<pair - 1, skippedFold>>] =
              pickBestHogWindowSize(mean[skippedFold], Area(Before(pair - 1, skippedFold)))
         /\ mean[skippedFold] \in Window
         /\ Area(Before(pair, skippedFold)) \in Nat
         /\ Area(Before(pair - 1, skippedFold)) \in Nat
<1>1. pair \in 1..Pairs /\ pair - 1 \in 1..Pairs /\ skippedFold \in 1..Folded
  BY ConstantsOK DEF IInv, TypeOK, runTrainingSession
<1>2. Done(pair - 1, skippedFold)
  BY <1>1 DEF Done
<1>3. Session(pair - 1, skippedFold)
  BY <1>1, <1>2 DEF IInv, Chained
<1>4. chosen'[<<pair, skippedFold>>] =
        pickBestHogWindowSize(mean[skippedFold], Area(Before(pair, skippedFold)))
  BY SessionKeeps DEF IInv, Chained, runTrainingSession
<1>5. mean[skippedFold] \in Window
  BY <1>1 DEF IInv, TypeOK
<1>6. TypeOK
  BY DEF IInv
<1> QED BY <1>1, <1>3, <1>4, <1>5, <1>6, BeforeIs DEF Session

(* The two windows that a session of a later grid point and the one before it of
   the same fold started from are those of a later session, or the first. *)
LEMMA BeforeIsLater ==
  ASSUME IInv, runTrainingSession, pair > 1
  PROVE  \/ /\ Before(pair, skippedFold) = chosen[<<1, Folded>>]
            /\ Before(pair - 1, skippedFold) = start
         \/ \E s \in Later : /\ Before(pair, skippedFold) = chosen[<<s[1] + 1, s[2]>>]
                              /\ Before(pair - 1, skippedFold) = chosen[<<s[1], s[2]>>]
<1>1. pair \in 2..Pairs /\ skippedFold \in 1..Folded
  BY ConstantsOK DEF IInv, TypeOK, runTrainingSession
<1>2. CASE skippedFold > 1
  <2> DEFINE s == <<pair - 1, skippedFold - 1>>
  <2>1. s \in (1..Pairs) \X (1..Folded) /\ s[1] < Pairs /\ s[1] + 1 = pair
    BY <1>1, <1>2, ConstantsOK
  <2>2. Done(s[1] + 1, s[2])
    BY <1>1, <2>1 DEF Done
  <2>3. s \in Later
    BY <2>1, <2>2 DEF Later
  <2>4. /\ Before(pair, skippedFold) = chosen[<<s[1] + 1, s[2]>>]
        /\ Before(pair - 1, skippedFold) = chosen[<<s[1], s[2]>>]
    BY <1>2, <2>1 DEF Before
  <2> QED BY <2>3, <2>4
<1>3. CASE skippedFold = 1 /\ pair > 2
  <2> DEFINE s == <<pair - 2, Folded>>
  <2>1. s \in (1..Pairs) \X (1..Folded) /\ s[1] < Pairs /\ s[1] + 1 = pair - 1
    BY <1>1, <1>3, ConstantsOK
  <2>2. Done(s[1] + 1, s[2])
    BY <1>1, <2>1 DEF Done
  <2>3. s \in Later
    BY <2>1, <2>2 DEF Later
  <2>4. pair - 1 - 1 = pair - 2 /\ pair - 1 > 1
    BY <1>1, <1>3
  <2>5. Before(pair, skippedFold) = chosen[<<s[1] + 1, s[2]>>]
    BY <1>3, <2>1 DEF Before
  <2>6. Before(pair - 1, skippedFold) = chosen[<<s[1], s[2]>>]
    BY <1>3, <2>4 DEF Before
  <2> QED BY <2>3, <2>5, <2>6
<1>4. CASE skippedFold = 1 /\ pair = 2
  BY <1>4 DEF Before
<1>5. skippedFold > 1 \/ (skippedFold = 1 /\ pair > 2) \/ (skippedFold = 1 /\ pair = 2)
  BY <1>1, ConstantsOK
<1> QED BY <1>2, <1>3, <1>4, <1>5, Zenon

LEMMA SessionDrifts ==
  ASSUME IInv, runTrainingSession
  PROVE  (Growing \/ Shrinking)'
<1>1. /\ pair' = pair /\ skippedFold' = skippedFold + 1 /\ start' = start
      /\ pair \in 1..Pairs /\ skippedFold \in 1..Folded
  BY ConstantsOK DEF IInv, TypeOK, runTrainingSession
<1> DEFINE new == <<pair - 1, skippedFold>>
<1>2. ASSUME NEW s \in Later', s # new
      PROVE  /\ s \in Later
             /\ chosen'[<<s[1], s[2]>>] = chosen[<<s[1], s[2]>>]
             /\ chosen'[<<s[1] + 1, s[2]>>] = chosen[<<s[1] + 1, s[2]>>]
  <2>1. s \in (1..Pairs) \X (1..Folded) /\ s[1] < Pairs /\ Done(s[1] + 1, s[2])'
    BY DEF Later
  <2>2. s = <<s[1], s[2]>> /\ s[1] \in 1..Pairs /\ s[2] \in 1..Folded
    BY <2>1
  <2>3. ~(s[1] + 1 = pair /\ s[2] = skippedFold)
    BY <1>1, <1>2, <2>2
  <2>4. Done(s[1] + 1, s[2])
    BY <1>1, <2>1, <2>2, <2>3 DEF Done
  <2>5. ~(s[1] = pair /\ s[2] = skippedFold)
    BY <1>1, <2>2, <2>4 DEF Done
  <2>6. s \in Later
    BY <2>1, <2>4 DEF Later
  <2>7. chosen'[<<s[1], s[2]>>] = chosen[<<s[1], s[2]>>]
    BY <1>1, <2>2, <2>5, SessionKeeps
  <2>8. s[1] + 1 \in 1..Pairs /\ <<s[1] + 1, s[2]>> # <<pair, skippedFold>>
    BY <2>1, <2>2, <2>3, ConstantsOK
  <2>9. chosen'[<<s[1] + 1, s[2]>>] = chosen[<<s[1] + 1, s[2]>>]
    BY <2>2, <2>8, SessionKeeps
  <2> QED BY <2>6, <2>7, <2>9
<1>3. ASSUME new \in Later' PROVE pair > 1
  BY <1>1, <1>3 DEF Later
<1>4. ASSUME pair > 1
      PROVE  /\ chosen'[<<1, Folded>>] = chosen[<<1, Folded>>]
             /\ chosen'[<<pair - 1, skippedFold>>] = chosen[<<pair - 1, skippedFold>>]
  <2>1. /\ 1 \in 1..Pairs /\ Folded \in 1..Folded /\ pair - 1 \in 1..Pairs
        /\ <<1, Folded>> # <<pair, skippedFold>> /\ <<pair - 1, skippedFold>> # <<pair, skippedFold>>
    BY <1>1, <1>4, ConstantsOK
  <2> QED BY <1>1, <2>1, SessionKeeps
<1>5. CASE Growing
  <2>1. ASSUME pair > 1
        PROVE  Area(chosen[<<pair - 1, skippedFold>>]) <= Area(chosen'[<<pair, skippedFold>>])
    <3>1. Area(Before(pair - 1, skippedFold)) <= Area(Before(pair, skippedFold))
      BY <1>5, <2>1, BeforeIsLater DEF Growing, Grows
    <3> QED BY <2>1, <3>1, SessionIsLater, BestGrows
  <2>2. ASSUME NEW s \in Later' PROVE Grows(s[1], s[2])'
    <3>1. CASE s # new
      BY <1>2, <1>5, <3>1 DEF Growing, Grows
    <3>2. CASE s = new
      <4>1. s[1] = pair - 1 /\ s[2] = skippedFold /\ s[1] + 1 = pair
        BY <1>1, <3>2
      <4>2. pair > 1
        BY <1>3, <2>2, <3>2
      <4> QED BY <1>4, <2>1, <4>1, <4>2 DEF Grows
    <3> QED BY <3>1, <3>2
  <2>3. Growing'
    BY <1>1, <1>4, <1>5, <2>2 DEF Growing
  <2> QED BY <2>3
<1>6. CASE Shrinking
  <2>1. ASSUME pair > 1
        PROVE  Area(chosen[<<pair - 1, skippedFold>>]) >= Area(chosen'[<<pair, skippedFold>>])
    <3>1. Area(Before(pair - 1, skippedFold)) >= Area(Before(pair, skippedFold))
      BY <1>6, <2>1, BeforeIsLater DEF Shrinking, Shrinks
    <3> QED BY <2>1, <3>1, SessionIsLater, BestGrows, BestIsWindow, AreaIs
  <2>2. ASSUME NEW s \in Later' PROVE Shrinks(s[1], s[2])'
    <3>1. CASE s # new
      BY <1>2, <1>6, <3>1 DEF Shrinking, Shrinks
    <3>2. CASE s = new
      <4>1. s[1] = pair - 1 /\ s[2] = skippedFold /\ s[1] + 1 = pair
        BY <1>1, <3>2
      <4>2. pair > 1
        BY <1>3, <2>2, <3>2
      <4> QED BY <1>4, <2>1, <4>1, <4>2 DEF Shrinks
    <3> QED BY <3>1, <3>2
  <2>3. Shrinking'
    BY <1>1, <1>4, <1>6, <2>2 DEF Shrinking
  <2> QED BY <2>3
<1> QED BY <1>5, <1>6 DEF IInv

-----------------------------------------------------------------------------
LEMMA NextPairKeeps ==
  ASSUME IInv, NextPair
  PROVE  IInv'
<1>1. /\ pair \in 1..Pairs /\ skippedFold = Folded + 1
      /\ pair' = pair + 1 /\ skippedFold' = 1
      /\ UNCHANGED <<mean, start, window, chosen>>
  BY ConstantsOK DEF IInv, TypeOK, NextPair
<1>2. TypeOK'
  BY <1>1, ConstantsOK DEF IInv, TypeOK
<1>3. \A p \in 1..Pairs : \A f \in 1..Folded : Before(p, f)' = Before(p, f)
  BY <1>1 DEF Before
<1>4. \A p \in 1..Pairs : \A f \in 1..Folded : Done(p, f)' = Done(p, f)
  BY <1>1, ConstantsOK DEF Done
<1>5. (Before(pair, skippedFold))' = Before(pair, skippedFold)
  BY <1>1, ConstantsOK DEF Before
<1>6. Chained'
  BY <1>1, <1>3, <1>4, <1>5 DEF IInv, Chained, Session
<1>7. Later' = Later
  <2>1. \A s \in (1..Pairs) \X (1..Folded) :
          s[1] < Pairs => Done(s[1] + 1, s[2])' = Done(s[1] + 1, s[2])
    BY <1>4, ConstantsOK
  <2> QED BY <2>1 DEF Later
<1>8. CASE pair = 1
  <2>1. Later' = {}
    BY <1>1, <1>7, <1>8, ConstantsOK DEF Later, Done
  <2>2. Area(start) \in Nat /\ Area(chosen[<<1, Folded>>]) \in Nat
    BY <1>1, AreasAre, ConstantsOK DEF IInv
  <2>3. Growing' \/ Shrinking'
    BY <1>1, <2>1, <2>2 DEF Growing, Shrinking
  <2> QED BY <1>2, <1>6, <2>3 DEF IInv
<1>9. CASE pair > 1
  <2>1. Growing => Growing'
    BY <1>1, <1>7, <1>9 DEF Growing, Grows
  <2>2. Shrinking => Shrinking'
    BY <1>1, <1>7, <1>9 DEF Shrinking, Shrinks
  <2> QED BY <1>2, <1>6, <2>1, <2>2 DEF IInv
<1> QED BY <1>1, <1>8, <1>9

LEMMA SessionKeepsInvariant ==
  ASSUME IInv, runTrainingSession
  PROVE  IInv'
<1>1. TypeOK'
  BY SessionIsWindow, ConstantsOK DEF IInv, TypeOK, runTrainingSession
<1> QED BY <1>1, SessionChains, SessionDrifts DEF IInv

LEMMA StuttersKeep ==
  ASSUME IInv, UNCHANGED vars
  PROVE  IInv'
<1>1. UNCHANGED <<mean, start, window, pair, skippedFold, chosen>>
  BY DEF vars
<1>2. TypeOK'
  BY <1>1 DEF IInv, TypeOK
<1>3. Chained'
  BY <1>1 DEF IInv, Chained, Session, Before, Done
<1>4. Later' = Later
  BY <1>1 DEF Later, Done
<1>5. (Growing \/ Shrinking)'
  BY <1>1, <1>4 DEF IInv, Growing, Shrinking, Grows, Shrinks
<1> QED BY <1>2, <1>3, <1>5 DEF IInv

LEMMA Invariant == Spec => []IInv
<1>1. IInv /\ [Next]_vars => IInv'
  BY SessionKeepsInvariant, NextPairKeeps, StuttersKeep DEF Next
<1> QED BY Starts, <1>1, PTL DEF Spec

(* No session is given a window without width or height. *)
THEOREM WindowsTyped == Spec => []TypeOK
<1>1. IInv => TypeOK
  BY DEF IInv
<1> QED BY Invariant, <1>1, PTL

(* What the comment at Helper.h:16-18 promises of a window holds of that of every
   session, up to the rounding of its sides, however often the size has been fed
   back before: pickBestHogWindowSize never strays from the target it is given,
   only the target itself does. *)
THEOREM EveryWindowFits == Spec => []WindowsFit
<1>1. IInv => WindowsFit
  <2> SUFFICES ASSUME IInv, NEW p \in 1..Pairs, NEW f \in 1..Folded, Done(p, f),
                      ~Thin(mean[f], Area(Before(p, f)))
               PROVE  Fits(chosen[<<p, f>>], mean[f], Area(Before(p, f)))
    BY DEF WindowsFit, Fits
  <2>1. mean[f] \in Window /\ Area(Before(p, f)) \in Nat
    BY BeforeIs DEF IInv, TypeOK
  <2>2. chosen[<<p, f>>] = pickBestHogWindowSize(mean[f], Area(Before(p, f)))
    BY DEF IInv, Chained, Session
  <2> QED BY <2>1, <2>2, BestFits
<1> QED BY Invariant, <1>1, PTL

(* The members that runTrainingSession passes as the target and as the result
   carry the rounding of one session into the next, yet the windows of the folds
   never swing: over the whole grid they all grow, or all shrink. *)
THEOREM SizesDriftOneWay == Spec => []DriftsOneWay
<1>1. IInv => DriftsOneWay
  BY DEF IInv, DriftsOneWay, Growing, Shrinking
<1> QED BY Invariant, <1>1, PTL
=============================================================================
